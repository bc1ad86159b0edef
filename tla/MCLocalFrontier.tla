--------------------------- MODULE MCLocalFrontier ---------------------------
(***************************************************************************)
(* Instances of LocalFrontier for TLC.  A URL is a page with a query and a *)
(* fragment.  The bits of the dedup filter are named after the URLs.       *)
(***************************************************************************)
EXTENDS LocalFrontier

MCUrl == [page : {"home", "list"}, query : {"ab", "ba"}, fragment : {"", "top"}]

MCStripFragment == [u \in MCUrl |-> [u EXCEPT !.fragment = ""]]

Home == [page |-> "home", query |-> "ab", fragment |-> ""]
HomeTop == [Home EXCEPT !.fragment = "top"]
HomeSwapped == [Home EXCEPT !.query = "ba"]
List == [Home EXCEPT !.page = "list"]

MCBit == MCUrl

\* False positives: "home" with both orders of its query makes "list" look seen,
\* and "list" makes "home" look seen; "home", "list" and the swapped query fit.
CollidingHash ==
  [u \in MCUrl |-> CASE u = List -> {Home, HomeSwapped}
                     [] u = HomeSwapped -> {HomeSwapped, HomeTop}
                     [] OTHER -> {u}]

\* A seed, the same page with a fragment and found deeper, and two pages whose
\* depths differ but are cut to the same u8.
MCJob == { [url |-> Home, depth |-> 0, priority |-> 1, attempt |-> 0],
           [url |-> HomeTop, depth |-> 1, priority |-> 2, attempt |-> 0],
           [url |-> HomeSwapped, depth |-> 255, priority |-> 2, attempt |-> 0],
           [url |-> List, depth |-> 300, priority |-> 2, attempt |-> 0] }
=============================================================================
