----------------------------- MODULE MCCrawlLoop -----------------------------
(***************************************************************************)
(* A site for TLC: a long and a short way to the same page, a cycle, a     *)
(* link with a fragment, pages whose fetch may fail, and a hub with one    *)
(* link more than the frontier has room for.                               *)
(***************************************************************************)
EXTENDS CrawlLoop

CONSTANTS home, homeTop, long, short, goal, beyond, hub, left, right

MCUrl == {home, homeTop, long, short, goal, beyond, hub, left, right}
MCHash == [u \in MCUrl |-> {u}]
MCStripFragment == [u \in MCUrl |-> IF u = homeTop THEN home ELSE u]

MCSeeds == <<home, short, hub>>

\* "goal" is two links away from "home" by "long" and one from the seed "short".
MCLinks ==
  [u \in MCUrl |->
     CASE u = home -> <<long, homeTop>>
       [] u = long -> <<goal>>
       [] u = short -> <<goal, home>>
       [] u = goal -> <<beyond>>
       [] u = hub -> <<left, right>>
       [] OTHER -> <<>>]

Timeout == [kind |-> "Timeout", status |-> 0]
TooManyRedirects == [kind |-> "TooManyRedirects", status |-> 0]

MCOutcome ==
  [u \in MCUrl |-> CASE u \in {short, hub} -> {Page, Timeout}
                     [] u = long -> {Page, TooManyRedirects}
                     [] OTHER -> {Page}]

MCJob == [url : MCUrl, depth : 0..MaxDepth, priority : Priority, attempt : 0..MaxAttempts]
=============================================================================
