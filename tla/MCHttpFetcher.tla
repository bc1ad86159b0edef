---------------------------- MODULE MCHttpFetcher ----------------------------
(***************************************************************************)
(* Instances of HttpFetcher for TLC: one domain, whose scans begin in the  *)
(* middle of the pool.                                                     *)
(***************************************************************************)
EXTENDS HttpFetcher, TLC

Used == {"find_available_from", "record_success", "record_failure"}

MCDomain == {"site"}
MCHome == [d \in MCDomain |-> 1]

\* 503 from the domain's own proxy, missing pages and errors over the one after it,
\* and nothing worse than missing pages over the last one.
BrokenMixedAndHealthy ==
  (1 :> {503}) @@ (2 :> {404, 500}) @@ (0 :> {404}) @@ (None :> {200})

\* Nothing ever comes back over proxy 1.
GoodAndDead == (0 :> {200}) @@ (1 :> {}) @@ (None :> {200})
=============================================================================
