----------------------------- MODULE MCProxyPool -----------------------------
(***************************************************************************)
(* Instances of ProxyPool for TLC, which differ in the calls threads make. *)
(***************************************************************************)
EXTENDS ProxyPool, TLC

Recording == {"record_success", "record_failure"}
Sticky == Recording \cup {"find_available_from", "available"}
RoundRobin == Recording \cup {"next_round_robin"}
Everything == Sticky \cup RoundRobin \cup {"next_random"}

Symmetry == Permutations(Thread)
=============================================================================
