------------------------- MODULE MCDomainRateLimiter -------------------------
(***************************************************************************)
(* Instances of DomainRateLimiter for TLC: a domain at the default rate    *)
(* and a domain with an override.                                          *)
(***************************************************************************)
EXTENDS DomainRateLimiter, TLC

CONSTANTS fast, slow

NoOverride == [d \in {} |-> 1]
SlowOverride == slow :> 1

Symmetry == Permutations(Limiter) \cup Permutations(Task)
=============================================================================
