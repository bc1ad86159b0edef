----------------------------- MODULE DedupFilter -----------------------------
(***************************************************************************)
(* What fc_core::traits::DedupFilter promises: each `check_and_insert` and *)
(* each `contains` takes effect atomically, at one moment between its call *)
(* and its return.  Nothing is said of locks.  The frontier relies on this *)
(* contract; BloomDedupFilter is shown to implement it.                    *)
(***************************************************************************)
EXTENDS Bloom

CONSTANT Thread      \* the callers

VARIABLES
  bits,              \* what the filter remembers
  pending,           \* the callers whose call has not taken effect yet
  request,           \* the last call of each caller: its url and operation
  verdict            \* "none", "new" or "seen": the effect of that call

vars == <<bits, pending, request, verdict>>

Operation == {"check_and_insert", "contains"}
Request == [url : Url, op : Operation]

Init ==
  /\ bits = {}
  /\ pending = {}
  /\ request \in [Thread -> Request]
  /\ verdict = [t \in Thread |-> "none"]

Call(t, r) ==
  /\ t \notin pending
  /\ pending' = pending \cup {t}
  /\ request' = [request EXCEPT ![t] = r]
  /\ verdict' = [verdict EXCEPT ![t] = "none"]
  /\ UNCHANGED bits

\* The call of t takes effect: it answers from the bits as they are now and,
\* if it inserts, sets the bits of its URL in the same step.
Effect(t) ==
  LET u == request[t].url
  IN  /\ t \in pending
      /\ pending' = pending \ {t}
      /\ verdict' = [verdict EXCEPT ![t] =
                       IF Check(bits, u) THEN "seen" ELSE "new"]
      /\ bits' = IF request[t].op = "check_and_insert"
                 THEN Set(bits, u)
                 ELSE bits
      /\ UNCHANGED request

Next == \E t \in Thread : Effect(t) \/ \E r \in Request : Call(t, r)

Spec == Init /\ [][Next]_vars

FairSpec == Spec /\ \A t \in Thread : WF_vars(Effect(t))
=============================================================================
