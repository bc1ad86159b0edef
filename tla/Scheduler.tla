------------------------------ MODULE Scheduler ------------------------------
(***************************************************************************)
(* What a caller of fc_core::traits::Scheduler sees, with no lock and no   *)
(* heap: pending jobs wait in `line`, in the order `pop` will serve them.  *)
(* A push has two effects, not one: first its URL is marked as seen, later *)
(* its job joins the line, is refused, or is abandoned with its call.      *)
(***************************************************************************)
EXTENDS Bloom, Integers, Sequences

CONSTANTS
  Task,        \* the callers
  MaxSize,     \* how many jobs may wait
  Job,         \* the jobs a caller may push
  Rank         \* the priorities that jobs may wait with

VARIABLES
  bits,        \* the seen-set
  line,        \* the jobs that wait, first served first
  stage,       \* "idle", "called" or "marked"
  op,          \* "push" or "pop"
  job,         \* the job a caller pushes, or the one its pop returned
  result       \* the answer to the last call, "none" while there is none

vars == <<bits, line, stage, op, job, result>>

Init ==
  /\ bits = {}
  /\ line = <<>>
  /\ stage = [t \in Task |-> "idle"]
  /\ op = [t \in Task |-> "pop"]
  /\ job \in [Task -> Job]
  /\ result = [t \in Task |-> "none"]

Goto(t, s) == stage' = [stage EXCEPT ![t] = s]

Return(t, value) ==
  /\ Goto(t, "idle")
  /\ result' = [result EXCEPT ![t] = value]

Call(t) ==
  /\ stage[t] = "idle"
  /\ Goto(t, "called")
  /\ result' = [result EXCEPT ![t] = "none"]
  /\ \/ op' = [op EXCEPT ![t] = "pop"] /\ UNCHANGED job
     \/ /\ op' = [op EXCEPT ![t] = "push"]
        /\ \E j \in Job : job' = [job EXCEPT ![t] = j]
  /\ UNCHANGED <<bits, line>>

Duplicate(t) ==
  /\ stage[t] = "called" /\ op[t] = "push"
  /\ Check(bits, job[t].url)
  /\ Return(t, "duplicate")
  /\ UNCHANGED <<bits, line, op, job>>

\* The URL is seen from now on, and the job has the priority it will wait with.
Mark(t) ==
  /\ stage[t] = "called" /\ op[t] = "push"
  /\ ~Check(bits, job[t].url)
  /\ bits' = Set(bits, job[t].url)
  /\ \E p \in Rank : job' = [job EXCEPT ![t].priority = p]
  /\ Goto(t, "marked")
  /\ UNCHANGED <<line, op, result>>

\* The job joins the line behind every job of at least its priority.
Place(t) ==
  /\ stage[t] = "marked"
  /\ Len(line) < MaxSize
  /\ \E ahead \in 0..Len(line) :
       /\ \A i \in 1..Len(line) : line[i].priority >= job[t].priority <=> i <= ahead
       /\ line' = SubSeq(line, 1, ahead) \o <<job[t]>> \o SubSeq(line, ahead + 1, Len(line))
  /\ Return(t, "accepted")
  /\ UNCHANGED <<bits, op, job>>

\* Err(CrawlError::Scheduler) at capacity.  The doc of the trait (traits.rs:143-145)
\* promises Err for infrastructure failures only; the only implementation refuses
\* (frontier.rs:219-234), and this contract admits what it does.
Refuse(t) ==
  /\ stage[t] = "marked"
  /\ Len(line) = MaxSize
  /\ Return(t, "full")
  /\ UNCHANGED <<bits, line, op, job>>

Take(t) ==
  /\ stage[t] = "called" /\ op[t] = "pop"
  /\ line # <<>>
  /\ line' = Tail(line)
  /\ job' = [job EXCEPT ![t] = Head(line)]
  /\ Return(t, "job")
  /\ UNCHANGED <<bits, op>>

TakeNone(t) ==
  /\ stage[t] = "called" /\ op[t] = "pop"
  /\ line = <<>>
  /\ Return(t, "empty")
  /\ UNCHANGED <<bits, line, op, job>>

\* The caller gives up: a marked URL stays marked.
Abandon(t) ==
  /\ stage[t] = "called" => op[t] = "pop"
  /\ stage[t] # "idle"
  /\ Return(t, "cancelled")
  /\ UNCHANGED <<bits, line, op, job>>

Effect(t) ==
  Duplicate(t) \/ Mark(t) \/ Place(t) \/ Refuse(t) \/ Take(t) \/ TakeNone(t)

Next == \E t \in Task : Call(t) \/ Effect(t) \/ Abandon(t)

Spec == Init /\ [][Next]_vars

FairSpec == Spec /\ \A t \in Task : WF_vars(Effect(t))
=============================================================================
