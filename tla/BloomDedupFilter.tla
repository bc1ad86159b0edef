-------------------------- MODULE BloomDedupFilter --------------------------
(***************************************************************************)
(* BloomDedupFilter (crates/fc-scheduler/src/bloom.rs): a Bloom filter     *)
(* behind a std::sync::RwLock, used with double-checked locking, and an    *)
(* insertion count kept in an AtomicU64.  One action per step that another *)
(* thread can observe: taking a lock, the work done under it, dropping it. *)
(***************************************************************************)
EXTENDS Bloom, Integers, FiniteSets

CONSTANTS
  Thread,      \* the threads that share the filter
  None,        \* "no thread": the write lock is free
  MaxCalls     \* bound: how many calls each thread makes

ASSUME ThreadAssumption == IsFiniteSet(Thread) /\ None \notin Thread
ASSUME UrlAssumption == IsFiniteSet(Url) /\ Url # {}
ASSUME CallsAssumption == MaxCalls \in Nat

VARIABLES
  bits,        \* inner: the Bloom filter
  count,       \* count: AtomicU64
  readers,     \* the threads that hold a read guard
  writer,      \* the thread that holds the write guard, or None
  pc,          \* where each thread is in its call
  request,     \* the call each thread makes (or made last): url and operation
  answer,      \* what that call returned
  calls,       \* how many calls each thread has begun (bounded by MaxCalls)
  wins,        \* history: the insertions each URL was granted
  known        \* history: had the URL been inserted when the call began?

vars == <<bits, count, readers, writer, pc, request, answer, calls, wins, known>>

Operation == {"check_and_insert", "contains"}
Request == [url : Url, op : Operation]
PC == {"idle", "read_wait", "reading", "write_wait", "writing", "inserting",
       "counting"}

TypeOK ==
  /\ bits \in SUBSET Bit
  /\ count \in Nat
  /\ readers \in SUBSET Thread
  /\ writer \in Thread \cup {None}
  /\ pc \in [Thread -> PC]
  /\ request \in [Thread -> Request]
  /\ answer \in [Thread -> {"none", "new", "seen"}]
  /\ calls \in [Thread -> Nat]
  /\ wins \in [Url -> Nat]
  /\ known \in [Thread -> BOOLEAN]

Init ==
  /\ bits = {}
  /\ count = 0
  /\ readers = {}
  /\ writer = None
  /\ pc = [t \in Thread |-> "idle"]
  /\ request = [t \in Thread |-> CHOOSE r \in Request : TRUE]
  /\ answer = [t \in Thread |-> "none"]
  /\ calls = [t \in Thread |-> 0]
  /\ wins = [u \in Url |-> 0]
  /\ known = [t \in Thread |-> FALSE]

-----------------------------------------------------------------------------
\* Does the URL of t's call look present to the filter?
Present(t) == Check(bits, request[t].url)

Goto(t, where) == pc' = [pc EXCEPT ![t] = where]

Return(t, value) ==
  /\ Goto(t, "idle")
  /\ answer' = [answer EXCEPT ![t] = value]

\* A thread calls check_and_insert(url) or contains(url).
Call(t, r) ==
  /\ pc[t] = "idle"
  /\ calls[t] < MaxCalls
  /\ Goto(t, "read_wait")
  /\ request' = [request EXCEPT ![t] = r]
  /\ answer' = [answer EXCEPT ![t] = "none"]
  /\ calls' = [calls EXCEPT ![t] = @ + 1]
  /\ known' = [known EXCEPT ![t] = wins[r.url] > 0]
  /\ UNCHANGED <<bits, count, readers, writer, wins>>

\* self.inner.read(): shared with other readers, never with a writer.
AcquireRead(t) ==
  /\ pc[t] = "read_wait"
  /\ writer = None
  /\ readers' = readers \cup {t}
  /\ Goto(t, "reading")
  /\ UNCHANGED <<bits, count, writer, request, answer, calls, wins, known>>

\* Mutant: the write guard is wanted while the read guard is still held.
CheckSharedGuardKept(t) ==
  /\ pc[t] = "reading"
  /\ \/ /\ Present(t) \/ request[t].op = "contains"
        /\ Return(t, IF Present(t) THEN "seen" ELSE "new")
        /\ readers' = readers \ {t}
     \/ /\ ~Present(t) /\ request[t].op = "check_and_insert"
        /\ Goto(t, "write_wait")
        /\ UNCHANGED <<readers, answer>>
  /\ UNCHANGED <<bits, count, writer, request, calls, wins, known>>

\* The check under the read guard, which is then dropped: `contains` returns
\* what it saw; check_and_insert returns only if the URL looks present.
CheckShared(t) ==
  /\ pc[t] = "reading"
  /\ readers' = readers \ {t}
  /\ \/ Present(t) /\ Return(t, "seen")
     \/ /\ ~Present(t) /\ request[t].op = "contains"
        /\ Return(t, "new")
     \/ /\ ~Present(t) /\ request[t].op = "check_and_insert"
        /\ Goto(t, "write_wait")
        /\ UNCHANGED answer
  /\ UNCHANGED <<bits, count, writer, request, calls, wins, known>>

\* self.inner.write(): alone.
AcquireWrite(t) ==
  /\ pc[t] = "write_wait"
  /\ writer = None
  /\ readers = {}
  /\ writer' = t
  /\ Goto(t, "writing")
  /\ UNCHANGED <<bits, count, readers, request, answer, calls, wins, known>>

\* Mutant: the second check is missing.
CheckExclusiveTrusting(t) ==
  /\ pc[t] = "writing"
  /\ Goto(t, "inserting")
  /\ UNCHANGED <<bits, count, readers, writer, request, answer, calls, wins, known>>

\* The second check: another thread may have inserted since the first one.
CheckExclusive(t) ==
  /\ pc[t] = "writing"
  /\ \/ Present(t) /\ Return(t, "seen") /\ writer' = None
     \/ ~Present(t) /\ Goto(t, "inserting") /\ UNCHANGED <<answer, writer>>
  /\ UNCHANGED <<bits, count, readers, request, calls, wins, known>>

\* Mutant: a new URL is counted and answered, and not set.
InsertForgotten(t) ==
  /\ pc[t] = "inserting"
  /\ wins' = [wins EXCEPT ![request[t].url] = @ + 1]
  /\ Goto(t, "counting")
  /\ UNCHANGED <<bits, count, readers, writer, request, answer, calls, known>>

\* guard.set(&owned)
Insert(t) ==
  /\ pc[t] = "inserting"
  /\ bits' = Set(bits, request[t].url)
  /\ wins' = [wins EXCEPT ![request[t].url] = @ + 1]
  /\ Goto(t, "counting")
  /\ UNCHANGED <<count, readers, writer, request, answer, calls, known>>

\* count.fetch_add(1), and the write guard is dropped on return.
Count(t) ==
  /\ pc[t] = "counting"
  /\ count' = count + 1
  /\ writer' = None
  /\ Return(t, "new")
  /\ UNCHANGED <<bits, readers, request, calls, wins, known>>

Step(t) ==
  \/ AcquireRead(t)
  \/ CheckShared(t)
  \/ AcquireWrite(t)
  \/ CheckExclusive(t)
  \/ Insert(t)
  \/ Count(t)

\* Every thread has made its calls and they have returned.
Finished ==
  /\ \A t \in Thread : pc[t] = "idle" /\ calls[t] = MaxCalls
  /\ UNCHANGED vars

Next ==
  \/ \E t \in Thread : Step(t) \/ \E r \in Request : Call(t, r)
  \/ Finished

Spec == Init /\ [][Next]_vars

\* A thread inside a call is scheduled by the operating system until the call
\* returns.  Nothing obliges a thread to make a call.
FairSpec == Spec /\ \A t \in Thread : WF_vars(Step(t))

-----------------------------------------------------------------------------
\* The URLs that check_and_insert reported as new at least once.
Accepted == {u \in Url : wins[u] > 0}

\* The thread that has inserted but not yet counted, if there is one.
Uncounted == {t \in Thread : pc[t] = "counting"}

\* However the calls interleave, the filter reports a URL as new to one caller
\* only: the second check under the write guard closes the window between
\* dropping the read guard and taking the write guard.
ExactlyOneAcceptance == \A u \in Url : wins[u] <= 1

\* A call that began after its URL had been inserted never answers "not seen",
\* on the fast path or on the slow one (no false negatives).
NoFalseNegative == \A t \in Thread : known[t] => answer[t] # "new"

\* len() is the number of accepted URLs, short of the insertion whose thread
\* still holds the write guard: no insertion is counted twice or forgotten.
CountMatchesAcceptances ==
  count + Cardinality(Uncounted) = Cardinality(Accepted)

\* The bits are those of the accepted URLs: what Present says of a URL follows from
\* the acceptances.
BitsInv == bits = UNION {Hash[u] : u \in Accepted}

\* The guards of the RwLock: one writer, or readers, as the program counters say.
LockInv ==
  /\ readers = {t \in Thread : pc[t] = "reading"}
  /\ \A t \in Thread : pc[t] \in {"writing", "inserting", "counting"} <=> writer = t
  /\ writer # None => readers = {}

\* What a thread may still rely on of what it read before: past the read guard
\* it inserts a URL that was new when its call began, and once it has checked
\* again under the write guard the URL is still new.
CallInv ==
  \A t \in Thread :
    /\ pc[t] = "inserting" => ~Present(t)
    /\ pc[t] \in {"write_wait", "writing", "inserting", "counting"} =>
         ~known[t] /\ request[t].op = "check_and_insert"
    /\ known[t] => request[t].url \in Accepted
    /\ pc[t] = "counting" => request[t].url \in Accepted
    /\ pc[t] # "idle" => answer[t] = "none"

\* The inductive invariant.
IInv ==
  /\ TypeOK
  /\ LockInv
  /\ BitsInv
  /\ ExactlyOneAcceptance
  /\ NoFalseNegative
  /\ CountMatchesAcceptances
  /\ CallInv

-----------------------------------------------------------------------------
\* A call takes effect at the check that finds the URL present, at the check of
\* `contains`, or at the insertion; a thread that has inserted and not yet
\* counted has its verdict already.
Contract == INSTANCE DedupFilter WITH
  pending <- {t \in Thread : pc[t] \notin {"idle", "counting"}},
  verdict <- [t \in Thread |-> IF t \in Uncounted THEN "new" ELSE answer[t]]

\* The double-checked locking implements the trait's contract: each call behaves
\* as one atomic step, and each call takes effect in the end.
ImplementsContract == Contract!FairSpec

\* Every check_and_insert and every contains returns: nobody waits for the lock
\* for ever when each thread makes finitely many calls.
EveryCallReturns == \A t \in Thread : pc[t] # "idle" ~> pc[t] = "idle"
=============================================================================
