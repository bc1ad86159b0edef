---------------------------- MODULE LocalFrontier ----------------------------
(***************************************************************************)
(* LocalFrontier (crates/fc-scheduler/src/frontier.rs): a priority queue   *)
(* of crawl jobs behind a tokio Mutex, fed through a deduplication filter  *)
(* that is consulted before the lock is taken.  Each action is what a task *)
(* does between two points where another task may run.  The filter is used *)
(* through the contract that BloomDedupFilter is shown to implement: one   *)
(* atomic check_and_insert.                                                *)
(***************************************************************************)
EXTENDS Bloom, Integers, Sequences, FiniteSets

CONSTANTS
  Task,           \* the tokio tasks that share the frontier
  NoTask,         \* the Mutex is free
  StripFragment,  \* Url::set_fragment(None), as a function of the URL
  Job,            \* the jobs that callers push
  Mode,           \* priority_mode: "breadth", "depth" or "score"
  MaxSize         \* max_size

Priority == 0..255

JobType == [url : Url, depth : Nat, priority : Priority, attempt : Nat]

ASSUME TaskAssumption == IsFiniteSet(Task) /\ NoTask \notin Task
ASSUME StripAssumption ==
  /\ StripFragment \in [Url -> Url]
  /\ \A u \in Url : StripFragment[StripFragment[u]] = StripFragment[u]
ASSUME JobAssumption == Job # {} /\ Job \subseteq JobType
ASSUME ConfigAssumption ==
  Mode \in {"breadth", "depth", "score"} /\ MaxSize \in Nat

VARIABLES
  bits,           \* dedup: the URLs the filter remembers
  heap,           \* state.heap: the PriorityEntries that wait
  seq,            \* state.seq
  holder,         \* the task that holds the Mutex, or NoTask
  queue,          \* the tasks suspended on the Mutex, served first come first
  totalPushed,    \* total_pushed: AtomicU64
  pc,             \* where each task is in its call
  op,             \* "push" or "pop"
  job,            \* the job a push carries, or the job the last pop returned
  result,         \* what the last call returned
  marked,         \* history: the URLs the filter let through
  taken,          \* history: the entries that pop has returned
  told            \* history: the URLs of pushes that came to nothing, with the answer

vars == <<bits, heap, seq, holder, queue, totalPushed, pc, op, job, result,
          marked, taken, told>>

PC == {"idle", "dedup", "locking", "suspended", "locked", "counting"}

\* The places of a call that is past the filter and not yet in the heap.
Unplaced == {"locking", "suspended", "locked"}

Result == {"none", "accepted", "duplicate", "full", "job", "empty", "cancelled"}
Entry == [job : JobType, seq : Nat]

TypeOK ==
  /\ bits \in SUBSET Bit
  /\ heap \in SUBSET Entry /\ IsFiniteSet(heap)
  /\ seq \in Nat
  /\ holder \in Task \cup {NoTask}
  /\ queue \in Seq(Task)
  /\ totalPushed \in Nat
  /\ pc \in [Task -> PC]
  /\ op \in [Task -> {"push", "pop"}]
  /\ job \in [Task -> JobType]
  /\ result \in [Task -> Result]
  /\ marked \in SUBSET Url
  /\ taken \in SUBSET Entry /\ IsFiniteSet(taken)
  /\ told \in SUBSET (Url \X Result)

Init ==
  /\ bits = {}
  /\ heap = {}
  /\ seq = 0
  /\ holder = NoTask
  /\ queue = <<>>
  /\ totalPushed = 0
  /\ pc = [t \in Task |-> "idle"]
  /\ op = [t \in Task |-> "pop"]
  /\ job = [t \in Task |-> CHOOSE j \in Job : TRUE]
  /\ result = [t \in Task |-> "none"]
  /\ marked = {}
  /\ taken = {}
  /\ told = {}

-----------------------------------------------------------------------------
Goto(t, where) == pc' = [pc EXCEPT ![t] = where]

\* The call returns; a push that came to nothing is remembered in `told`.
Return(t, value) ==
  /\ Goto(t, "idle")
  /\ result' = [result EXCEPT ![t] = value]
  /\ told' = IF op[t] = "push" /\ value \in {"full", "cancelled"}
             THEN told \cup {<<job[t].url, value>>}
             ELSE told

\* The guard is dropped: the Mutex goes to the task that has waited longest.
Unlock ==
  /\ holder' = IF queue = <<>> THEN NoTask ELSE Head(queue)
  /\ queue' = IF queue = <<>> THEN <<>> ELSE Tail(queue)

\* Mutant: the later arrival wins a tie.
BeforeLifo(e, f) ==
  \/ e.job.priority > f.job.priority
  \/ e.job.priority = f.job.priority /\ e.seq > f.seq

\* Mutant: BinaryHeap used as a min-heap.
BeforeMinHeap(e, f) ==
  \/ e.job.priority < f.job.priority
  \/ e.job.priority = f.job.priority /\ e.seq < f.seq

\* Ord for PriorityEntry: e is popped before f.
Before(e, f) ==
  \/ e.job.priority > f.job.priority
  \/ e.job.priority = f.job.priority /\ e.seq < f.seq

\* Mutant: `as u8` without the min(255).
EffectivePriorityWrapped(j) ==
  CASE Mode = "breadth" -> 255 - (j.depth % 256)
    [] Mode = "depth"   -> j.depth % 256
    [] Mode = "score"   -> j.priority

\* effective_priority: the depth is cut to a u8 before it is used.
EffectivePriority(j) ==
  LET depth == IF j.depth < 255 THEN j.depth ELSE 255
  IN  CASE Mode = "breadth" -> 255 - depth
        [] Mode = "depth"   -> depth
        [] Mode = "score"   -> j.priority

Begin(t, operation) ==
  /\ pc[t] = "idle"
  /\ op' = [op EXCEPT ![t] = operation]
  /\ result' = [result EXCEPT ![t] = "none"]

\* Mutant: the fragment stays.
CallPushRaw(t, j) ==
  /\ Begin(t, "push")
  /\ job' = [job EXCEPT ![t] = j]
  /\ Goto(t, "dedup")
  /\ UNCHANGED <<bits, heap, seq, holder, queue, totalPushed, marked, taken, told>>

\* push(job): the fragment is stripped first.
CallPush(t, j) ==
  /\ Begin(t, "push")
  /\ job' = [job EXCEPT ![t] = [j EXCEPT !.url = StripFragment[j.url]]]
  /\ Goto(t, "dedup")
  /\ UNCHANGED <<bits, heap, seq, holder, queue, totalPushed, marked, taken, told>>

\* pop() goes straight to the lock.
CallPop(t) ==
  /\ Begin(t, "pop")
  /\ Goto(t, "locking")
  /\ UNCHANGED <<bits, heap, seq, holder, queue, totalPushed, job, marked, taken,
                 told>>

\* The URL looks seen: Ok(false), without touching the lock.
PushDuplicate(t) ==
  /\ pc[t] = "dedup"
  /\ Check(bits, job[t].url)
  /\ Return(t, "duplicate")
  /\ UNCHANGED <<bits, heap, seq, holder, queue, totalPushed, op, job, marked, taken>>

\* The URL is new: it is marked, and the job gets its priority.
PushMark(t) ==
  /\ pc[t] = "dedup"
  /\ ~Check(bits, job[t].url)
  /\ bits' = Set(bits, job[t].url)
  /\ marked' = marked \cup {job[t].url}
  /\ job' = [job EXCEPT ![t].priority = EffectivePriority(job[t])]
  /\ Goto(t, "locking")
  /\ UNCHANGED <<heap, seq, holder, queue, totalPushed, op, result, taken, told>>

\* The first poll of state.lock(): the Mutex is taken if it is free, otherwise
\* the task is suspended behind those that asked before.
RequestLock(t) ==
  /\ pc[t] = "locking"
  /\ \/ holder = NoTask /\ holder' = t /\ Goto(t, "locked") /\ UNCHANGED queue
     \/ /\ holder # NoTask
        /\ queue' = Append(queue, t)
        /\ Goto(t, "suspended")
        /\ UNCHANGED holder
  /\ UNCHANGED <<bits, heap, seq, totalPushed, op, job, result, marked, taken,
                 told>>

\* t holds the Mutex: it found it free, or was handed it and is polled again.
Locked(t, operation) ==
  /\ pc[t] \in {"suspended", "locked"}
  /\ holder = t
  /\ op[t] = operation

\* Mutant: a job that finds the heap full is discarded like a duplicate.
PushFullQuiet(t) ==
  /\ Locked(t, "push")
  /\ Cardinality(heap) >= MaxSize
  /\ Return(t, "duplicate")
  /\ Unlock
  /\ UNCHANGED <<bits, heap, seq, totalPushed, op, job, marked, taken>>

\* Mutant: the counter is bumped before the capacity is checked.
PushFullCounted(t) ==
  /\ Locked(t, "push")
  /\ Cardinality(heap) >= MaxSize
  /\ totalPushed' = totalPushed + 1
  /\ Return(t, "full")
  /\ Unlock
  /\ UNCHANGED <<bits, heap, seq, op, job, marked, taken>>

\* At capacity: Err(CrawlError::Scheduler).  The URL stays marked.
PushFull(t) ==
  /\ Locked(t, "push")
  /\ Cardinality(heap) >= MaxSize
  /\ Return(t, "full")
  /\ Unlock
  /\ UNCHANGED <<bits, heap, seq, totalPushed, op, job, marked, taken>>

\* Mutant: `>` instead of `>=` in the capacity check.
EnqueueOneMore(t) ==
  /\ Locked(t, "push")
  /\ Cardinality(heap) <= MaxSize
  /\ seq' = seq + 1
  /\ heap' = heap \cup {[job |-> job[t], seq |-> seq + 1]}
  /\ Goto(t, "counting")
  /\ UNCHANGED <<bits, holder, queue, totalPushed, op, job, result, marked, taken, told>>

\* state.push(job): the next sequence number, and into the heap.
Enqueue(t) ==
  /\ Locked(t, "push")
  /\ Cardinality(heap) < MaxSize
  /\ seq' = seq + 1
  /\ heap' = heap \cup {[job |-> job[t], seq |-> seq + 1]}
  /\ Goto(t, "counting")
  /\ UNCHANGED <<bits, holder, queue, totalPushed, op, job, result, marked, taken, told>>

\* total_pushed.fetch_add(1), Ok(true), and the guard is dropped.
CountPushed(t) ==
  /\ pc[t] = "counting"
  /\ totalPushed' = totalPushed + 1
  /\ Return(t, "accepted")
  /\ Unlock
  /\ UNCHANGED <<bits, heap, seq, op, job, marked, taken>>

\* state.pop() of a heap that holds something: the greatest entry.
PopJob(t) ==
  /\ Locked(t, "pop")
  /\ \E e \in heap :
       /\ \A f \in heap \ {e} : Before(e, f)
       /\ heap' = heap \ {e}
       /\ taken' = taken \cup {e}
       /\ job' = [job EXCEPT ![t] = e.job]
  /\ Return(t, "job")
  /\ Unlock
  /\ UNCHANGED <<bits, seq, totalPushed, op, marked>>

\* Mutant: pop waits for a job while it holds the guard.
PopEmptyWaiting(t) ==
  /\ Locked(t, "pop")
  /\ heap = {}
  /\ UNCHANGED vars

\* state.pop() of an empty heap.
PopEmpty(t) ==
  /\ Locked(t, "pop")
  /\ heap = {}
  /\ Return(t, "empty")
  /\ Unlock
  /\ UNCHANGED <<bits, heap, seq, totalPushed, op, job, marked, taken>>

\* The future is dropped while it is suspended on the Mutex, its only await: it
\* leaves the queue, or passes on the Mutex it had just been handed.
Cancel(t) ==
  /\ pc[t] = "suspended"
  /\ Return(t, "cancelled")
  /\ \/ holder = t /\ Unlock
     \/ \E i \in DOMAIN queue :
          /\ queue[i] = t
          /\ queue' = SubSeq(queue, 1, i - 1) \o SubSeq(queue, i + 1, Len(queue))
          /\ UNCHANGED holder
  /\ UNCHANGED <<bits, heap, seq, totalPushed, op, job, marked, taken>>

Step(t) ==
  \/ PushDuplicate(t)
  \/ PushMark(t)
  \/ RequestLock(t)
  \/ PushFull(t)
  \/ Enqueue(t)
  \/ CountPushed(t)
  \/ PopJob(t)
  \/ PopEmpty(t)

Next ==
  \E t \in Task :
    \/ \E j \in Job : CallPush(t, j)
    \/ CallPop(t)
    \/ Step(t)
    \/ Cancel(t)

Spec == Init /\ [][Next]_vars

\* The runtime keeps polling a task that can make progress until its call
\* returns.  Nothing obliges a caller to call, or to cancel.
FairSpec == Spec /\ \A t \in Task : WF_vars(Step(t))

-----------------------------------------------------------------------------
\* The entries that were ever in the heap.
Entered == heap \cup taken

\* t carries a push that has passed the filter and has not reached the heap.
Carries(t) == op[t] = "push" /\ pc[t] \in Unplaced

\* However pushes and pops interleave, no page is queued twice, so none is
\* fetched twice: URLs that differ in their fragment only are one page, and the
\* filter is consulted before the lock is held (frontier.rs:202-236).
QueuedAtMostOnce ==
  \A e, f \in Entered :
    StripFragment[e.job.url] = StripFragment[f.job.url] => e = f

\* The capacity check and the insertion are one critical section: the heap
\* never holds more than max_size jobs.
WithinCapacity == Cardinality(heap) <= MaxSize

\* An entry is popped ahead of one that was queued before it only when the mode
\* ranks its job strictly higher: FIFO within a priority, and no overtaking by
\* jobs whose depth is cut to the same u8.
NoOvertaking ==
  \A e \in taken, f \in heap :
    f.seq < e.seq => CASE Mode = "breadth" -> e.job.depth < f.job.depth
                       [] Mode = "depth"   -> e.job.depth > f.job.depth
                       [] Mode = "score"   -> e.job.priority > f.job.priority

\* Every URL the filter let through is in flight, queued or popped, or its
\* caller was told that it was not queued: "full", or a push that the caller
\* itself cancelled.  No URL disappears behind an Ok.
NoSilentLoss ==
  \A u \in marked :
    \/ \E t \in Task : Carries(t) /\ job[t].url = u
    \/ \E e \in Entered : e.job.url = u
    \/ <<u, "full">> \in told
    \/ <<u, "cancelled">> \in told

\* The task that has reached the heap and not yet the counter, if there is one.
Uncounted == {t \in Task : pc[t] = "counting"}

\* total_pushed counts the jobs that ever entered the heap, short of the one
\* whose push still holds the lock.
TotalPushedCountsEntries == totalPushed + Cardinality(Uncounted) = Cardinality(Entered)

\* The critical section belongs to the holder of the Mutex.
LockInv == \A t \in Task : pc[t] \in {"locked", "counting"} => holder = t

\* Each entry, and each push past the filter, stands for a URL of its own that
\* the filter let through and will not let through again.
MarkInv ==
  /\ \A u \in marked : Check(bits, u)
  /\ \A e \in Entered : e.job.url \in marked
  /\ \A t \in Task : Carries(t) => job[t].url \in marked
  /\ \A t \in Task, e \in Entered : Carries(t) => e.job.url # job[t].url
  /\ \A s, t \in Task : Carries(s) /\ Carries(t) /\ job[s].url = job[t].url => s = t
  /\ \A t \in Task : pc[t] = "dedup" => op[t] = "push"

\* The fragment is gone before anybody compares URLs.
Stripped(j) == StripFragment[j.url] = j.url

StripInv ==
  /\ \A t \in Task : pc[t] = "dedup" \/ Carries(t) => Stripped(job[t])
  /\ \A e \in Entered : Stripped(e.job)

\* Sequence numbers tell the entries apart, and an entry waits with the priority
\* that the mode gives its job.
OrderInv ==
  /\ \A e \in Entered : e.seq <= seq /\ e.job.priority = EffectivePriority(e.job)
  /\ \A e, f \in Entered : e.seq = f.seq => e = f
  /\ heap \cap taken = {}
  /\ \A t \in Task : Carries(t) => job[t].priority = EffectivePriority(job[t])

\* The inductive invariant.
IInv ==
  /\ TypeOK
  /\ LockInv
  /\ MarkInv
  /\ StripInv
  /\ OrderInv
  /\ QueuedAtMostOnce
  /\ WithinCapacity
  /\ NoOvertaking
  /\ NoSilentLoss
  /\ TotalPushedCountsEntries

-----------------------------------------------------------------------------
\* The entries that are popped ahead of e, and the place this gives e.
Ahead(entries, e) == {f \in entries : Before(f, e)}
Position(entries, e) == Cardinality(Ahead(entries, e)) + 1

\* The jobs of the heap in the order of Before.
InOrder(entries) ==
  [i \in 1..Cardinality(entries) |-> (CHOOSE e \in entries : Position(entries, e) = i).job]

Line == InOrder(heap)

Stage(t) ==
  CASE pc[t] \in {"idle", "counting"} -> "idle"
    [] pc[t] = "dedup" -> "called"
    [] pc[t] \in Unplaced -> IF op[t] = "push" THEN "marked" ELSE "called"

\* A push takes effect when it enters the heap, before it is counted.
Contract == INSTANCE Scheduler WITH
  line <- Line,
  stage <- [t \in Task |-> Stage(t)],
  result <- [t \in Task |-> IF pc[t] = "counting" THEN "accepted" ELSE result[t]],
  Job <- Job \cup {[j EXCEPT !.url = StripFragment[j.url]] : j \in Job},
  Rank <- {EffectivePriority(j) : j \in Job}

\* Heap, sequence numbers and Mutex together are a line that pop serves from
\* the front (frontier.rs:77, traits.rs:134).  That each call takes effect in the
\* end is EveryCallReturns.
ImplementsScheduler == Contract!Spec

\* Every push and every pop returns, whatever the other tasks do: the Mutex is
\* fair, so being ready to run is enough.
EveryCallReturns == \A t \in Task : pc[t] # "idle" ~> pc[t] = "idle"
=============================================================================
