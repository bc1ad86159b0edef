------------------------- MODULE LocalFrontierProofs -------------------------
(***************************************************************************)
(* Proofs about LocalFrontier for any finite set of tasks, any URLs and    *)
(* jobs, any hash functions, every priority mode and every capacity.       *)
(***************************************************************************)
EXTENDS LocalFrontier, FiniteSetTheorems, SequenceTheorems, TLAPS

\* A step of a task, or of its caller.
TaskStep(t) == (\E j \in Job : CallPush(t, j)) \/ CallPop(t) \/ Step(t) \/ Cancel(t)

-----------------------------------------------------------------------------
\* Jobs and priorities.
LEMMA EffectivePriorityType ==
  ASSUME NEW j \in JobType
  PROVE  EffectivePriority(j) \in Priority
BY ConfigAssumption DEF EffectivePriority, JobType, Priority

\* A higher effective priority means a better rank in the mode's own terms: the
\* cut of the depth to 255 can merge ranks, never swap them.
LEMMA PriorityRanks ==
  ASSUME NEW j \in JobType, NEW k \in JobType,
         EffectivePriority(j) > EffectivePriority(k)
  PROVE  CASE Mode = "breadth" -> j.depth < k.depth
           [] Mode = "depth"   -> j.depth > k.depth
           [] Mode = "score"   -> j.priority > k.priority
<1> USE DEF EffectivePriority, JobType, Priority
<1>1. CASE Mode = "breadth"
  BY <1>1
<1>2. CASE Mode = "depth"
  BY <1>2
<1>3. CASE Mode = "score"
  BY <1>3
<1> QED
  BY <1>1, <1>2, <1>3, ConfigAssumption

\* The effective priority of a job does not depend on its URL, and assigning it
\* twice changes nothing.
LEMMA PriorityAssigned ==
  ASSUME NEW j \in JobType
  PROVE  LET k == [j EXCEPT !.priority = EffectivePriority(j)]
         IN  k \in JobType /\ k.url = j.url /\ k.priority = EffectivePriority(k)
BY ConfigAssumption, EffectivePriorityType DEF EffectivePriority, JobType, Priority

-----------------------------------------------------------------------------
\* Every variable keeps its type.
LEMMA TypeInit == Init => TypeOK
<1> SUFFICES ASSUME Init PROVE TypeOK
  OBVIOUS
<1> DEFINE j0 == CHOOSE j \in Job : TRUE
<1>1. j0 \in JobType
  BY JobAssumption
<1>2. job = [t \in Task |-> j0]
  BY DEF Init
<1> HIDE DEF j0
<1>3. job \in [Task -> JobType]
  BY <1>1, <1>2
<1>4. IsFiniteSet(heap) /\ IsFiniteSet(taken)
  BY FS_EmptySet DEF Init
<1> QED
  BY <1>3, <1>4 DEF Init, TypeOK, PC, Result

LEMMA UnlockType ==
  ASSUME TypeOK, Unlock
  PROVE  holder' \in Task \cup {NoTask} /\ queue' \in Seq(Task)
BY DEF TypeOK, Unlock

LEMMA ReturnType ==
  ASSUME TypeOK, NEW t \in Task, NEW v \in Result, Return(t, v)
  PROVE  /\ pc' \in [Task -> PC]
         /\ result' \in [Task -> Result]
         /\ told' \in SUBSET (Url \X Result)
<1>1. job[t].url \in Url
  BY DEF TypeOK, JobType
<1> QED
  BY <1>1 DEF TypeOK, Return, Goto, PC

LEMMA TypeStep ==
  ASSUME TypeOK, NEW t \in Task, TaskStep(t)
  PROVE  TypeOK'
<1>0. job[t] \in JobType /\ job[t].url \in Url
  BY DEF TypeOK, JobType
<1>1. ASSUME NEW j \in Job, CallPush(t, j) PROVE TypeOK'
  <2>1. [j EXCEPT !.url = StripFragment[j.url]] \in JobType
    BY JobAssumption, StripAssumption DEF JobType
  <2> QED
    BY <1>1, <2>1 DEF CallPush, Begin, Goto, TypeOK, PC, Result
<1>2. CASE CallPop(t)
  BY <1>2 DEF CallPop, Begin, Goto, TypeOK, PC, Result
<1>3. CASE PushDuplicate(t)
  BY <1>3, ReturnType DEF PushDuplicate, TypeOK, Result
<1>4. CASE PushMark(t)
  <2>1. bits' \in SUBSET Bit
    BY <1>0, <1>4, HashAssumption DEF PushMark, Set, TypeOK
  <2>2. job' \in [Task -> JobType]
    BY <1>0, <1>4, EffectivePriorityType DEF PushMark, TypeOK, JobType
  <2>3. marked' \in SUBSET Url
    BY <1>0, <1>4 DEF PushMark, TypeOK
  <2>4. pc' \in [Task -> PC]
    BY <1>4 DEF PushMark, Goto, TypeOK, PC
  <2> QED
    BY <1>4, <2>1, <2>2, <2>3, <2>4 DEF PushMark, TypeOK
<1>5. CASE RequestLock(t)
  <2>1. queue' \in Seq(Task) /\ holder' \in Task \cup {NoTask}
    BY <1>5 DEF RequestLock, TypeOK
  <2>2. pc' \in [Task -> PC]
    BY <1>5 DEF RequestLock, Goto, TypeOK, PC
  <2> QED
    BY <1>5, <2>1, <2>2 DEF RequestLock, TypeOK
<1>6. CASE PushFull(t)
  BY <1>6, ReturnType, UnlockType DEF PushFull, TypeOK, Result
<1>7. CASE Enqueue(t)
  <2>1. [job |-> job[t], seq |-> seq + 1] \in Entry
    BY <1>0 DEF TypeOK, Entry
  <2>2. heap' \in SUBSET Entry /\ IsFiniteSet(heap')
    BY <1>7, <2>1, FS_AddElement DEF Enqueue, TypeOK
  <2> QED
    BY <1>7, <2>2 DEF Enqueue, Goto, TypeOK, PC
<1>8. CASE CountPushed(t)
  BY <1>8, ReturnType, UnlockType DEF CountPushed, TypeOK, Result
<1>9. CASE PopJob(t)
  <2>1. PICK e \in heap : /\ heap' = heap \ {e}
                          /\ taken' = taken \cup {e}
                          /\ job' = [job EXCEPT ![t] = e.job]
    BY <1>9 DEF PopJob
  <2>2. e \in Entry /\ e.job \in JobType
    BY DEF TypeOK, Entry
  <2>3. IsFiniteSet(heap') /\ IsFiniteSet(taken')
    BY <2>1, FS_AddElement, FS_RemoveElement DEF TypeOK
  <2>4. job' \in [Task -> JobType]
    BY <2>1, <2>2 DEF TypeOK
  <2> QED
    BY <1>9, <2>1, <2>2, <2>3, <2>4, ReturnType, UnlockType DEF PopJob, TypeOK, Result
<1>10. CASE PopEmpty(t)
  BY <1>10, ReturnType, UnlockType DEF PopEmpty, TypeOK, Result
<1>11. CASE Cancel(t)
  <2>1. holder' \in Task \cup {NoTask} /\ queue' \in Seq(Task)
    <3>1. ASSUME NEW i \in DOMAIN queue
          PROVE  SubSeq(queue, 1, i - 1) \o SubSeq(queue, i + 1, Len(queue)) \in Seq(Task)
      <4>1. queue \in Seq(Task) /\ i \in 1..Len(queue)
        BY DEF TypeOK
      <4>2. SubSeq(queue, 1, i - 1) \in Seq(Task)
        BY <4>1, SubSeqProperties
      <4>3. SubSeq(queue, i + 1, Len(queue)) \in Seq(Task)
        BY <4>1, SubSeqProperties
      <4> QED
        BY <4>2, <4>3, ConcatProperties
    <3> QED
      BY <1>11, <3>1, UnlockType DEF Cancel, TypeOK
  <2> QED
    BY <1>11, <2>1, ReturnType DEF Cancel, TypeOK, Result
<1> QED
  BY <1>1, <1>2, <1>3, <1>4, <1>5, <1>6, <1>7, <1>8, <1>9, <1>10, <1>11
  DEF TaskStep, Step

-----------------------------------------------------------------------------
\* One task at a time is inside the critical section.
LEMMA LockStep ==
  ASSUME TypeOK, LockInv, NEW t \in Task, TaskStep(t)
  PROVE  LockInv'
<1> USE TaskAssumption DEF TypeOK, LockInv, Goto, Return, Unlock, Locked
<1>1. ASSUME NEW j \in Job, CallPush(t, j) PROVE LockInv'
  BY <1>1 DEF CallPush, Begin
<1>2. CASE CallPop(t)
  BY <1>2 DEF CallPop, Begin
<1>3. CASE PushDuplicate(t) \/ PushMark(t)
  BY <1>3 DEF PushDuplicate, PushMark
<1>4. CASE RequestLock(t)
  BY <1>4 DEF RequestLock
<1>5. CASE PushFull(t) \/ CountPushed(t) \/ PopJob(t) \/ PopEmpty(t)
  BY <1>5 DEF PushFull, CountPushed, PopJob, PopEmpty
<1>6. CASE Enqueue(t)
  BY <1>6 DEF Enqueue
<1>7. CASE Cancel(t)
  BY <1>7 DEF Cancel
<1> QED
  BY <1>1, <1>2, <1>3, <1>4, <1>5, <1>6, <1>7 DEF TaskStep, Step

-----------------------------------------------------------------------------
\* Which steps touch the entries and the pushes in flight.

\* PushMark(t) puts one more push in flight, with a URL nobody else stands for.
LEMMA MarkEffect ==
  ASSUME TypeOK, MarkInv, NEW t \in Task, PushMark(t)
  PROVE  /\ UNCHANGED <<heap, taken, seq, told>>
         /\ job[t].url \notin marked
         /\ marked' = marked \cup {job[t].url}
         /\ \A s \in Task \ {t} : Carries(s)' = Carries(s) /\ job'[s] = job[s]
         /\ job'[t] \in JobType
         /\ job'[t].url = job[t].url
         /\ job'[t].priority = EffectivePriority(job'[t])
<1>1. job[t].url \notin marked
  BY DEF PushMark, MarkInv
<1>2. job'[t] = [job[t] EXCEPT !.priority = EffectivePriority(job[t])]
  BY DEF PushMark, TypeOK
<1>3. /\ job'[t] \in JobType
      /\ job'[t].url = job[t].url
      /\ job'[t].priority = EffectivePriority(job'[t])
  BY <1>2, PriorityAssigned DEF TypeOK
<1>4. \A s \in Task \ {t} : Carries(s)' = Carries(s) /\ job'[s] = job[s]
  BY DEF PushMark, Goto, TypeOK, Carries
<1> QED
  BY <1>1, <1>3, <1>4 DEF PushMark

\* Enqueue(t) turns the push of t into the newest entry.
LEMMA EnqueueEffect ==
  ASSUME TypeOK, OrderInv, NEW t \in Task, Enqueue(t)
  PROVE  LET new == [job |-> job[t], seq |-> seq + 1]
         IN  /\ new \in Entry /\ new \notin Entered
             /\ heap' = heap \cup {new} /\ taken' = taken
             /\ Entered' = Entered \cup {new}
             /\ seq' = seq + 1
             /\ UNCHANGED <<job, op, marked, told, bits>>
             /\ Carries(t) /\ ~Carries(t)'
             /\ \A s \in Task \ {t} : Carries(s)' = Carries(s)
<1> DEFINE new == [job |-> job[t], seq |-> seq + 1]
<1>1. new \in Entry
  BY DEF TypeOK, Entry
<1>2. new \notin Entered
  BY DEF OrderInv, Entered, TypeOK, Entry
<1>3. Carries(t) /\ ~Carries(t)'
  BY DEF Enqueue, Locked, Goto, TypeOK, Carries, Unplaced
<1>4. \A s \in Task \ {t} : Carries(s)' = Carries(s)
  BY DEF Enqueue, Goto, TypeOK, Carries
<1>5. heap' = heap \cup {new} /\ taken' = taken /\ Entered' = Entered \cup {new}
  BY DEF Enqueue, Entered
<1> QED
  BY <1>1, <1>2, <1>3, <1>4, <1>5 DEF Enqueue

\* PopJob(t) moves the first entry of the heap, in the order of Before.
LEMMA PopEffect ==
  ASSUME TypeOK, NEW t \in Task, PopJob(t)
  PROVE  /\ \E e \in heap : /\ \A f \in heap \ {e} : Before(e, f)
                          /\ heap' = heap \ {e}
                          /\ taken' = taken \cup {e}
         /\ Entered' = Entered
         /\ UNCHANGED <<seq, op, marked, told, bits>>
         /\ ~Carries(t) /\ ~Carries(t)'
         /\ \A s \in Task \ {t} : Carries(s)' = Carries(s) /\ job'[s] = job[s]
<1>1. PICK e \in heap : /\ \A f \in heap \ {e} : Before(e, f)
                        /\ heap' = heap \ {e}
                        /\ taken' = taken \cup {e}
                        /\ job' = [job EXCEPT ![t] = e.job]
  BY DEF PopJob
<1>2. Entered' = Entered
  BY <1>1 DEF Entered
<1>3. op[t] = "pop" /\ UNCHANGED <<seq, op, marked, told, bits>>
  BY DEF PopJob, Locked, Return
<1>4. \A s \in Task \ {t} : Carries(s)' = Carries(s) /\ job'[s] = job[s]
  BY <1>1 DEF PopJob, Return, Goto, Carries, TypeOK
<1> QED
  BY <1>1, <1>2, <1>3, <1>4 DEF Carries

\* The other steps leave the entries alone, put no push in flight, and take one
\* out of flight only by answering it.
LEMMA OtherEffect ==
  ASSUME TypeOK, NEW t \in Task, TaskStep(t),
         ~PushMark(t), ~Enqueue(t), ~PopJob(t)
  PROVE  /\ UNCHANGED <<bits, heap, taken, seq, marked>>
         /\ Entered' = Entered
         /\ told \subseteq told'
         /\ \A s \in Task \ {t} : /\ Carries(s)' = Carries(s)
                               /\ job'[s] = job[s] /\ pc'[s] = pc[s]
         /\ Carries(t)' => Carries(t) /\ job'[t] = job[t]
         /\ Carries(t) /\ ~Carries(t)' => \/ <<job[t].url, "full">> \in told'
                                        \/ <<job[t].url, "cancelled">> \in told'
         /\ pc'[t] = "dedup" => \E j \in Job : CallPush(t, j)
         /\ \A s \in Task : pc'[s] = "dedup" => op'[s] = "push" \/ (pc[s] = "dedup" /\ op'[s] = op[s])
<1> USE DEF TypeOK, PC, Goto, Return, Carries, Unplaced, Entered, Locked
<1>1. CASE \E j \in Job : CallPush(t, j)
  <2>1. PICK j \in Job : CallPush(t, j)
    BY <1>1
  <2>2. /\ UNCHANGED <<bits, heap, taken, seq, marked, told>>
        /\ ~Carries(t) /\ ~Carries(t)' /\ op'[t] = "push"
        /\ \A s \in Task \ {t} : job'[s] = job[s] /\ pc'[s] = pc[s] /\ op'[s] = op[s]
    BY <2>1 DEF CallPush, Begin
  <2>3. \A s \in Task \ {t} : Carries(s)' = Carries(s)
    BY <2>2
  <2>4. \A s \in Task : pc'[s] = "dedup" => op'[s] = "push" \/ (pc[s] = "dedup" /\ op'[s] = op[s])
    BY <2>2
  <2> HIDE DEF TypeOK, Carries
  <2> QED
    BY <1>1, <2>2, <2>3, <2>4
<1>2. CASE CallPop(t)
  BY <1>2 DEF CallPop, Begin
<1>3. CASE PushDuplicate(t)
  BY <1>3 DEF PushDuplicate
<1>4. CASE RequestLock(t)
  BY <1>4 DEF RequestLock
<1>5. CASE PushFull(t)
  BY <1>5 DEF PushFull
<1>6. CASE CountPushed(t)
  BY <1>6 DEF CountPushed
<1>7. CASE PopEmpty(t)
  BY <1>7 DEF PopEmpty
<1>8. CASE Cancel(t)
  BY <1>8 DEF Cancel
<1> QED
  BY <1>1, <1>2, <1>3, <1>4, <1>5, <1>6, <1>7, <1>8 DEF TaskStep, Step

-----------------------------------------------------------------------------
LEMMA MarkStep ==
  ASSUME TypeOK, MarkInv, OrderInv, NEW t \in Task, TaskStep(t)
  PROVE  MarkInv'
<1>1. CASE PushMark(t)
  <2>1. Entered' = Entered /\ op' = op
    BY <1>1 DEF PushMark, Entered
  <2>2. \A u \in marked' : Check(bits', u)
    BY <1>1, MarkEffect DEF MarkInv, Check, Set, PushMark
  <2>3. \A e \in Entered' : e.job.url \in marked'
    BY <1>1, <2>1, MarkEffect DEF MarkInv
  <2>4. \A s \in Task : Carries(s)' => job'[s].url \in marked'
    BY <1>1, MarkEffect DEF MarkInv
  <2>5. \A s \in Task, e \in Entered' : Carries(s)' => e.job.url # job'[s].url
    BY <1>1, <2>1, MarkEffect DEF MarkInv
  <2>6. \A r, s \in Task : Carries(r)' /\ Carries(s)' /\ job'[r].url = job'[s].url => r = s
    BY <1>1, MarkEffect DEF MarkInv
  <2>7. \A s \in Task : pc'[s] = "dedup" => op'[s] = "push"
    BY <1>1, <2>1 DEF MarkInv, PushMark, Goto, TypeOK
  <2> QED
    BY <2>2, <2>3, <2>4, <2>5, <2>6, <2>7 DEF MarkInv
<1>2. CASE Enqueue(t)
  <2> DEFINE new == [job |-> job[t], seq |-> seq + 1]
  <2>1. new.job.url = job[t].url /\ Carries(t)
    BY <1>2, EnqueueEffect
  <2>2. Entered' = Entered \cup {new}
    BY <1>2, EnqueueEffect
  <2> HIDE DEF new
  <2>3. /\ UNCHANGED <<job, marked, bits>> /\ ~Carries(t)'
        /\ \A s \in Task \ {t} : Carries(s)' = Carries(s)
    BY <1>2, EnqueueEffect
  <2>4. \A s \in Task : pc'[s] = "dedup" => op'[s] = "push"
    BY <1>2 DEF Enqueue, Goto, MarkInv, TypeOK
  <2> QED
    BY <2>1, <2>2, <2>3, <2>4 DEF MarkInv
<1>3. CASE PopJob(t)
  <2>1. /\ Entered' = Entered /\ UNCHANGED <<marked, bits>> /\ ~Carries(t)'
        /\ \A s \in Task \ {t} : Carries(s)' = Carries(s) /\ job'[s] = job[s]
    BY <1>3, PopEffect
  <2>2. \A s \in Task : pc'[s] = "dedup" => op'[s] = "push"
    BY <1>3 DEF PopJob, Return, Goto, MarkInv, TypeOK
  <2> QED
    BY <2>1, <2>2 DEF MarkInv
<1>4. CASE ~PushMark(t) /\ ~Enqueue(t) /\ ~PopJob(t)
  <2>1. /\ Entered' = Entered /\ UNCHANGED <<marked, bits>>
        /\ \A s \in Task : Carries(s)' => Carries(s) /\ job'[s] = job[s]
    BY <1>4, OtherEffect
  <2>2. \A s \in Task : pc'[s] = "dedup" => op'[s] = "push"
    BY <1>4, OtherEffect DEF MarkInv
  <2> QED
    BY <2>1, <2>2 DEF MarkInv
<1> QED
  BY <1>1, <1>2, <1>3, <1>4

LEMMA StripStep ==
  ASSUME TypeOK, StripInv, OrderInv, MarkInv, NEW t \in Task, TaskStep(t)
  PROVE  StripInv'
<1>1. CASE PushMark(t)
  <2>1. Entered' = Entered /\ \A s \in Task \ {t} : pc'[s] = pc[s]
    BY <1>1 DEF PushMark, Entered, Goto, TypeOK
  <2>2. pc[t] = "dedup"
    BY <1>1 DEF PushMark
  <2>3. Stripped(job'[t])
    BY <1>1, <2>2, MarkEffect DEF StripInv, Stripped
  <2> QED
    BY <1>1, <2>1, <2>3, MarkEffect DEF StripInv
<1>2. CASE Enqueue(t)
  <2> DEFINE new == [job |-> job[t], seq |-> seq + 1]
  <2>1. Stripped(new.job) /\ Entered' = Entered \cup {new}
    BY <1>2, EnqueueEffect DEF StripInv
  <2> HIDE DEF new
  <2>2. /\ job' = job /\ ~Carries(t)' /\ pc'[t] # "dedup"
        /\ \A s \in Task \ {t} : Carries(s)' = Carries(s) /\ pc'[s] = pc[s]
    BY <1>2, EnqueueEffect DEF Enqueue, Goto, TypeOK
  <2> QED
    BY <2>1, <2>2 DEF StripInv
<1>3. CASE PopJob(t)
  <2>1. Entered' = Entered /\ ~Carries(t)'
    BY <1>3, PopEffect
  <2>2. \A s \in Task \ {t} : Carries(s)' = Carries(s) /\ job'[s] = job[s]
    BY <1>3, PopEffect
  <2>3. pc'[t] = "idle" /\ \A s \in Task \ {t} : pc'[s] = pc[s]
    BY <1>3 DEF PopJob, Return, Goto, TypeOK
  <2> QED
    BY <2>1, <2>2, <2>3 DEF StripInv
<1>4. CASE ~PushMark(t) /\ ~Enqueue(t) /\ ~PopJob(t)
  <2>1. ASSUME NEW j \in Job, CallPush(t, j) PROVE Stripped(job'[t])
    <3>1. job'[t].url = StripFragment[j.url] /\ j.url \in Url
      BY <2>1, JobAssumption DEF CallPush, TypeOK, JobType
    <3> QED
      BY <3>1, StripAssumption DEF Stripped
  <2>2. Entered' = Entered
    BY <1>4, OtherEffect
  <2>3. /\ Carries(t)' => Carries(t) /\ job'[t] = job[t]
        /\ pc'[t] = "dedup" => Stripped(job'[t])
    BY <1>4, <2>1, OtherEffect
  <2>4. \A s \in Task \ {t} : Carries(s)' = Carries(s) /\ job'[s] = job[s] /\ pc'[s] = pc[s]
    BY <1>4, OtherEffect
  <2> QED
    BY <2>2, <2>3, <2>4 DEF StripInv
<1> QED
  BY <1>1, <1>2, <1>3, <1>4

LEMMA EnteredType == ASSUME TypeOK, NEW e \in Entered PROVE e \in Entry /\ e.seq \in Nat /\ e.job \in JobType
BY DEF TypeOK, Entered, Entry

LEMMA OrderStep ==
  ASSUME TypeOK, OrderInv, MarkInv, NEW t \in Task, TaskStep(t)
  PROVE  OrderInv'
<1>0. \A e \in Entered : e.seq \in Nat
  BY EnteredType
<1>1. CASE PushMark(t)
  <2>1. Entered' = Entered /\ UNCHANGED <<heap, taken, seq>>
    BY <1>1 DEF PushMark, Entered
  <2> QED
    BY <1>1, <2>1, MarkEffect DEF OrderInv
<1>2. CASE Enqueue(t)
  <2> DEFINE new == [job |-> job[t], seq |-> seq + 1]
  <2>1. new.seq = seq + 1 /\ new.job = job[t] /\ new \notin Entered
    BY <1>2, EnqueueEffect
  <2>2. new.job.priority = EffectivePriority(new.job)
    BY <1>2, <2>1, EnqueueEffect DEF OrderInv
  <2>3. Entered' = Entered \cup {new} /\ heap' = heap \cup {new} /\ taken' = taken
    BY <1>2, EnqueueEffect
  <2> HIDE DEF new
  <2>4. /\ job' = job /\ seq' = seq + 1 /\ ~Carries(t)'
        /\ \A s \in Task \ {t} : Carries(s)' = Carries(s)
    BY <1>2, EnqueueEffect
  <2>5. \A e \in Entered' : e.seq <= seq' /\ e.job.priority = EffectivePriority(e.job)
    BY <1>0, <2>1, <2>2, <2>3, <2>4 DEF OrderInv, TypeOK
  <2>6. \A e, f \in Entered' : e.seq = f.seq => e = f
    BY <1>0, <2>1, <2>3 DEF OrderInv, TypeOK
  <2>7. heap' \cap taken' = {}
    BY <2>1, <2>3 DEF OrderInv, Entered
  <2> QED
    BY <2>4, <2>5, <2>6, <2>7 DEF OrderInv
<1>3. CASE PopJob(t)
  <2>1. Entered' = Entered /\ seq' = seq
    BY <1>3, PopEffect
  <2>2. heap' \cap taken' = {}
    BY <1>3, PopEffect DEF OrderInv
  <2>3. \A s \in Task : Carries(s)' => Carries(s) /\ job'[s] = job[s]
    BY <1>3, PopEffect
  <2> QED
    BY <2>1, <2>2, <2>3 DEF OrderInv
<1>4. CASE ~PushMark(t) /\ ~Enqueue(t) /\ ~PopJob(t)
  <2>1. /\ UNCHANGED <<heap, taken, seq>> /\ Entered' = Entered
        /\ \A s \in Task : Carries(s)' => Carries(s) /\ job'[s] = job[s]
    BY <1>4, OtherEffect
  <2> QED
    BY <2>1 DEF OrderInv
<1> QED
  BY <1>1, <1>2, <1>3, <1>4

-----------------------------------------------------------------------------
\* The properties, one by one.
LEMMA AtMostOnceFromMarks == ASSUME MarkInv, StripInv PROVE
  \A t \in Task, e \in Entered : Carries(t) => StripFragment[e.job.url] # StripFragment[job[t].url]
BY DEF MarkInv, StripInv, Stripped

LEMMA AtMostOnceStep ==
  ASSUME TypeOK, MarkInv, StripInv, OrderInv, QueuedAtMostOnce,
         NEW t \in Task, TaskStep(t)
  PROVE  QueuedAtMostOnce'
<1>1. CASE Enqueue(t)
  <2> DEFINE new == [job |-> job[t], seq |-> seq + 1]
  <2>1. Entered' = Entered \cup {new} /\ new.job = job[t] /\ Carries(t)
    BY <1>1, EnqueueEffect
  <2> HIDE DEF new
  <2> QED
    BY <2>1, AtMostOnceFromMarks DEF QueuedAtMostOnce
<1>2. CASE ~Enqueue(t)
  <2>1. Entered' = Entered
    BY <1>2, OtherEffect, PopEffect, MarkEffect DEF Entered
  <2> QED
    BY <2>1 DEF QueuedAtMostOnce
<1> QED
  BY <1>1, <1>2

LEMMA CapacityStep ==
  ASSUME TypeOK, OrderInv, MarkInv, WithinCapacity, NEW t \in Task, TaskStep(t)
  PROVE  WithinCapacity'
<1>0. IsFiniteSet(heap) /\ Cardinality(heap) \in Nat
  BY FS_CardinalityType DEF TypeOK
<1>1. CASE Enqueue(t)
  <2> DEFINE new == [job |-> job[t], seq |-> seq + 1]
  <2>1. heap' = heap \cup {new} /\ new \notin heap
    BY <1>1, EnqueueEffect DEF Entered
  <2>2. Cardinality(heap') = Cardinality(heap) + 1
    BY <1>0, <2>1, FS_AddElement
  <2>3. Cardinality(heap) < MaxSize
    BY <1>1 DEF Enqueue
  <2> QED
    BY <1>0, <2>2, <2>3, ConfigAssumption DEF WithinCapacity
<1>2. CASE PopJob(t)
  <2>1. heap' \subseteq heap
    BY <1>2, PopEffect
  <2>2. Cardinality(heap') \in Nat /\ Cardinality(heap') <= Cardinality(heap)
    BY <1>0, <2>1, FS_Subset, FS_CardinalityType
  <2> QED
    BY <1>0, <2>2, ConfigAssumption DEF WithinCapacity
<1>3. CASE ~Enqueue(t) /\ ~PopJob(t)
  <2>1. heap' = heap
    BY <1>3, OtherEffect, MarkEffect
  <2> QED
    BY <2>1 DEF WithinCapacity
<1> QED
  BY <1>1, <1>2, <1>3

LEMMA OvertakingStep ==
  ASSUME TypeOK, OrderInv, MarkInv, NoOvertaking, NEW t \in Task, TaskStep(t)
  PROVE  NoOvertaking'
<1>1. CASE Enqueue(t)
  <2> DEFINE new == [job |-> job[t], seq |-> seq + 1]
  <2>1. heap' = heap \cup {new} /\ new.seq = seq + 1 /\ taken' = taken
    BY <1>1, EnqueueEffect
  <2>2. \A e \in taken : ~(new.seq < e.seq)
    BY <2>1, EnteredType DEF OrderInv, Entered, TypeOK
  <2> HIDE DEF new
  <2> QED
    BY <2>1, <2>2 DEF NoOvertaking
<1>2. CASE PopJob(t)
  <2>1. PICK e \in heap : /\ \A f \in heap \ {e} : Before(e, f)
                          /\ heap' = heap \ {e}
                          /\ taken' = taken \cup {e}
    BY <1>2, PopEffect
  <2>2. ASSUME NEW f \in heap', f.seq < e.seq
        PROVE  CASE Mode = "breadth" -> e.job.depth < f.job.depth
                 [] Mode = "depth"   -> e.job.depth > f.job.depth
                 [] Mode = "score"   -> e.job.priority > f.job.priority
    <3>1. e \in Entered /\ f \in Entered
      BY <2>1 DEF Entered
    <3>2. e.seq \in Nat /\ f.seq \in Nat /\ e.job \in JobType /\ f.job \in JobType
      BY <3>1, EnteredType
    <3>3. e.job.priority > f.job.priority
      BY <2>1, <2>2, <3>2 DEF Before
    <3>4. EffectivePriority(e.job) > EffectivePriority(f.job)
      BY <3>1, <3>3 DEF OrderInv
    <3> QED
      BY <3>2, <3>4, PriorityRanks
  <2> QED
    BY <2>1, <2>2 DEF NoOvertaking
<1>3. CASE ~Enqueue(t) /\ ~PopJob(t)
  <2>1. heap' = heap /\ taken' = taken
    BY <1>3, OtherEffect, MarkEffect
  <2> QED
    BY <2>1 DEF NoOvertaking
<1> QED
  BY <1>1, <1>2, <1>3

LEMMA NoLossStep ==
  ASSUME TypeOK, MarkInv, OrderInv, NoSilentLoss, NEW t \in Task, TaskStep(t)
  PROVE  NoSilentLoss'
<1>1. CASE PushMark(t)
  <2>1. ~Carries(t) /\ Carries(t)' /\ Entered' = Entered
    BY <1>1 DEF PushMark, Goto, MarkInv, TypeOK, Carries, Unplaced, Entered
  <2>2. /\ marked' = marked \cup {job'[t].url} /\ told' = told
        /\ \A s \in Task \ {t} : Carries(s)' = Carries(s) /\ job'[s] = job[s]
    BY <1>1, MarkEffect
  <2> QED
    BY <2>1, <2>2 DEF NoSilentLoss
<1>2. CASE Enqueue(t)
  <2> DEFINE new == [job |-> job[t], seq |-> seq + 1]
  <2>1. Entered' = Entered \cup {new} /\ new.job = job[t]
    BY <1>2, EnqueueEffect
  <2> HIDE DEF new
  <2>2. /\ UNCHANGED <<job, marked, told>>
        /\ \A s \in Task \ {t} : Carries(s)' = Carries(s)
    BY <1>2, EnqueueEffect
  <2> QED
    BY <2>1, <2>2 DEF NoSilentLoss
<1>3. CASE PopJob(t)
  <2>1. Entered' = Entered /\ UNCHANGED <<marked, told>> /\ ~Carries(t)
    BY <1>3, PopEffect
  <2>2. \A s \in Task \ {t} : Carries(s)' = Carries(s) /\ job'[s] = job[s]
    BY <1>3, PopEffect
  <2> QED
    BY <2>1, <2>2 DEF NoSilentLoss
<1>4. CASE ~PushMark(t) /\ ~Enqueue(t) /\ ~PopJob(t)
  <2>1. Entered' = Entered /\ marked' = marked /\ told \subseteq told'
    BY <1>4, OtherEffect
  <2>2. \A s \in Task \ {t} : Carries(s)' = Carries(s) /\ job'[s] = job[s]
    BY <1>4, OtherEffect
  <2>3. Carries(t) => \/ Carries(t)' /\ job'[t] = job[t]
                      \/ <<job[t].url, "full">> \in told'
                      \/ <<job[t].url, "cancelled">> \in told'
    BY <1>4, OtherEffect
  <2> QED
    BY <2>1, <2>2, <2>3 DEF NoSilentLoss
<1> QED
  BY <1>1, <1>2, <1>3, <1>4

LEMMA EnteredFinite ==
  ASSUME TypeOK
  PROVE  IsFiniteSet(Entered) /\ Cardinality(Entered) \in Nat
BY FS_Union, FS_CardinalityType DEF TypeOK, Entered

LEMMA TotalPushedStep ==
  ASSUME TypeOK, LockInv, OrderInv, MarkInv, TotalPushedCountsEntries,
         NEW t \in Task, TaskStep(t)
  PROVE  TotalPushedCountsEntries'
<1>0. Cardinality({t}) = 1 /\ Cardinality({}) = 0
  BY FS_Singleton, FS_EmptySet
<1>1. CASE Enqueue(t)
  <2>1. Uncounted = {} /\ Uncounted' = {t} /\ totalPushed' = totalPushed
    BY <1>1, TaskAssumption DEF Enqueue, Locked, Goto, LockInv, Uncounted, TypeOK
  <2>2. Cardinality(Entered') = Cardinality(Entered) + 1
    BY <1>1, EnqueueEffect, EnteredFinite, FS_AddElement
  <2> QED
    BY <1>0, <2>1, <2>2, EnteredFinite DEF TotalPushedCountsEntries, TypeOK
<1>2. CASE CountPushed(t)
  <2>1. Uncounted = {t} /\ Uncounted' = {}
    BY <1>2, TaskAssumption DEF CountPushed, Return, Goto, LockInv, Uncounted, TypeOK
  <2>2. Entered' = Entered /\ totalPushed' = totalPushed + 1
    BY <1>2 DEF CountPushed, Entered
  <2> QED
    BY <1>0, <2>1, <2>2 DEF TotalPushedCountsEntries, TypeOK
<1>3. CASE ~Enqueue(t) /\ ~CountPushed(t)
  <2>1. Entered' = Entered
    BY <1>3, OtherEffect, PopEffect, MarkEffect DEF Entered
  <2>2. totalPushed' = totalPushed
    BY <1>3 DEF TaskStep, Step, CallPush, CallPop, PushDuplicate, PushMark, RequestLock,
                PushFull, PopJob, PopEmpty, Cancel
  <2>3. Uncounted' = Uncounted
    BY <1>3 DEF TaskStep, Step, CallPush, CallPop, Begin, PushDuplicate, PushMark,
                RequestLock, PushFull, PopJob, PopEmpty, Cancel, Locked, Return, Goto,
                Uncounted, TypeOK
  <2> QED
    BY <2>1, <2>2, <2>3 DEF TotalPushedCountsEntries
<1> QED
  BY <1>1, <1>2, <1>3

-----------------------------------------------------------------------------
LEMMA InitIInv == Init => IInv
<1> SUFFICES ASSUME Init PROVE IInv
  OBVIOUS
<1>1. TypeOK
  BY TypeInit
<1>2. heap = {} /\ Entered = {} /\ Uncounted = {} /\ marked = {}
  BY DEF Init, Entered, Uncounted
<1>3. Cardinality({}) = 0
  BY FS_EmptySet
<1>4. \A t \in Task : pc[t] = "idle" /\ ~Carries(t)
  BY DEF Init, Carries, Unplaced
<1>5. LockInv /\ MarkInv /\ StripInv /\ OrderInv
  BY <1>2, <1>4 DEF LockInv, MarkInv, StripInv, OrderInv
<1>6. QueuedAtMostOnce /\ NoOvertaking /\ NoSilentLoss
  BY <1>2 DEF QueuedAtMostOnce, NoOvertaking, NoSilentLoss
<1>7. WithinCapacity /\ TotalPushedCountsEntries
  BY <1>2, <1>3, ConfigAssumption DEF WithinCapacity, TotalPushedCountsEntries, Init
<1> QED
  BY <1>1, <1>5, <1>6, <1>7 DEF IInv

LEMMA StutterIInv == ASSUME IInv, UNCHANGED vars PROVE IInv'
<1>1. TypeOK' /\ LockInv'
  BY DEF vars, IInv, TypeOK, LockInv
<1>2. /\ Entered' = Entered /\ Uncounted' = Uncounted
      /\ \A t \in Task : Carries(t)' = Carries(t)
  BY DEF vars, Entered, Uncounted, Carries
<1>3. MarkInv' /\ StripInv' /\ OrderInv'
  BY <1>2 DEF vars, IInv, MarkInv, StripInv, OrderInv
<1>4. /\ QueuedAtMostOnce' /\ WithinCapacity' /\ NoOvertaking' /\ NoSilentLoss'
      /\ TotalPushedCountsEntries'
  BY <1>2 DEF vars, IInv, QueuedAtMostOnce, WithinCapacity, NoOvertaking, NoSilentLoss,
              TotalPushedCountsEntries
<1> QED
  BY <1>1, <1>3, <1>4 DEF IInv

LEMMA StepIInv == ASSUME IInv, [Next]_vars PROVE IInv'
<1>1. ASSUME NEW t \in Task, TaskStep(t) PROVE IInv'
  <2> USE DEF IInv
  <2>1. TypeOK' /\ LockInv'
    BY <1>1, TypeStep, LockStep
  <2>2. MarkInv' /\ StripInv' /\ OrderInv'
    BY <1>1, MarkStep, StripStep, OrderStep
  <2>3. QueuedAtMostOnce' /\ WithinCapacity'
    BY <1>1, AtMostOnceStep, CapacityStep
  <2>4. NoOvertaking' /\ NoSilentLoss'
    BY <1>1, OvertakingStep, NoLossStep
  <2>5. TotalPushedCountsEntries'
    BY <1>1, TotalPushedStep
  <2> QED
    BY <2>1, <2>2, <2>3, <2>4, <2>5
<1> QED
  BY <1>1, StutterIInv DEF Next, TaskStep

\* IInv holds in every reachable state of the frontier: types, the Mutex, what a
\* marked URL stands for, the order of the heap, and the properties below.
THEOREM IInvCorrect == Spec => []IInv
<1>1. Init => IInv
  BY InitIInv
<1>2. IInv /\ [Next]_vars => IInv'
  BY StepIInv
<1> QED
  BY <1>1, <1>2, PTL DEF Spec

\* For any number of tasks and any capacity, no page enters the heap twice, so
\* pop never hands out the same page twice (frontier.rs:200-239).
THEOREM AtMostOnce == Spec => []QueuedAtMostOnce
BY IInvCorrect, PTL DEF IInv

\* The heap never outgrows max_size.
THEOREM CapacityRespected == Spec => []WithinCapacity
BY IInvCorrect, PTL DEF IInv

\* In every priority mode a job is served ahead of an older one only if the mode
\* ranks it strictly higher (frontier.rs:66-77 and 169-185).
THEOREM FifoWithinPriority == Spec => []NoOvertaking
BY IInvCorrect, PTL DEF IInv

\* A URL that the filter let through is queued, or its caller has been told that
\* it was not.
THEOREM NoUrlLostSilently == Spec => []NoSilentLoss
BY IInvCorrect, PTL DEF IInv

\* total_pushed is the number of jobs that ever entered the heap, short of the
\* one that the holder of the Mutex is about to count.
THEOREM TotalPushedCorrect == Spec => []TotalPushedCountsEntries
BY IInvCorrect, PTL DEF IInv

-----------------------------------------------------------------------------
\* The order of the heap, as a line.

\* A heap as the frontier has them: finitely many entries, told apart by seq.
Heap(H) ==
  /\ H \subseteq Entry /\ IsFiniteSet(H)
  /\ \A e, f \in H : e.seq = f.seq => e = f

\* The fields that Before compares.
LEMMA EntryFields ==
  ASSUME NEW e \in Entry
  PROVE  e.seq \in Nat /\ e.job \in JobType /\ e.job.priority \in Int
BY DEF Entry, JobType, Priority

\* Before is a strict total order on a heap.
LEMMA BeforeOrders ==
  ASSUME NEW H, Heap(H)
  PROVE  /\ \A e \in H : ~Before(e, e)
         /\ \A e, f \in H : e # f => Before(e, f) \/ Before(f, e)
         /\ \A e, f \in H : ~(Before(e, f) /\ Before(f, e))
         /\ \A e, f, g \in H : Before(e, f) /\ Before(f, g) => Before(e, g)
<1>1. \A e \in H : e.seq \in Int /\ e.job.priority \in Int
  BY EntryFields DEF Heap
<1> QED
  BY <1>1 DEF Heap, Before

\* Positions are 1 to the number of entries, and grow along Before.
LEMMA PositionType ==
  ASSUME NEW H, Heap(H), NEW e \in H
  PROVE  /\ IsFiniteSet(Ahead(H, e)) /\ Cardinality(Ahead(H, e)) \in Nat
         /\ Position(H, e) \in 1..Cardinality(H)
         /\ Cardinality(H) \in Nat
<1>1. Ahead(H, e) \in SUBSET H /\ e \notin Ahead(H, e)
  BY BeforeOrders DEF Ahead
<1>2. IsFiniteSet(H) /\ Cardinality(H) \in Nat
  BY FS_CardinalityType DEF Heap
<1>3. /\ IsFiniteSet(Ahead(H, e)) /\ Cardinality(Ahead(H, e)) <= Cardinality(H)
      /\ Cardinality(Ahead(H, e)) # Cardinality(H)
  BY <1>1, <1>2, FS_Subset
<1>4. Cardinality(Ahead(H, e)) \in Nat
  BY <1>3, FS_CardinalityType
<1> QED
  BY <1>2, <1>3, <1>4 DEF Position

\* Who is before another has fewer entries before it.
LEMMA PositionGrows ==
  ASSUME NEW H, Heap(H), NEW e \in H, NEW f \in H, Before(e, f)
  PROVE  Position(H, e) < Position(H, f)
<1>1. Ahead(H, e) \in SUBSET Ahead(H, f)
  BY BeforeOrders DEF Ahead
<1>2. e \in Ahead(H, f) /\ e \notin Ahead(H, e)
  BY BeforeOrders DEF Ahead
<1>3. /\ Cardinality(Ahead(H, e)) <= Cardinality(Ahead(H, f))
      /\ Cardinality(Ahead(H, e)) # Cardinality(Ahead(H, f))
  BY <1>1, <1>2, PositionType, FS_Subset
<1> QED
  BY <1>3, PositionType DEF Position

\* Each position is that of one entry: the pigeons fill the holes.
LEMMA PositionsAreTaken ==
  ASSUME NEW H, Heap(H), NEW i \in 1..Cardinality(H)
  PROVE  \E e \in H : Position(H, e) = i
<1> DEFINE n == Cardinality(H)
           place == [e \in H |-> Position(H, e)]
<1>1. n \in Nat /\ IsFiniteSet(1..n) /\ Cardinality(1..n) = n
  <2>1. n \in Nat
    BY FS_CardinalityType DEF Heap
  <2> QED
    BY <2>1, FS_Interval
<1>2. place \in [H -> 1..n]
  BY PositionType
<1>3. \A e, f \in H : place[e] = place[f] => e = f
  <2> SUFFICES ASSUME NEW e \in H, NEW f \in H, e # f PROVE Position(H, e) # Position(H, f)
    OBVIOUS
  <2>1. Before(e, f) \/ Before(f, e)
    BY BeforeOrders
  <2> QED
    BY <2>1, PositionGrows, PositionType
<1>4. place \in Injection(H, 1..n)
  BY <1>2, <1>3 DEF Injection, IsInjective
<1> HIDE DEF place
<1>5. place \in Surjection(H, 1..n)
  BY <1>1, <1>4, FS_Injection
<1>6. \E e \in H : place[e] = i
  BY <1>5 DEF Surjection
<1> QED
  BY <1>6 DEF place

\* So InOrder puts each entry's job at the entry's position.
LEMMA InOrderAt ==
  ASSUME NEW H, Heap(H)
  PROVE  /\ \A e \in H : InOrder(H)[Position(H, e)] = e.job
         /\ InOrder(H) \in Seq(JobType)
         /\ Len(InOrder(H)) = Cardinality(H)
         /\ DOMAIN InOrder(H) = 1..Cardinality(H)
<1> DEFINE n == Cardinality(H)
           at(i) == CHOOSE e \in H : Position(H, e) = i
<1>1. \A i \in 1..n : at(i) \in H /\ Position(H, at(i)) = i
  BY PositionsAreTaken
<1>2. \A e, f \in H : Position(H, e) = Position(H, f) => e = f
  <2> SUFFICES ASSUME NEW e \in H, NEW f \in H, e # f PROVE Position(H, e) # Position(H, f)
    OBVIOUS
  <2>1. Before(e, f) \/ Before(f, e)
    BY BeforeOrders
  <2> QED
    BY <2>1, PositionGrows, PositionType
<1>3. InOrder(H) = [i \in 1..n |-> at(i).job]
  BY DEF InOrder
<1> HIDE DEF at
<1>4. \A e \in H : Position(H, e) \in 1..n /\ at(Position(H, e)) = e
  BY <1>1, <1>2, PositionType
<1>5. n \in Nat
  BY FS_CardinalityType DEF Heap
<1>6. \A i \in 1..n : at(i).job \in JobType
  BY <1>1, EntryFields DEF Heap
<1>7. InOrder(H) \in [1..n -> JobType]
  BY <1>3, <1>6
<1> QED
  BY <1>3, <1>4, <1>5, <1>7, SeqDef

\* A part of a heap is one.
LEMMA HeapSubset ==
  ASSUME NEW H, Heap(H), NEW G \in SUBSET H
  PROVE  Heap(G)
BY FS_Subset DEF Heap

\* pop takes the head of the line and leaves its tail.
LEMMA TakeFromLine ==
  ASSUME NEW H, Heap(H), NEW e \in H, \A f \in H \ {e} : Before(e, f)
  PROVE  /\ InOrder(H) # <<>> /\ Head(InOrder(H)) = e.job
         /\ InOrder(H \ {e}) = Tail(InOrder(H))
<1> DEFINE G == H \ {e}
           n == Cardinality(H)
<1>1. Heap(G) /\ n \in Nat /\ n > 0 /\ Cardinality(G) = n - 1
  BY HeapSubset, PositionType, FS_RemoveElement DEF Heap
<1>2. Position(H, e) = 1
  <2>1. Ahead(H, e) = {}
    BY BeforeOrders DEF Ahead
  <2> QED
    BY <2>1, FS_EmptySet DEF Position
<1>3. InOrder(H) # <<>> /\ Head(InOrder(H)) = e.job
  <2>1. InOrder(H)[1] = e.job /\ Len(InOrder(H)) = n /\ InOrder(H) \in Seq(JobType)
    BY <1>2, InOrderAt
  <2> QED
    BY <1>1, <2>1
<1>4. ASSUME NEW f \in G PROVE Position(H, f) = Position(G, f) + 1
  <2>1. Ahead(H, f) = Ahead(G, f) \cup {e} /\ e \notin Ahead(G, f)
    BY DEF Ahead
  <2>2. Cardinality(Ahead(H, f)) = Cardinality(Ahead(G, f)) + 1
    BY <1>1, <2>1, PositionType, FS_AddElement
  <2> QED
    BY <1>1, <2>2, PositionType DEF Position
<1>5. /\ InOrder(G) \in Seq(JobType) /\ Len(InOrder(G)) = n - 1
      /\ InOrder(H) \in Seq(JobType) /\ Len(InOrder(H)) = n
  BY <1>1, InOrderAt
<1>6. /\ Tail(InOrder(H)) \in Seq(JobType) /\ Len(Tail(InOrder(H))) = n - 1
      /\ \A i \in 1..n - 1 : Tail(InOrder(H))[i] = InOrder(H)[i + 1]
  BY <1>3, <1>5, HeadTailProperties
<1>7. ASSUME NEW i \in 1..n - 1 PROVE InOrder(G)[i] = Tail(InOrder(H))[i]
  <2>1. PICK f \in G : Position(G, f) = i
    BY <1>1, PositionsAreTaken
  <2>2. Position(H, f) = i + 1
    BY <1>4, <2>1
  <2>3. InOrder(G)[i] = f.job /\ InOrder(H)[i + 1] = f.job
    BY <1>1, <2>1, <2>2, InOrderAt
  <2> QED
    BY <1>6, <2>3
<1>8. InOrder(G) = Tail(InOrder(H))
  BY <1>5, <1>6, <1>7, SeqEqual
<1> QED
  BY <1>3, <1>8

\* An entry with the latest sequence number joins the line behind the jobs of at
\* least its priority, which are those at the front.
LEMMA PlaceInLine ==
  ASSUME NEW H, Heap(H), NEW new \in Entry, \A f \in H : f.seq < new.seq
  PROVE  \E ahead \in 0..Len(InOrder(H)) :
           /\ \A i \in 1..Len(InOrder(H)) :
                InOrder(H)[i].priority >= new.job.priority <=> i <= ahead
           /\ InOrder(H \cup {new}) =
                SubSeq(InOrder(H), 1, ahead) \o <<new.job>>
                  \o SubSeq(InOrder(H), ahead + 1, Len(InOrder(H)))
<1> DEFINE G == H \cup {new}
           n == Cardinality(H)
           A == {f \in H : f.job.priority >= new.job.priority}
           ahead == Cardinality(A)
           old == InOrder(H)
<1>0. \A f \in G : f.seq \in Int /\ f.job.priority \in Int
  BY EntryFields DEF Heap
<1>1. new \notin H /\ Heap(G) /\ n \in Nat /\ Cardinality(G) = n + 1
  <2>1. new \notin H
    BY <1>0
  <2>2. Heap(G)
    BY <1>0, FS_AddElement DEF Heap
  <2> QED
    BY <2>1, <2>2, FS_AddElement, FS_CardinalityType DEF Heap
<1>2. IsFiniteSet(A) /\ ahead \in 0..n
  <2>1. A \in SUBSET H
    OBVIOUS
  <2> QED
    BY <1>1, <2>1, FS_Subset, FS_CardinalityType DEF Heap
<1>3. Position(G, new) = ahead + 1
  <2>1. Ahead(G, new) = A
    BY <1>0, <1>1 DEF Ahead, Before
  <2> QED
    BY <2>1 DEF Position
<1>4. ASSUME NEW f \in A PROVE Position(G, f) = Position(H, f) /\ Position(H, f) <= ahead
  <2>1. Ahead(G, f) = Ahead(H, f)
    BY <1>0, <1>1 DEF Ahead, Before
  <2>2. Ahead(H, f) \in SUBSET A /\ f \notin Ahead(H, f)
    BY <1>0 DEF Ahead, Before
  <2>3. Cardinality(Ahead(H, f)) <= ahead /\ Cardinality(Ahead(H, f)) # ahead
    BY <1>2, <2>2, FS_Subset
  <2> QED
    BY <1>2, <2>1, <2>3, PositionType DEF Position
<1>5. ASSUME NEW f \in H \ A
      PROVE  Position(G, f) = Position(H, f) + 1 /\ Position(H, f) > ahead
  <2>1. Ahead(G, f) = Ahead(H, f) \cup {new} /\ new \notin Ahead(H, f)
    BY <1>0, <1>1 DEF Ahead, Before
  <2>2. Cardinality(Ahead(G, f)) = Cardinality(Ahead(H, f)) + 1
    BY <2>1, PositionType, FS_AddElement
  <2>3. A \in SUBSET Ahead(H, f)
    BY <1>0 DEF Ahead, Before
  <2>4. ahead <= Cardinality(Ahead(H, f))
    BY <2>3, PositionType, FS_Subset
  <2> QED
    BY <1>2, <2>2, <2>4, PositionType DEF Position
<1>6. old \in Seq(JobType) /\ Len(old) = n
  BY InOrderAt
<1>7. ASSUME NEW i \in 1..n PROVE old[i].priority >= new.job.priority <=> i <= ahead
  <2>1. PICK f \in H : Position(H, f) = i
    BY PositionsAreTaken
  <2>2. old[i] = f.job
    BY <2>1, InOrderAt
  <2>3. f \in A <=> i <= ahead
    BY <1>2, <1>4, <1>5, <2>1
  <2> QED
    BY <2>2, <2>3
<1> DEFINE front == SubSeq(old, 1, ahead)
           back == SubSeq(old, ahead + 1, n)
<1> HIDE DEF A, ahead, old
<1>8. /\ front \in Seq(JobType) /\ Len(front) = ahead /\ \A i \in 1..ahead : front[i] = old[i]
      /\ back \in Seq(JobType) /\ Len(back) = n - ahead
      /\ \A i \in 1..n - ahead : back[i] = old[ahead + i]
  BY <1>1, <1>2, <1>6
<1> HIDE DEF front, back
<1>9. new.job \in JobType /\ <<new.job>> \in Seq(JobType)
  BY EntryFields
<1> DEFINE t == front \o <<new.job>> \o back
<1>10. /\ t \in Seq(JobType) /\ Len(t) = n + 1
       /\ \A i \in 1..ahead : t[i] = old[i]
       /\ t[ahead + 1] = new.job
       /\ \A i \in ahead + 2..n + 1 : t[i] = old[i - 1]
  <2> DEFINE u == front \o <<new.job>>
  <2>1. /\ u \in Seq(JobType) /\ Len(u) = ahead + 1
        /\ \A i \in 1..ahead : u[i] = old[i]
        /\ u[ahead + 1] = new.job
    BY <1>2, <1>8, <1>9
  <2>2. t = u \o back
    OBVIOUS
  <2> HIDE DEF u, t
  <2>3. /\ t \in Seq(JobType) /\ Len(t) = n + 1
        /\ \A i \in 1..n + 1 : t[i] = IF i <= ahead + 1 THEN u[i] ELSE back[i - (ahead + 1)]
    <3>1. /\ u \o back \in Seq(JobType)
          /\ Len(u \o back) = Len(u) + Len(back)
          /\ \A i \in 1..Len(u) + Len(back) :
                (u \o back)[i] = IF i <= Len(u) THEN u[i] ELSE back[i - Len(u)]
      BY <1>8, <2>1, ConcatProperties
    <3> QED
      BY <1>1, <1>2, <1>8, <2>1, <2>2, <3>1
  <2>4. \A i \in ahead + 2..n + 1 : back[i - (ahead + 1)] = old[i - 1]
    BY <1>1, <1>2, <1>8
  <2>5. ASSUME NEW i \in 1..ahead PROVE t[i] = old[i]
    BY <1>1, <1>2, <2>1, <2>3
  <2>6. t[ahead + 1] = new.job
    BY <1>1, <1>2, <2>1, <2>3
  <2>7. ASSUME NEW i \in ahead + 2..n + 1 PROVE t[i] = old[i - 1]
    BY <1>1, <1>2, <2>3, <2>4
  <2> QED
    BY <2>3, <2>5, <2>6, <2>7
<1> HIDE DEF t
<1>11. InOrder(G) \in Seq(JobType) /\ Len(InOrder(G)) = n + 1
  BY <1>1, InOrderAt
<1>12. ASSUME NEW i \in 1..n + 1 PROVE InOrder(G)[i] = t[i]
  <2>1. PICK f \in G : Position(G, f) = i
    BY <1>1, PositionsAreTaken
  <2>2. InOrder(G)[i] = f.job
    BY <1>1, <2>1, InOrderAt
  <2>3. CASE f = new
    BY <1>3, <1>10, <2>1, <2>2, <2>3
  <2>4. CASE f \in A
    <3>1. f \in H /\ Position(H, f) = i /\ i <= ahead
      BY <1>4, <2>1, <2>4 DEF A
    <3>2. old[i] = f.job
      BY <3>1, InOrderAt DEF old
    <3> QED
      BY <1>10, <2>2, <3>1, <3>2
  <2>5. CASE f \in H \ A
    <3>1. Position(H, f) + 1 = i /\ Position(H, f) > ahead /\ Position(H, f) \in Int
      BY <1>5, <2>1, <2>5, PositionType
    <3>2. Position(H, f) = i - 1 /\ i \in ahead + 2..n + 1
      BY <1>1, <1>2, <3>1
    <3>3. old[i - 1] = f.job
      BY <2>5, <3>2, InOrderAt DEF old
    <3> QED
      BY <1>10, <2>2, <3>2, <3>3
  <2> QED
    BY <2>1, <2>3, <2>4, <2>5
<1>13. InOrder(G) = t
  BY <1>1, <1>10, <1>11, <1>12, SeqEqual
<1> QED
  BY <1>2, <1>6, <1>7, <1>13 DEF t, front, back, old

-----------------------------------------------------------------------------
\* The job at the filter is one a caller pushed, without its fragment.
Pushed == {[j EXCEPT !.url = StripFragment[j.url]] : j \in Job}

SourceInv == \A t \in Task : pc[t] = "dedup" => job[t] \in Pushed

\* Every task between filter and heap carries a job that was pushed.
LEMMA SourceStep ==
  ASSUME TypeOK, SourceInv, NEW t \in Task, TaskStep(t)
  PROVE  SourceInv'
<1> USE DEF TypeOK, Goto, Return
<1>1. ASSUME NEW j \in Job, CallPush(t, j) PROVE SourceInv'
  <2>1. /\ job' = [job EXCEPT ![t] = [j EXCEPT !.url = StripFragment[j.url]]]
        /\ pc' = [pc EXCEPT ![t] = "dedup"]
    BY <1>1 DEF CallPush
  <2>2. job'[t] \in Pushed
    BY <2>1 DEF Pushed
  <2> QED
    BY <2>1, <2>2 DEF SourceInv
<1>2. CASE CallPop(t)
  BY <1>2 DEF CallPop, SourceInv
<1>3. CASE PushDuplicate(t)
  BY <1>3 DEF PushDuplicate, SourceInv
<1>4. CASE PushMark(t)
  BY <1>4 DEF PushMark, SourceInv
<1>5. CASE RequestLock(t)
  BY <1>5 DEF RequestLock, SourceInv
<1>6. CASE PushFull(t) \/ CountPushed(t) \/ PopEmpty(t)
  BY <1>6 DEF PushFull, CountPushed, PopEmpty, SourceInv
<1>7. CASE Enqueue(t)
  BY <1>7 DEF Enqueue, SourceInv
<1>8. CASE PopJob(t)
  <2>1. \A s \in Task \ {t} : job'[s] = job[s] /\ pc'[s] = pc[s]
    BY <1>8 DEF PopJob
  <2>2. pc'[t] = "idle"
    BY <1>8 DEF PopJob
  <2> QED
    BY <2>1, <2>2 DEF SourceInv
<1>9. CASE Cancel(t)
  BY <1>9 DEF Cancel, SourceInv
<1> QED
  BY <1>1, <1>2, <1>3, <1>4, <1>5, <1>6, <1>7, <1>8, <1>9 DEF TaskStep, Step

\* Stripping a URL leaves the priority that the mode gives the job.
LEMMA PushedRank ==
  ASSUME NEW j \in Pushed
  PROVE  EffectivePriority(j) \in {EffectivePriority(k) : k \in Job}
<1>1. PICK k \in Job : j = [k EXCEPT !.url = StripFragment[k.url]]
  BY DEF Pushed
<1>2. j.depth = k.depth /\ j.priority = k.priority
  BY <1>1, JobAssumption DEF JobType
<1>3. EffectivePriority(j) = EffectivePriority(k)
  BY <1>2 DEF EffectivePriority
<1> QED
  BY <1>3

\* The heap of the frontier is one: its sequence numbers are unique.
LEMMA HeapIsHeap == ASSUME TypeOK, OrderInv PROVE Heap(heap)
BY DEF TypeOK, OrderInv, Heap, Entered

\* The stages and answers that a caller sees.
StageMap == [s \in Task |-> Stage(s)]
ResultMap == [s \in Task |-> IF pc[s] = "counting" THEN "accepted" ELSE result[s]]

\* A step of one task changes the stage of that task alone.
LEMMA StageChanges ==
  ASSUME TypeOK, NEW t \in Task, \A s \in Task \ {t} : pc'[s] = pc[s] /\ op'[s] = op[s]
  PROVE  StageMap' = [StageMap EXCEPT ![t] = Stage(t)']
<1>1. \A s \in Task \ {t} : Stage(s)' = Stage(s)
  BY DEF Stage
<1> QED
  BY <1>1 DEF StageMap

\* A step of one task changes the answer of that task alone.
LEMMA ResultChanges ==
  ASSUME TypeOK, NEW t \in Task,
         \A s \in Task \ {t} : pc'[s] = pc[s] /\ result'[s] = result[s]
  PROVE  ResultMap' = [ResultMap EXCEPT
                         ![t] = IF pc'[t] = "counting" THEN "accepted" ELSE result'[t]]
BY DEF ResultMap

\* The stages by the program counters.
LEMMA StageOf ==
  ASSUME TypeOK, NEW t \in Task
  PROVE  /\ pc[t] \in {"idle", "counting"} => Stage(t) = "idle"
         /\ pc[t] = "dedup" => Stage(t) = "called"
         /\ pc[t] \in Unplaced /\ op[t] = "push" => Stage(t) = "marked"
         /\ pc[t] \in Unplaced /\ op[t] = "pop" => Stage(t) = "called"
         /\ StageMap[t] = Stage(t)
         /\ StageMap \in [Task -> {Stage(s) : s \in Task}]
BY DEF Stage, StageMap, Unplaced

\* Each step of the frontier is a step of the line, or invisible to the callers.
LEMMA ContractStep ==
  ASSUME IInv, SourceInv, NEW t \in Task, TaskStep(t)
  PROVE  [Contract!Next]_(Contract!vars)
<1> USE DEF Goto, Return, Locked, Unplaced
<1>0. TypeOK /\ OrderInv /\ LockInv /\ MarkInv /\ WithinCapacity
  BY DEF IInv
<1>1. pc \in [Task -> PC] /\ op \in [Task -> {"push", "pop"}] /\ result \in [Task -> Result]
      /\ job \in [Task -> JobType]
  BY <1>0 DEF TypeOK
<1>2. ASSUME NEW j \in Job, CallPush(t, j) PROVE Contract!Call(t)
  <2>1. /\ pc[t] = "idle" /\ pc' = [pc EXCEPT ![t] = "dedup"]
        /\ op' = [op EXCEPT ![t] = "push"] /\ result' = [result EXCEPT ![t] = "none"]
        /\ job' = [job EXCEPT ![t] = [j EXCEPT !.url = StripFragment[j.url]]]
        /\ UNCHANGED <<bits, heap>>
    BY <1>2 DEF CallPush, Begin
  <2>2. [j EXCEPT !.url = StripFragment[j.url]] \in Job \cup Pushed
    BY DEF Pushed
  <2>3. StageMap[t] = "idle" /\ StageMap' = [StageMap EXCEPT ![t] = "called"]
    BY <1>0, <1>1, <2>1, StageOf, StageChanges DEF Stage
  <2>4. ResultMap' = [ResultMap EXCEPT ![t] = "none"]
    BY <1>0, <1>1, <2>1, ResultChanges
  <2>5. Line' = Line
    BY <2>1 DEF Line
  <2> QED
    BY <2>1, <2>2, <2>3, <2>4, <2>5
       DEF Contract!Call, Contract!Goto, StageMap, ResultMap, Pushed
<1>3. CASE CallPop(t)
  <2>1. /\ pc[t] = "idle" /\ pc' = [pc EXCEPT ![t] = "locking"]
        /\ op' = [op EXCEPT ![t] = "pop"] /\ result' = [result EXCEPT ![t] = "none"]
        /\ UNCHANGED <<bits, heap, job>>
    BY <1>3 DEF CallPop, Begin
  <2>2. StageMap[t] = "idle" /\ StageMap' = [StageMap EXCEPT ![t] = "called"]
    BY <1>0, <1>1, <2>1, StageOf, StageChanges DEF Stage
  <2>3. ResultMap' = [ResultMap EXCEPT ![t] = "none"]
    BY <1>0, <1>1, <2>1, ResultChanges
  <2>4. Line' = Line
    BY <2>1 DEF Line
  <2>5. Contract!Call(t)
    BY <2>1, <2>2, <2>3, <2>4 DEF Contract!Call, Contract!Goto, StageMap, ResultMap
  <2> QED
    BY <2>5 DEF Contract!Next
<1>4. CASE PushDuplicate(t)
  <2>1. /\ pc[t] = "dedup" /\ pc' = [pc EXCEPT ![t] = "idle"]
        /\ result' = [result EXCEPT ![t] = "duplicate"] /\ Check(bits, job[t].url)
        /\ UNCHANGED <<bits, heap, job, op>>
    BY <1>4 DEF PushDuplicate
  <2>2. StageMap[t] = "called" /\ StageMap' = [StageMap EXCEPT ![t] = "idle"]
    BY <1>0, <1>1, <2>1, StageOf, StageChanges DEF Stage
  <2>3. ResultMap' = [ResultMap EXCEPT ![t] = "duplicate"]
    BY <1>0, <1>1, <2>1, ResultChanges
  <2>4. Line' = Line /\ op[t] = "push"
    BY <1>0, <2>1 DEF Line, MarkInv
  <2>5. Contract!Duplicate(t)
    BY <2>1, <2>2, <2>3, <2>4
       DEF Contract!Duplicate, Contract!Return, Contract!Goto, Contract!Check, Check,
           StageMap, ResultMap
  <2> QED
    BY <2>5 DEF Contract!Next, Contract!Effect
<1>5. CASE PushMark(t)
  <2>1. /\ pc[t] = "dedup" /\ pc' = [pc EXCEPT ![t] = "locking"]
        /\ ~Check(bits, job[t].url) /\ bits' = Set(bits, job[t].url)
        /\ job' = [job EXCEPT ![t].priority = EffectivePriority(job[t])]
        /\ UNCHANGED <<heap, op, result>>
    BY <1>5 DEF PushMark
  <2>2. op[t] = "push" /\ Line' = Line
    BY <1>0, <2>1 DEF Line, MarkInv
  <2>3. StageMap[t] = "called" /\ StageMap' = [StageMap EXCEPT ![t] = "marked"]
    BY <1>0, <1>1, <2>1, <2>2, StageOf, StageChanges DEF Stage
  <2>4. ResultMap' = ResultMap
    BY <1>1, <2>1 DEF ResultMap
  <2>5. EffectivePriority(job[t]) \in {EffectivePriority(k) : k \in Job}
    BY <2>1, PushedRank DEF SourceInv
  <2>6. Contract!Mark(t)
    BY <2>1, <2>2, <2>3, <2>4, <2>5
       DEF Contract!Mark, Contract!Goto, Contract!Check, Contract!Set, Check, Set,
           StageMap, ResultMap
  <2> QED
    BY <2>6 DEF Contract!Next, Contract!Effect
<1>6. CASE RequestLock(t)
  <2>1. /\ pc[t] = "locking"
        /\ pc' = [pc EXCEPT ![t] = "locked"] \/ pc' = [pc EXCEPT ![t] = "suspended"]
        /\ UNCHANGED <<bits, heap, op, job, result>>
    BY <1>6 DEF RequestLock
  <2>2. StageMap' = StageMap
    <3>1. Stage(t)' = Stage(t)
      BY <1>1, <2>1 DEF Stage
    <3>2. \A s \in Task \ {t} : Stage(s)' = Stage(s)
      BY <1>1, <2>1 DEF Stage
    <3> QED
      BY <3>1, <3>2 DEF StageMap
  <2>3. ResultMap' = ResultMap /\ Line' = Line
    BY <1>1, <2>1 DEF ResultMap, Line
  <2> QED
    BY <2>1, <2>2, <2>3 DEF Contract!vars, StageMap, ResultMap
<1>7. CASE PushFull(t)
  <2>1. /\ pc[t] \in {"suspended", "locked"} /\ op[t] = "push"
        /\ pc' = [pc EXCEPT ![t] = "idle"] /\ result' = [result EXCEPT ![t] = "full"]
        /\ Cardinality(heap) >= MaxSize
        /\ UNCHANGED <<bits, heap, op, job>>
    BY <1>7 DEF PushFull
  <2>2. StageMap[t] = "marked" /\ StageMap' = [StageMap EXCEPT ![t] = "idle"]
    BY <1>0, <1>1, <2>1, StageOf, StageChanges DEF Stage
  <2>3. ResultMap' = [ResultMap EXCEPT ![t] = "full"]
    BY <1>0, <1>1, <2>1, ResultChanges
  <2>4. Line' = Line
    BY <2>1 DEF Line
  <2>5. Len(Line) = MaxSize
    <3>1. Len(Line) = Cardinality(heap) /\ Cardinality(heap) \in Nat
      BY <1>0, HeapIsHeap, InOrderAt, FS_CardinalityType DEF Line, TypeOK
    <3> QED
      BY <1>0, <2>1, <3>1, ConfigAssumption DEF WithinCapacity
  <2>6. Contract!Refuse(t)
    BY <2>1, <2>2, <2>3, <2>4, <2>5
       DEF Contract!Refuse, Contract!Return, Contract!Goto, StageMap, ResultMap
  <2> QED
    BY <2>6 DEF Contract!Next, Contract!Effect
<1>8. CASE Enqueue(t)
  <2> DEFINE new == [job |-> job[t], seq |-> seq + 1]
  <2>1. /\ pc[t] \in {"suspended", "locked"} /\ op[t] = "push"
        /\ pc' = [pc EXCEPT ![t] = "counting"] /\ Cardinality(heap) < MaxSize
        /\ heap' = heap \cup {new}
        /\ UNCHANGED <<bits, op, job, result>>
    BY <1>8 DEF Enqueue
  <2>2. StageMap[t] = "marked" /\ StageMap' = [StageMap EXCEPT ![t] = "idle"]
    BY <1>0, <1>1, <2>1, StageOf, StageChanges DEF Stage
  <2>3. ResultMap' = [ResultMap EXCEPT ![t] = "accepted"]
    BY <1>0, <1>1, <2>1, ResultChanges
  <2>4. new \in Entry /\ new.job = job[t] /\ \A f \in heap : f.seq < new.seq
    BY <1>0, <1>1, EntryFields DEF Entry, OrderInv, Entered, TypeOK
  <2> HIDE DEF new
  <2>5. Line' = InOrder(heap \cup {new})
    BY <2>1 DEF Line
  <2>6. Len(Line) < MaxSize
    BY <1>0, <2>1, HeapIsHeap, InOrderAt DEF Line
  <2>7. \E ahead \in 0..Len(Line) :
          /\ \A i \in 1..Len(Line) : Line[i].priority >= job[t].priority <=> i <= ahead
          /\ Line' = SubSeq(Line, 1, ahead) \o <<job[t]>> \o SubSeq(Line, ahead + 1, Len(Line))
    BY <1>0, <2>4, <2>5, HeapIsHeap, PlaceInLine DEF Line
  <2>8. Contract!Place(t)
    BY <2>1, <2>2, <2>3, <2>6, <2>7
       DEF Contract!Place, Contract!Return, Contract!Goto, StageMap, ResultMap
  <2> QED
    BY <2>8 DEF Contract!Next, Contract!Effect
<1>9. CASE CountPushed(t)
  <2>1. /\ pc[t] = "counting" /\ pc' = [pc EXCEPT ![t] = "idle"]
        /\ result' = [result EXCEPT ![t] = "accepted"]
        /\ UNCHANGED <<bits, heap, op, job>>
    BY <1>9 DEF CountPushed
  <2>2. StageMap' = StageMap
    <3>1. Stage(t)' = Stage(t)
      BY <1>1, <2>1 DEF Stage
    <3>2. \A s \in Task \ {t} : Stage(s)' = Stage(s)
      BY <1>1, <2>1 DEF Stage
    <3> QED
      BY <3>1, <3>2 DEF StageMap
  <2>3. ResultMap' = ResultMap
    BY <1>1, <2>1 DEF ResultMap
  <2>4. Line' = Line
    BY <2>1 DEF Line
  <2> QED
    BY <2>1, <2>2, <2>3, <2>4 DEF Contract!vars, StageMap, ResultMap
<1>10. CASE PopJob(t)
  <2>1. PICK e \in heap : /\ \A f \in heap \ {e} : Before(e, f)
                          /\ heap' = heap \ {e}
                          /\ job' = [job EXCEPT ![t] = e.job]
    BY <1>10 DEF PopJob
  <2>2. /\ pc[t] \in {"suspended", "locked"} /\ op[t] = "pop"
        /\ pc' = [pc EXCEPT ![t] = "idle"] /\ result' = [result EXCEPT ![t] = "job"]
        /\ UNCHANGED <<bits, op>>
    BY <1>10 DEF PopJob
  <2>3. StageMap[t] = "called" /\ StageMap' = [StageMap EXCEPT ![t] = "idle"]
    BY <1>0, <1>1, <2>2, StageOf, StageChanges DEF Stage
  <2>4. ResultMap' = [ResultMap EXCEPT ![t] = "job"]
    BY <1>0, <1>1, <2>2, ResultChanges
  <2>5. Line # <<>> /\ Head(Line) = e.job /\ Line' = Tail(Line)
    BY <1>0, <2>1, HeapIsHeap, TakeFromLine DEF Line
  <2>6. Contract!Take(t)
    BY <2>1, <2>2, <2>3, <2>4, <2>5
       DEF Contract!Take, Contract!Return, Contract!Goto, StageMap, ResultMap
  <2> QED
    BY <2>6 DEF Contract!Next, Contract!Effect
<1>11. CASE PopEmpty(t)
  <2>1. /\ pc[t] \in {"suspended", "locked"} /\ op[t] = "pop" /\ heap = {}
        /\ pc' = [pc EXCEPT ![t] = "idle"] /\ result' = [result EXCEPT ![t] = "empty"]
        /\ UNCHANGED <<bits, heap, op, job>>
    BY <1>11 DEF PopEmpty
  <2>2. StageMap[t] = "called" /\ StageMap' = [StageMap EXCEPT ![t] = "idle"]
    BY <1>0, <1>1, <2>1, StageOf, StageChanges DEF Stage
  <2>3. ResultMap' = [ResultMap EXCEPT ![t] = "empty"]
    BY <1>0, <1>1, <2>1, ResultChanges
  <2>4. Line = <<>> /\ Line' = Line
    <3>1. Line \in Seq(JobType) /\ Len(Line) = 0
      BY <1>0, <2>1, HeapIsHeap, InOrderAt, FS_EmptySet DEF Line
    <3> QED
      BY <2>1, <3>1 DEF Line
  <2>5. Contract!TakeNone(t)
    BY <2>1, <2>2, <2>3, <2>4
       DEF Contract!TakeNone, Contract!Return, Contract!Goto, StageMap, ResultMap
  <2> QED
    BY <2>5 DEF Contract!Next, Contract!Effect
<1>12. CASE Cancel(t)
  <2>1. /\ pc[t] = "suspended"
        /\ pc' = [pc EXCEPT ![t] = "idle"] /\ result' = [result EXCEPT ![t] = "cancelled"]
        /\ UNCHANGED <<bits, heap, op, job>>
    BY <1>12 DEF Cancel
  <2>2. /\ StageMap[t] # "idle" /\ (StageMap[t] = "called" => op[t] = "pop")
        /\ StageMap' = [StageMap EXCEPT ![t] = "idle"]
    BY <1>0, <1>1, <2>1, StageOf, StageChanges DEF Stage
  <2>3. ResultMap' = [ResultMap EXCEPT ![t] = "cancelled"]
    BY <1>0, <1>1, <2>1, ResultChanges
  <2>4. Line' = Line
    BY <2>1 DEF Line
  <2>5. Contract!Abandon(t)
    <3>1. /\ (StageMap[t] = "called" => op[t] = "pop") /\ StageMap[t] # "idle"
          /\ StageMap' = [StageMap EXCEPT ![t] = "idle"]
          /\ ResultMap' = [ResultMap EXCEPT ![t] = "cancelled"]
          /\ UNCHANGED <<bits, Line, op, job>>
      BY <2>1, <2>2, <2>3, <2>4
    <3> QED
      BY <3>1 DEF Contract!Abandon, Contract!Return, Contract!Goto, StageMap, ResultMap
  <2> QED
    BY <2>5 DEF Contract!Next
<1>13. ASSUME NEW j \in Job, CallPush(t, j) PROVE Contract!Next
  BY <1>2, <1>13 DEF Contract!Next
<1> QED
  BY <1>3, <1>4, <1>5, <1>6, <1>7, <1>8, <1>9, <1>10, <1>11, <1>12, <1>13 DEF TaskStep, Step

\* An empty heap is an empty line.
LEMMA ContractInit == Init => Contract!Init /\ SourceInv
<1> SUFFICES ASSUME Init PROVE Contract!Init /\ SourceInv
  OBVIOUS
<1>1. Line = <<>>
  <2>1. Heap({}) /\ heap = {}
    BY FS_EmptySet DEF Heap, Init
  <2>2. InOrder({}) \in Seq(JobType) /\ Len(InOrder({})) = 0
    BY <2>1, InOrderAt, FS_EmptySet
  <2> QED
    BY <2>1, <2>2 DEF Line
<1>2. StageMap = [t \in Task |-> "idle"] /\ ResultMap = [t \in Task |-> "none"]
  <2>1. /\ pc = [t \in Task |-> "idle"] /\ result = [t \in Task |-> "none"]
    BY DEF Init
  <2>2. \A t \in Task : Stage(t) = "idle"
    BY <2>1, TypeInit, StageOf
  <2> QED
    BY <2>1, <2>2 DEF StageMap, ResultMap
<1>3. (CHOOSE j \in Job : TRUE) \in Job
  BY JobAssumption
<1>4. job \in [Task -> Job \cup Pushed]
  BY <1>3 DEF Init
<1> QED
  BY <1>1, <1>2, <1>4 DEF Init, Contract!Init, StageMap, ResultMap, Pushed, SourceInv

\* Whatever the tasks do, and also when calls are dropped half way, push and pop
\* of the frontier are push and pop of one line of jobs that is served from the
\* front (traits.rs:134-151): heap, sequence numbers and Mutex do not show.
THEOREM IsAScheduler == Spec => ImplementsScheduler
<1>1. Init => Contract!Init /\ SourceInv
  BY ContractInit
<1>2. ASSUME IInv, SourceInv, [Next]_vars PROVE SourceInv' /\ [Contract!Next]_(Contract!vars)
  <2>1. CASE UNCHANGED vars
    <3>1. SourceInv'
      BY <2>1, <1>2 DEF vars, SourceInv
    <3>2. UNCHANGED Contract!vars
      BY <2>1 DEF vars, Contract!vars, Line, Stage, Unplaced
    <3> QED
      BY <3>1, <3>2
  <2>2. ASSUME NEW t \in Task, TaskStep(t) PROVE SourceInv' /\ [Contract!Next]_(Contract!vars)
    BY <1>2, <2>2, SourceStep, ContractStep DEF IInv
  <2> QED
    BY <1>2, <2>1, <2>2 DEF Next, TaskStep
<1> QED
  BY <1>1, <1>2, IInvCorrect, PTL DEF Spec, ImplementsScheduler, Contract!Spec
=============================================================================
