----------------------- MODULE BloomDedupFilterProofs -----------------------
(***************************************************************************)
(* Proofs about BloomDedupFilter for any finite set of threads and URLs,   *)
(* any hash functions and any number of calls.                             *)
(***************************************************************************)
EXTENDS BloomDedupFilter, FiniteSetTheorems, TLAPS

\* A step of a thread, or of its caller.
ThreadStep(t) == Step(t) \/ \E r \in Request : Call(t, r)

\* The next-state relation is the steps of the threads, and stuttering.
LEMMA NextIsThreadStep ==
  ASSUME [Next]_vars
  PROVE  (\E t \in Thread : ThreadStep(t)) \/ UNCHANGED vars
BY DEF Next, ThreadStep, Finished

\* Every variable keeps its type.
LEMMA TypeInit == Init => TypeOK
<1> SUFFICES ASSUME Init PROVE TypeOK
  OBVIOUS
<1>1. (CHOOSE r \in Request : TRUE) \in Request
  <2>1. PICK u \in Url : TRUE
    BY UrlAssumption
  <2>2. [url |-> u, op |-> "contains"] \in Request
    BY <2>1 DEF Request, Operation
  <2> QED
    BY <2>2
<1> QED
  BY <1>1 DEF Init, TypeOK, PC

LEMMA TypeStep ==
  ASSUME TypeOK, NEW t \in Thread, ThreadStep(t)
  PROVE  TypeOK'
<1> USE DEF TypeOK, PC, Goto, Return
<1>0. request[t].url \in Url
  BY DEF Request
<1>1. ASSUME NEW r \in Request, Call(t, r) PROVE TypeOK'
  BY <1>1 DEF Call
<1>2. CASE AcquireRead(t)
  BY <1>2 DEF AcquireRead
<1>3. CASE CheckShared(t)
  BY <1>3 DEF CheckShared
<1>4. CASE AcquireWrite(t)
  BY <1>4 DEF AcquireWrite
<1>5. CASE CheckExclusive(t)
  BY <1>5 DEF CheckExclusive
<1>6. CASE Insert(t)
  <2>1. bits' \in SUBSET Bit
    BY <1>0, <1>6, HashAssumption DEF Insert, Set
  <2>2. wins' \in [Url -> Nat]
    BY <1>0, <1>6 DEF Insert
  <2> QED
    BY <1>6, <2>1, <2>2 DEF Insert
<1>7. CASE Count(t)
  BY <1>7 DEF Count
<1> QED
  BY <1>1, <1>2, <1>3, <1>4, <1>5, <1>6, <1>7 DEF ThreadStep, Step

\* The read guards and the write guard exclude each other.
LEMMA LockStep ==
  ASSUME TypeOK, LockInv, NEW t \in Thread, ThreadStep(t)
  PROVE  LockInv'
<1> USE ThreadAssumption DEF TypeOK, LockInv, Goto, Return
<1>1. ASSUME NEW r \in Request, Call(t, r) PROVE LockInv'
  BY <1>1 DEF Call
<1>2. CASE AcquireRead(t)
  BY <1>2 DEF AcquireRead
<1>3. CASE CheckShared(t)
  BY <1>3 DEF CheckShared
<1>4. CASE AcquireWrite(t)
  BY <1>4 DEF AcquireWrite
<1>5. CASE CheckExclusive(t)
  BY <1>5 DEF CheckExclusive
<1>6. CASE Insert(t)
  BY <1>6 DEF Insert
<1>7. CASE Count(t)
  BY <1>7 DEF Count
<1> QED
  BY <1>1, <1>2, <1>3, <1>4, <1>5, <1>6, <1>7 DEF ThreadStep, Step

-----------------------------------------------------------------------------
\* What each step does to the acceptances: only Insert grants one, and it grants
\* one to a URL that had none.
LEMMA OnlyInsertAccepts ==
  ASSUME TypeOK, NEW t \in Thread, ThreadStep(t), ~Insert(t)
  PROVE  UNCHANGED <<bits, wins>> /\ Accepted' = Accepted
<1>1. UNCHANGED <<bits, wins>>
  BY DEF ThreadStep, Step, Call, AcquireRead, CheckShared, AcquireWrite,
         CheckExclusive, Count
<1> QED
  BY <1>1 DEF Accepted

LEMMA InsertAccepts ==
  ASSUME TypeOK, BitsInv, CallInv, NEW t \in Thread, Insert(t)
  PROVE  /\ request[t].url \in Url \ Accepted
         /\ Accepted' = Accepted \cup {request[t].url}
         /\ wins[request[t].url] = 0
         /\ wins'[request[t].url] = 1
<1> DEFINE u == request[t].url
<1>1. u \in Url
  BY DEF TypeOK, Request
<1>2. u \notin Accepted
  <2>1. ~(Hash[u] \subseteq bits)
    BY DEF Insert, CallInv, Present, Check
  <2> QED
    BY <2>1 DEF BitsInv
<1>3. wins[u] = 0
  BY <1>1, <1>2 DEF Accepted, TypeOK
<1>4. wins' = [wins EXCEPT ![u] = 1]
  BY <1>1, <1>3 DEF Insert
<1>5. Accepted' = Accepted \cup {u}
  BY <1>1, <1>4 DEF Accepted, TypeOK
<1> QED
  BY <1>1, <1>2, <1>3, <1>4, <1>5 DEF TypeOK

LEMMA AcceptanceStep ==
  ASSUME TypeOK, BitsInv, ExactlyOneAcceptance, CallInv,
         NEW t \in Thread, ThreadStep(t)
  PROVE  BitsInv' /\ ExactlyOneAcceptance'
<1>1. CASE Insert(t)
  <2> DEFINE u == request[t].url
  <2>1. bits' = bits \cup Hash[u] /\ wins' = [wins EXCEPT ![u] = @ + 1]
    BY <1>1 DEF Insert, Set
  <2>2. u \in Url /\ Accepted' = Accepted \cup {u} /\ wins'[u] = 1
    BY <1>1, InsertAccepts
  <2>3. BitsInv'
    BY <2>1, <2>2 DEF BitsInv
  <2>4. ExactlyOneAcceptance'
    BY <2>1, <2>2 DEF ExactlyOneAcceptance, TypeOK
  <2> QED
    BY <2>3, <2>4
<1>2. CASE ~Insert(t)
  BY <1>2, OnlyInsertAccepts DEF BitsInv, ExactlyOneAcceptance
<1> QED
  BY <1>1, <1>2

\* What each thread relies on survives the steps of the others.
LEMMA CallStep ==
  ASSUME TypeOK, LockInv, BitsInv, CallInv, NoFalseNegative,
         NEW t \in Thread, ThreadStep(t)
  PROVE  CallInv' /\ NoFalseNegative'
<1> USE DEF TypeOK, PC, CallInv, NoFalseNegative, Goto, Return
<1>1. ASSUME NEW r \in Request, Call(t, r) PROVE CallInv' /\ NoFalseNegative'
  <2>1. r.url \in Url
    BY DEF Request
  <2>2. Accepted' = Accepted /\ UNCHANGED bits
    BY <1>1 DEF Call, Accepted
  <2> QED
    BY <1>1, <2>1, <2>2 DEF Call, Present, Accepted
<1>2. CASE AcquireRead(t)
  BY <1>2 DEF AcquireRead, Present, Accepted
<1>3. CASE CheckShared(t)
  <2>1. \A u \in Accepted : Check(bits, u)
    BY DEF BitsInv, Check
  <2>2. known[t] => Present(t)
    BY <2>1 DEF Present
  <2>3. Accepted' = Accepted /\ \A s \in Thread : Present(s)' = Present(s)
    BY <1>3 DEF CheckShared, Present, Accepted
  <2>4. request[t].op \in {"check_and_insert", "contains"}
    BY DEF Request, Operation
  <2> QED
    BY <1>3, <2>2, <2>3, <2>4 DEF CheckShared
<1>4. CASE AcquireWrite(t)
  BY <1>4 DEF AcquireWrite, Present, Accepted
<1>5. CASE CheckExclusive(t)
  BY <1>5 DEF CheckExclusive, Present, Accepted
<1>6. CASE Insert(t)
  <2>1. \A s \in Thread \ {t} : pc[s] # "inserting"
    BY <1>6 DEF Insert, LockInv
  <2>2. Accepted' = Accepted \cup {request[t].url}
    BY <1>6, InsertAccepts
  <2> QED
    BY <1>6, <2>1, <2>2 DEF Insert
<1>7. CASE Count(t)
  BY <1>7 DEF Count, Present, Accepted
<1> QED
  BY <1>1, <1>2, <1>3, <1>4, <1>5, <1>6, <1>7 DEF ThreadStep, Step

-----------------------------------------------------------------------------
LEMMA AcceptedFinite == ASSUME TypeOK PROVE IsFiniteSet(Accepted)
BY UrlAssumption, FS_Subset DEF Accepted

LEMMA CountStep ==
  ASSUME IInv, NEW t \in Thread, ThreadStep(t)
  PROVE  CountMatchesAcceptances'
<1> USE DEF IInv
<1>0. Cardinality({t}) = 1 /\ Cardinality({}) = 0
  BY FS_Singleton, FS_EmptySet
<1>1. CASE Insert(t)
  <2>1. Uncounted = {} /\ Uncounted' = {t}
    BY <1>1, ThreadAssumption DEF Insert, Goto, LockInv, Uncounted, TypeOK
  <2>2. Cardinality(Accepted') = Cardinality(Accepted) + 1
    BY <1>1, InsertAccepts, AcceptedFinite, FS_AddElement
  <2>3. count' = count
    BY <1>1 DEF Insert
  <2>4. Cardinality(Accepted) \in Nat
    BY AcceptedFinite, FS_CardinalityType
  <2> QED
    BY <1>0, <2>1, <2>2, <2>3, <2>4 DEF CountMatchesAcceptances, TypeOK
<1>2. CASE Count(t)
  <2>1. Uncounted = {t} /\ Uncounted' = {}
    BY <1>2, ThreadAssumption DEF Count, Return, Goto, LockInv, Uncounted, TypeOK
  <2>2. Accepted' = Accepted /\ count' = count + 1
    BY <1>2 DEF Count, Accepted
  <2> QED
    BY <1>0, <2>1, <2>2 DEF CountMatchesAcceptances, TypeOK
<1>3. CASE ~Insert(t) /\ ~Count(t)
  <2>1. Accepted' = Accepted
    BY <1>3, OnlyInsertAccepts
  <2>2. count' = count
    BY <1>3 DEF ThreadStep, Step, Call, AcquireRead, CheckShared, AcquireWrite,
                CheckExclusive
  <2>3. Uncounted' = Uncounted
    BY <1>3 DEF ThreadStep, Step, Call, AcquireRead, CheckShared, AcquireWrite,
                CheckExclusive, Uncounted, Goto, Return, TypeOK
  <2> QED
    BY <2>1, <2>2, <2>3 DEF CountMatchesAcceptances
<1> QED
  BY <1>1, <1>2, <1>3

-----------------------------------------------------------------------------
LEMMA InitIInv == Init => IInv
<1> SUFFICES ASSUME Init PROVE IInv
  OBVIOUS
<1>1. TypeOK
  BY TypeInit
<1>2. Accepted = {} /\ Uncounted = {}
  BY DEF Init, Accepted, Uncounted
<1>3. CountMatchesAcceptances
  BY <1>2, FS_EmptySet DEF Init, CountMatchesAcceptances
<1>4. BitsInv
  BY <1>2 DEF Init, BitsInv
<1>5. LockInv /\ ExactlyOneAcceptance /\ NoFalseNegative /\ CallInv
  BY ThreadAssumption
  DEF Init, LockInv, ExactlyOneAcceptance, NoFalseNegative, CallInv
<1> QED
  BY <1>1, <1>3, <1>4, <1>5 DEF IInv

LEMMA StutterIInv == ASSUME IInv, UNCHANGED vars PROVE IInv'
BY DEF vars, IInv, TypeOK, LockInv, BitsInv, ExactlyOneAcceptance,
       NoFalseNegative, CountMatchesAcceptances, CallInv, Present, Accepted, Uncounted

LEMMA StepIInv == ASSUME IInv, [Next]_vars PROVE IInv'
<1>1. ASSUME NEW t \in Thread, ThreadStep(t) PROVE IInv'
  <2>1. TypeOK'
    BY <1>1, TypeStep DEF IInv
  <2>2. LockInv'
    BY <1>1, LockStep DEF IInv
  <2>3. BitsInv' /\ ExactlyOneAcceptance'
    BY <1>1, AcceptanceStep DEF IInv
  <2>4. CallInv' /\ NoFalseNegative'
    BY <1>1, CallStep DEF IInv
  <2>5. CountMatchesAcceptances'
    BY <1>1, CountStep
  <2> QED
    BY <2>1, <2>2, <2>3, <2>4, <2>5 DEF IInv
<1> QED
  BY <1>1, NextIsThreadStep, StutterIInv

\* IInv, the conjunction of the type invariant, the lock, what the bits and the
\* counters stand for and what each thread relies on, holds in every reachable
\* state of check_and_insert and contains (bloom.rs:105-142).
THEOREM IInvCorrect == Spec => []IInv
<1>1. Init => IInv
  BY InitIInv
<1>2. IInv /\ [Next]_vars => IInv'
  BY StepIInv
<1> QED
  BY <1>1, <1>2, PTL DEF Spec

\* Whatever the number of threads, check_and_insert returns true to one caller
\* per URL: the double-checked locking has no window.
THEOREM OneAcceptance == Spec => []ExactlyOneAcceptance
BY IInvCorrect, PTL DEF IInv

\* A URL inserted before a call began is never reported as unseen by it.
THEOREM NoMiss == Spec => []NoFalseNegative
BY IInvCorrect, PTL DEF IInv

\* The atomic counter is the number of accepted URLs, short of the insertion of
\* the thread that still holds the write guard.
THEOREM CountCorrect == Spec => []CountMatchesAcceptances
BY IInvCorrect, PTL DEF IInv

-----------------------------------------------------------------------------
\* Each step is a call, the effect of a call, or invisible to the callers.
LEMMA ContractInit == Init => Contract!Init
<1> SUFFICES ASSUME Init PROVE Contract!Init
  OBVIOUS
<1>1. TypeOK
  BY TypeInit
<1> QED
  BY <1>1 DEF Init, Contract!Init, TypeOK, Uncounted, Request, Operation,
              Contract!Request, Contract!Operation

LEMMA ContractStep ==
  ASSUME IInv, NEW t \in Thread, ThreadStep(t)
  PROVE  [Contract!Next]_(Contract!vars)
<1> DEFINE pending == {s \in Thread : pc[s] \notin {"idle", "counting"}}
           verdict == [s \in Thread |-> IF s \in Uncounted THEN "new" ELSE answer[s]]
<1> USE DEF IInv, TypeOK, PC, Goto, Return
<1>1. ASSUME NEW r \in Request, Call(t, r) PROVE Contract!Call(t, r)
  <2>1. t \notin pending /\ pending' = pending \cup {t}
    BY <1>1 DEF Call
  <2>2. verdict' = [verdict EXCEPT ![t] = "none"]
    BY <1>1 DEF Call, Uncounted
  <2> QED
    BY <1>1, <2>1, <2>2 DEF Call, Contract!Call
<1>2. CASE AcquireRead(t) \/ AcquireWrite(t) \/ Count(t)
  <2>1. pending' = pending
    BY <1>2 DEF AcquireRead, AcquireWrite, Count
  <2>2. verdict' = verdict
    BY <1>2 DEF AcquireRead, AcquireWrite, Count, Uncounted
  <2> QED
    BY <1>2, <2>1, <2>2 DEF AcquireRead, AcquireWrite, Count, Contract!vars
<1>3. CASE CheckShared(t) /\ pc'[t] = "write_wait"
  <2>1. pending' = pending
    BY <1>3 DEF CheckShared
  <2>2. verdict' = verdict
    BY <1>3 DEF CheckShared, Uncounted
  <2> QED
    BY <1>3, <2>1, <2>2 DEF CheckShared, Contract!vars
<1>4. CASE CheckShared(t) /\ pc'[t] # "write_wait"
  <2>1. t \in pending /\ pending' = pending \ {t}
    BY <1>4 DEF CheckShared
  <2>2. verdict' = [verdict EXCEPT ![t] = IF Present(t) THEN "seen" ELSE "new"]
    BY <1>4 DEF CheckShared, Uncounted
  <2>3. Present(t) => Set(bits, request[t].url) = bits
    BY DEF Present, Check, Set
  <2>4. ~Present(t) => request[t].op = "contains"
    BY <1>4 DEF CheckShared
  <2> QED
    BY <1>4, <2>1, <2>2, <2>3, <2>4 DEF CheckShared, Contract!Effect, Present, Check, Set,
       Contract!Next, Contract!Check, Contract!Set
<1>5. CASE CheckExclusive(t) /\ Present(t)
  <2>1. t \in pending /\ pending' = pending \ {t}
    BY <1>5 DEF CheckExclusive
  <2>2. verdict' = [verdict EXCEPT ![t] = "seen"]
    BY <1>5 DEF CheckExclusive, Uncounted
  <2>3. Set(bits, request[t].url) = bits
    BY <1>5 DEF Present, Check, Set
  <2> QED
    BY <1>5, <2>1, <2>2, <2>3 DEF CheckExclusive, Contract!Effect, Present, Check, Set,
       Contract!Next, Contract!Check, Contract!Set
<1>6. CASE CheckExclusive(t) /\ ~Present(t)
  <2>1. pending' = pending
    BY <1>6 DEF CheckExclusive
  <2>2. verdict' = verdict
    BY <1>6 DEF CheckExclusive, Uncounted
  <2> QED
    BY <1>6, <2>1, <2>2 DEF CheckExclusive, Contract!vars
<1>7. CASE Insert(t)
  <2>1. t \in pending /\ pending' = pending \ {t}
    BY <1>7 DEF Insert
  <2>2. verdict' = [verdict EXCEPT ![t] = "new"]
    BY <1>7 DEF Insert, Uncounted
  <2>3. request[t].op = "check_and_insert" /\ ~Present(t)
    BY <1>7 DEF Insert, CallInv
  <2> QED
    BY <1>7, <2>1, <2>2, <2>3 DEF Insert, Contract!Effect, Present, Check, Set,
       Contract!Next, Contract!Check, Contract!Set
<1>8. ASSUME NEW r \in Request, Contract!Call(t, r) PROVE Contract!Next
  BY <1>8 DEF Contract!Next, Request, Operation, Contract!Request, Contract!Operation
<1> QED
  BY <1>1, <1>2, <1>3, <1>4, <1>5, <1>6, <1>7, <1>8 DEF ThreadStep, Step

\* The safety part of ImplementsContract: a caller of BloomDedupFilter cannot
\* tell it from a filter whose calls are atomic, as traits::DedupFilter asks.
THEOREM ImplementsContractSafety == Spec => Contract!Spec
<1>1. Init => Contract!Init
  BY ContractInit
<1>2. IInv /\ [Next]_vars => [Contract!Next]_(Contract!vars)
  <2> SUFFICES ASSUME IInv, [Next]_vars PROVE [Contract!Next]_(Contract!vars)
    OBVIOUS
  <2>1. CASE UNCHANGED vars
    BY <2>1 DEF vars, Contract!vars, Uncounted
  <2> QED
    BY <2>1, NextIsThreadStep, ContractStep
<1> QED
  BY <1>1, <1>2, IInvCorrect, PTL DEF Spec, Contract!Spec
=============================================================================
