--------------------------- MODULE ProxyPoolProofs ---------------------------
(***************************************************************************)
(* Proofs about ProxyPool, for any number of threads and proxies, any      *)
(* threshold and any duration of a quarantine.                             *)
(***************************************************************************)
EXTENDS ProxyPool, TLAPS

\* How many steps a scan makes from entry i to entry p.
Distance(i, p) == IF p >= i THEN p - i ELSE p - i + N

\* The places of a scan at which it is looking at an entry.
Scanning(t) == pc[t] \in {"load", "elapsed"} /\ op[t] \in {"find_available_from", "next_random"}

\* What a scan has not seen yet includes everything that was never quarantined
\* since it began, and the entry it found quarantined is none of these.
ScanOK(t) ==
  /\ pc[t] = "advance" => op[t] = "next_round_robin"
  /\ \A p \in steady[t] :
       /\ ~quarantined[p]
       /\ Scanning(t) => Distance(at[t], p) + tried[t] < N
       /\ pc[t] = "elapsed" => p # at[t]

ScanInv == \A t \in Thread : ScanOK(t)

\* What bars a scan from an entry is a quarantine that runs still, and the entry
\* whose quarantine the scan itself takes away is none of these.
BarredOK(t) ==
  /\ barred[t] \subseteq Banned
  /\ pc[t] \in {"lift", "forgive"} => at[t] \notin barred[t]

BarredInv == \A t \in Thread : BarredOK(t)

\* A ban stores the moment before the flag, and no moment is ever removed.
DatedInv == QuarantineIsDated /\ \A t \in Thread : pc[t] = "ban" => since[at[t]] # None

PoolInv ==
  /\ TypeOK
  /\ DatedInv
  /\ FailuresAreConsecutive
  /\ OverThresholdIsHandled
  /\ ScanInv
  /\ BarredInv

-----------------------------------------------------------------------------
\* The ring of entries.
LEMMA Ring ==
  /\ 0 \in Proxy
  /\ \A i \in Proxy : i \in Nat /\ i < N /\ (i + 1) % N \in Proxy
  /\ \A i \in Proxy : (i + 1) % N = IF i + 1 = N THEN 0 ELSE i + 1
<1>1. N \in Nat /\ N >= 1
  BY PoolAssumption
<1>2. ASSUME NEW i \in Proxy PROVE (i + 1) % N = IF i + 1 = N THEN 0 ELSE i + 1
  <2>1. i \in Nat /\ i + 1 <= N
    BY <1>1 DEF Proxy
  <2>2. CASE i + 1 = N
    <3>1. N % N = 0
      BY <1>1
    <3>2. QED BY <2>2, <3>1
  <2>3. CASE i + 1 < N
    BY <1>1, <2>1, <2>3
  <2>4. QED BY <1>1, <2>1, <2>2, <2>3
<1>3. QED BY <1>1, <1>2 DEF Proxy

\* A step along the ring leaves one step less to every other entry.
LEMMA OneStepOn ==
  ASSUME NEW i \in Proxy, NEW p \in Proxy
  PROVE  /\ Distance(i, p) \in 0..(N - 1)
         /\ p # i => Distance((i + 1) % N, p) = Distance(i, p) - 1 /\ Distance(i, p) >= 1
<1>1. N \in Nat /\ N >= 1 /\ i \in 0..(N - 1) /\ p \in 0..(N - 1)
  BY PoolAssumption DEF Proxy
<1>2. (i + 1) % N = IF i + 1 = N THEN 0 ELSE i + 1
  BY Ring
<1>3. QED BY <1>1, <1>2 DEF Distance

\* Counts stop at the limit, and reaching it means reaching the threshold.
LEMMA Counts ==
  /\ Limit \in Nat /\ Limit >= 1
  /\ \A n \in 0..Limit : Cut(n + 1) \in 0..Limit
  /\ \A m, n \in 0..Limit : m <= n => Cut(m + 1) <= Cut(n + 1)
  /\ \A n \in Nat : n >= Threshold \/ n < Limit
BY PoolAssumption DEF Limit, Cut

-----------------------------------------------------------------------------
LEMMA InitPoolInv == Init => PoolInv
<1> SUFFICES ASSUME Init PROVE PoolInv
  OBVIOUS
<1>1. Limit \in Nat /\ Limit >= 1
  BY Counts
<1>2. TypeOK
  BY <1>1, Ring, PoolAssumption DEF Init, TypeOK, PC
<1>3. QED
  BY <1>1, <1>2 DEF Init, PoolInv, DatedInv, QuarantineIsDated, FailuresAreConsecutive,
     OverThresholdIsHandled, ScanInv, ScanOK, BarredInv, BarredOK

\* A call that ends, and a scan that answers.
LEMMA LeaveType ==
  ASSUME TypeOK, NEW t \in Thread, Leave(t)
  PROVE  /\ pc' \in [Thread -> PC] /\ op' \in [Thread -> Operation \cup {"none"}]
         /\ at' \in [Thread -> Proxy] /\ tried' \in [Thread -> 0..(N - 1)]
<1>1. 0 \in Proxy /\ 0 \in 0..(N - 1)
  BY Ring DEF Proxy
<1>2. QED BY <1>1 DEF TypeOK, Leave, Goto, PC

LEMMA AnswerType ==
  ASSUME TypeOK, NEW t \in Thread, NEW v \in Proxy \cup {None, NoAnswer}, Answer(t, v)
  PROVE  /\ pc' \in [Thread -> PC] /\ op' \in [Thread -> Operation \cup {"none"}]
         /\ at' \in [Thread -> Proxy] /\ tried' \in [Thread -> 0..(N - 1)]
         /\ answer' \in [Thread -> Proxy \cup {None, NoAnswer}]
         /\ steady' \in [Thread -> SUBSET Proxy] /\ barred' \in [Thread -> SUBSET Proxy]
<1>1. Leave(t)
  BY DEF Answer
<1>2. /\ answer' \in [Thread -> Proxy \cup {None, NoAnswer}]
      /\ steady' \in [Thread -> SUBSET Proxy] /\ barred' \in [Thread -> SUBSET Proxy]
  BY DEF TypeOK, Answer
<1>3. QED BY <1>1, <1>2, LeaveType

LEMMA NextEntryType ==
  ASSUME TypeOK, NEW t \in Thread, NextEntry(t)
  PROVE  /\ pc' \in [Thread -> PC] /\ op' \in [Thread -> Operation \cup {"none"}]
         /\ at' \in [Thread -> Proxy] /\ tried' \in [Thread -> 0..(N - 1)]
         /\ answer' \in [Thread -> Proxy \cup {None, NoAnswer}]
         /\ steady' \in [Thread -> SUBSET Proxy] /\ barred' \in [Thread -> SUBSET Proxy]
<1>1. N \in Nat /\ N >= 1
  BY PoolAssumption
<1>2. CASE tried[t] + 1 = N
  BY <1>2, AnswerType DEF NextEntry
<1>3. CASE tried[t] + 1 # N
  <2>1. at[t] \in Proxy /\ (at[t] + 1) % N \in Proxy
    BY Ring DEF TypeOK
  <2>2. tried[t] + 1 \in 0..(N - 1)
    BY <1>1, <1>3 DEF TypeOK
  <2>3. tried' = [tried EXCEPT ![t] = @ + 1] /\ UNCHANGED <<op, answer, steady, barred>>
    BY <1>3 DEF NextEntry
  <2>4. at' = at \/ at' = [at EXCEPT ![t] = (@ + 1) % N]
    BY <1>3 DEF NextEntry
  <2>5. pc' = [pc EXCEPT ![t] = "advance"] \/ pc' = [pc EXCEPT ![t] = "load"]
    BY <1>3 DEF NextEntry, Goto
  <2>6. QED BY <2>1, <2>2, <2>3, <2>4, <2>5 DEF TypeOK, PC
<1>4. QED BY <1>2, <1>3

LEMMA FoundType ==
  ASSUME TypeOK, NEW t \in Thread, Found(t)
  PROVE  /\ pc' \in [Thread -> PC] /\ op' \in [Thread -> Operation \cup {"none"}]
         /\ at' \in [Thread -> Proxy] /\ tried' \in [Thread -> 0..(N - 1)]
         /\ answer' \in [Thread -> Proxy \cup {None, NoAnswer}]
         /\ steady' \in [Thread -> SUBSET Proxy] /\ barred' \in [Thread -> SUBSET Proxy]
<1>1. CASE op[t] = "available"
  BY <1>1, NextEntryType DEF Found
<1>2. CASE op[t] # "available"
  BY <1>2, AnswerType DEF TypeOK, Found
<1>3. QED BY <1>1, <1>2

LEMMA TypeStep == TypeOK /\ [Next]_vars => TypeOK'
<1> SUFFICES ASSUME TypeOK, [Next]_vars PROVE TypeOK'
  OBVIOUS
<1> USE DEF TypeOK
<1>0. /\ N \in Nat /\ N >= 1 /\ Duration \in Nat
      /\ 0 \in 0..Duration /\ 0 \in 0..Limit /\ 0 \in 0..(N - 1)
  BY PoolAssumption, Counts
<1>1. ASSUME NEW t \in Thread, Call(t) PROVE TypeOK'
  <2>1. CASE CallNextRoundRobin(t)
    BY <1>0, <2>1 DEF CallNextRoundRobin, BeginScan, Begin, Banned, Goto, PC
  <2>2. CASE CallAvailable(t)
    BY <1>0, <2>2, Ring DEF CallAvailable, BeginScan, Begin, Banned, Goto, PC
  <2>3. ASSUME NEW p \in Proxy, CallNextRandom(t, p) PROVE TypeOK'
    BY <1>0, <2>3, Ring DEF CallNextRandom, BeginScan, Begin, Banned, Goto, PC
  <2>4. ASSUME NEW p \in Proxy, CallFindAvailableFrom(t, p) PROVE TypeOK'
    BY <1>0, <2>4 DEF CallFindAvailableFrom, BeginScan, Begin, Banned, Goto, PC
  <2>5. ASSUME NEW p \in Proxy, RecordSuccess(t, p) PROVE TypeOK'
    BY <1>0, <2>5 DEF RecordSuccess
  <2>6. ASSUME NEW p \in Proxy, RecordFailure(t, p) PROVE TypeOK'
    <3>1. Cut(failures[p] + 1) \in 0..Limit /\ Cut(streak[p] + 1) \in 0..Limit
      BY Counts
    <3>2. QED BY <2>6, <3>1 DEF RecordFailure, Begin, Goto, PC
  <2>7. QED BY <1>1, <2>1, <2>2, <2>3, <2>4, <2>5, <2>6 DEF Call
<1>2. ASSUME NEW t \in Thread, Step(t) PROVE TypeOK'
  <2>1. CASE Advance(t)
    BY <2>1, Ring DEF Advance, Goto, PC
  <2>2. CASE LoadQuarantined(t)
    <3>1. CASE Found(t)
      BY <2>2, <3>1, FoundType DEF LoadQuarantined
    <3>2. CASE ~Found(t)
      BY <2>2, <3>2 DEF LoadQuarantined, Goto, PC
    <3>3. QED BY <3>1, <3>2
  <2>3. CASE CheckElapsed(t)
    <3>1. CASE NextEntry(t)
      BY <2>3, <3>1, NextEntryType DEF CheckElapsed
    <3>2. CASE ~NextEntry(t)
      BY <2>3, <3>2 DEF CheckElapsed, Goto, PC
    <3>3. QED BY <3>1, <3>2
  <2>4. CASE Lift(t)
    <3>1. barred' \in [Thread -> SUBSET Proxy]
      BY <2>4 DEF Lift
    <3>2. QED BY <2>4, <3>1 DEF Lift, Goto, PC
  <2>5. CASE Forgive(t)
    BY <1>0, <2>5, FoundType DEF Forgive
  <2>6. CASE TestQuarantined(t)
    <3>1. CASE quarantined[at[t]]
      BY <2>6, <3>1, LeaveType DEF TestQuarantined
    <3>2. CASE ~quarantined[at[t]]
      BY <2>6, <3>2 DEF TestQuarantined, Goto, PC
    <3>3. QED BY <3>1, <3>2
  <2>7. CASE Sample(t)
    BY <2>7 DEF Sample, Goto, PC
  <2>8. CASE Stamp(t)
    <3>1. barred' \in [Thread -> SUBSET Proxy]
      BY <2>8 DEF Stamp, KeepBarred
    <3>2. QED BY <1>0, <2>8, <3>1 DEF Stamp, Goto, PC
  <2>9. CASE Ban(t)
    BY <1>0, <2>9, Ring DEF Ban, Leave, Goto, PC
  <2>10. QED
    BY <1>2, <2>1, <2>2, <2>3, <2>4, <2>5, <2>6, <2>7, <2>8, <2>9 DEF Step
<1>3. CASE Tick
  <2>1. barred' \in [Thread -> SUBSET Proxy]
    BY <1>3 DEF Tick, KeepBarred
  <2>2. QED BY <1>0, <1>3, <2>1 DEF Tick, Older
<1>4. CASE UNCHANGED vars
  BY <1>4 DEF vars
<1>5. QED BY <1>1, <1>2, <1>3, <1>4 DEF Next

-----------------------------------------------------------------------------
\* A step of one thread leaves the others where they are.
LEMMA ScanMoves ==
  ASSUME TypeOK, NEW t \in Thread, NextEntry(t) \/ Found(t)
  PROVE  /\ \A w \in Thread \ {t} : /\ pc'[w] = pc[w] /\ op'[w] = op[w] /\ at'[w] = at[w]
                                 /\ tried'[w] = tried[w] /\ answer'[w] = answer[w]
                                 /\ steady'[w] = steady[w] /\ barred'[w] = barred[w]
         /\ pc'[t] \in {"idle", "advance", "load"}
         /\ steady'[t] \subseteq steady[t] /\ barred'[t] \subseteq barred[t]
<1> USE DEF TypeOK, Answer, Leave, Goto
<1>1. CASE NextEntry(t)
  <2>1. CASE tried[t] + 1 = N
    BY <1>1, <2>1 DEF NextEntry
  <2>2. CASE tried[t] + 1 # N
    BY <1>1, <2>2 DEF NextEntry
  <2>3. QED BY <2>1, <2>2
<1>2. CASE Found(t) /\ ~NextEntry(t)
  BY <1>2 DEF Found
<1>3. QED BY <1>1, <1>2

LEMMA OtherThreads ==
  ASSUME TypeOK, NEW t \in Thread, Call(t) \/ Step(t)
  PROVE  \A w \in Thread \ {t} : /\ pc'[w] = pc[w] /\ op'[w] = op[w] /\ at'[w] = at[w]
                              /\ tried'[w] = tried[w] /\ answer'[w] = answer[w]
                              /\ steady'[w] \subseteq steady[w]
<1>1. CASE Call(t)
  BY <1>1 DEF TypeOK, Call, CallNextRoundRobin, CallAvailable, CallNextRandom,
     CallFindAvailableFrom, RecordSuccess, RecordFailure, BeginScan, Begin, Goto
<1>2. CASE LoadQuarantined(t)
  <2>1. CASE Found(t)
    BY <2>1, ScanMoves
  <2>2. CASE ~Found(t)
    BY <1>2, <2>2 DEF TypeOK, LoadQuarantined, Goto
  <2>3. QED BY <2>1, <2>2
<1>3. CASE CheckElapsed(t)
  <2>1. CASE NextEntry(t)
    BY <2>1, ScanMoves
  <2>2. CASE ~NextEntry(t)
    BY <1>3, <2>2 DEF TypeOK, CheckElapsed, Goto
  <2>3. QED BY <2>1, <2>2
<1>4. CASE Forgive(t)
  BY <1>4, ScanMoves DEF Forgive
<1>5. CASE Advance(t) \/ Lift(t) \/ TestQuarantined(t) \/ Sample(t) \/ Stamp(t) \/ Ban(t)
  BY <1>5 DEF TypeOK, Advance, Lift, TestQuarantined, Sample, Stamp, Ban, Leave, Goto
<1>6. QED BY <1>1, <1>2, <1>3, <1>4, <1>5 DEF Step

\* What the calls and the scan's own moves leave alone.
LEMMA CallEffect ==
  ASSUME TypeOK, NEW t \in Thread, Call(t)
  PROVE  /\ UNCHANGED <<quarantined, since>>
         /\ pc[t] = "idle" /\ pc'[t] \in {"idle", "advance", "load", "test"}
BY DEF TypeOK, Call, CallNextRoundRobin, CallAvailable, CallNextRandom,
   CallFindAvailableFrom, RecordSuccess, RecordFailure, BeginScan, Begin, Goto

-----------------------------------------------------------------------------
LEMMA DatedStep == TypeOK /\ DatedInv /\ [Next]_vars => DatedInv'
<1> SUFFICES ASSUME TypeOK, DatedInv, [Next]_vars PROVE DatedInv'
  OBVIOUS
<1> USE DEF DatedInv, QuarantineIsDated
<1>a. \A n \in 0..Duration : n # None
  BY PoolAssumption
<1>1. ASSUME NEW t \in Thread, Call(t) PROVE DatedInv'
  <2>1. \A w \in Thread : pc'[w] = "ban" => pc[w] = "ban" /\ at'[w] = at[w]
    BY <1>1, CallEffect, OtherThreads
  <2>2. QED BY <1>1, <2>1, CallEffect
<1>2. ASSUME NEW t \in Thread, Step(t) PROVE DatedInv'
  <2>0. \A w \in Thread \ {t} : pc'[w] = pc[w] /\ at'[w] = at[w]
    BY <1>2, OtherThreads
  <2>1. CASE LoadQuarantined(t) \/ CheckElapsed(t) \/ Forgive(t)
    <3>1. pc'[t] # "ban" /\ UNCHANGED <<quarantined, since>>
      BY <2>1, ScanMoves DEF TypeOK, LoadQuarantined, CheckElapsed, Forgive, Goto
    <3>2. QED BY <2>0, <3>1
  <2>2. CASE Advance(t) \/ TestQuarantined(t) \/ Sample(t)
    <3>1. pc'[t] # "ban" /\ UNCHANGED <<quarantined, since>>
      BY <2>2 DEF TypeOK, Advance, TestQuarantined, Sample, Leave, Goto
    <3>2. QED BY <2>0, <3>1
  <2>3. CASE Lift(t)
    <3>1. pc'[t] # "ban" /\ since' = since /\ \A p \in Proxy : quarantined'[p] => quarantined[p]
      BY <2>3 DEF TypeOK, Lift, Goto
    <3>2. QED BY <2>0, <3>1
  <2>4. CASE Stamp(t)
    <3>1. /\ at' = at /\ quarantined' = quarantined
          /\ since' = [since EXCEPT ![at[t]] = stamp[t]] /\ stamp[t] # None
      BY <1>a, <2>4 DEF TypeOK, Stamp
    <3>2. since'[at[t]] # None /\ \A p \in Proxy : since[p] # None => since'[p] # None
      BY <3>1 DEF TypeOK
    <3>3. QED BY <2>0, <3>1, <3>2 DEF TypeOK
  <2>5. CASE Ban(t)
    <3>1. /\ pc'[t] # "ban" /\ since' = since /\ since[at[t]] # None
          /\ quarantined' = [quarantined EXCEPT ![at[t]] = TRUE]
      BY <2>5 DEF TypeOK, Ban, Leave, Goto
    <3>2. QED BY <2>0, <3>1 DEF TypeOK
  <2>6. QED BY <1>2, <2>1, <2>2, <2>3, <2>4, <2>5 DEF Step
<1>3. CASE Tick
  <2>1. \A p \in Proxy : since[p] # None => since'[p] # None
    <3>1. \A n \in 0..Duration : Older(n) \in 0..Duration
      BY PoolAssumption DEF Older
    <3>2. QED BY <1>3, <1>a, <3>1 DEF Tick, TypeOK
  <2>2. UNCHANGED <<quarantined, pc, at>>
    BY <1>3 DEF Tick
  <2>3. QED BY <2>1, <2>2 DEF TypeOK
<1>4. CASE UNCHANGED vars
  BY <1>4 DEF vars
<1>5. QED BY <1>1, <1>2, <1>3, <1>4 DEF Next

\* Counts and streaks rise together, and no streak is forgiven that the count is
\* not.
LEMMA ConsecutiveStep == TypeOK /\ FailuresAreConsecutive /\ [Next]_vars => FailuresAreConsecutive'
<1> SUFFICES ASSUME TypeOK, FailuresAreConsecutive, [Next]_vars PROVE FailuresAreConsecutive'
  OBVIOUS
<1> USE DEF FailuresAreConsecutive
<1>0. \A p \in Proxy : streak[p] \in Nat
  BY Counts DEF TypeOK
<1>1. ASSUME NEW t \in Thread, NEW p \in Proxy, RecordFailure(t, p)
      PROVE  FailuresAreConsecutive'
  <2>1. Cut(failures[p] + 1) <= Cut(streak[p] + 1)
    BY Counts DEF TypeOK
  <2>2. QED BY <1>1, <2>1 DEF TypeOK, RecordFailure
<1>2. ASSUME NEW t \in Thread, NEW p \in Proxy, RecordSuccess(t, p)
      PROVE  FailuresAreConsecutive'
  BY <1>2 DEF TypeOK, RecordSuccess
<1>3. ASSUME NEW t \in Thread, Forgive(t) PROVE FailuresAreConsecutive'
  BY <1>0, <1>3 DEF TypeOK, Forgive
<1>4. ASSUME NEW t \in Thread, Call(t), \A p \in Proxy : ~RecordFailure(t, p) /\ ~RecordSuccess(t, p)
      PROVE  FailuresAreConsecutive'
  BY <1>4 DEF Call, CallNextRoundRobin, CallAvailable, CallNextRandom, CallFindAvailableFrom
<1>5. ASSUME NEW t \in Thread, Step(t), ~Forgive(t) PROVE FailuresAreConsecutive'
  BY <1>5 DEF Step, Advance, LoadQuarantined, CheckElapsed, Lift, TestQuarantined, Sample,
     Stamp, Ban
<1>6. CASE Tick \/ UNCHANGED vars
  BY <1>6 DEF Tick, vars
<1>7. QED BY <1>1, <1>2, <1>3, <1>4, <1>5, <1>6 DEF Next

\* Who raises a count to the limit goes on to quarantine the proxy, and who takes
\* a quarantine away goes on to forgive.
Handles(w, p) == at[w] = p /\ pc[w] \in {"test", "sample", "stamp", "ban", "forgive"}

LEMMA OverThresholdStep ==
  TypeOK /\ OverThresholdIsHandled /\ [Next]_vars => OverThresholdIsHandled'
<1> SUFFICES ASSUME TypeOK, OverThresholdIsHandled, [Next]_vars,
                    NEW p \in Proxy, failures'[p] = Limit, ~quarantined'[p]
             PROVE  \E w \in Thread : Handles(w, p)'
  BY DEF OverThresholdIsHandled, Handles
<1>0. Limit \in Nat /\ Limit >= 1 /\ Limit >= Threshold
  BY Counts
<1>a. failures[p] = Limit /\ ~quarantined[p] => \E w \in Thread : Handles(w, p)
  BY DEF OverThresholdIsHandled, Handles
<1>b. ASSUME NEW t \in Thread, Call(t) \/ Step(t), NEW w \in Thread, Handles(w, p), w # t
      PROVE  Handles(w, p)'
  BY <1>b, OtherThreads DEF Handles
<1>1. ASSUME NEW t \in Thread, NEW q \in Proxy, RecordFailure(t, q)
      PROVE  \E w \in Thread : Handles(w, p)'
  <2>0. Call(t) /\ pc[t] = "idle" /\ quarantined' = quarantined
    BY <1>1 DEF Call, RecordFailure
  <2>1. CASE q = p
    <3>1. Cut(failures[p] + 1) = Limit
      BY <1>1, <2>1 DEF TypeOK, RecordFailure
    <3>2. pc'[t] = "test" /\ at'[t] = p
      BY <1>0, <1>1, <2>1, <3>1 DEF TypeOK, RecordFailure, Begin, Goto
    <3>3. QED BY <3>2 DEF Handles
  <2>2. CASE q # p
    <3>1. failures[p] = Limit
      BY <1>1, <2>2 DEF TypeOK, RecordFailure
    <3>2. QED BY <1>a, <1>b, <2>0, <3>1 DEF Handles
  <2>3. QED BY <2>1, <2>2
<1>2. ASSUME NEW t \in Thread, NEW q \in Proxy, RecordSuccess(t, q)
      PROVE  \E w \in Thread : Handles(w, p)'
  BY <1>0, <1>a, <1>2 DEF TypeOK, RecordSuccess, Handles
<1>3. ASSUME NEW t \in Thread, Call(t), \A q \in Proxy : ~RecordFailure(t, q) /\ ~RecordSuccess(t, q)
      PROVE  \E w \in Thread : Handles(w, p)'
  <2>1. failures' = failures /\ quarantined' = quarantined /\ pc[t] = "idle"
    BY <1>3, CallEffect
       DEF Call, CallNextRoundRobin, CallAvailable, CallNextRandom, CallFindAvailableFrom
  <2>2. QED BY <1>3, <1>a, <1>b, <2>1 DEF Handles
<1>4. ASSUME NEW t \in Thread, Step(t) PROVE \E w \in Thread : Handles(w, p)'
  <2>1. CASE Advance(t) \/ LoadQuarantined(t) \/ CheckElapsed(t)
    <3>1. /\ UNCHANGED <<failures, quarantined>> /\ pc[t] \in {"advance", "load", "elapsed"}
      BY <2>1 DEF Advance, LoadQuarantined, CheckElapsed
    <3>2. QED BY <1>4, <1>a, <1>b, <3>1 DEF Handles
  <2>2. CASE Lift(t)
    <3>1. at'[t] = at[t] /\ pc'[t] = "forgive" /\ pc[t] = "lift" /\ failures' = failures
          /\ quarantined' = [quarantined EXCEPT ![at[t]] = FALSE]
      BY <2>2 DEF TypeOK, Lift, Goto
    <3>2. QED BY <1>4, <1>a, <1>b, <3>1 DEF TypeOK, Handles
  <2>3. CASE Forgive(t)
    <3>1. failures' = [failures EXCEPT ![at[t]] = 0] /\ quarantined' = quarantined
      BY <2>3 DEF Forgive
    <3>2. at[t] # p /\ failures[p] = Limit
      BY <1>0, <3>1 DEF TypeOK
    <3>3. QED BY <1>4, <1>a, <1>b, <3>1, <3>2 DEF Handles
  <2>4. CASE TestQuarantined(t)
    <3>1. /\ UNCHANGED <<failures, quarantined>>
          /\ ~quarantined[at[t]] => at'[t] = at[t] /\ pc'[t] = "sample"
      BY <2>4 DEF TypeOK, TestQuarantined, Goto
    <3>2. QED BY <1>4, <1>a, <1>b, <3>1 DEF Handles
  <2>5. CASE Sample(t) \/ Stamp(t)
    <3>1. /\ UNCHANGED <<failures, quarantined>>
          /\ at'[t] = at[t] /\ pc'[t] \in {"stamp", "ban"}
      BY <2>5 DEF TypeOK, Sample, Stamp, Goto
    <3>2. QED BY <1>4, <1>a, <1>b, <3>1 DEF Handles
  <2>6. CASE Ban(t)
    <3>1. failures' = failures /\ quarantined' = [quarantined EXCEPT ![at[t]] = TRUE]
      BY <2>6 DEF Ban
    <3>2. at[t] # p /\ ~quarantined[p]
      BY <3>1 DEF TypeOK
    <3>3. QED BY <1>4, <1>a, <1>b, <3>1, <3>2 DEF Handles
  <2>7. QED BY <1>4, <2>1, <2>2, <2>3, <2>4, <2>5, <2>6 DEF Step
<1>5. CASE Tick \/ UNCHANGED vars
  BY <1>5, <1>a DEF Tick, vars, Handles
<1>6. QED BY <1>1, <1>2, <1>3, <1>4, <1>5 DEF Next

-----------------------------------------------------------------------------
\* A scan that gives up on a quarantined entry has one entry less to see.
LEMMA NextEntryScan ==
  ASSUME TypeOK, NEW t \in Thread, ScanOK(t), NextEntry(t),
         op[t] \in {"find_available_from", "next_random"} => pc[t] = "elapsed",
         quarantined' = quarantined
  PROVE  ScanOK(t)'
<1>1. CASE tried[t] + 1 = N
  BY <1>1 DEF TypeOK, ScanOK, NextEntry, Answer, Leave, Goto
<1>2. CASE tried[t] + 1 # N /\ op[t] = "next_round_robin"
  BY <1>2 DEF TypeOK, ScanOK, NextEntry, Goto, Scanning
<1>3. CASE tried[t] + 1 # N /\ op[t] # "next_round_robin"
  <2>1. /\ tried'[t] = tried[t] + 1 /\ pc'[t] = "load" /\ op' = op
        /\ at'[t] = (at[t] + 1) % N /\ steady' = steady
    BY <1>3 DEF TypeOK, NextEntry, Goto
  <2>2. ASSUME op[t] \in {"find_available_from", "next_random"}, NEW p \in steady[t]
        PROVE  Distance(at'[t], p) + tried'[t] < N
    <3>1. at[t] \in Proxy /\ p \in Proxy /\ tried[t] \in Nat /\ N \in Nat /\ p # at[t]
      BY <2>2, PoolAssumption DEF TypeOK, ScanOK
    <3>2. Distance(at[t], p) + tried[t] < N
      BY <2>2 DEF ScanOK, Scanning
    <3>3. /\ Distance(at[t], p) \in 0..(N - 1)
          /\ Distance((at[t] + 1) % N, p) = Distance(at[t], p) - 1
      BY <3>1, OneStepOn
    <3>4. QED BY <2>1, <3>1, <3>2, <3>3
  <2>3. QED BY <2>1, <2>2 DEF ScanOK, Scanning
<1>4. QED BY <1>1, <1>2, <1>3

LEMMA FoundScan ==
  ASSUME TypeOK, NEW t \in Thread, ScanOK(t), Found(t), quarantined' = quarantined
  PROVE  ScanOK(t)'
<1>1. CASE op[t] = "available"
  BY <1>1, NextEntryScan DEF Found
<1>2. CASE op[t] # "available"
  BY <1>2 DEF TypeOK, ScanOK, Found, Answer, Leave, Goto
<1>3. QED BY <1>1, <1>2

\* A scan that begins has everything before it.
LEMMA BeginScanOK ==
  ASSUME TypeOK, NEW t \in Thread, NEW operation, NEW where \in {"advance", "load"},
         BeginScan(t, operation, where), at'[t] \in Proxy, quarantined' = quarantined,
         where = "advance" => operation = "next_round_robin"
  PROVE  ScanOK(t)'
<1>1. /\ tried'[t] = 0 /\ pc'[t] = where /\ op'[t] = operation
      /\ steady'[t] = {p \in Proxy : ~quarantined[p]}
  BY DEF TypeOK, BeginScan, Begin, Goto
<1>2. \A p \in Proxy : Distance(at'[t], p) \in 0..(N - 1)
  BY OneStepOn
<1>3. \A p \in Proxy : Distance(at'[t], p) + tried'[t] < N
  BY <1>1, <1>2, PoolAssumption
<1>4. QED BY <1>1, <1>3 DEF ScanOK

LEMMA ScanStep == TypeOK /\ ScanInv /\ [Next]_vars => ScanInv'
<1> SUFFICES ASSUME TypeOK, ScanInv, [Next]_vars, NEW w \in Thread PROVE ScanOK(w)'
  BY DEF ScanInv
<1>0. \A t \in Thread : ScanOK(t)
  BY DEF ScanInv
<1>1. ASSUME NEW t \in Thread, Call(t) \/ Step(t), t # w PROVE ScanOK(w)'
  <2>1. /\ pc'[w] = pc[w] /\ op'[w] = op[w] /\ at'[w] = at[w] /\ tried'[w] = tried[w]
        /\ steady'[w] \subseteq steady[w]
    BY <1>1, OtherThreads
  <2>2. \A p \in steady'[w] : ~quarantined'[p]
    <3>1. CASE Ban(t)
      BY <1>0, <3>1 DEF TypeOK, Ban, ScanOK
    <3>2. CASE Lift(t)
      BY <1>0, <2>1, <3>2 DEF TypeOK, Lift, ScanOK
    <3>3. CASE ~Ban(t) /\ ~Lift(t)
      <4>1. quarantined' = quarantined
        BY <1>1, <3>3, CallEffect
           DEF Step, Advance, LoadQuarantined, CheckElapsed, Forgive, TestQuarantined,
               Sample, Stamp
      <4>2. QED BY <1>0, <2>1, <4>1 DEF ScanOK
    <3>4. QED BY <3>1, <3>2, <3>3
  <2>3. QED BY <1>0, <2>1, <2>2 DEF ScanOK, Scanning
<1>2. ASSUME Call(w) PROVE ScanOK(w)'
  <2>1. CASE CallNextRoundRobin(w)
    BY <2>1, BeginScanOK DEF CallNextRoundRobin, TypeOK
  <2>2. CASE CallAvailable(w)
    BY <2>2, BeginScanOK, Ring DEF CallAvailable, TypeOK
  <2>3. ASSUME NEW p \in Proxy, CallNextRandom(w, p) PROVE ScanOK(w)'
    BY <2>3, BeginScanOK DEF CallNextRandom, TypeOK
  <2>4. ASSUME NEW p \in Proxy, CallFindAvailableFrom(w, p) PROVE ScanOK(w)'
    BY <2>4, BeginScanOK DEF CallFindAvailableFrom, TypeOK
  <2>5. ASSUME NEW p \in Proxy, RecordSuccess(w, p) PROVE ScanOK(w)'
    BY <1>0, <2>5 DEF RecordSuccess, ScanOK, Scanning
  <2>6. ASSUME NEW p \in Proxy, RecordFailure(w, p) PROVE ScanOK(w)'
    BY <1>0, <2>6 DEF TypeOK, RecordFailure, Begin, Goto, ScanOK, Scanning
  <2>7. QED BY <1>2, <2>1, <2>2, <2>3, <2>4, <2>5, <2>6 DEF Call
<1>3. ASSUME Step(w) PROVE ScanOK(w)'
  <2>1. CASE Advance(w)
    BY <1>0, <2>1 DEF TypeOK, Advance, Goto, ScanOK, Scanning
  <2>2. CASE LoadQuarantined(w)
    <3>1. CASE Found(w)
      BY <1>0, <2>2, <3>1, FoundScan DEF LoadQuarantined
    <3>2. CASE ~Found(w)
      BY <1>0, <2>2, <3>2 DEF TypeOK, LoadQuarantined, Goto, ScanOK, Scanning
    <3>3. QED BY <3>1, <3>2
  <2>3. CASE CheckElapsed(w)
    <3>1. CASE NextEntry(w)
      BY <1>0, <2>3, <3>1, NextEntryScan DEF CheckElapsed
    <3>2. CASE ~NextEntry(w)
      BY <1>0, <2>3, <3>2 DEF TypeOK, CheckElapsed, Goto, ScanOK, Scanning
    <3>3. QED BY <3>1, <3>2
  <2>4. CASE Lift(w)
    BY <1>0, <2>4 DEF TypeOK, Lift, Goto, ScanOK, Scanning
  <2>5. CASE Forgive(w)
    BY <1>0, <2>5, FoundScan DEF Forgive
  <2>6. CASE TestQuarantined(w) \/ Sample(w) \/ Stamp(w)
    BY <1>0, <2>6
       DEF TypeOK, TestQuarantined, Sample, Stamp, Leave, Goto, ScanOK, Scanning
  <2>7. CASE Ban(w)
    BY <1>0, <2>7 DEF TypeOK, Ban, Leave, Goto, ScanOK, Scanning
  <2>8. QED BY <1>3, <2>1, <2>2, <2>3, <2>4, <2>5, <2>6, <2>7 DEF Step
<1>4. CASE Tick \/ UNCHANGED vars
  BY <1>0, <1>4 DEF Tick, vars, ScanOK, Scanning
<1>5. QED BY <1>1, <1>2, <1>3, <1>4 DEF Next

-----------------------------------------------------------------------------
\* No step but those of the clock, a moment, a release or a ban says anything new
\* about which quarantines run.
LEMMA BarredStep == TypeOK /\ BarredInv /\ [Next]_vars => BarredInv'
<1> SUFFICES ASSUME TypeOK, BarredInv, [Next]_vars, NEW w \in Thread PROVE BarredOK(w)'
  BY DEF BarredInv
<1>0. BarredOK(w)
  BY DEF BarredInv
<1>1. ASSUME NEW t \in Thread, Call(t) PROVE BarredOK(w)'
  <2>1. Banned' = Banned
    BY <1>1, CallEffect DEF Banned
  <2>2. barred'[w] = barred[w] \/ barred'[w] = Banned
    BY <1>1 DEF TypeOK, Call, CallNextRoundRobin, CallAvailable, CallNextRandom,
       CallFindAvailableFrom, RecordSuccess, RecordFailure, BeginScan
  <2>3. CASE w = t
    <3>1. pc'[w] \notin {"lift", "forgive"}
      BY <1>1, <2>3, CallEffect
    <3>2. QED BY <1>0, <2>1, <2>2, <3>1 DEF BarredOK
  <2>4. CASE w # t
    <3>1. pc'[w] = pc[w] /\ at'[w] = at[w]
      BY <1>1, <2>4, OtherThreads
    <3>2. barred'[w] = barred[w]
      BY <1>1, <2>4 DEF TypeOK, Call, CallNextRoundRobin, CallAvailable, CallNextRandom,
         CallFindAvailableFrom, RecordSuccess, RecordFailure, BeginScan
    <3>3. QED BY <1>0, <2>1, <3>1, <3>2 DEF BarredOK
  <2>5. QED BY <2>3, <2>4
<1>2. ASSUME NEW t \in Thread, Step(t) PROVE BarredOK(w)'
  <2>0. w # t => pc'[w] = pc[w] /\ at'[w] = at[w]
    BY <1>2, OtherThreads
  <2>1. CASE \/ LoadQuarantined(t) /\ Found(t)
             \/ CheckElapsed(t) /\ NextEntry(t)
             \/ Forgive(t)
    <3>1. barred'[w] \subseteq barred[w] /\ (w = t => pc'[w] \notin {"lift", "forgive"})
      BY <2>1, ScanMoves DEF Forgive
    <3>2. Banned' = Banned
      BY <2>1 DEF LoadQuarantined, CheckElapsed, Forgive, Banned
    <3>3. QED BY <1>0, <2>0, <3>1, <3>2 DEF BarredOK
  <2>2. CASE LoadQuarantined(t) /\ ~Found(t)
    <3>1. barred' = barred /\ pc'[t] = "elapsed" /\ Banned' = Banned
      BY <2>2 DEF TypeOK, LoadQuarantined, Goto, Banned
    <3>2. QED BY <1>0, <2>0, <3>1 DEF BarredOK
  <2>3. CASE CheckElapsed(t) /\ ~NextEntry(t)
    <3>1. barred' = barred /\ at' = at /\ Banned' = Banned /\ at[t] \notin Banned
      BY <2>3 DEF TypeOK, CheckElapsed, Goto, Banned
    <3>2. QED BY <1>0, <2>0, <3>1 DEF BarredOK
  <2>4. CASE Lift(t)
    <3>1. /\ quarantined' = [quarantined EXCEPT ![at[t]] = FALSE]
          /\ since' = since /\ at' = at /\ pc[t] = "lift"
          /\ barred'[w] = IF w = t THEN barred[t] ELSE barred[w] \ {at[t]}
      BY <2>4 DEF Lift
    <3>2. at[t] \notin barred'[w] /\ barred'[w] \subseteq barred[w]
      BY <1>0, <3>1 DEF BarredOK
    <3>3. \A p \in Banned : p # at[t] => p \in Banned'
      BY <3>1 DEF TypeOK, Banned
    <3>4. barred'[w] \subseteq Banned'
      BY <1>0, <3>2, <3>3 DEF BarredOK
    <3>5. QED BY <1>0, <2>0, <3>1, <3>2, <3>4 DEF BarredOK
  <2>5. CASE Stamp(t)
    <3>1. barred'[w] = barred[w] \cap Banned' /\ pc'[t] = "ban"
      BY <2>5 DEF TypeOK, Stamp, KeepBarred, Goto
    <3>2. QED BY <1>0, <2>0, <3>1 DEF BarredOK
  <2>6. CASE Ban(t)
    <3>1. barred' = barred /\ pc'[t] = "idle" /\ since' = since
          /\ quarantined' = [quarantined EXCEPT ![at[t]] = TRUE]
      BY <2>6 DEF TypeOK, Ban, Leave, Goto
    <3>2. Banned \subseteq Banned'
      BY <3>1 DEF TypeOK, Banned
    <3>3. QED BY <1>0, <2>0, <3>1, <3>2 DEF BarredOK
  <2>7. CASE Advance(t) \/ TestQuarantined(t) \/ Sample(t)
    <3>1. barred' = barred /\ pc'[t] \notin {"lift", "forgive"} /\ Banned' = Banned
      BY <2>7 DEF TypeOK, Advance, TestQuarantined, Sample, Leave, Goto, Banned
    <3>2. QED BY <1>0, <2>0, <3>1 DEF BarredOK
  <2>8. QED
    BY <1>2, <2>1, <2>2, <2>3, <2>4, <2>5, <2>6, <2>7 DEF Step
<1>3. CASE Tick
  <2>1. barred'[w] = barred[w] \cap Banned' /\ UNCHANGED <<pc, at>>
    BY <1>3 DEF Tick, KeepBarred
  <2>2. QED BY <1>0, <2>1 DEF BarredOK
<1>4. CASE UNCHANGED vars
  BY <1>0, <1>4 DEF vars, BarredOK, Banned
<1>5. QED BY <1>1, <1>2, <1>3, <1>4 DEF Next

-----------------------------------------------------------------------------
\* The inductive invariant, for any number of threads and proxies (proxy.rs:31-246).
THEOREM PoolInvariant == Spec => []PoolInv
<1>1. Init => PoolInv
  BY InitPoolInv
<1>2. PoolInv /\ [Next]_vars => PoolInv'
  BY TypeStep, DatedStep, ConsecutiveStep, OverThresholdStep, ScanStep, BarredStep
     DEF PoolInv
<1>3. QED BY <1>1, <1>2, PTL DEF Spec

\* Every variable keeps its type: no scan leaves the ring of entries.
THEOREM TypeCorrect == Spec => []TypeOK
<1>1. PoolInv => TypeOK
  BY DEF PoolInv
<1>2. QED BY <1>1, PoolInvariant, PTL

\* No proxy is banned without the moment that lets its ban expire.
THEOREM BansAreDated == Spec => []QuarantineIsDated
<1>1. PoolInv => QuarantineIsDated
  BY DEF PoolInv, DatedInv
<1>2. QED BY <1>1, PoolInvariant, PTL

\* No proxy is banned without failure_threshold failures in a row.
THEOREM BansAreEarned == Spec => []FailuresAreConsecutive
<1>1. PoolInv => FailuresAreConsecutive
  BY DEF PoolInv
<1>2. QED BY <1>1, PoolInvariant, PTL

\* No proxy over the threshold stays in service unnoticed.
THEOREM BansAreMade == Spec => []OverThresholdIsHandled
<1>1. PoolInv => OverThresholdIsHandled
  BY DEF PoolInv
<1>2. QED BY <1>1, PoolInvariant, PTL

\* The step in which a scan answers None is that of giving up on the last entry.
LEMMA NoneStep ==
  ASSUME PoolInv, [Next]_vars, NEW t \in Thread,
         op[t] \in {"find_available_from", "next_random"}, answer[t] # None, answer'[t] = None
  PROVE  steady[t] = {}
<1> USE PoolAssumption DEF PoolInv, TypeOK, Answer, Leave, Goto
<1>0. \A p \in Proxy : p # None
  BY Ring
<1>1. ASSUME NEW w \in Thread, Call(w) \/ Step(w), w # t PROVE FALSE
  BY <1>1, OtherThreads
<1>2. ~Call(t)
  BY DEF Call, CallNextRoundRobin, CallAvailable, CallNextRandom, CallFindAvailableFrom,
     RecordSuccess, RecordFailure, BeginScan
<1>3. ASSUME Found(t) PROVE FALSE
  BY <1>0, <1>3 DEF Found
<1>4. ASSUME Step(t) PROVE CheckElapsed(t) /\ NextEntry(t)
  BY <1>3, <1>4 DEF Step, Advance, LoadQuarantined, CheckElapsed, Lift, Forgive,
     TestQuarantined, Sample, Stamp, Ban
<1>5. CASE CheckElapsed(t) /\ NextEntry(t)
  <2>1. tried[t] + 1 = N /\ pc[t] = "elapsed"
    BY <1>5 DEF NextEntry, CheckElapsed
  <2>2. ASSUME NEW p \in steady[t] PROVE FALSE
    <3>1. p # at[t] /\ Distance(at[t], p) + tried[t] < N
      BY <2>1 DEF ScanInv, ScanOK, Scanning
    <3>2. Distance(at[t], p) >= 1 /\ Distance(at[t], p) \in 0..(N - 1)
      BY <3>1, OneStepOn
    <3>3. QED BY <2>1, <3>1, <3>2
  <2>3. QED BY <2>2
<1>6. CASE Tick \/ UNCHANGED vars
  BY <1>6 DEF Tick, vars
<1>7. QED BY <1>1, <1>2, <1>4, <1>5, <1>6 DEF Next

\* A scan from a fixed start answers None only if no proxy was available during
\* the whole call, whatever other threads ban and release meanwhile.
THEOREM NoneIsRight == Spec => NoneMeansNoneSteady
<1>1. PoolInv /\ [Next]_vars =>
        [\A t \in Thread :
           op[t] \in {"find_available_from", "next_random"} /\ answer[t] # None
             /\ answer'[t] = None => steady[t] = {}]_vars
  BY NoneStep
<1>2. QED BY <1>1, PoolInvariant, PTL DEF Spec, NoneMeansNoneSteady

\* A scan answers the entry it is at, whose flag it has just read, or whose
\* quarantine it has just taken away.
LEMMA ServeStep ==
  ASSUME PoolInv, [Next]_vars, NEW t \in Thread, answer[t] = NoAnswer, answer'[t] \in Proxy
  PROVE  answer'[t] \notin barred[t]
<1> USE DEF PoolInv, TypeOK
<1>0. None \notin Proxy /\ NoAnswer \notin Proxy
  BY Ring, PoolAssumption
<1>1. ASSUME NEW w \in Thread, Call(w) \/ Step(w), w # t PROVE FALSE
  BY <1>0, <1>1, OtherThreads
<1>2. ~Call(t)
  BY <1>0 DEF Call, CallNextRoundRobin, CallAvailable, CallNextRandom,
     CallFindAvailableFrom, RecordSuccess, RecordFailure, BeginScan
<1>3. ~NextEntry(t)
  BY <1>0 DEF NextEntry, Answer
<1>4. ASSUME Found(t) PROVE answer'[t] = at[t]
  BY <1>3, <1>4 DEF Found, Answer
<1>5. ASSUME Step(t)
      PROVE  Found(t) /\ (Forgive(t) \/ (LoadQuarantined(t) /\ ~quarantined[at[t]]))
  BY <1>0, <1>3, <1>5
     DEF Step, Advance, LoadQuarantined, CheckElapsed, Lift, Forgive, TestQuarantined, Sample,
         Stamp, Ban, Leave
<1>6. CASE Step(t)
  <2>1. answer'[t] = at[t] /\ BarredOK(t)
    BY <1>4, <1>5, <1>6 DEF BarredInv
  <2>2. CASE Forgive(t)
    BY <2>1, <2>2 DEF Forgive, BarredOK
  <2>3. CASE ~quarantined[at[t]]
    BY <2>1, <2>3 DEF BarredOK, Banned
  <2>4. QED BY <1>5, <1>6, <2>2, <2>3
<1>7. CASE Tick \/ UNCHANGED vars
  BY <1>0, <1>7 DEF Tick, vars
<1>8. QED BY <1>1, <1>2, <1>6, <1>7 DEF Next

\* A scan of any rotation never answers a proxy that was banned all along, whatever
\* other threads ban and release meanwhile and whenever the clock ticks.
THEOREM BannedStayOut == Spec => BannedAreNotServed
<1>1. PoolInv /\ [Next]_vars =>
        [\A t \in Thread :
           answer[t] = NoAnswer /\ answer'[t] \in Proxy => answer'[t] \notin barred[t]]_vars
  BY ServeStep
<1>2. QED BY <1>1, PoolInvariant, PTL DEF Spec, BannedAreNotServed
=============================================================================
