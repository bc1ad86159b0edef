-------------------------- MODULE HttpFetcherProofs --------------------------
(***************************************************************************)
(* Proofs about HttpFetcher, for any number of tasks, proxies and domains, *)
(* any hash of the domains and any network.                                *)
(***************************************************************************)
EXTENDS HttpFetcher, ProxyPoolProofs

\* The places of select_proxy and of a ban in the pool.
Looking == {"load", "elapsed", "lift", "forgive"}
Banning == {"test", "sample", "stamp", "ban"}

\* A fetch is inside the pool exactly while it selects or records.
StageOK(t) ==
  /\ stage[t] = "selecting" => op[t] = "find_available_from" /\ pc[t] \in Looking
  /\ stage[t] = "recording" => pc[t] \in Banning
  /\ stage[t] \in {"idle", "sending", "reading"} => pc[t] = "idle"

\* A selection is as far from the domain's own proxy as it has given up entries,
\* and nothing that was never quarantined since it began lies behind it.
SelectOK(t) ==
  stage[t] = "selecting" =>
    /\ Distance(Home[domain[t]], at[t]) = tried[t]
    /\ \A p \in steady[t] : Distance(Home[domain[t]], p) >= tried[t]

\* No healthy proxy is banned, and no ban of one is under way.
HealthyInv ==
  \A p \in Healthy : /\ ~quarantined[p]
                     /\ \A t \in Thread : pc[t] \in Banning => at[t] # p

FetchInv ==
  /\ PoolInv
  /\ FetchTypeOK
  /\ \A t \in Thread : StageOK(t)
  /\ \A t \in Thread : SelectOK(t)
  /\ HealthyInv

-----------------------------------------------------------------------------
\* Two entries at one distance from a third are the same, and the next entry is
\* one further unless the ring is closed.
LEMMA OneStepAway ==
  ASSUME NEW h \in Proxy, NEW i \in Proxy, NEW p \in Proxy
  PROVE  /\ Distance(h, p) \in 0..(N - 1) /\ Distance(h, h) = 0
         /\ Distance(h, i) = Distance(h, p) => i = p
         /\ Distance(h, i) + 1 # N => Distance(h, (i + 1) % N) = Distance(h, i) + 1
<1>1. N \in Nat /\ N >= 1 /\ h \in 0..(N - 1) /\ i \in 0..(N - 1) /\ p \in 0..(N - 1)
  BY PoolAssumption DEF Proxy
<1>2. (i + 1) % N = IF i + 1 = N THEN 0 ELSE i + 1
  BY Ring
<1>3. QED BY <1>1, <1>2 DEF Distance

\* The distance is what the hash arithmetic of the code computes.
LEMMA DistanceIsModular ==
  ASSUME NEW h \in Proxy, NEW p \in Proxy
  PROVE  (p - h + N) % N = Distance(h, p)
<1>1. N \in Nat /\ N >= 1 /\ h \in 0..(N - 1) /\ p \in 0..(N - 1)
  BY PoolAssumption DEF Proxy
<1>2. CASE p >= h
  <2>1. p - h \in 0..(N - 1)
    BY <1>1, <1>2
  <2>2. \A n \in 0..(N - 1) : (n + N) % N = n
    BY <1>1
  <2>3. QED BY <1>2, <2>1, <2>2 DEF Distance
<1>3. CASE p < h
  <2>1. p - h + N \in 0..(N - 1)
    BY <1>1, <1>3
  <2>2. \A n \in 0..(N - 1) : n % N = n
    BY <1>1
  <2>3. QED BY <1>1, <1>3, <2>1, <2>2 DEF Distance
<1>4. QED BY <1>1, <1>2, <1>3

LEMMA InitFetchInv == FetchInit => FetchInv
<1> SUFFICES ASSUME FetchInit PROVE FetchInv
  OBVIOUS
<1>1. PoolInv
  BY InitPoolInv DEF FetchInit
<1>3. FetchTypeOK
  BY <1>1, HomeAssumption DEF FetchInit, FetchTypeOK, PoolInv, Route
<1>4. \A t \in Thread : StageOK(t) /\ SelectOK(t)
  BY DEF FetchInit, Init, StageOK, SelectOK
<1>5. HealthyInv
  BY DEF FetchInit, Init, HealthyInv, Healthy, Banning
<1>6. QED BY <1>1, <1>3, <1>4, <1>5 DEF FetchInv

-----------------------------------------------------------------------------
\* What a step of a selection does: it goes on with an entry, gives the entry up
\* for the next one or for good, or has found its proxy.
Stays(t) ==
  /\ pc'[t] \in Looking /\ op'[t] = op[t] /\ at'[t] = at[t] /\ tried'[t] = tried[t]
  /\ steady'[t] = steady[t]

Moves(t) ==
  /\ pc[t] = "elapsed" /\ tried[t] + 1 # N
  /\ pc'[t] = "load" /\ op'[t] = op[t] /\ at'[t] = (at[t] + 1) % N
  /\ tried'[t] = tried[t] + 1 /\ steady'[t] = steady[t]

GivesUp(t) ==
  pc[t] = "elapsed" /\ tried[t] + 1 = N /\ pc'[t] = "idle" /\ answer'[t] = None

Finds(t) == pc'[t] = "idle" /\ answer'[t] = at[t]

LEMMA SelectEffect ==
  ASSUME TypeOK, NEW t \in Thread, Step(t),
         op[t] = "find_available_from", pc[t] \in Looking
  PROVE  /\ Stays(t) \/ Moves(t) \/ GivesUp(t) \/ Finds(t)
         /\ \A p \in Proxy : quarantined'[p] => quarantined[p]
<1> USE DEF TypeOK, Goto, Looking
<1>1. CASE Found(t)
  <2>1. Finds(t)
    BY <1>1 DEF Found, Answer, Leave, Finds
  <2>2. quarantined' = quarantined \/ quarantined' = [quarantined EXCEPT ![at[t]] = FALSE]
    BY DEF Step, Advance, LoadQuarantined, CheckElapsed, Lift, Forgive, TestQuarantined,
       Sample, Stamp, Ban
  <2>3. QED BY <2>1, <2>2
<1>2. CASE LoadQuarantined(t) /\ ~Found(t)
  BY <1>2 DEF LoadQuarantined, Stays
<1>3. CASE CheckElapsed(t)
  <2>1. quarantined' = quarantined /\ pc[t] = "elapsed"
    BY <1>3 DEF CheckElapsed
  <2>2. CASE since[at[t]] = Duration
    BY <1>3, <2>1, <2>2 DEF CheckElapsed, Stays
  <2>3. CASE NextEntry(t) /\ tried[t] + 1 = N
    BY <2>1, <2>3 DEF NextEntry, Answer, Leave, GivesUp
  <2>4. CASE NextEntry(t) /\ tried[t] + 1 # N
    BY <2>1, <2>4 DEF NextEntry, Moves
  <2>5. QED BY <1>3, <2>2, <2>3, <2>4 DEF CheckElapsed
<1>4. CASE Lift(t)
  BY <1>4 DEF Lift, Stays
<1>5. QED
  BY <1>1, <1>2, <1>3, <1>4
     DEF Step, Advance, Forgive, TestQuarantined, Sample, Stamp, Ban

\* What a step of a ban does.
LEMMA BanEffect ==
  ASSUME TypeOK, NEW t \in Thread, Step(t), pc[t] \in Banning
  PROVE  /\ pc'[t] \in Banning \cup {"idle"}
         /\ pc'[t] \in Banning => at'[t] = at[t]
         /\ \A p \in Proxy : quarantined'[p] /\ p # at[t] => quarantined[p]
BY DEF TypeOK, Goto, Banning, Step, Advance, LoadQuarantined, CheckElapsed, Lift, Forgive,
   TestQuarantined, Sample, Stamp, Ban, Leave

-----------------------------------------------------------------------------
\* Every step of the fetchers is a step of the pool, or leaves it alone.
LEMMA FetchIsNext == FetchInv /\ [FetchNext]_allVars => [Next]_vars
<1> SUFFICES ASSUME FetchInv, [FetchNext]_allVars PROVE [Next]_vars
  OBVIOUS
<1>1. ASSUME NEW t \in Thread, NEW d \in Domain, Fetch(t, d) PROVE Next
  <2>1. Home[d] \in Proxy
    BY HomeAssumption
  <2>2. QED BY <1>1, <2>1 DEF Fetch, Next, Call
<1>2. ASSUME NEW t \in Thread, FetchWithoutPool(t) \/ SendFails(t) \/ ReadBody(t)
      PROVE  UNCHANGED vars
  BY <1>2 DEF FetchWithoutPool, SendFails, ReadBody
<1>3. ASSUME NEW t \in Thread, Select(t) \/ Record(t) PROVE Next
  BY <1>3 DEF Select, Record, Next
<1>4. ASSUME NEW t \in Thread, NEW status, Respond(t, status) PROVE [Next]_vars
  <2>1. route[t] = None \/ route[t] \in Proxy
    BY DEF FetchInv, FetchTypeOK, Route
  <2>2. QED BY <1>4, <2>1 DEF Respond, Next, Call
<1>5. CASE FetchTick
  BY <1>5 DEF FetchTick, Next
<1>6. CASE UNCHANGED allVars
  BY <1>6 DEF allVars
<1>7. QED BY <1>1, <1>2, <1>3, <1>4, <1>5, <1>6 DEF FetchNext, FetchStep

\* One task's step leaves the other tasks where they are.
LEMMA OtherTasks ==
  ASSUME FetchInv, NEW t \in Thread, Call(t) \/ Step(t) \/ UNCHANGED vars,
         NEW w \in Thread, w # t,
         stage'[w] = stage[w], domain'[w] = domain[w]
  PROVE  StageOK(w)' /\ SelectOK(w)'
<1>1. /\ pc'[w] = pc[w] /\ op'[w] = op[w] /\ at'[w] = at[w] /\ tried'[w] = tried[w]
      /\ steady'[w] \subseteq steady[w]
  BY OtherThreads DEF FetchInv, PoolInv, vars
<1>2. StageOK(w) /\ SelectOK(w)
  BY DEF FetchInv
<1>3. QED BY <1>1, <1>2 DEF StageOK, SelectOK

\* A task that bans no healthy proxy, and is not about to, keeps them in service.
LEMMA HealthyKept ==
  ASSUME FetchInv, NEW t \in Thread, Call(t) \/ Step(t) \/ UNCHANGED vars,
         \A p \in Healthy : quarantined'[p] => quarantined[p],
         pc'[t] \in Banning => at'[t] \notin Healthy
  PROVE  HealthyInv'
<1>1. \A w \in Thread \ {t} : pc'[w] = pc[w] /\ at'[w] = at[w]
  BY OtherThreads DEF FetchInv, PoolInv, vars
<1>2. Healthy' = Healthy
  BY DEF Healthy
<1>3. QED BY <1>1, <1>2 DEF FetchInv, HealthyInv

\* The invariant beside the pool's own.
Beside ==
  /\ FetchTypeOK
  /\ \A t \in Thread : StageOK(t)
  /\ \A t \in Thread : SelectOK(t)
  /\ HealthyInv

LEMMA FetchBegins ==
  ASSUME FetchInv, PoolInv', NEW t \in Thread, NEW d \in Domain, Fetch(t, d)
  PROVE  Beside'
<1>0. PoolInv /\ FetchTypeOK /\ TypeOK /\ TypeOK' /\ Home[d] \in Proxy
  BY HomeAssumption DEF FetchInv, PoolInv
<1>1. /\ pc'[t] = "load" /\ op'[t] = "find_available_from" /\ at'[t] = Home[d]
      /\ tried'[t] = 0 /\ quarantined' = quarantined /\ steady'[t] \subseteq Proxy
  BY <1>0 DEF Fetch, CallFindAvailableFrom, BeginScan, Begin, Goto, TypeOK
<1>2. /\ stage' = [stage EXCEPT ![t] = "selecting"] /\ domain' = [domain EXCEPT ![t] = d]
      /\ UNCHANGED route
  BY DEF Fetch, Enter
<1>3. FetchTypeOK'
  BY <1>0, <1>2 DEF FetchTypeOK
<1>4. stage'[t] = "selecting" /\ domain'[t] = d
  BY <1>0, <1>2 DEF FetchTypeOK
<1>5. StageOK(t)'
  BY <1>1, <1>4 DEF StageOK, Looking
<1>6. SelectOK(t)'
  <2>1. Distance(Home[d], Home[d]) = 0 /\ \A p \in Proxy : Distance(Home[d], p) >= 0
    BY <1>0, OneStepAway
  <2>2. QED BY <1>1, <1>4, <2>1 DEF SelectOK
<1>7. ASSUME NEW w \in Thread, w # t PROVE StageOK(w)' /\ SelectOK(w)'
  <2>1. Call(t)
    BY <1>0 DEF Fetch, Call
  <2>2. stage'[w] = stage[w] /\ domain'[w] = domain[w]
    BY <1>0, <1>2, <1>7 DEF FetchTypeOK
  <2>3. QED BY <1>7, <2>1, <2>2, OtherTasks
<1>8. HealthyInv'
  <2>1. Call(t)
    BY <1>0 DEF Fetch, Call
  <2>2. QED BY <1>1, <2>1, HealthyKept DEF Banning
<1>9. QED BY <1>3, <1>5, <1>6, <1>7, <1>8 DEF Beside

LEMMA SelectionGoesOn ==
  ASSUME FetchInv, PoolInv', NEW t \in Thread, Select(t)
  PROVE  Beside'
<1>0. FetchTypeOK /\ TypeOK /\ TypeOK' /\ ScanInv /\ Step(t)
  BY DEF FetchInv, PoolInv, Select
<1>1. stage[t] = "selecting" /\ op[t] = "find_available_from" /\ pc[t] \in Looking
  BY DEF FetchInv, StageOK, Select
<1>2. /\ Stays(t) \/ Moves(t) \/ GivesUp(t) \/ Finds(t)
      /\ \A p \in Proxy : quarantined'[p] => quarantined[p]
  BY <1>0, <1>1, SelectEffect
<1>3. /\ domain' = domain
      /\ pc'[t] = "idle" => /\ stage' = [stage EXCEPT ![t] = "sending"]
                            /\ route' = [route EXCEPT ![t] = answer'[t]]
      /\ pc'[t] # "idle" => stage' = stage /\ route' = route
  BY DEF Select, Enter
<1>4. FetchTypeOK'
  <2>1. pc'[t] = "idle" => answer'[t] \in Route
    BY <1>0, <1>2 DEF Stays, Moves, GivesUp, Finds, Looking, TypeOK, Route
  <2>2. QED BY <1>0, <1>3, <2>1 DEF FetchTypeOK
<1>5. StageOK(t)'
  BY <1>0, <1>1, <1>2, <1>3
     DEF FetchTypeOK, StageOK, Stays, Moves, GivesUp, Finds, Looking
<1>6. SelectOK(t)'
  <2>1. SelectOK(t) /\ Home[domain[t]] \in Proxy /\ at[t] \in Proxy /\ tried[t] \in Nat
    BY <1>0, HomeAssumption DEF FetchInv, FetchTypeOK, TypeOK
  <2>2. CASE Stays(t)
    BY <1>1, <1>3, <2>1, <2>2 DEF SelectOK, Stays, Looking
  <2>3. CASE Moves(t)
    <3>1. Distance(Home[domain[t]], at'[t]) = tried'[t]
      BY <1>1, <2>1, <2>3, OneStepAway DEF SelectOK, Moves
    <3>2. ASSUME NEW p \in steady[t] PROVE Distance(Home[domain[t]], p) >= tried[t] + 1
      <4>1. p \in Proxy /\ p # at[t]
        BY <1>0, <2>3, <3>2 DEF TypeOK, ScanInv, ScanOK, Moves
      <4>2. Distance(Home[domain[t]], p) >= tried[t]
        BY <1>1, <2>1, <3>2 DEF SelectOK
      <4>3. Distance(Home[domain[t]], p) # tried[t] /\ Distance(Home[domain[t]], p) \in Nat
        BY <1>1, <2>1, <4>1, OneStepAway DEF SelectOK
      <4>4. QED BY <2>1, <4>2, <4>3
    <3>3. QED BY <1>3, <2>3, <3>1, <3>2 DEF SelectOK, Moves
  <2>4. CASE GivesUp(t) \/ Finds(t)
    BY <1>0, <1>3, <2>4 DEF SelectOK, GivesUp, Finds, FetchTypeOK
  <2>5. QED BY <1>2, <2>2, <2>3, <2>4
<1>7. ASSUME NEW w \in Thread, w # t PROVE StageOK(w)' /\ SelectOK(w)'
  <2>1. stage'[w] = stage[w] /\ domain'[w] = domain[w]
    BY <1>0, <1>3, <1>7 DEF FetchTypeOK
  <2>2. QED BY <1>0, <1>7, <2>1, OtherTasks
<1>8. HealthyInv'
  <2>1. pc'[t] \notin Banning
    BY <1>2 DEF Stays, Moves, GivesUp, Finds, Looking, Banning
  <2>2. QED BY <1>0, <1>2, <2>1, HealthyKept DEF Healthy
<1>9. QED BY <1>4, <1>5, <1>6, <1>7, <1>8 DEF Beside

LEMMA ResponseArrives ==
  ASSUME FetchInv, PoolInv', NEW t \in Thread, NEW status, Respond(t, status)
  PROVE  Beside'
<1>0. /\ FetchTypeOK /\ TypeOK /\ stage[t] = "sending"
      /\ pc[t] = "idle" /\ route[t] \in Proxy \cup {None}
  BY DEF FetchInv, PoolInv, Respond, StageOK, FetchTypeOK, Route
<1>1. /\ stage' = [stage EXCEPT ![t] = IF pc'[t] = "idle" THEN "reading" ELSE "recording"]
      /\ UNCHANGED <<domain, route>>
  BY DEF Respond, Enter
<1>2. FetchTypeOK'
  <2>1. TypeOK'
    BY DEF PoolInv
  <2>2. QED BY <1>0, <1>1, <2>1 DEF FetchTypeOK
<1>3. pc'[t] = "idle" \/ pc'[t] = "test"
  BY <1>0 DEF Respond, vars, TypeOK, RecordSuccess, RecordFailure, Begin, Goto
<1>4. StageOK(t)' /\ SelectOK(t)'
  BY <1>0, <1>1, <1>3 DEF FetchTypeOK, StageOK, SelectOK, Banning
<1>5. Call(t) \/ UNCHANGED vars
  BY <1>0 DEF Respond, Call
<1>6. ASSUME NEW w \in Thread, w # t PROVE StageOK(w)' /\ SelectOK(w)'
  <2>1. stage'[w] = stage[w] /\ domain'[w] = domain[w]
    BY <1>0, <1>1, <1>6 DEF FetchTypeOK
  <2>2. QED BY <1>5, <1>6, <2>1, OtherTasks
<1>7. HealthyInv'
  <2>1. quarantined' = quarantined
    BY DEF Respond, vars, RecordSuccess, RecordFailure
  <2>2. ASSUME pc'[t] \in Banning PROVE at'[t] \notin Healthy
    <3>1. route[t] \in Proxy /\ ~IsSuccess(status) /\ RecordFailure(t, route[t])
      BY <1>0, <2>2 DEF Respond, vars, RecordSuccess, Banning
    <3>2. at'[t] = route[t]
      BY <1>0, <2>2, <3>1 DEF RecordFailure, Banning, TypeOK
    <3>3. status \in Answers[route[t]] /\ status \notin 200..499
      BY <3>1 DEF Respond, IsSuccess
    <3>4. QED BY <3>2, <3>3 DEF Healthy
  <2>3. QED BY <1>5, <2>1, <2>2, HealthyKept
<1>8. QED BY <1>2, <1>4, <1>6, <1>7 DEF Beside

LEMMA BanGoesOn ==
  ASSUME FetchInv, PoolInv', NEW t \in Thread, Record(t)
  PROVE  Beside'
<1>0. FetchTypeOK /\ TypeOK /\ TypeOK' /\ Step(t)
      /\ stage[t] = "recording" /\ pc[t] \in Banning
  BY DEF FetchInv, PoolInv, Record, StageOK
<1>1. /\ pc'[t] \in Banning \cup {"idle"}
      /\ pc'[t] \in Banning => at'[t] = at[t]
      /\ \A p \in Proxy : quarantined'[p] /\ p # at[t] => quarantined[p]
  BY <1>0, BanEffect
<1>2. /\ UNCHANGED <<domain, route>>
      /\ stage' = IF pc'[t] = "idle" THEN [stage EXCEPT ![t] = "reading"] ELSE stage
  BY DEF Record, Enter
<1>3. FetchTypeOK'
  BY <1>0, <1>2 DEF FetchTypeOK
<1>4. StageOK(t)' /\ SelectOK(t)'
  BY <1>0, <1>1, <1>2 DEF FetchTypeOK, StageOK, SelectOK
<1>5. ASSUME NEW w \in Thread, w # t PROVE StageOK(w)' /\ SelectOK(w)'
  <2>1. stage'[w] = stage[w] /\ domain'[w] = domain[w]
    BY <1>0, <1>2, <1>5 DEF FetchTypeOK
  <2>2. QED BY <1>0, <1>5, <2>1, OtherTasks
<1>6. HealthyInv'
  <2>1. at[t] \notin Healthy
    BY <1>0 DEF FetchInv, HealthyInv
  <2>2. QED BY <1>0, <1>1, <2>1, HealthyKept DEF Healthy
<1>7. QED BY <1>3, <1>4, <1>5, <1>6 DEF Beside

\* The steps that do not touch the pool.
LEMMA PoolLeftAlone ==
  ASSUME FetchInv, PoolInv', NEW t \in Thread,
         FetchWithoutPool(t) \/ SendFails(t) \/ ReadBody(t)
  PROVE  Beside'
<1>0. FetchTypeOK /\ TypeOK /\ TypeOK' /\ UNCHANGED vars
  BY DEF FetchInv, PoolInv, FetchWithoutPool, SendFails, ReadBody
<1>1. /\ stage' = [stage EXCEPT ![t] = "sending"] \/ stage' = [stage EXCEPT ![t] = "idle"]
      /\ route' = [route EXCEPT ![t] = None] \/ route' = route
      /\ domain' = domain /\ stage[t] \in {"idle", "sending", "reading"}
  BY DEF FetchWithoutPool, SendFails, ReadBody, Finish, Enter
<1>2. FetchTypeOK'
  BY <1>0, <1>1 DEF FetchTypeOK, Route
<1>3. StageOK(t)' /\ SelectOK(t)'
  BY <1>0, <1>1 DEF FetchInv, FetchTypeOK, vars, StageOK, SelectOK
<1>4. ASSUME NEW w \in Thread, w # t PROVE StageOK(w)' /\ SelectOK(w)'
  <2>1. stage'[w] = stage[w] /\ domain'[w] = domain[w]
    BY <1>0, <1>1, <1>4 DEF FetchTypeOK
  <2>2. QED BY <1>0, <1>4, <2>1, OtherTasks
<1>5. HealthyInv'
  BY <1>0 DEF FetchInv, HealthyInv, Healthy, vars
<1>6. QED BY <1>2, <1>3, <1>4, <1>5 DEF Beside

LEMMA FetchInvStep == FetchInv /\ [FetchNext]_allVars => FetchInv'
<1> SUFFICES ASSUME FetchInv, [FetchNext]_allVars PROVE FetchInv'
  OBVIOUS
<1>1. PoolInv'
  <2>1. [Next]_vars
    BY FetchIsNext
  <2>2. QED
    BY <2>1, TypeStep, DatedStep, ConsecutiveStep, OverThresholdStep, ScanStep,
       BarredStep
       DEF FetchInv, PoolInv
<1>2. CASE FetchTick \/ UNCHANGED allVars
  <2>1. UNCHANGED <<stage, domain, route, quarantined, pc, op, at, tried, steady>>
    BY <1>2 DEF FetchTick, fetchVars, allVars, vars, Tick
  <2>2. FetchTypeOK'
    BY <1>1, <2>1 DEF FetchInv, FetchTypeOK, PoolInv
  <2>3. QED BY <1>1, <2>1, <2>2 DEF FetchInv, StageOK, SelectOK, HealthyInv, Healthy
<1>3. ASSUME NEW t \in Thread,
             FetchStep(t) \/ FetchWithoutPool(t) \/ \E d \in Domain : Fetch(t, d)
      PROVE  Beside'
  BY <1>1, <1>3, FetchBegins, SelectionGoesOn, ResponseArrives, BanGoesOn, PoolLeftAlone
     DEF FetchStep
<1>4. QED BY <1>1, <1>2, <1>3 DEF FetchNext, FetchInv, Beside

\* The inductive invariant of the fetchers and their pool (fetcher.rs:134-272).
THEOREM FetchInvariant == FetchSpec => []FetchInv
<1>1. FetchInit => FetchInv
  BY InitFetchInv
<1>2. FetchInv /\ [FetchNext]_allVars => FetchInv'
  BY FetchInvStep
<1>3. QED BY <1>1, <1>2, PTL DEF FetchSpec

\* Fetchers use the pool as its specification allows, so that every theorem about
\* the pool holds of the pool below them (fetcher.rs:134-139, 250-259).
THEOREM FetchUsesPool == FetchSpec => Spec
<1>1. FetchInit => Init
  BY DEF FetchInit
<1>2. FetchInv /\ [FetchNext]_allVars => [Next]_vars
  BY FetchIsNext
<1>3. QED BY <1>1, <1>2, FetchInvariant, PTL DEF FetchSpec, Spec

\* A proxy that answers nothing worse than missing pages is never banned, whatever
\* the other proxies answer and however many fetches are under way
\* (fetcher.rs:205-259).
THEOREM HealthyStayInService == FetchSpec => []HealthyProxyIsNeverBanned
<1>1. FetchInv => HealthyProxyIsNeverBanned
  BY DEF FetchInv, HealthyInv, HealthyProxyIsNeverBanned
<1>2. QED BY <1>1, FetchInvariant, PTL

\* The step in which a selection ends.
LEMMA StickyStep ==
  ASSUME FetchInv, [FetchNext]_allVars, NEW t \in Thread,
         stage[t] = "selecting", stage'[t] = "sending"
  PROVE  Ahead(domain[t], route'[t]) \cap steady[t] = {}
<1>0. /\ FetchTypeOK /\ TypeOK /\ ScanInv /\ StageOK(t) /\ SelectOK(t)
      /\ domain[t] \in Domain /\ Home[domain[t]] \in Proxy /\ at[t] \in Proxy
      /\ tried[t] \in Nat /\ N \in Nat
  BY HomeAssumption, PoolAssumption DEF FetchInv, PoolInv, FetchTypeOK, TypeOK
<1>1. Select(t)
  BY <1>0 DEF FetchNext, FetchStep, Fetch, FetchWithoutPool, Select, Respond, Record,
     SendFails, ReadBody, Finish, Enter, FetchTick, fetchVars, allVars, FetchTypeOK
<1>2. pc'[t] = "idle" /\ route'[t] = answer'[t]
  BY <1>0, <1>1 DEF Select, Enter, FetchTypeOK
<1>3. GivesUp(t) \/ Finds(t)
  BY <1>0, <1>1, <1>2, SelectEffect DEF StageOK, Select, Stays, Moves, Looking
<1>4. \A p \in steady[t] : p \in Proxy /\ Distance(Home[domain[t]], p) >= tried[t]
  BY <1>0 DEF SelectOK, TypeOK
<1>5. CASE GivesUp(t)
  <2>1. ASSUME NEW p \in steady[t] PROVE FALSE
    <3>1. p \in Proxy /\ p # at[t]
      BY <1>0, <1>5, <2>1 DEF TypeOK, ScanInv, ScanOK, GivesUp
    <3>2. /\ Distance(Home[domain[t]], p) # tried[t]
          /\ Distance(Home[domain[t]], p) \in 0..(N - 1)
      BY <1>0, <3>1, OneStepAway DEF SelectOK
    <3>3. QED BY <1>0, <1>4, <1>5, <3>2 DEF GivesUp
  <2>2. QED BY <2>1
<1>6. CASE Finds(t)
  <2>1. route'[t] = at[t] /\ at[t] # None
    BY <1>0, <1>2, <1>6, PoolAssumption DEF Finds, Proxy
  <2>2. ASSUME NEW p \in Ahead(domain[t], at[t]) PROVE p \notin steady[t]
    <3>1. p \in Proxy /\ (p - Home[domain[t]] + N) % N < (at[t] - Home[domain[t]] + N) % N
      BY <2>1, <2>2 DEF Ahead
    <3>2. Distance(Home[domain[t]], p) < Distance(Home[domain[t]], at[t])
      BY <1>0, <3>1, DistanceIsModular
    <3>3. Distance(Home[domain[t]], p) \in 0..(N - 1)
      BY <1>0, <3>1, OneStepAway
    <3>4. QED BY <1>0, <1>4, <3>2, <3>3 DEF SelectOK
  <2>3. QED BY <2>1, <2>2
<1>7. QED BY <1>3, <1>5, <1>6

\* A domain keeps its proxy while that proxy is available (proxy.rs:156-164,
\* fetcher.rs:135-139), whatever other fetches ban and release meanwhile.
THEOREM RoutesAreSticky == FetchSpec => RouteIsSticky
<1>1. FetchInv /\ [FetchNext]_allVars =>
        [\A t \in Thread :
           stage[t] = "selecting" /\ stage'[t] = "sending" =>
             Ahead(domain[t], route'[t]) \cap steady[t] = {}]_allVars
  BY StickyStep
<1>2. QED BY <1>1, FetchInvariant, PTL DEF FetchSpec, RouteIsSticky
=============================================================================
