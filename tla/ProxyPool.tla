------------------------------ MODULE ProxyPool ------------------------------
(***************************************************************************)
(* ProxyPool (crates/fc-scheduler/src/proxy.rs): proxies with a failure    *)
(* count, a quarantine flag and the moment the quarantine began, each read *)
(* and written on its own by any number of threads.  One action per atomic *)
(* access, so that another thread may act between any two of them.  The    *)
(* moment is kept as an age, which stops growing at Duration: only whether *)
(* the quarantine has expired matters.  A failure count stops at the       *)
(* threshold for the same reason.                                          *)
(***************************************************************************)
EXTENDS Integers, FiniteSets

CONSTANTS
  Thread,       \* the threads that share the pool
  N,            \* entries.len()
  Threshold,    \* failure_threshold
  Duration,     \* quarantine_duration, in clock ticks
  None,         \* Option::None: no proxy, no moment
  NoAnswer,     \* the last call did not return a proxy or None
  Operation     \* the operations the threads use

Proxy == 0..(N - 1)

\* A failure makes the count at least one: a threshold of zero acts as one.
Limit == IF Threshold = 0 THEN 1 ELSE Threshold

ASSUME ThreadAssumption == IsFiniteSet(Thread)
ASSUME PoolAssumption ==
  /\ N \in Nat \ {0} /\ Threshold \in Nat /\ Duration \in Nat
  /\ None \notin Nat /\ NoAnswer \notin Nat /\ None # NoAnswer
  /\ Operation \subseteq {"next_round_robin", "next_random", "find_available_from",
                          "available", "record_success", "record_failure"}

VARIABLES
  failures,     \* failures of each entry, cut at Limit
  quarantined,  \* quarantined of each entry
  since,        \* quarantined_at of each entry, as an age, or None
  cursor,       \* cursor, modulo N
  pc,           \* where each thread is in its call
  op,           \* the call it makes, "none" between calls
  at,           \* the entry it is looking at
  tried,        \* how many entries its scan has given up on
  stamp,        \* the age of the Instant it has sampled and not stored yet
  answer,       \* what its last scan returned
  steady,       \* history: the entries not quarantined since its scan began
  barred,       \* history: the entries banned when its scan began that have neither
                \* expired nor been released by another thread since
  streak        \* history: failures since the last success, cut at Limit

vars == <<failures, quarantined, since, cursor, pc, op, at, tried, stamp, answer,
          steady, barred, streak>>

PC == {"idle", "advance", "load", "elapsed", "lift", "forgive", "test", "sample",
       "stamp", "ban"}

TypeOK ==
  /\ failures \in [Proxy -> 0..Limit]
  /\ quarantined \in [Proxy -> BOOLEAN]
  /\ since \in [Proxy -> 0..Duration \cup {None}]
  /\ cursor \in Proxy
  /\ pc \in [Thread -> PC]
  /\ op \in [Thread -> Operation \cup {"none"}]
  /\ at \in [Thread -> Proxy]
  /\ tried \in [Thread -> 0..(N - 1)]
  /\ stamp \in [Thread -> 0..Duration]
  /\ answer \in [Thread -> Proxy \cup {None, NoAnswer}]
  /\ steady \in [Thread -> SUBSET Proxy]
  /\ barred \in [Thread -> SUBSET Proxy]
  /\ streak \in [Proxy -> 0..Limit]

Init ==
  /\ failures = [p \in Proxy |-> 0]
  /\ quarantined = [p \in Proxy |-> FALSE]
  /\ since = [p \in Proxy |-> None]
  /\ cursor = 0
  /\ pc = [t \in Thread |-> "idle"]
  /\ op = [t \in Thread |-> "none"]
  /\ at = [t \in Thread |-> 0]
  /\ tried = [t \in Thread |-> 0]
  /\ stamp = [t \in Thread |-> 0]
  /\ answer = [t \in Thread |-> NoAnswer]
  /\ steady = [t \in Thread |-> {}]
  /\ barred = [t \in Thread |-> {}]
  /\ streak = [p \in Proxy |-> 0]

-----------------------------------------------------------------------------
\* The entries whose quarantine has not expired.
Banned == {p \in Proxy : quarantined[p] /\ since[p] # Duration}

KeepBarred == barred' = [t \in Thread |-> barred[t] \cap Banned']

Goto(t, where) == pc' = [pc EXCEPT ![t] = where]

Begin(t, operation, where) ==
  /\ pc[t] = "idle"
  /\ operation \in Operation
  /\ op' = [op EXCEPT ![t] = operation]
  /\ Goto(t, where)

BeginScan(t, operation, where) ==
  /\ Begin(t, operation, where)
  /\ tried' = [tried EXCEPT ![t] = 0]
  /\ answer' = [answer EXCEPT ![t] = NoAnswer]
  /\ steady' = [steady EXCEPT ![t] = {p \in Proxy : ~quarantined[p]}]
  /\ barred' = [barred EXCEPT ![t] = Banned]

\* The call is over, and so are its local variables.
Leave(t) ==
  /\ Goto(t, "idle")
  /\ op' = [op EXCEPT ![t] = "none"]
  /\ at' = [at EXCEPT ![t] = 0]
  /\ tried' = [tried EXCEPT ![t] = 0]

\* A scan returns Some(url), None, or (available) a count that is left out.
Answer(t, value) ==
  /\ Leave(t)
  /\ answer' = [answer EXCEPT ![t] = value]
  /\ steady' = [steady EXCEPT ![t] = {}]
  /\ barred' = [barred EXCEPT ![t] = {}]

\* Mutant: the last entry is never tried.
NextEntryShort(t) ==
  IF tried[t] + 2 >= N
  THEN Answer(t, IF op[t] = "available" THEN NoAnswer ELSE None)
  ELSE /\ tried' = [tried EXCEPT ![t] = @ + 1]
       /\ IF op[t] = "next_round_robin"
          THEN Goto(t, "advance") /\ UNCHANGED at
          ELSE Goto(t, "load") /\ at' = [at EXCEPT ![t] = (@ + 1) % N]
       /\ UNCHANGED <<op, answer, steady, barred>>

\* Mutant: the index does not wrap around.
NextEntryNoWrap(t) ==
  IF tried[t] + 1 = N
  THEN Answer(t, IF op[t] = "available" THEN NoAnswer ELSE None)
  ELSE /\ tried' = [tried EXCEPT ![t] = @ + 1]
       /\ IF op[t] = "next_round_robin"
          THEN Goto(t, "advance") /\ UNCHANGED at
          ELSE Goto(t, "load") /\ at' = [at EXCEPT ![t] = @ + 1]
       /\ UNCHANGED <<op, answer, steady, barred>>

\* Mutant: the scan waits for the entry it is at.
NextEntryWaiting(t) ==
  /\ Goto(t, "load")
  /\ UNCHANGED <<op, at, tried, answer, steady, barred>>

\* The scan gives up on the entry it is at: the next one, if there is one left.
NextEntry(t) ==
  IF tried[t] + 1 = N
  THEN Answer(t, IF op[t] = "available" THEN NoAnswer ELSE None)
  ELSE /\ tried' = [tried EXCEPT ![t] = @ + 1]
       /\ IF op[t] = "next_round_robin"
          THEN Goto(t, "advance") /\ UNCHANGED at
          ELSE Goto(t, "load") /\ at' = [at EXCEPT ![t] = (@ + 1) % N]
       /\ UNCHANGED <<op, answer, steady, barred>>

\* is_available(entry) is true: `available` counts on, the others return it.
Found(t) == IF op[t] = "available" THEN NextEntry(t) ELSE Answer(t, at[t])

\* next_proxy() in round-robin rotation, and in sticky rotation without a domain.
CallNextRoundRobin(t) ==
  /\ BeginScan(t, "next_round_robin", "advance")
  /\ UNCHANGED <<failures, quarantined, since, cursor, at, stamp, streak>>

\* next_proxy() in random rotation: the cursor seeds a pseudo-random start.
CallNextRandom(t, start) ==
  /\ BeginScan(t, "next_random", "load")
  /\ at' = [at EXCEPT ![t] = start]
  /\ cursor' = (cursor + 1) % N
  /\ UNCHANGED <<failures, quarantined, since, stamp, streak>>

\* proxy_for_domain(domain): find_available_from(start), the domain's hash.
CallFindAvailableFrom(t, start) ==
  /\ BeginScan(t, "find_available_from", "load")
  /\ at' = [at EXCEPT ![t] = start]
  /\ UNCHANGED <<failures, quarantined, since, cursor, stamp, streak>>

\* available() looks at every entry, and lifts quarantines as it goes.
CallAvailable(t) ==
  /\ BeginScan(t, "available", "load")
  /\ at' = [at EXCEPT ![t] = 0]
  /\ UNCHANGED <<failures, quarantined, since, cursor, stamp, streak>>

\* next_round_robin: the cursor is advanced anew for each entry tried.
Advance(t) ==
  /\ pc[t] = "advance"
  /\ at' = [at EXCEPT ![t] = cursor]
  /\ cursor' = (cursor + 1) % N
  /\ Goto(t, "load")
  /\ UNCHANGED <<failures, quarantined, since, op, tried, stamp, answer, steady, barred,
                 streak>>

\* is_available: quarantined.load
LoadQuarantined(t) ==
  /\ pc[t] = "load"
  /\ \/ ~quarantined[at[t]] /\ Found(t)
     \/ /\ quarantined[at[t]]
        /\ Goto(t, "elapsed")
        /\ UNCHANGED <<op, at, tried, answer, steady, barred>>
  /\ UNCHANGED <<failures, quarantined, since, cursor, stamp, streak>>

\* Mutant: a quarantine that has a moment has expired.
CheckElapsedAnyMoment(t) ==
  /\ pc[t] = "elapsed"
  /\ IF since[at[t]] # None
     THEN Goto(t, "lift") /\ UNCHANGED <<op, at, tried, answer, steady, barred>>
     ELSE NextEntry(t)
  /\ UNCHANGED <<failures, quarantined, since, cursor, stamp, streak>>

\* is_available: has the quarantine expired?  The mutex is held for this only.
CheckElapsed(t) ==
  /\ pc[t] = "elapsed"
  /\ IF since[at[t]] = Duration
     THEN Goto(t, "lift") /\ UNCHANGED <<op, at, tried, answer, steady, barred>>
     ELSE NextEntry(t)
  /\ UNCHANGED <<failures, quarantined, since, cursor, stamp, streak>>

\* is_available: quarantined.store(false)
Lift(t) ==
  /\ pc[t] = "lift"
  /\ quarantined' = [quarantined EXCEPT ![at[t]] = FALSE]
  /\ barred' = [w \in Thread |-> IF w = t THEN barred[t] ELSE barred[w] \ {at[t]}]
  /\ Goto(t, "forgive")
  /\ UNCHANGED <<failures, since, cursor, op, at, tried, stamp, answer, steady, streak>>

\* is_available: failures.store(0)
Forgive(t) ==
  /\ pc[t] = "forgive"
  /\ failures' = [failures EXCEPT ![at[t]] = 0]
  /\ Found(t)
  /\ UNCHANGED <<quarantined, since, cursor, stamp, streak>>

\* Mutant: a success does not reset the count.
RecordSuccessIgnored(t, p) ==
  /\ pc[t] = "idle" /\ "record_success" \in Operation
  /\ streak' = [streak EXCEPT ![p] = 0]
  /\ UNCHANGED <<failures, quarantined, since, cursor, pc, op, at, tried, stamp, answer,
                 steady, barred>>

\* record_success(url): failures.store(0).  The quarantine flag stays.
RecordSuccess(t, p) ==
  /\ pc[t] = "idle" /\ "record_success" \in Operation
  /\ failures' = [failures EXCEPT ![p] = 0]
  /\ streak' = [streak EXCEPT ![p] = 0]
  /\ UNCHANGED <<quarantined, since, cursor, pc, op, at, tried, stamp, answer, steady,
                 barred>>

Cut(n) == IF n < Limit THEN n ELSE Limit

\* Mutant: the value before the addition is compared, as fetch_add returns it.
RecordFailureLate(t, p) ==
  LET count == Cut(failures[p] + 1)
  IN  /\ pc[t] = "idle" /\ "record_failure" \in Operation
      /\ failures' = [failures EXCEPT ![p] = count]
      /\ streak' = [streak EXCEPT ![p] = Cut(@ + 1)]
      /\ IF failures[p] >= Threshold
         THEN Begin(t, "record_failure", "test") /\ at' = [at EXCEPT ![t] = p]
         ELSE UNCHANGED <<pc, op, at>>
      /\ UNCHANGED <<quarantined, since, cursor, tried, stamp, answer, steady, barred>>

\* record_failure(url): failures.fetch_add(1), and is the threshold reached?
RecordFailure(t, p) ==
  LET count == Cut(failures[p] + 1)
  IN  /\ pc[t] = "idle" /\ "record_failure" \in Operation
      /\ failures' = [failures EXCEPT ![p] = count]
      /\ streak' = [streak EXCEPT ![p] = Cut(@ + 1)]
      /\ IF count >= Threshold
         THEN Begin(t, "record_failure", "test") /\ at' = [at EXCEPT ![t] = p]
         ELSE UNCHANGED <<pc, op, at>>
      /\ UNCHANGED <<quarantined, since, cursor, tried, stamp, answer, steady, barred>>

\* Mutant: the flag is set first, and the moment is not there yet.
TestQuarantinedUndated(t) ==
  /\ pc[t] = "test"
  /\ IF quarantined[at[t]]
     THEN Leave(t)
     ELSE Goto(t, "ban") /\ UNCHANGED <<op, at, tried>>
  /\ UNCHANGED <<failures, quarantined, since, cursor, stamp, answer, steady, barred,
                 streak>>

\* record_failure: is somebody faster?
TestQuarantined(t) ==
  /\ pc[t] = "test"
  /\ IF quarantined[at[t]]
     THEN Leave(t)
     ELSE Goto(t, "sample") /\ UNCHANGED <<op, at, tried>>
  /\ UNCHANGED <<failures, quarantined, since, cursor, stamp, answer, steady, barred,
                 streak>>

\* record_failure: Instant::now()
Sample(t) ==
  /\ pc[t] = "sample"
  /\ Goto(t, "stamp")
  /\ UNCHANGED <<failures, quarantined, since, cursor, op, at, tried, stamp, answer,
                 steady, barred, streak>>

\* record_failure: *quarantined_at.lock() = Some(now)
Stamp(t) ==
  /\ pc[t] = "stamp"
  /\ since' = [since EXCEPT ![at[t]] = stamp[t]]
  /\ stamp' = [stamp EXCEPT ![t] = 0]
  /\ Goto(t, "ban")
  /\ UNCHANGED <<failures, quarantined, cursor, op, at, tried, answer, steady, streak>>
  /\ KeepBarred

\* record_failure: quarantined.store(true)
Ban(t) ==
  /\ pc[t] = "ban"
  /\ quarantined' = [quarantined EXCEPT ![at[t]] = TRUE]
  /\ steady' = [s \in Thread |-> steady[s] \ {at[t]}]
  /\ Leave(t)
  /\ UNCHANGED <<failures, since, cursor, stamp, answer, barred, streak>>

Older(age) == IF age < Duration THEN age + 1 ELSE Duration

\* Time passes.
Tick ==
  /\ since' = [p \in Proxy |-> IF since[p] = None THEN None ELSE Older(since[p])]
  /\ stamp' = [t \in Thread |-> IF pc[t] = "stamp" THEN Older(stamp[t]) ELSE stamp[t]]
  /\ UNCHANGED <<failures, quarantined, cursor, pc, op, at, tried, answer, steady, streak>>
  /\ KeepBarred

Call(t) ==
  \/ CallNextRoundRobin(t)
  \/ CallAvailable(t)
  \/ \E p \in Proxy : \/ CallNextRandom(t, p)
                      \/ CallFindAvailableFrom(t, p)
                      \/ RecordSuccess(t, p)
                      \/ RecordFailure(t, p)

Step(t) ==
  \/ Advance(t)
  \/ LoadQuarantined(t)
  \/ CheckElapsed(t)
  \/ Lift(t)
  \/ Forgive(t)
  \/ TestQuarantined(t)
  \/ Sample(t)
  \/ Stamp(t)
  \/ Ban(t)

Next == (\E t \in Thread : Call(t) \/ Step(t)) \/ Tick

Spec == Init /\ [][Next]_vars

\* The clock runs, and a thread inside a call goes on with it.
FairSpec == Spec /\ WF_vars(Tick) /\ \A t \in Thread : WF_vars(Step(t))

-----------------------------------------------------------------------------
\* A quarantined proxy has the moment its quarantine began, whatever the order
\* in which threads ban and release it: none is banned for ever for lack of one.
QuarantineIsDated == \A p \in Proxy : quarantined[p] => since[p] # None

\* A scan from a fixed start answers None only if no proxy was available during
\* the whole call.
NoneMeansNoneSteady ==
  [][\A t \in Thread :
       op[t] \in {"find_available_from", "next_random"} /\ answer[t] # None
         /\ answer'[t] = None
         => steady[t] = {}]_vars

\* A scan of any rotation answers only a proxy that was in service at some moment
\* of the call: one that was banned all along, until another thread or its own
\* expiry releases it, is passed over, however the separate tests of flag and
\* moment interleave with bans, releases and the clock.
BannedAreNotServed ==
  [][\A t \in Thread :
       answer[t] = NoAnswer /\ answer'[t] \in Proxy => answer'[t] \notin barred[t]]_vars

\* "`None` if all proxies are quarantined", in round-robin rotation.
RoundRobinTriesAll ==
  [][\A t \in Thread :
       op[t] = "next_round_robin" /\ answer[t] # None /\ answer'[t] = None
         => steady[t] = {}]_vars

\* A count never exceeds the failures recorded since the last success: no proxy
\* is quarantined without `failure_threshold` consecutive failures.
FailuresAreConsecutive == \A p \in Proxy : failures[p] <= streak[p]

\* A proxy at the threshold is quarantined, or a thread is about to quarantine it
\* or to forgive it: a ban that loses a race is made up for.
OverThresholdIsHandled ==
  \A p \in Proxy : failures[p] = Limit /\ ~quarantined[p] =>
    \E t \in Thread : /\ at[t] = p
                      /\ pc[t] \in {"test", "sample", "stamp", "ban", "forgive"}

\* A quarantine ends if the pool keeps being scanned: a proxy that scans look at
\* again and again is not quarantined for ever, whatever bans race with them.
QuarantineEnds ==
  \A p \in Proxy :
    ([]<>(\E t \in Thread : pc[t] = "load" /\ at[t] = p)) => []<>(~quarantined[p])
=============================================================================
