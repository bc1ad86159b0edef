-------------------------- MODULE DomainRateLimiter --------------------------
(***************************************************************************)
(* DomainRateLimiter (crates/fc-scheduler/src/rate_limiter.rs): a DashMap  *)
(* from domains to token buckets, each created by the first task that asks *)
(* for its domain.  The bucket is governor's GCRA limiter, external to the *)
(* repository: its state is the time after which it would be full again    *)
(* (its debt), a grant adds one emission interval to it and is possible    *)
(* while the debt fits the burst.  A task looks the map up, and inserts    *)
(* and spends later; other tasks and the clock move in between.            *)
(***************************************************************************)
EXTENDS Integers, FiniteSets

CONSTANTS
  Task,         \* the worker tasks that share the limiter
  Domain,       \* the host names
  Limiter,      \* identities for live limiters; a freed one is used again
  None,         \* no limiter
  Second,       \* clock ticks in a second
  DefaultRps,   \* default_rps
  PerDomain,    \* per_domain: the RPS of some domains
  DefaultBurst, \* default_burst
  AllowReset    \* does somebody call reset?

ASSUME TaskAssumption == IsFiniteSet(Task) /\ Task # {}
ASSUME LimiterAssumption == None \notin Limiter /\ IsFiniteSet(Limiter)
ASSUME ConfigAssumption ==
  /\ Second \in Nat \ {0} /\ DefaultRps \in Nat /\ DefaultBurst \in Nat
  /\ Domain # {} /\ DOMAIN PerDomain \subseteq Domain
  /\ \A d \in DOMAIN PerDomain : PerDomain[d] \in Nat
  /\ AllowReset \in BOOLEAN

\* Mutant: a zero stays.
AsConfigured(n) == n

\* NonZeroU32::new(n), or one.
AtLeastOne(n) == IF n >= 1 THEN n ELSE 1

\* The RPS of a domain, and the burst of every domain: build_limiter raises a
\* zero to one.
Rps(d) == AtLeastOne(IF d \in DOMAIN PerDomain THEN PerDomain[d] ELSE DefaultRps)
Burst == AtLeastOne(DefaultBurst)

\* The emission interval: the ticks in which a bucket of d earns one token.
Interval(d) == Second \div Rps(d)

ASSUME ClockAssumption == \A d \in Domain : Rps(d) <= Second

VARIABLES
  limiters,     \* limiters: the DashMap, None where a domain has no entry
  debt,         \* the debt of each limiter, in ticks
  pc,           \* where each task is in its call
  request,      \* the call: its domain and operation
  held,         \* the Arc<Limiter> the task got from get_or_create
  delay,        \* ticks until the timer of a sleeping task fires
  answer,       \* what the last call returned: a number of ticks, 0 for a token
  spent,        \* history: the debt that one bucket for the domain would have
  strays        \* history: the grants by a limiter that is not in the map

vars == <<limiters, debt, pc, request, held, delay, answer, spent, strays>>

Operation == {"until_ready", "check", "wait_duration"}
Request == [domain : Domain, op : Operation]

TypeOK ==
  /\ limiters \in [Domain -> Limiter \cup {None}]
  /\ debt \in [Limiter -> Nat]
  /\ pc \in [Task -> {"idle", "lookup", "create", "acquire", "sleeping"}]
  /\ request \in [Task -> Request]
  /\ held \in [Task -> Limiter \cup {None}]
  /\ delay \in [Task -> Nat]
  /\ answer \in [Task -> Nat]
  /\ spent \in [Domain -> Nat]
  /\ strays \in [Domain -> Nat]

Init ==
  /\ limiters = [d \in Domain |-> None]
  /\ debt = [l \in Limiter |-> 0]
  /\ pc = [t \in Task |-> "idle"]
  /\ request = [t \in Task |-> CHOOSE r \in Request : TRUE]
  /\ held = [t \in Task |-> None]
  /\ delay = [t \in Task |-> 0]
  /\ answer = [t \in Task |-> 0]
  /\ spent = [d \in Domain |-> 0]
  /\ strays = [d \in Domain |-> 0]

-----------------------------------------------------------------------------
Goto(t, where) == pc' = [pc EXCEPT ![t] = where]

\* The limiters that the map or a task still refers to.
Live == {limiters[d] : d \in Domain} \cup {held[t] : t \in Task}

\* Mutant: one token more than the burst.
WaitTimeGenerous(d, owed) ==
  IF owed <= Burst * Interval(d) THEN 0 ELSE owed - Burst * Interval(d)

\* How long until a bucket of d with this debt has a token; none if it has one.
WaitTime(d, owed) ==
  IF owed <= (Burst - 1) * Interval(d) THEN 0 ELSE owed - (Burst - 1) * Interval(d)

\* The call returns and drops its Arc.
Return(t, ticks) ==
  /\ Goto(t, "idle")
  /\ held' = [held EXCEPT ![t] = None]
  /\ answer' = [answer EXCEPT ![t] = ticks]

\* until_ready(domain), check(domain) or wait_duration(domain).
Call(t, r) ==
  /\ pc[t] = "idle"
  /\ Goto(t, "lookup")
  /\ request' = [request EXCEPT ![t] = r]
  /\ answer' = [answer EXCEPT ![t] = 0]
  /\ UNCHANGED <<limiters, debt, held, delay, spent, strays>>

\* get_or_create, fast path: the domain has a limiter.
Lookup(t) ==
  LET found == limiters[request[t].domain]
  IN  /\ pc[t] = "lookup"
      /\ \/ found # None /\ held' = [held EXCEPT ![t] = found] /\ Goto(t, "acquire")
         \/ found = None /\ Goto(t, "create") /\ UNCHANGED held
      /\ UNCHANGED <<limiters, debt, request, delay, answer, spent, strays>>

\* Mutant: insert instead of entry().or_insert().
CreateOverwriting(t) ==
  /\ pc[t] = "create"
  /\ \E l \in Limiter \ Live :
       /\ debt' = [debt EXCEPT ![l] = 0]
       /\ held' = [held EXCEPT ![t] = l]
       /\ limiters' = [limiters EXCEPT ![request[t].domain] = l]
  /\ Goto(t, "acquire")
  /\ UNCHANGED <<request, delay, answer, spent, strays>>

\* get_or_create, slow path: a new limiter, which becomes the domain's unless
\* another task was faster.  The caller gets its own limiter in both cases.
Create(t) ==
  LET d == request[t].domain
  IN  /\ pc[t] = "create"
      /\ \E l \in Limiter \ Live :
           /\ debt' = [debt EXCEPT ![l] = 0]
           /\ held' = [held EXCEPT ![t] = l]
           /\ limiters' = IF limiters[d] = None
                          THEN [limiters EXCEPT ![d] = l]
                          ELSE limiters
      /\ Goto(t, "acquire")
      /\ UNCHANGED <<request, delay, answer, spent, strays>>

\* limiter.check() finds a token and takes it, whatever the operation.
Grant(t) ==
  LET d == request[t].domain
      l == held[t]
  IN  /\ pc[t] = "acquire"
      /\ WaitTime(d, debt[l]) = 0
      /\ debt' = [debt EXCEPT ![l] = @ + Interval(d)]
      /\ spent' = [spent EXCEPT ![d] = @ + Interval(d)]
      /\ strays' = IF l = limiters[d] THEN strays ELSE [strays EXCEPT ![d] = @ + 1]
      /\ Return(t, 0)
      /\ UNCHANGED <<limiters, request, delay>>

\* No token: until_ready sleeps until one is due, check and wait_duration answer.
Deny(t) ==
  LET wait == WaitTime(request[t].domain, debt[held[t]])
  IN  /\ pc[t] = "acquire"
      /\ wait > 0
      /\ IF request[t].op = "until_ready"
         THEN /\ delay' = [delay EXCEPT ![t] = wait]
              /\ Goto(t, "sleeping")
              /\ UNCHANGED <<held, answer>>
         ELSE Return(t, wait) /\ UNCHANGED delay
      /\ UNCHANGED <<limiters, debt, request, spent, strays>>

\* The timer has fired: until_ready tries again.
Wake(t) ==
  /\ pc[t] = "sleeping"
  /\ delay[t] = 0
  /\ Goto(t, "acquire")
  /\ UNCHANGED <<limiters, debt, request, held, delay, answer, spent, strays>>

\* reset(domain): the entry is removed, and with it the account of the domain.
Reset(d) ==
  /\ AllowReset
  /\ limiters[d] # None
  /\ limiters' = [limiters EXCEPT ![d] = None]
  /\ spent' = [spent EXCEPT ![d] = 0]
  /\ strays' = [strays EXCEPT ![d] = 0]
  /\ UNCHANGED <<debt, pc, request, held, delay, answer>>

Less(n) == IF n = 0 THEN 0 ELSE n - 1

\* Time passes.
Tick ==
  /\ debt' = [l \in Limiter |-> Less(debt[l])]
  /\ delay' = [t \in Task |-> Less(delay[t])]
  /\ spent' = [d \in Domain |-> Less(spent[d])]
  /\ UNCHANGED <<limiters, pc, request, held, answer, strays>>

Step(t) == Lookup(t) \/ Create(t) \/ Grant(t) \/ Deny(t) \/ Wake(t)

Next ==
  \/ \E t \in Task : Step(t) \/ \E r \in Request : Call(t, r)
  \/ \E d \in Domain : Reset(d)
  \/ Tick

Spec == Init /\ [][Next]_vars

\* The clock runs, and the runtime polls a task that is not waiting for a timer.
FairSpec == Spec /\ WF_vars(Tick) /\ \A t \in Task : WF_vars(Step(t))

-----------------------------------------------------------------------------
\* How many grants a domain can get past its shared limiter: one for each task
\* that lost the race to insert it, and after a reset one more for each task
\* that still held the limiter that was removed.
StrayLimit ==
  IF AllowReset THEN 2 * Cardinality(Task) - 1 ELSE Cardinality(Task) - 1

\* The race in get_or_create costs a domain a bounded overshoot: never more than
\* the burst and one token for each stray, however long the crawl runs.
OvershootIsBounded ==
  \A d \in Domain : spent[d] <= (Burst + StrayLimit) * Interval(d)

\* Beyond its strays, a domain's grants all come out of one bucket: the limiters
\* of the race do not go on granting beside the shared one.
SharedBucket ==
  \A d \in Domain :
    LET shared == IF limiters[d] = None THEN 0 ELSE debt[limiters[d]]
    IN  spent[d] <= shared + strays[d] * Interval(d)

\* The tasks that hold a limiter which is not the domain's, and the tasks that are
\* about to create one: with an entry in the map, each of them can still get one
\* grant past it.
Strayers(d) == {t \in Task : held[t] \notin {None, limiters[d]} /\ request[t].domain = d}
Creators(d) == {t \in Task : pc[t] = "create" /\ request[t].domain = d}

\* The strays that happened and those that may still come stay within the limit;
\* before there is an entry, only holders of a removed one go astray.
StrayInv ==
  \A d \in Domain :
    IF limiters[d] = None
    THEN strays[d] + Cardinality(Strayers(d)) <= IF AllowReset THEN Cardinality(Task) ELSE 0
    ELSE strays[d] + Cardinality(Strayers(d) \cup Creators(d)) <= StrayLimit

\* A limiter serves one domain, whether it is in the map or was, and its debt is
\* never more than its burst.
OneDomainInv ==
  /\ \A c, d \in Domain : limiters[c] # None /\ limiters[c] = limiters[d] => c = d
  /\ \A d \in Domain : limiters[d] # None => debt[limiters[d]] <= Burst * Interval(d)
  /\ \A t \in Task : held[t] # None =>
       /\ debt[held[t]] <= Burst * Interval(request[t].domain)
       /\ \A d \in Domain : limiters[d] = held[t] => d = request[t].domain
       /\ \A w \in Task : held[w] = held[t] => request[w].domain = request[t].domain
  /\ \A t \in Task : pc[t] \in {"acquire", "sleeping"} <=> held[t] # None

\* The inductive invariant.
LimiterInv == TypeOK /\ OneDomainInv /\ SharedBucket /\ StrayInv

\* What the limiter is for: a domain is never granted more than its quota.
WithinQuota == \A d \in Domain : spent[d] <= Burst * Interval(d)

\* Once callers stop coming, every until_ready is granted: no wake-up is lost,
\* however often another task took the token a sleeper was waiting for.
WaitersAreServed ==
  <>[][\A t \in Task : pc[t] = "idle" => pc'[t] = "idle"]_vars
    => \A t \in Task : pc[t] # "idle" ~> pc[t] = "idle"
=============================================================================
