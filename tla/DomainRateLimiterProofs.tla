---------------------- MODULE DomainRateLimiterProofs ----------------------
(***************************************************************************)
(* Proofs about DomainRateLimiter, for any finite number of tasks, any     *)
(* domains, rates and bursts, with and without resets.                     *)
(***************************************************************************)
EXTENDS DomainRateLimiter, FiniteSetTheorems, TLAPS

\* The rates and the burst are positive, and so is the emission interval.
LEMMA ConfigTypes ==
  /\ Burst \in Nat \ {0}
  /\ \A d \in Domain : Rps(d) \in Nat \ {0} /\ Interval(d) \in Nat
<1>1. Burst \in Nat \ {0}
  BY ConfigAssumption DEF Burst, AtLeastOne
<1>2. ASSUME NEW d \in Domain PROVE Rps(d) \in Nat \ {0} /\ Interval(d) \in Nat
  <2>1. Rps(d) \in Nat \ {0}
    BY ConfigAssumption DEF Rps, AtLeastOne
  <2>2. QED BY <2>1, ConfigAssumption DEF Interval
<1>3. QED BY <1>1, <1>2

\* The products of this module, for the provers: one more, one less, monotony.
LEMMA Products ==
  ASSUME NEW b \in Nat, NEW k \in Nat
  PROVE  /\ b * k \in Nat
         /\ (b + 1) * k = b * k + k
         /\ b >= 1 => (b - 1) * k + k = b * k /\ (b - 1) * k \in Nat
BY SMT

LEMMA ProductSum ==
  ASSUME NEW a \in Nat, NEW b \in Nat, NEW k \in Nat
  PROVE  a * k + b * k = (a + b) * k
BY SMT

LEMMA ProductMonotone ==
  ASSUME NEW a \in Nat, NEW b \in Nat, NEW k \in Nat, a <= b
  PROVE  a * k <= b * k
BY SMT

\* A bucket that has a token has room for one more interval of debt.
LEMMA RoomForOne ==
  ASSUME NEW d \in Domain, NEW owed \in Nat, WaitTime(d, owed) = 0
  PROVE  owed + Interval(d) <= Burst * Interval(d)
<1>1. Burst \in Nat /\ Burst >= 1 /\ Interval(d) \in Nat
  BY ConfigTypes
<1>2. (Burst - 1) * Interval(d) + Interval(d) = Burst * Interval(d)
      /\ (Burst - 1) * Interval(d) \in Nat
  BY <1>1, Products
<1>3. owed <= (Burst - 1) * Interval(d)
  BY <1>2, SMT DEF WaitTime
<1>4. QED
  <2> DEFINE room == (Burst - 1) * Interval(d)
             full == Burst * Interval(d)
  <2>1. owed <= room /\ room + Interval(d) = full /\ room \in Nat
    BY <1>2, <1>3
  <2> HIDE DEF room
  <2> QED BY <2>1, <1>1

LEMMA WaitTimeType ==
  ASSUME NEW d \in Domain, NEW owed \in Nat
  PROVE  WaitTime(d, owed) \in Nat
<1> DEFINE room == (Burst - 1) * Interval(d)
<1>1. room \in Nat
  BY ConfigTypes, Products
<1>2. WaitTime(d, owed) = IF owed <= room THEN 0 ELSE owed - room
  BY DEF WaitTime
<1> HIDE DEF room
<1>3. QED BY <1>1, <1>2

-----------------------------------------------------------------------------
LEMMA InitType == Init => TypeOK
<1>1. (CHOOSE r \in Request : TRUE) \in Request
  <2>1. PICK d \in Domain : TRUE
    BY ConfigAssumption
  <2>2. [domain |-> d, op |-> "check"] \in Request
    BY <2>1 DEF Request, Operation
  <2> QED BY <2>2
<1> QED BY <1>1 DEF Init, TypeOK

LEMMA TypeStep == TypeOK /\ OneDomainInv /\ [Next]_vars => TypeOK'
<1> SUFFICES ASSUME TypeOK, OneDomainInv, [Next]_vars PROVE TypeOK'
  OBVIOUS
<1> USE DEF TypeOK
<1>0. \A t \in Task : request[t].domain \in Domain
  BY DEF Request
<1>a. \A t \in Task : pc[t] = "acquire" => held[t] \in Limiter /\ debt[held[t]] \in Nat
  BY DEF OneDomainInv
<1>1. ASSUME NEW t \in Task, NEW r \in Request, Call(t, r) PROVE TypeOK'
  BY <1>1 DEF Call, Goto
<1>2. ASSUME NEW t \in Task, Lookup(t) PROVE TypeOK'
  BY <1>0, <1>2 DEF Lookup, Goto
<1>3. ASSUME NEW t \in Task, Create(t) PROVE TypeOK'
  BY <1>0, <1>3 DEF Create, Goto
<1>4. ASSUME NEW t \in Task, Grant(t) PROVE TypeOK'
  <2>1. Interval(request[t].domain) \in Nat
    BY <1>0, ConfigTypes
  <2>2. QED BY <1>0, <1>a, <1>4, <2>1 DEF Grant, Return, Goto
<1>5. ASSUME NEW t \in Task, Deny(t) PROVE TypeOK'
  <2>1. WaitTime(request[t].domain, debt[held[t]]) \in Nat
    BY <1>0, <1>a, <1>5, WaitTimeType DEF Deny
  <2>2. QED BY <1>5, <2>1 DEF Deny, Return, Goto
<1>6. ASSUME NEW t \in Task, Wake(t) PROVE TypeOK'
  BY <1>6 DEF Wake, Goto
<1>7. ASSUME NEW d \in Domain, Reset(d) PROVE TypeOK'
  BY <1>7 DEF Reset
<1>8. CASE Tick
  BY <1>8 DEF Tick, Less
<1>9. CASE UNCHANGED vars
  BY <1>9 DEF vars
<1>10. QED BY <1>1, <1>2, <1>3, <1>4, <1>5, <1>6, <1>7, <1>8, <1>9 DEF Next, Step

-----------------------------------------------------------------------------
\* A limiter keeps to one domain and to its burst: what disturbs this is a task
\* that gets a limiter, and a grant.
LEMMA LookupOneDomain ==
  ASSUME TypeOK, OneDomainInv, NEW t \in Task, Lookup(t)
  PROVE  OneDomainInv'
<1> DEFINE d == request[t].domain
<1>1. d \in Domain
  BY DEF TypeOK, Request
<1>2. CASE limiters[d] # None
  <2>1. held' = [held EXCEPT ![t] = limiters[d]] /\ pc' = [pc EXCEPT ![t] = "acquire"]
    BY <1>2 DEF Lookup, Goto
  <2>2. UNCHANGED <<limiters, debt, request>>
    BY DEF Lookup
  <2>3. QED BY <1>1, <1>2, <2>1, <2>2 DEF TypeOK, OneDomainInv
<1>3. CASE limiters[d] = None
  BY <1>3 DEF TypeOK, OneDomainInv, Lookup, Goto
<1>4. QED BY <1>2, <1>3

LEMMA CreateOneDomain ==
  ASSUME TypeOK, OneDomainInv, NEW t \in Task, Create(t)
  PROVE  OneDomainInv'
<1> DEFINE d == request[t].domain
<1>1. PICK l \in Limiter \ Live :
        /\ debt' = [debt EXCEPT ![l] = 0]
        /\ held' = [held EXCEPT ![t] = l]
        /\ limiters' = IF limiters[d] = None THEN [limiters EXCEPT ![d] = l] ELSE limiters
  BY DEF Create
<1>2. d \in Domain /\ l # None
  BY LimiterAssumption DEF TypeOK, Request
<1>3. (\A c \in Domain : limiters[c] # l) /\ (\A w \in Task : held[w] # l)
  BY DEF Live
<1>4. \A c \in Domain : 0 <= Burst * Interval(c)
  BY ConfigTypes, Products
<1>5. pc' = [pc EXCEPT ![t] = "acquire"] /\ request' = request
  BY DEF Create, Goto
<1>6. QED BY <1>1, <1>2, <1>3, <1>4, <1>5 DEF TypeOK, OneDomainInv

LEMMA GrantOneDomain ==
  ASSUME TypeOK, OneDomainInv, NEW t \in Task, Grant(t)
  PROVE  OneDomainInv'
<1> DEFINE d == request[t].domain
           l == held[t]
<1>1. d \in Domain /\ l \in Limiter /\ debt[l] \in Nat
  BY DEF TypeOK, Request, OneDomainInv, Grant
<1>2. debt[l] + Interval(d) <= Burst * Interval(d)
  BY <1>1, RoomForOne DEF Grant
<1>3. /\ debt' = [debt EXCEPT ![l] = @ + Interval(d)]
      /\ held' = [held EXCEPT ![t] = None]
      /\ pc' = [pc EXCEPT ![t] = "idle"]
      /\ UNCHANGED <<limiters, request>>
  BY DEF Grant, Return, Goto
<1>4. QED BY <1>1, <1>2, <1>3 DEF TypeOK, OneDomainInv

LEMMA TickOneDomain ==
  ASSUME TypeOK, OneDomainInv, Tick
  PROVE  OneDomainInv'
<1>1. \A l \in Limiter : debt'[l] \in Nat /\ debt'[l] <= debt[l]
  BY DEF TypeOK, Tick, Less
<1>2. \A d \in Domain : Burst * Interval(d) \in Nat
  BY ConfigTypes, Products
<1>3. UNCHANGED <<limiters, pc, request, held>>
  BY DEF Tick
<1>4. QED BY <1>1, <1>2, <1>3 DEF TypeOK, OneDomainInv, Request

LEMMA OneDomainStep == TypeOK /\ OneDomainInv /\ [Next]_vars => OneDomainInv'
<1> SUFFICES ASSUME TypeOK, OneDomainInv, [Next]_vars PROVE OneDomainInv'
  OBVIOUS
<1>1. ASSUME NEW t \in Task, NEW r \in Request, Call(t, r) PROVE OneDomainInv'
  BY <1>1 DEF TypeOK, OneDomainInv, Call, Goto
<1>2. ASSUME NEW t \in Task, Deny(t) PROVE OneDomainInv'
  BY <1>2 DEF TypeOK, OneDomainInv, Deny, Return, Goto
<1>3. ASSUME NEW t \in Task, Wake(t) PROVE OneDomainInv'
  BY <1>3 DEF TypeOK, OneDomainInv, Wake, Goto
<1>4. ASSUME NEW d \in Domain, Reset(d) PROVE OneDomainInv'
  BY <1>4, LimiterAssumption DEF TypeOK, OneDomainInv, Reset
<1>5. CASE UNCHANGED vars
  BY <1>5 DEF OneDomainInv, vars
<1>6. QED
  BY <1>1, <1>2, <1>3, <1>4, <1>5, LookupOneDomain, CreateOneDomain, GrantOneDomain,
     TickOneDomain DEF Next, Step

-----------------------------------------------------------------------------
\* What a grant adds to a domain's account it adds to the domain's bucket, or to
\* its strays.
LEMMA SharedBucketStep ==
  TypeOK /\ OneDomainInv /\ SharedBucket /\ [Next]_vars => SharedBucket'
<1> SUFFICES ASSUME TypeOK, OneDomainInv, SharedBucket, [Next]_vars, NEW d \in Domain
             PROVE  (LET shared == IF limiters[d] = None THEN 0 ELSE debt[limiters[d]]
                     IN  spent[d] <= shared + strays[d] * Interval(d))'
  BY DEF SharedBucket
<1> DEFINE shared == IF limiters[d] = None THEN 0 ELSE debt[limiters[d]]
           stray == strays[d] * Interval(d)
<1>0. /\ shared \in Nat /\ stray \in Nat /\ spent[d] \in Nat /\ strays[d] \in Nat
      /\ Interval(d) \in Nat /\ spent[d] <= shared + stray
  BY ConfigTypes, Products DEF TypeOK, SharedBucket
<1> SUFFICES spent'[d] <= shared' + stray'
  OBVIOUS
<1>1. ASSUME NEW t \in Task, NEW r \in Request, Call(t, r) PROVE spent'[d] <= shared' + stray'
  BY <1>0, <1>1 DEF Call
<1>2. ASSUME NEW t \in Task, Lookup(t) PROVE spent'[d] <= shared' + stray'
  BY <1>0, <1>2 DEF Lookup
<1>3. ASSUME NEW t \in Task, Create(t) PROVE spent'[d] <= shared' + stray'
  <2>1. shared' = shared
    BY <1>3, LimiterAssumption DEF Create, TypeOK, Live, Request
  <2>2. QED BY <1>0, <1>3, <2>1 DEF Create
<1>4. ASSUME NEW t \in Task, Grant(t) PROVE spent'[d] <= shared' + stray'
  <2> DEFINE l == held[t]
             c == request[t].domain
  <2>1. c \in Domain /\ l \in Limiter /\ l # None /\ Interval(c) \in Nat
    BY <1>4, ConfigTypes DEF TypeOK, Request, OneDomainInv, Grant
  <2>2. /\ debt' = [debt EXCEPT ![l] = @ + Interval(c)]
        /\ spent' = [spent EXCEPT ![c] = @ + Interval(c)]
        /\ strays' = IF l = limiters[c] THEN strays ELSE [strays EXCEPT ![c] = @ + 1]
        /\ limiters' = limiters
    BY <1>4 DEF Grant
  <2>3. \A e \in Domain : limiters[e] = l => e = c
    BY <2>1 DEF OneDomainInv
  <2>4. CASE c # d
    <3>1. shared' = shared /\ stray' = stray /\ spent'[d] = spent[d]
      BY <2>1, <2>2, <2>3, <2>4 DEF TypeOK
    <3>2. QED BY <1>0, <3>1
  <2>5. CASE c = d /\ l = limiters[d]
    <3>1. /\ shared' = shared + Interval(d)
          /\ stray' = stray
          /\ spent'[d] = spent[d] + Interval(d)
      BY <2>1, <2>2, <2>5 DEF TypeOK
    <3>2. QED BY <1>0, <3>1
  <2>6. CASE c = d /\ l # limiters[d]
    <3>1. /\ shared' = shared
          /\ strays'[d] = strays[d] + 1
          /\ spent'[d] = spent[d] + Interval(d)
      BY <2>1, <2>2, <2>6 DEF TypeOK
    <3>2. stray' = stray + Interval(d)
      BY <1>0, <3>1, Products
    <3>3. QED BY <1>0, <3>1, <3>2
  <2>7. QED BY <2>4, <2>5, <2>6
<1>5. ASSUME NEW t \in Task, Deny(t) PROVE spent'[d] <= shared' + stray'
  BY <1>0, <1>5 DEF Deny
<1>6. ASSUME NEW t \in Task, Wake(t) PROVE spent'[d] <= shared' + stray'
  BY <1>0, <1>6 DEF Wake
<1>7. ASSUME NEW c \in Domain, Reset(c) PROVE spent'[d] <= shared' + stray'
  <2>1. CASE c = d
    <3>1. spent'[d] = 0 /\ strays'[d] = 0 /\ limiters'[d] = None
      BY <1>7, <2>1 DEF Reset, TypeOK
    <3>2. shared' = 0 /\ stray' \in Nat
      BY <1>0, <3>1, Products
    <3>3. QED BY <3>1, <3>2
  <2>2. CASE c # d
    <3>1. shared' = shared /\ stray' = stray /\ spent'[d] = spent[d]
      BY <1>7, <2>2 DEF Reset, TypeOK
    <3>2. QED BY <1>0, <3>1
  <2>3. QED BY <2>1, <2>2
<1>8. CASE Tick
  <2>1. stray' = stray /\ shared' = Less(shared) /\ spent'[d] = Less(spent[d])
    BY <1>8 DEF Tick, TypeOK, Less
  <2>2. QED BY <1>0, <2>1 DEF Less
<1>9. CASE UNCHANGED vars
  BY <1>0, <1>9 DEF vars
<1>10. QED BY <1>1, <1>2, <1>3, <1>4, <1>5, <1>6, <1>7, <1>8, <1>9 DEF Next, Step

-----------------------------------------------------------------------------
\* What StrayInv says of one domain, given the sets of the tasks it counts.
Within(entry, n, S, C) ==
  IF entry = None
  THEN n + Cardinality(S) <= IF AllowReset THEN Cardinality(Task) ELSE 0
  ELSE n + Cardinality(S \cup C) <= StrayLimit

LEMMA StrayInvIsWithin ==
  StrayInv <=> \A d \in Domain : Within(limiters[d], strays[d], Strayers(d), Creators(d))
BY DEF StrayInv, Within

\* Fewer tasks count less.
LEMMA Counts ==
  ASSUME NEW A \in SUBSET Task, NEW B \in SUBSET Task
  PROVE  /\ Cardinality(A) \in Nat
         /\ Cardinality(Task) \in Nat /\ Cardinality(Task) >= 1
         /\ Cardinality(A) <= Cardinality(Task)
         /\ A \subseteq B => Cardinality(A) <= Cardinality(B)
         /\ \A t \in B : A \subseteq B \ {t} => Cardinality(A) <= Cardinality(B) - 1
         /\ Cardinality(A \cup B) <= Cardinality(A) + Cardinality(B)
<1>1. IsFiniteSet(Task) /\ IsFiniteSet(A) /\ IsFiniteSet(B)
  BY TaskAssumption, FS_Subset
<1>2. Cardinality(A) \in Nat /\ Cardinality(B) \in Nat /\ Cardinality(Task) \in Nat
  BY <1>1, FS_CardinalityType
<1>3. Cardinality(A) <= Cardinality(Task)
  BY <1>1, FS_Subset
<1>4. Cardinality(Task) >= 1
  BY <1>1, <1>2, TaskAssumption, FS_EmptySet
<1>5. A \subseteq B => Cardinality(A) <= Cardinality(B)
  BY <1>1, FS_Subset
<1>6. ASSUME NEW t \in B, A \subseteq B \ {t} PROVE Cardinality(A) <= Cardinality(B) - 1
  <2>1. IsFiniteSet(B \ {t}) /\ Cardinality(B \ {t}) = Cardinality(B) - 1
    BY <1>1, FS_RemoveElement
  <2>2. QED BY <1>6, <2>1, FS_Subset
<1>7. Cardinality(A \cup B) <= Cardinality(A) + Cardinality(B)
  <2>1. /\ Cardinality(A \cup B) =
             Cardinality(A) + Cardinality(B) - Cardinality(A \cap B)
        /\ IsFiniteSet(A \cap B)
    BY <1>1, FS_Union, FS_Subset
  <2>2. Cardinality(A \cap B) \in Nat
    BY <2>1, FS_CardinalityType
  <2>3. QED BY <1>2, <2>1, <2>2
<1>8. QED BY <1>2, <1>3, <1>4, <1>5, <1>6, <1>7

LEMMA TaskCount ==
  /\ Cardinality(Task) \in Nat /\ Cardinality(Task) >= 1
  /\ StrayLimit \in Int
<1>1. {} \in SUBSET Task
  OBVIOUS
<1>2. Cardinality(Task) \in Nat /\ Cardinality(Task) >= 1
  BY <1>1, Counts
<1>3. QED BY <1>2 DEF StrayLimit

\* A domain whose entry and strays stay may lose tasks from either set, and move
\* tasks between them once it has an entry.
LEMMA FewerStrays ==
  ASSUME NEW entry, NEW n \in Nat,
         NEW S \in SUBSET Task, NEW C \in SUBSET Task,
         NEW S2 \in SUBSET Task, NEW C2 \in SUBSET Task,
         Within(entry, n, S, C), entry = None => S2 \subseteq S,
         entry # None => S2 \cup C2 \subseteq S \cup C
  PROVE  Within(entry, n, S2, C2)
<1>1. CASE entry = None
  <2>1. /\ Cardinality(S2) <= Cardinality(S)
        /\ Cardinality(S2) \in Nat /\ Cardinality(S) \in Nat
    BY <1>1, Counts
  <2>2. QED BY <1>1, <2>1, TaskCount DEF Within
<1>2. CASE entry # None
  <2>1. S \cup C \in SUBSET Task /\ S2 \cup C2 \in SUBSET Task
    OBVIOUS
  <2>2. /\ Cardinality(S2 \cup C2) <= Cardinality(S \cup C)
        /\ Cardinality(S2 \cup C2) \in Nat /\ Cardinality(S \cup C) \in Nat
    BY <1>2, <2>1, Counts
  <2>3. QED BY <1>2, <2>2, TaskCount DEF Within
<1>3. QED BY <1>1, <1>2

\* A stray grant uses up the place of its task.
LEMMA OneMoreStray ==
  ASSUME NEW entry, NEW n \in Nat, NEW t,
         NEW S \in SUBSET Task, NEW C \in SUBSET Task,
         NEW S2 \in SUBSET Task, NEW C2 \in SUBSET Task,
         Within(entry, n, S, C), t \in S, S2 \subseteq S \ {t}, C2 \subseteq C \ {t}
  PROVE  Within(entry, n + 1, S2, C2)
<1>1. CASE entry = None
  <2>1. Cardinality(S2) <= Cardinality(S) - 1
        /\ Cardinality(S2) \in Nat /\ Cardinality(S) \in Nat
    BY Counts
  <2>2. QED BY <1>1, <2>1, TaskCount DEF Within
<1>2. CASE entry # None
  <2> DEFINE L == S \cup C
             M == S2 \cup C2
  <2>1. L \in SUBSET Task /\ M \in SUBSET Task /\ t \in L /\ M \subseteq L \ {t}
    OBVIOUS
  <2> HIDE DEF L, M
  <2>2. Cardinality(M) <= Cardinality(L) - 1 /\ Cardinality(M) \in Nat /\ Cardinality(L) \in Nat
    BY <2>1, Counts
  <2>4. n + Cardinality(L) <= StrayLimit
    BY <1>2 DEF Within, L
  <2>5. n + 1 + Cardinality(M) <= StrayLimit
    BY <2>2, <2>4, TaskCount
  <2>6. QED BY <1>2, <2>5 DEF Within, M
<1>3. QED BY <1>1, <1>2

\* The first entry: all tasks but its creator may still be about to create one.
LEMMA FirstEntry ==
  ASSUME NEW entry, NEW n \in Nat, NEW t \in Task,
         NEW S \in SUBSET Task, NEW C \in SUBSET Task,
         NEW S2 \in SUBSET Task, NEW C2 \in SUBSET Task,
         Within(None, n, S, C), entry # None, S2 \subseteq S, C2 \subseteq C \ {t}
  PROVE  Within(entry, n, S2, C2)
<1> DEFINE K == Cardinality(Task)
<1>1. K \in Nat /\ K >= 1
  BY TaskCount
<1>2. Cardinality(C2) <= K - 1 /\ Cardinality(C2) \in Nat
  BY Counts
<1>3. Cardinality(S2) <= Cardinality(S) /\ Cardinality(S2) \in Nat /\ Cardinality(S) \in Nat
  BY Counts
<1>4. Cardinality(S2 \cup C2) <= Cardinality(S2) + Cardinality(C2)
  BY Counts
<1>5. Cardinality(S2 \cup C2) \in Nat
  <2>1. S2 \cup C2 \in SUBSET Task
    OBVIOUS
  <2>2. QED BY <2>1, Counts
<1>6. n + Cardinality(S) <= IF AllowReset THEN K ELSE 0
  BY DEF Within
<1>7. StrayLimit = IF AllowReset THEN 2 * K - 1 ELSE K - 1
  BY DEF StrayLimit
<1> HIDE DEF K
<1>8. n + Cardinality(S2 \cup C2) <= StrayLimit
  BY <1>1, <1>2, <1>3, <1>4, <1>5, <1>6, <1>7, ConfigAssumption
<1>9. QED BY <1>8 DEF Within

-----------------------------------------------------------------------------
\* Every step keeps every domain's count within the limit: a stray grant uses up
\* the place of its task, and the first entry is made by a task that is not a
\* stray of it.
LEMMA StrayStep == TypeOK /\ OneDomainInv /\ StrayInv /\ [Next]_vars => StrayInv'
<1> SUFFICES ASSUME TypeOK, OneDomainInv, StrayInv, [Next]_vars, NEW d \in Domain
             PROVE  Within(limiters[d], strays[d], Strayers(d), Creators(d))'
  BY DEF StrayInv, Within
<1> DEFINE entry == limiters[d]
           n == strays[d]
           S == Strayers(d)
           C == Creators(d)
<1>a. Within(entry, n, S, C) /\ n \in Nat
  BY StrayInvIsWithin DEF TypeOK
<1>b. S \in SUBSET Task /\ C \in SUBSET Task /\ S' \in SUBSET Task /\ C' \in SUBSET Task
  BY DEF Strayers, Creators
<1>c. ASSUME limiters'[d] = limiters[d], strays'[d] = strays[d],
             S' \subseteq S, entry # None => S' \cup C' \subseteq S \cup C
      PROVE  Within(limiters'[d], strays'[d], S', C')
  <2> HIDE DEF entry, n, S, C
  <2>1. Within(entry, n, S', C')
    BY <1>a, <1>b, <1>c, FewerStrays
  <2>2. QED BY <1>c, <2>1 DEF entry, n
<1>d. SUFFICES Within(limiters'[d], strays'[d], S', C')
  BY DEF Within
<1>1. ASSUME NEW t \in Task, NEW r \in Request, Call(t, r)
      PROVE  Within(limiters'[d], strays'[d], S', C')
  <2>1. held[t] = None
    BY <1>1 DEF OneDomainInv, Call
  <2>2. S' \subseteq S /\ C' \subseteq C
    BY <1>1, <2>1 DEF Strayers, Creators, Call, Goto, TypeOK
  <2>3. QED BY <1>1, <1>c, <2>2 DEF Call
<1>2. ASSUME NEW t \in Task, Lookup(t)
      PROVE  Within(limiters'[d], strays'[d], S', C')
  <2>1. limiters' = limiters /\ strays' = strays /\ request' = request
    BY <1>2 DEF Lookup
  <2>2. S' \subseteq S
    BY <1>2 DEF Strayers, Lookup, Goto, TypeOK
  <2>3. entry # None => C' \subseteq C
    BY <1>2 DEF Creators, Lookup, Goto, TypeOK
  <2>4. QED BY <1>c, <2>1, <2>2, <2>3
<1>3. ASSUME NEW t \in Task, Create(t)
      PROVE  Within(limiters'[d], strays'[d], S', C')
  <2> DEFINE c == request[t].domain
  <2>1. PICK l \in Limiter \ Live :
          /\ held' = [held EXCEPT ![t] = l]
          /\ limiters' = IF limiters[c] = None THEN [limiters EXCEPT ![c] = l] ELSE limiters
    BY <1>3 DEF Create
  <2>2. c \in Domain /\ l # None /\ pc[t] = "create" /\ request' = request
        /\ strays' = strays /\ pc' = [pc EXCEPT ![t] = "acquire"]
    BY <1>3, LimiterAssumption DEF Create, Goto, TypeOK, Request
  <2>3. C' \subseteq C \ {t}
    BY <2>2 DEF Creators, TypeOK
  <2>4. CASE c # d
    <3>1. limiters'[d] = limiters[d] /\ S' \subseteq S
      BY <2>1, <2>2, <2>4 DEF Strayers, TypeOK
    <3>2. QED BY <1>c, <2>2, <2>3, <3>1
  <2>5. CASE c = d /\ limiters[d] # None
    <3>1. t \in C /\ S' \subseteq S \cup {t} /\ limiters' = limiters
      BY <2>1, <2>2, <2>5 DEF Strayers, Creators, TypeOK
    <3>2. S' \cup C' \subseteq S \cup C
      BY <2>3, <3>1
    <3> HIDE DEF S, C, entry, n
    <3>3. Within(entry, n, S', C')
      BY <1>a, <1>b, <2>5, <3>2, FewerStrays DEF entry
    <3>4. QED BY <2>2, <3>1, <3>3 DEF entry, n
  <2>6. CASE c = d /\ limiters[d] = None
    <3>1. limiters'[d] = l
      BY <2>1, <2>2, <2>6 DEF TypeOK
    <3>2. held[t] = None
      BY <2>2 DEF OneDomainInv
    <3>3. S' \subseteq S
      BY <2>1, <2>2, <2>6, <3>1, <3>2 DEF Strayers, TypeOK
    <3> HIDE DEF S, C, n
    <3>4. Within(l, n, S', C')
      BY <1>a, <1>b, <2>2, <2>3, <2>6, <3>3, FirstEntry
    <3>5. QED BY <2>2, <3>1, <3>4 DEF n
  <2>7. QED BY <2>4, <2>5, <2>6
<1>4. ASSUME NEW t \in Task, Grant(t)
      PROVE  Within(limiters'[d], strays'[d], S', C')
  <2> DEFINE c == request[t].domain
             l == held[t]
  <2>1. /\ c \in Domain /\ l # None
        /\ held' = [held EXCEPT ![t] = None] /\ pc' = [pc EXCEPT ![t] = "idle"]
        /\ strays' = IF l = limiters[c] THEN strays ELSE [strays EXCEPT ![c] = @ + 1]
        /\ UNCHANGED <<limiters, request>>
    BY <1>4 DEF Grant, Return, Goto, OneDomainInv, TypeOK, Request
  <2>2. S' \subseteq S \ {t} /\ C' \subseteq C \ {t}
    BY <2>1 DEF Strayers, Creators, TypeOK
  <2>3. CASE c # d \/ l = limiters[c]
    <3>1. strays'[d] = strays[d]
      BY <2>1, <2>3 DEF TypeOK
    <3>2. QED BY <1>c, <2>1, <2>2, <3>1
  <2>4. CASE c = d /\ l # limiters[c]
    <3>1. t \in S /\ strays'[d] = n + 1
      BY <2>1, <2>4 DEF Strayers, TypeOK
    <3> HIDE DEF S, C, n, entry
    <3>2. Within(entry, n + 1, S', C')
      BY <1>a, <1>b, <2>2, <3>1, OneMoreStray
    <3>3. QED BY <2>1, <3>1, <3>2 DEF entry
  <2>5. QED BY <2>3, <2>4
<1>5. ASSUME NEW t \in Task, Deny(t)
      PROVE  Within(limiters'[d], strays'[d], S', C')
  <2>1. S' \subseteq S /\ C' \subseteq C
    BY <1>5 DEF Strayers, Creators, Deny, Return, Goto, TypeOK
  <2>2. QED BY <1>5, <1>c, <2>1 DEF Deny
<1>6. ASSUME NEW t \in Task, Wake(t)
      PROVE  Within(limiters'[d], strays'[d], S', C')
  <2>1. S' \subseteq S /\ C' \subseteq C
    BY <1>6 DEF Strayers, Creators, Wake, Goto, TypeOK
  <2>2. QED BY <1>6, <1>c, <2>1 DEF Wake
<1>7. ASSUME NEW c \in Domain, Reset(c)
      PROVE  Within(limiters'[d], strays'[d], S', C')
  <2>1. CASE c = d
    <3>1. limiters'[d] = None /\ strays'[d] = 0 /\ AllowReset
      BY <1>7, <2>1 DEF Reset, TypeOK
    <3> HIDE DEF S, C
    <3>2. Cardinality(S') <= Cardinality(Task) /\ Cardinality(S') \in Nat
      BY <1>b, Counts
    <3>3. QED BY <3>1, <3>2 DEF Within
  <2>2. CASE c # d
    <3>1. limiters'[d] = limiters[d] /\ strays'[d] = strays[d]
      BY <1>7, <2>2 DEF Reset, TypeOK
    <3>2. S' \subseteq S /\ C' \subseteq C
      BY <1>7, <3>1 DEF Strayers, Creators, Reset
    <3>3. QED BY <1>c, <3>1, <3>2
  <2>3. QED BY <2>1, <2>2
<1>8. CASE Tick
  <2>1. S' \subseteq S /\ C' \subseteq C
    BY <1>8 DEF Strayers, Creators, Tick
  <2>2. QED BY <1>8, <1>c, <2>1 DEF Tick
<1>9. CASE UNCHANGED vars
  <2>1. S' \subseteq S /\ C' \subseteq C
    BY <1>9 DEF Strayers, Creators, vars
  <2>2. QED BY <1>9, <1>c, <2>1 DEF vars
<1>10. QED BY <1>1, <1>2, <1>3, <1>4, <1>5, <1>6, <1>7, <1>8, <1>9 DEF Next, Step

-----------------------------------------------------------------------------
LEMMA LimiterInit == Init => LimiterInv
<1> SUFFICES ASSUME Init PROVE LimiterInv
  OBVIOUS
<1>1. TypeOK
  BY InitType
<1>2. OneDomainInv
  BY DEF Init, OneDomainInv
<1>3. SharedBucket
  BY ConfigTypes DEF Init, SharedBucket
<1>4. ASSUME NEW d \in Domain
      PROVE  limiters[d] = None /\ strays[d] = 0 /\ Cardinality(Strayers(d)) = 0
  <2>1. Strayers(d) = {}
    BY DEF Init, Strayers
  <2>2. QED BY <2>1, FS_EmptySet DEF Init
<1>5. StrayInv
  BY <1>4, TaskCount DEF StrayInv
<1>6. QED BY <1>1, <1>2, <1>3, <1>5 DEF LimiterInv

\* The inductive invariant, and with it each of its parts, for every number of
\* tasks, domains and limiters (rate_limiter.rs:46-145).
THEOREM LimiterInvariant == Spec => []LimiterInv
<1>1. Init => LimiterInv
  BY LimiterInit
<1>2. LimiterInv /\ [Next]_vars => LimiterInv'
  BY TypeStep, OneDomainStep, SharedBucketStep, StrayStep DEF LimiterInv
<1>3. QED BY <1>1, <1>2, PTL DEF Spec

\* Beyond its strays, a domain's grants come out of one bucket (get_or_create).
THEOREM OneSharedBucket == Spec => []SharedBucket
<1>1. LimiterInv => SharedBucket
  BY DEF LimiterInv
<1>2. QED BY <1>1, LimiterInvariant, PTL

LEMMA InvBoundsOvershoot == LimiterInv => OvershootIsBounded
<1> SUFFICES ASSUME LimiterInv, NEW d \in Domain
             PROVE  spent[d] <= (Burst + StrayLimit) * Interval(d)
  BY DEF OvershootIsBounded
<1> DEFINE shared == IF limiters[d] = None THEN 0 ELSE debt[limiters[d]]
           bucket == Burst * Interval(d)
           stray == strays[d] * Interval(d)
           limit == StrayLimit * Interval(d)
<1>1. /\ spent[d] \in Nat /\ strays[d] \in Nat /\ shared \in Nat
      /\ Burst \in Nat /\ Interval(d) \in Nat /\ StrayLimit \in Nat
  BY ConfigTypes, TaskCount DEF LimiterInv, TypeOK, StrayLimit
<1>2. strays[d] <= StrayLimit
  <2>1. Cardinality(Strayers(d)) \in Nat /\ Cardinality(Strayers(d) \cup Creators(d)) \in Nat
    <3>1. Strayers(d) \in SUBSET Task /\ Strayers(d) \cup Creators(d) \in SUBSET Task
      BY DEF Strayers, Creators
    <3>2. QED BY <3>1, Counts
  <2>2. QED BY <1>1, <2>1, TaskCount DEF LimiterInv, StrayInv, StrayLimit
<1>3. bucket \in Nat /\ stray \in Nat /\ limit \in Nat
  BY <1>1, Products
<1>4. stray <= limit
  BY <1>1, <1>2, ProductMonotone
<1>5. bucket + limit = (Burst + StrayLimit) * Interval(d)
  BY <1>1, ProductSum
<1>6. shared <= bucket
  BY <1>3 DEF LimiterInv, OneDomainInv
<1>7. spent[d] <= shared + stray
  BY DEF LimiterInv, SharedBucket
<1> HIDE DEF shared, bucket, stray, limit
<1>8. spent[d] <= bucket + limit
  BY <1>1, <1>3, <1>4, <1>6, <1>7
<1>9. QED BY <1>5, <1>8

\* The race in get_or_create costs a domain at most one token for each task, and
\* one more for each after a reset, whatever the number of tasks.
THEOREM OvershootBound == Spec => []OvershootIsBounded
<1>1. LimiterInv => OvershootIsBounded
  BY InvBoundsOvershoot
<1>2. QED BY <1>1, LimiterInvariant, PTL
=============================================================================
