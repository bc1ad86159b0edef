--------------------------- MODULE CrawlLoopProofs ---------------------------
(***************************************************************************)
(* Proofs about CrawlLoop, for any site, any number of workers, any mode,  *)
(* capacity and budget: a crawl uses the frontier as LocalFrontier allows, *)
(* so that what is proved of the frontier holds in every crawl; depths are *)
(* what they say; no link is lost; and one worker in breadth mode reaches  *)
(* every page by a shortest way.                                           *)
(***************************************************************************)
EXTENDS CrawlLoop, LocalFrontierProofs, Recursion

\* A job that may wait: one of Job, at the end of a chain of explored pages.
Sound(j, pages) == j \in Job /\ Chained(j.url, j.depth, pages)

\* A job that has still to be pushed: its fragment may be there.
SoundLink(j, pages) == j \in Job /\ Chained(StripFragment[j.url], j.depth, pages)

\* The inductive invariant: everything on its way into the frontier is sound, and
\* what is in a worker's hands came out of the frontier.
CrawlInv ==
  /\ CrawlTypeOK
  /\ \A t \in Task : \A i \in DOMAIN pending[t] : SoundLink(pending[t][i], explored)
  /\ \A t \in Task : op[t] = "push" /\ pc[t] # "idle" => Sound(job[t], explored)
  /\ \A e \in Entered : Sound(e.job, explored)
  /\ \A t \in Task : result[t] = "job" =>
       pc[t] = "idle" /\ \E e \in taken : e.job = job[t]

-----------------------------------------------------------------------------
\* Jobs.
LEMMA JobFields ==
  ASSUME NEW j \in Job
  PROVE  /\ j \in [url : Url, depth : 0..MaxDepth, priority : Priority,
                   attempt : 0..MaxAttempts]
         /\ j.url \in Url /\ j.depth \in 0..MaxDepth /\ j.depth \in Nat
         /\ j.attempt \in Nat
BY AnyJobAssumption, BudgetAssumption

LEMMA NewJobType ==
  ASSUME NEW u \in Url, NEW n \in 0..MaxDepth
  PROVE  NewJob(u, n) \in Job /\ NewJob(u, n).url = u /\ NewJob(u, n).depth = n
<1>1. 128 \in Priority /\ 0 \in 0..MaxAttempts
  BY BudgetAssumption DEF Priority
<1>2. QED BY <1>1, AnyJobAssumption DEF NewJob

LEMMA StrippedJob ==
  ASSUME NEW j \in Job
  PROVE  LET k == [j EXCEPT !.url = StripFragment[j.url]]
         IN  k \in Job /\ k.url = StripFragment[j.url] /\ k.depth = j.depth
<1>1. StripFragment[j.url] \in Url
  BY JobFields, StripAssumption
<1>2. QED BY <1>1, JobFields, AnyJobAssumption

LEMMA RankedJob ==
  ASSUME NEW j \in Job, NEW p \in Priority
  PROVE  LET k == [j EXCEPT !.priority = p]
         IN  k \in Job /\ k.url = j.url /\ k.depth = j.depth
BY JobFields, AnyJobAssumption

LEMMA NextAttemptType ==
  ASSUME NEW j \in Job, ~IsExhausted(NextAttempt(j))
  PROVE  NextAttempt(j) \in Job /\ NextAttempt(j).url = j.url /\ NextAttempt(j).depth = j.depth
<1>1. j.attempt + 1 < MaxAttempts
  BY JobFields, BudgetAssumption DEF NextAttempt, IsExhausted
<1>2. j.attempt + 1 \in 0..MaxAttempts
  BY <1>1, JobFields, BudgetAssumption
<1>3. QED BY <1>2, JobFields, AnyJobAssumption DEF NextAttempt

\* A chain stays one when more pages are explored.
LEMMA ChainedGrows ==
  ASSUME NEW u, NEW n, NEW P, NEW Q, P \subseteq Q, Chained(u, n, P)
  PROVE  Chained(u, n, Q)
BY DEF Chained

LEMMA SoundGrows ==
  ASSUME NEW j, NEW P, NEW Q, P \subseteq Q
  PROVE  /\ Sound(j, P) => Sound(j, Q)
         /\ SoundLink(j, P) => SoundLink(j, Q)
BY ChainedGrows DEF Sound, SoundLink

LEMMA SeedsAreSound ==
  ASSUME NEW i \in DOMAIN Seeds, NEW P
  PROVE  SoundLink(NewJob(Seeds[i], 0), P)
<1>1. Seeds[i] \in Url /\ 0 \in 0..MaxDepth
  BY SiteAssumption, BudgetAssumption
<1>2. Target(StripFragment[Seeds[i]], Seeds)
  BY DEF Target
<1>3. QED BY <1>1, <1>2, NewJobType DEF SoundLink, Chained

\* The links of a page are one level deeper than the page, which is explored now.
LEMMA DiscoveredIsSound ==
  ASSUME NEW j \in Job, NEW P
  PROVE  /\ Discovered(j) \in Seq(Job)
         /\ \A i \in DOMAIN Discovered(j) : SoundLink(Discovered(j)[i], P \cup {j})
<1>1. CASE j.depth < MaxDepth
  <2> DEFINE links == Links[j.url]
  <2>1. links \in Seq(Url) /\ j.depth + 1 \in 0..MaxDepth
    BY <1>1, JobFields, SiteAssumption, BudgetAssumption
  <2>2. Discovered(j) = [i \in DOMAIN links |-> NewJob(links[i], j.depth + 1)]
    BY <1>1 DEF Discovered
  <2> HIDE DEF links
  <2>3. \A i \in DOMAIN links : links[i] \in Url /\ NewJob(links[i], j.depth + 1) \in Job
    BY <2>1, NewJobType
  <2>4. DOMAIN links = 1..Len(links) /\ Len(links) \in Nat
    BY <2>1
  <2>5. Discovered(j) \in Seq(Job)
    <3>1. Discovered(j) \in [1..Len(links) -> Job]
      BY <2>2, <2>3, <2>4
    <3>2. QED BY <2>4, <3>1, SeqDef
  <2>6. ASSUME NEW i \in DOMAIN links
        PROVE  SoundLink(NewJob(links[i], j.depth + 1), P \cup {j})
    <3>1. Target(StripFragment[links[i]], links)
      BY DEF Target
    <3>2. Chained(StripFragment[links[i]], j.depth + 1, P \cup {j})
      BY <3>1 DEF Chained, links
    <3>3. QED BY <2>1, <2>3, <3>2, NewJobType DEF SoundLink
  <2>7. QED BY <2>2, <2>5, <2>6
<1>2. CASE ~(j.depth < MaxDepth)
  BY <1>2 DEF Discovered
<1>3. QED BY <1>1, <1>2

\* A job that is tried again keeps its place in the chain.
LEMMA RetryIsSound ==
  ASSUME NEW j, NEW error, NEW P, Sound(j, P), Stripped(j)
  PROVE  /\ Retry(j, error) \in Seq(Job)
         /\ \A i \in DOMAIN Retry(j, error) : SoundLink(Retry(j, error)[i], P)
<1>1. CASE IsRetryable(error) /\ ~IsExhausted(NextAttempt(j))
  <2>1. Retry(j, error) = <<NextAttempt(j)>>
    BY <1>1 DEF Retry
  <2>2. NextAttempt(j) \in Job /\ NextAttempt(j).url = j.url /\ NextAttempt(j).depth = j.depth
    BY <1>1, NextAttemptType DEF Sound
  <2>3. SoundLink(NextAttempt(j), P)
    BY <2>2 DEF SoundLink, Sound, Stripped
  <2>4. QED BY <2>1, <2>2, <2>3
<1>2. CASE ~(IsRetryable(error) /\ ~IsExhausted(NextAttempt(j)))
  BY <1>2 DEF Retry
<1>3. QED BY <1>1, <1>2

-----------------------------------------------------------------------------
LEMMA InitCrawlInv == CrawlInit => CrawlInv
<1> SUFFICES ASSUME CrawlInit PROVE CrawlInv
  OBVIOUS
<1> DEFINE seeds == [i \in DOMAIN Seeds |-> NewJob(Seeds[i], 0)]
<1>1. PICK w \in crew : pending = [t \in Task |-> IF t = w THEN seeds ELSE <<>>]
  BY DEF CrawlInit
<1>2. \A i \in DOMAIN Seeds : NewJob(Seeds[i], 0) \in Job /\ SoundLink(NewJob(Seeds[i], 0), explored)
  BY SeedsAreSound DEF SoundLink
<1>3. seeds \in Seq(Job)
  <2>1. DOMAIN Seeds = 1..Len(Seeds) /\ Len(Seeds) \in Nat
    BY SiteAssumption
  <2>2. seeds \in [1..Len(Seeds) -> Job]
    BY <1>2, <2>1
  <2>3. QED BY <2>1, <2>2, SeqDef
<1>4. \A i \in DOMAIN seeds : SoundLink(seeds[i], explored)
  BY <1>2
<1> HIDE DEF seeds
<1>5. pending \in [Task -> Seq(Job)]
      /\ \A t \in Task : \A i \in DOMAIN pending[t] : SoundLink(pending[t][i], explored)
  BY <1>1, <1>3, <1>4
<1>6. CrawlTypeOK
  BY <1>5 DEF CrawlInit, CrawlTypeOK
<1>7. Entered = {} /\ \A t \in Task : op[t] = "pop" /\ result[t] = "none"
  BY DEF CrawlInit, Init, Entered
<1>8. QED BY <1>5, <1>6, <1>7 DEF CrawlInv

\* A worker's step is a step of the frontier's, or leaves the frontier alone.
LEMMA CrawlStepIsFrontierStep ==
  ASSUME CrawlTypeOK, [CrawlNext]_<<vars, crawlVars>>
  PROVE  [Next]_vars
<1>1. ASSUME NEW t \in Task, Submit(t) PROVE Next
  <2>1. Head(pending[t]) \in Job
    BY <1>1 DEF Submit, CrawlTypeOK
  <2>2. QED BY <1>1, <2>1 DEF Submit, Next
<1>2. ASSUME NEW t \in Task, Ask(t) PROVE Next
  BY <1>2 DEF Ask, Next
<1>3. ASSUME NEW t \in Task, Work(t) PROVE UNCHANGED vars
  BY <1>3 DEF Work
<1>4. ASSUME NEW t \in Task, InFrontier(t) PROVE Next
  BY <1>4 DEF InFrontier, Next
<1>5. QED BY <1>1, <1>2, <1>3, <1>4 DEF CrawlNext, Advance

-----------------------------------------------------------------------------
\* Each of the worker's steps keeps the crawl's invariant, the frontier's given.
LEMMA AskStep ==
  ASSUME TypeOK, CrawlInv, NEW t \in Task, Ask(t)
  PROVE  CrawlInv'
<1>1. /\ pc[t] = "idle"
      /\ pc' = [pc EXCEPT ![t] = "locking"]
      /\ op' = [op EXCEPT ![t] = "pop"]
      /\ result' = [result EXCEPT ![t] = "none"]
      /\ awaiting' = [awaiting EXCEPT ![t] = TRUE]
      /\ UNCHANGED <<heap, taken, job, crew, pending, explored, failed>>
  BY DEF Ask, CallPop, Begin, Goto
<1>2. CrawlTypeOK'
  BY <1>1 DEF CrawlInv, CrawlTypeOK
<1>3. QED BY <1>1, <1>2 DEF CrawlInv, TypeOK, Entered

LEMMA SubmitStep ==
  ASSUME TypeOK, CrawlInv, NEW t \in Task, Submit(t)
  PROVE  CrawlInv'
<1> DEFINE j == Head(pending[t])
           k == [j EXCEPT !.url = StripFragment[j.url]]
<1>1. /\ pc' = [pc EXCEPT ![t] = "dedup"]
      /\ op' = [op EXCEPT ![t] = "push"]
      /\ result' = [result EXCEPT ![t] = "none"]
      /\ job' = [job EXCEPT ![t] = k]
      /\ pending' = [pending EXCEPT ![t] = Tail(@)]
      /\ UNCHANGED <<heap, taken, crew, awaiting, explored, failed>>
  BY DEF Submit, CallPush, Begin, Goto
<1>2. pending[t] \in Seq(Job) /\ pending[t] # <<>>
  BY DEF Submit, CrawlInv, CrawlTypeOK
<1>3. j \in Job /\ SoundLink(j, explored)
  BY <1>2 DEF CrawlInv
<1>4. Sound(k, explored)
  BY <1>3, StrippedJob DEF SoundLink, Sound
<1>5. Tail(pending[t]) \in Seq(Job)
      /\ \A i \in DOMAIN Tail(pending[t]) : SoundLink(Tail(pending[t])[i], explored)
  BY <1>2 DEF CrawlInv
<1> HIDE DEF j, k
<1>6. CrawlTypeOK'
  BY <1>1, <1>5 DEF CrawlInv, CrawlTypeOK
<1>7. \A w \in Task : \A i \in DOMAIN pending'[w] : SoundLink(pending'[w][i], explored)
  BY <1>1, <1>5 DEF CrawlInv, CrawlTypeOK
<1>8. QED BY <1>1, <1>4, <1>6, <1>7 DEF CrawlInv, TypeOK, Entered

LEMMA WorkStep ==
  ASSUME TypeOK, StripInv, CrawlInv, NEW t \in Task, Work(t)
  PROVE  CrawlInv'
<1>1. PICK e \in taken : e.job = job[t]
  BY DEF CrawlInv, Work, HasJob
<1>2. Sound(job[t], explored) /\ Stripped(job[t]) /\ job[t] \in Job
  BY <1>1 DEF CrawlInv, StripInv, Entered, Sound
<1>3. PICK outcome \in Outcome[job[t].url] :
        IF outcome = Page
        THEN /\ pending' = [pending EXCEPT ![t] = Discovered(job[t])]
             /\ explored' = explored \cup {job[t]}
             /\ UNCHANGED failed
        ELSE /\ pending' = [pending EXCEPT ![t] = Retry(job[t], outcome)]
             /\ failed' = failed \cup {<<job[t], outcome>>}
             /\ UNCHANGED explored
  BY DEF Work
<1>4. PICK links \in Seq(Job) :
        /\ pending' = [pending EXCEPT ![t] = links]
        /\ \A i \in DOMAIN links : SoundLink(links[i], explored')
  <2>1. CASE outcome = Page
    BY <1>2, <1>3, <2>1, DiscoveredIsSound
  <2>2. CASE outcome # Page
    BY <1>2, <1>3, <2>2, RetryIsSound
  <2>3. QED BY <2>1, <2>2
<1>5. explored \subseteq explored' /\ explored' \in SUBSET Job
  BY <1>2, <1>3 DEF CrawlInv, CrawlTypeOK
<1>6. failed' \in SUBSET (Job \X CrawlError)
  <2>1. Outcome[job[t].url] \subseteq CrawlError \cup {Page}
    BY <1>2, JobFields, SiteAssumption
  <2>2. QED BY <1>2, <1>3, <2>1 DEF CrawlInv, CrawlTypeOK
<1>7. UNCHANGED <<vars, crew>> /\ awaiting' = [awaiting EXCEPT ![t] = FALSE]
  BY DEF Work
<1>8. CrawlTypeOK'
  BY <1>4, <1>5, <1>6, <1>7 DEF CrawlInv, CrawlTypeOK
<1>9. ASSUME NEW w \in Task, NEW i \in DOMAIN pending'[w]
      PROVE  SoundLink(pending'[w][i], explored')
  <2>1. CASE w = t
    BY <1>4, <2>1 DEF CrawlInv, CrawlTypeOK
  <2>2. CASE w # t
    <3>1. pending'[w] = pending[w]
      BY <1>4, <2>2 DEF CrawlInv, CrawlTypeOK
    <3>2. QED BY <1>5, <3>1, SoundGrows DEF CrawlInv
  <2>3. QED BY <2>1, <2>2
<1>10. /\ \A w \in Task : op[w] = "push" /\ pc[w] # "idle" => Sound(job[w], explored')
       /\ \A f \in Entered : Sound(f.job, explored')
  BY <1>5, SoundGrows DEF CrawlInv
<1>11. QED BY <1>7, <1>8, <1>9, <1>10 DEF CrawlInv, vars, Entered

\* In the frontier only PushMark changes a pushed job, by its priority; Enqueue
\* makes it an entry, and PopJob hands an entry's job to a worker.
LEMMA InFrontierStep ==
  ASSUME TypeOK, CrawlInv, NEW t \in Task, InFrontier(t)
  PROVE  CrawlInv'
<1>0. UNCHANGED crawlVars /\ Step(t)
  BY DEF InFrontier
<1>1. /\ CrawlTypeOK'
      /\ \A w \in Task : \A i \in DOMAIN pending'[w] : SoundLink(pending'[w][i], explored')
  BY <1>0 DEF CrawlInv, CrawlTypeOK, crawlVars
<1>2. SUFFICES
        /\ \A w \in Task : op'[w] = "push" /\ pc'[w] # "idle" => Sound(job'[w], explored)
        /\ \A e \in Entered' : Sound(e.job, explored)
        /\ \A w \in Task : result'[w] = "job" =>
             pc'[w] = "idle" /\ \E e \in taken' : e.job = job'[w]
  BY <1>0, <1>1 DEF CrawlInv, crawlVars
<1> USE DEF TypeOK, CrawlInv, Goto, Return
<1>3. CASE PushMark(t)
  <2>1. /\ pc[t] = "dedup" /\ pc' = [pc EXCEPT ![t] = "locking"]
        /\ UNCHANGED <<heap, taken, op, result>>
        /\ job' = [job EXCEPT ![t].priority = EffectivePriority(job[t])]
    BY <1>3 DEF PushMark
  <2>2. op[t] = "push" => Sound(job'[t], explored)
    <3>1. job'[t] = [job[t] EXCEPT !.priority = EffectivePriority(job[t])]
      BY <2>1
    <3>2. EffectivePriority(job[t]) \in Priority
      BY EffectivePriorityType
    <3>3. op[t] = "push" => Sound(job[t], explored)
      BY <2>1
    <3> HIDE DEF CrawlInv, TypeOK
    <3>4. QED BY <3>1, <3>2, <3>3, RankedJob DEF Sound
  <2>3. QED BY <2>1, <2>2 DEF Entered
<1>4. CASE Enqueue(t)
  BY <1>4 DEF Enqueue, Locked, Entered
<1>5. CASE PopJob(t)
  <2>1. PICK e \in heap :
          /\ heap' = heap \ {e} /\ taken' = taken \cup {e}
          /\ job' = [job EXCEPT ![t] = e.job]
    BY <1>5 DEF PopJob
  <2>2. /\ op[t] = "pop" /\ op' = op
        /\ pc' = [pc EXCEPT ![t] = "idle"] /\ result' = [result EXCEPT ![t] = "job"]
    BY <1>5 DEF PopJob, Locked
  <2>3. QED BY <2>1, <2>2 DEF Entered
<1>6. CASE PushDuplicate(t)
  BY <1>6 DEF PushDuplicate, Entered
<1>7. CASE RequestLock(t)
  BY <1>7 DEF RequestLock, Entered
<1>8. CASE PushFull(t)
  BY <1>8 DEF PushFull, Entered
<1>9. CASE CountPushed(t)
  BY <1>9 DEF CountPushed, Entered
<1>10. CASE PopEmpty(t)
  BY <1>10 DEF PopEmpty, Entered
<1>11. QED
  BY <1>0, <1>3, <1>4, <1>5, <1>6, <1>7, <1>8, <1>9, <1>10 DEF Step

LEMMA StutterCrawlInv == ASSUME CrawlInv, UNCHANGED <<vars, crawlVars>> PROVE CrawlInv'
BY DEF CrawlInv, CrawlTypeOK, vars, crawlVars, Entered

-----------------------------------------------------------------------------
\* Frontier and crawl keep their invariants together.
LEMMA BothInvariants == CrawlSpec => [](IInv /\ CrawlInv)
<1>1. CrawlInit => IInv /\ CrawlInv
  BY InitIInv, InitCrawlInv DEF CrawlInit
<1>2. ASSUME IInv, CrawlInv, [CrawlNext]_<<vars, crawlVars>> PROVE IInv' /\ CrawlInv'
  <2>1. [Next]_vars
    BY <1>2, CrawlStepIsFrontierStep DEF CrawlInv
  <2>2. IInv'
    BY <1>2, <2>1, StepIInv
  <2>3. TypeOK /\ StripInv
    BY <1>2 DEF IInv
  <2>4. CrawlInv'
    BY <1>2, <2>3, AskStep, SubmitStep, WorkStep, InFrontierStep, StutterCrawlInv
       DEF CrawlNext, Advance
  <2>5. QED BY <2>2, <2>4
<1>3. QED BY <1>1, <1>2, PTL DEF CrawlSpec

\* A crawl uses the frontier in no other way than LocalFrontier models: what holds
\* of the frontier for all its callers holds in every crawl.
THEOREM CrawlUsesFrontier == CrawlSpec => Spec
<1>1. CrawlInit => Init
  BY DEF CrawlInit
<1>2. CrawlInv /\ [CrawlNext]_<<vars, crawlVars>> => [Next]_vars
  BY CrawlStepIsFrontierStep DEF CrawlInv
<1>3. QED BY <1>1, <1>2, BothInvariants, PTL DEF CrawlSpec, Spec

\* So no page is queued, and none fetched, twice in a crawl, however many ways
\* lead to it.
THEOREM CrawlQueuesOnce == CrawlSpec => []QueuedAtMostOnce
BY CrawlUsesFrontier, AtMostOnce, PTL

\* Depths are lengths of chains of explored pages, and within the limit.
THEOREM DepthsAreChains == CrawlSpec => []DepthIsAChain
<1>1. CrawlInv => DepthIsAChain
  BY JobFields DEF CrawlInv, DepthIsAChain, Sound
<1>2. QED BY <1>1, BothInvariants, PTL

-----------------------------------------------------------------------------
\* What the filter must be for no link to be lost: free of false positives.
NoFalsePositive ==
  \A u \in Url, U \in SUBSET Url :
    (\A b \in Hash[u] : \E v \in U : b \in Hash[v]) => u \in U

\* A page that somebody linked to: known, or on its way to the filter.
Waiting(u) == \E t \in Task : \E k \in DOMAIN pending[t] : StripFragment[pending[t][k].url] = u
AtFilter(u) == \E t \in Task : pc[t] = "dedup" /\ job[t].url = u
Reached(u) == u \in marked \/ Waiting(u) \/ AtFilter(u)

\* The filter knows what it let through, and no call was cancelled.
FilterInv ==
  /\ \A b \in bits : \E v \in marked : b \in Hash[v]
  /\ \A a \in told : a[2] # "cancelled"

\* A worker has pushed everything before it takes up another page.
DrainInv == \A t \in Task : awaiting[t] => pending[t] = <<>>

\* No link of an explored page is dropped on the way to the filter.
AllReached ==
  \A j \in explored : j.depth < MaxDepth =>
    \A i \in DOMAIN Links[j.url] : Reached(StripFragment[Links[j.url][i]])

LinkInv == FilterInv /\ DrainInv /\ AllReached

LEMMA InitLinkInv == CrawlInit => LinkInv
BY DEF CrawlInit, Init, LinkInv, FilterInv, DrainInv, AllReached

\* The steps that explore nothing keep what was reached.
LEMMA ReachedStays ==
  ASSUME LinkInv, explored' = explored,
         \A u \in Url : Reached(u) => Reached(u)', CrawlInv
  PROVE  AllReached'
<1> SUFFICES ASSUME NEW j \in explored, j.depth < MaxDepth, NEW i \in DOMAIN Links[j.url]
             PROVE  Reached(StripFragment[Links[j.url][i]])'
  BY DEF AllReached
<1>1. j.url \in Url
  BY JobFields DEF CrawlInv, CrawlTypeOK
<1>2. Links[j.url] \in Seq(Url)
  BY <1>1, SiteAssumption
<1>3. StripFragment[Links[j.url][i]] \in Url
  BY <1>2, StripAssumption
<1>4. Reached(StripFragment[Links[j.url][i]])
  BY DEF LinkInv, AllReached
<1>5. QED BY <1>3, <1>4

LEMMA AskLinks ==
  ASSUME TypeOK, CrawlInv, LinkInv, NEW t \in Task, Ask(t)
  PROVE  LinkInv'
<1>1. /\ pc[t] = "idle" /\ pending[t] = <<>>
      /\ pc' = [pc EXCEPT ![t] = "locking"]
      /\ awaiting' = [awaiting EXCEPT ![t] = TRUE]
      /\ UNCHANGED <<bits, job, marked, told, pending, explored>>
  BY DEF Ask, CallPop, Begin, Goto
<1>2. \A u \in Url : Reached(u) => Reached(u)'
  BY <1>1 DEF Reached, Waiting, AtFilter, TypeOK
<1>3. QED
  BY <1>1, <1>2, ReachedStays DEF LinkInv, FilterInv, DrainInv, CrawlInv, CrawlTypeOK

LEMMA SubmitLinks ==
  ASSUME TypeOK, CrawlInv, LinkInv, NEW t \in Task, Submit(t)
  PROVE  LinkInv'
<1> DEFINE j == Head(pending[t])
<1>1. /\ pc[t] = "idle" /\ pc' = [pc EXCEPT ![t] = "dedup"]
      /\ job' = [job EXCEPT ![t] = [j EXCEPT !.url = StripFragment[j.url]]]
      /\ pending' = [pending EXCEPT ![t] = Tail(@)]
      /\ UNCHANGED <<bits, marked, told, awaiting, explored>>
  BY DEF Submit, CallPush, Begin, Goto
<1>2. pending[t] \in Seq(Job) /\ pending[t] # <<>>
  BY DEF Submit, CrawlInv, CrawlTypeOK
<1>3. job'[t].url = StripFragment[j.url] /\ pc'[t] = "dedup"
  <2>1. j \in Job
    BY <1>2
  <2>2. QED BY <1>1, <2>1, StrippedJob DEF TypeOK
<1>4. ASSUME NEW u \in Url, Waiting(u) PROVE Reached(u)'
  <2>0. PICK w \in Task : \E k \in DOMAIN pending[w] : StripFragment[pending[w][k].url] = u
    BY <1>4 DEF Waiting
  <2>1. PICK k \in DOMAIN pending[w] : StripFragment[pending[w][k].url] = u
    BY <2>0
  <2>2. CASE w # t
    BY <1>1, <2>1, <2>2 DEF Reached, Waiting, CrawlInv, CrawlTypeOK
  <2>3. CASE w = t /\ k = 1
    BY <1>2, <1>3, <2>1, <2>3 DEF Reached, AtFilter
  <2>4. CASE w = t /\ k # 1
    <3>1. k - 1 \in DOMAIN Tail(pending[t]) /\ Tail(pending[t])[k - 1] = pending[t][k]
      BY <1>2, <2>1, <2>4
    <3>2. pending'[t] = Tail(pending[t])
      BY <1>1 DEF CrawlInv, CrawlTypeOK
    <3>3. QED BY <2>1, <2>4, <3>1, <3>2 DEF Reached, Waiting
  <2>5. QED BY <2>2, <2>3, <2>4
<1>5. ASSUME NEW u \in Url, AtFilter(u) PROVE Reached(u)'
  BY <1>1, <1>5 DEF Reached, AtFilter, TypeOK
<1>6. \A u \in Url : Reached(u) => Reached(u)'
  BY <1>1, <1>4, <1>5 DEF Reached
<1>7. DrainInv'
  BY <1>1, <1>2 DEF LinkInv, DrainInv, CrawlInv, CrawlTypeOK
<1>8. QED BY <1>1, <1>6, <1>7, ReachedStays DEF LinkInv, FilterInv

LEMMA WorkLinks ==
  ASSUME TypeOK, CrawlInv, LinkInv, NEW t \in Task, Work(t)
  PROVE  LinkInv'
<1>1. /\ awaiting[t] /\ awaiting' = [awaiting EXCEPT ![t] = FALSE]
      /\ UNCHANGED vars
      /\ \E links : pending' = [pending EXCEPT ![t] = links]
  BY DEF Work, HasJob
<1>2. pending[t] = <<>>
  BY <1>1 DEF LinkInv, DrainInv
<1>3. \A u \in Url : Reached(u) => Reached(u)'
  BY <1>1, <1>2 DEF Reached, Waiting, AtFilter, vars, CrawlInv, CrawlTypeOK
<1>4. DrainInv'
  BY <1>1 DEF LinkInv, DrainInv, CrawlInv, CrawlTypeOK
<1>5. FilterInv'
  BY <1>1 DEF LinkInv, FilterInv, vars
<1>6. CASE explored' = explored
  BY <1>3, <1>4, <1>5, <1>6, ReachedStays DEF LinkInv
<1>7. CASE explored' # explored
  <2>1. pending'[t] = Discovered(job[t]) /\ explored' = explored \cup {job[t]}
    BY <1>7 DEF Work, CrawlInv, CrawlTypeOK
  <2>2. ASSUME NEW j \in explored', j.depth < MaxDepth, NEW i \in DOMAIN Links[j.url]
        PROVE  Reached(StripFragment[Links[j.url][i]])'
    <3>1. CASE j \in explored
      <4>1. j.url \in Url /\ Links[j.url] \in Seq(Url)
        BY <3>1, JobFields, SiteAssumption DEF CrawlInv, CrawlTypeOK
      <4>2. StripFragment[Links[j.url][i]] \in Url
        BY <4>1, <2>2, StripAssumption
      <4>3. Reached(StripFragment[Links[j.url][i]])
        BY <2>2, <3>1 DEF LinkInv, AllReached
      <4>4. QED BY <1>3, <4>2, <4>3
    <3>2. CASE j = job[t]
      <4>1. /\ i \in DOMAIN Discovered(j)
            /\ Discovered(j)[i].url = Links[j.url][i]
        BY <2>2 DEF Discovered, NewJob
      <4>2. QED BY <2>1, <3>2, <4>1 DEF Reached, Waiting
    <3>3. QED BY <2>1, <3>1, <3>2
  <2>3. QED BY <1>4, <1>5, <2>2 DEF LinkInv, AllReached
<1>8. QED BY <1>6, <1>7

\* A push leaves the filter by being marked, or as a page that was marked before.
LEMMA FrontierLinks ==
  ASSUME NoFalsePositive, TypeOK, CrawlInv, LinkInv, NEW t \in Task, InFrontier(t)
  PROVE  LinkInv'
<1>0. UNCHANGED crawlVars /\ Step(t)
  BY DEF InFrontier
<1>1. SUFFICES
        /\ FilterInv'
        /\ \A u \in Url : u \in marked \/ AtFilter(u) => u \in marked' \/ AtFilter(u)'
  <2>1. \A u \in Url : Waiting(u) => Waiting(u)'
    BY <1>0 DEF Waiting, crawlVars
  <2>2. ASSUME \A u \in Url : u \in marked \/ AtFilter(u) => u \in marked' \/ AtFilter(u)'
        PROVE  \A u \in Url : Reached(u) => Reached(u)'
    BY <2>1, <2>2 DEF Reached
  <2>3. QED BY <1>0, <2>2, ReachedStays DEF LinkInv, DrainInv, crawlVars
<1> USE DEF TypeOK, Goto, Return, AtFilter
<1>2. CASE PushMark(t)
  <2>1. /\ marked' = marked \cup {job[t].url} /\ bits' = bits \cup Hash[job[t].url]
        /\ told' = told
        /\ \A w \in Task \ {t} : pc'[w] = pc[w] /\ job'[w] = job[w]
    BY <1>2 DEF PushMark, Set
  <2> HIDE DEF TypeOK
  <2>2. ASSUME NEW b \in bits' PROVE \E v \in marked' : b \in Hash[v]
    BY <2>1 DEF LinkInv, FilterInv
  <2>3. ASSUME NEW u \in Url, AtFilter(u) PROVE u \in marked' \/ AtFilter(u)'
    BY <2>1, <2>3
  <2>4. QED BY <2>1, <2>2, <2>3 DEF LinkInv, FilterInv
<1>3. CASE PushDuplicate(t)
  <2>1. /\ job[t].url \in Url /\ Hash[job[t].url] \subseteq bits
        /\ told' \subseteq told \cup {<<job[t].url, "duplicate">>}
        /\ UNCHANGED <<bits, marked, job>>
        /\ \A w \in Task \ {t} : pc'[w] = pc[w]
    BY <1>3 DEF PushDuplicate, Check, JobType
  <2>2. job[t].url \in marked
    <3>1. marked \in SUBSET Url
      OBVIOUS
    <3> HIDE DEF TypeOK
    <3>2. \A b \in Hash[job[t].url] : \E v \in marked : b \in Hash[v]
      BY <2>1 DEF LinkInv, FilterInv
    <3>3. QED BY <2>1, <3>1, <3>2 DEF NoFalsePositive
  <2>3. QED BY <2>1, <2>2 DEF LinkInv, FilterInv
<1>4. CASE RequestLock(t)
  BY <1>4 DEF RequestLock, LinkInv, FilterInv
<1>5. CASE PushFull(t)
  BY <1>5 DEF PushFull, Locked, LinkInv, FilterInv
<1>6. CASE Enqueue(t)
  BY <1>6 DEF Enqueue, Locked, LinkInv, FilterInv
<1>7. CASE CountPushed(t)
  BY <1>7 DEF CountPushed, LinkInv, FilterInv
<1>8. CASE PopJob(t)
  BY <1>8 DEF PopJob, Locked, LinkInv, FilterInv
<1>9. CASE PopEmpty(t)
  BY <1>9 DEF PopEmpty, Locked, LinkInv, FilterInv
<1>10. QED
  BY <1>0, <1>2, <1>3, <1>4, <1>5, <1>6, <1>7, <1>8, <1>9 DEF Step

\* No step drops a link: those of the workers, those of the frontier, and stuttering.
LEMMA LinkStep ==
  ASSUME NoFalsePositive, IInv, CrawlInv, LinkInv, [CrawlNext]_<<vars, crawlVars>>
  PROVE  LinkInv'
<1>1. TypeOK
  BY DEF IInv
<1>2. CASE UNCHANGED <<vars, crawlVars>>
  BY <1>2
     DEF LinkInv, FilterInv, DrainInv, AllReached, Reached, Waiting, AtFilter, vars, crawlVars
<1>3. QED
  BY <1>1, <1>2, AskLinks, SubmitLinks, WorkLinks, FrontierLinks, NoFalsePositive
     DEF CrawlNext, Advance

\* With a filter free of false positives a crawl that is over has followed every
\* link above the depth limit, short of those a full frontier refused.
THEOREM LinksAreFollowed ==
  ASSUME NoFalsePositive PROVE CrawlSpec => []EveryLinkIsFollowed
<1>1. CrawlInit => LinkInv
  BY InitLinkInv
<1>2. ASSUME IInv, CrawlInv, LinkInv, [CrawlNext]_<<vars, crawlVars>> PROVE LinkInv'
  BY <1>2, LinkStep, NoFalsePositive
<1>3. ASSUME IInv, CrawlInv, LinkInv PROVE EveryLinkIsFollowed
  <2> SUFFICES ASSUME Quiet, NEW j \in explored, j.depth < MaxDepth,
                      NEW i \in DOMAIN Links[j.url]
               PROVE  LET u == StripFragment[Links[j.url][i]]
                      IN  <<u, "full">> \in told \/ \E e \in taken : e.job.url = u
    BY DEF EveryLinkIsFollowed
  <2> DEFINE u == StripFragment[Links[j.url][i]]
  <2>1. Reached(u)
    BY <1>3 DEF LinkInv, AllReached
  <2>2. ~Waiting(u)
    BY DEF Quiet, Waiting
  <2>3. ~AtFilter(u)
    BY <1>3 DEF Quiet, AtFilter, IInv, MarkInv
  <2>4. u \in marked
    BY <2>1, <2>2, <2>3 DEF Reached
  <2>5. \A t \in Task : ~Carries(t)
    BY DEF Quiet, Carries, Unplaced
  <2>6. Entered = taken
    BY DEF Quiet, Entered
  <2> HIDE DEF u
  <2>7. \/ \E e \in taken : e.job.url = u
        \/ <<u, "full">> \in told
        \/ <<u, "cancelled">> \in told
    BY <1>3, <2>4, <2>5, <2>6 DEF IInv, NoSilentLoss
  <2>8. <<u, "cancelled">> \notin told
    BY <1>3 DEF LinkInv, FilterInv
  <2>9. QED BY <2>7, <2>8 DEF u
<1>4. QED BY <1>1, <1>2, <1>3, BothInvariants, PTL DEF CrawlSpec

-----------------------------------------------------------------------------
\* Near, level by level.
Starts == {StripFragment[Seeds[i]] : i \in DOMAIN Seeds}
Targets(j) == {StripFragment[Links[j.url][i]] : i \in DOMAIN Links[j.url]}

\* The recursive function is the one its equation describes.
LEMMA NearUnfolds ==
  ASSUME CrawlTypeOK
  PROVE  /\ Near[0] = Starts
         /\ \A n \in Nat : Near[n + 1] = Near[n] \cup
               UNION {Targets(j) : j \in {k \in explored : k.url \in Near[n]}}
<1> DEFINE Next1(S) == S \cup UNION {Targets(j) : j \in {k \in explored : k.url \in S}}
           step == [p \in Nat \X SUBSET Url |-> Next1(p[2])]
<1>1. Starts \in SUBSET Url
  BY SiteAssumption, StripAssumption DEF Starts
<1>2. ASSUME NEW S \in SUBSET Url PROVE Next1(S) \in SUBSET Url
  <2>1. ASSUME NEW j \in explored PROVE Targets(j) \in SUBSET Url
    <3>1. j.url \in Url /\ Links[j.url] \in Seq(Url)
      BY JobFields, SiteAssumption DEF CrawlTypeOK
    <3> QED
      BY <3>1, StripAssumption DEF Targets
  <2> QED
    BY <2>1
<1> HIDE DEF Next1
<1>3. step \in [Nat \X SUBSET Url -> SUBSET Url]
  BY <1>2
<1>4. PICK f \in [Nat -> SUBSET Url] :
        f[0] = Starts /\ \A n \in Nat : f[n + 1] = step[<<n, f[n]>>]
  <2> DEFINE V == SUBSET Url
  <2>1. Starts \in V /\ step \in [Nat \X V -> V]
    BY <1>1, <1>3
  <2>2. IsStep(V, step)
    BY <2>1 DEF IsStep
  <2> HIDE DEF step, V
  <2>3. \E f : Solves(V, Starts, step, f)
    BY <2>1, <2>2, RecursionHasASolution
  <2> QED
    BY <2>3 DEF V, Solves
<1>5. \A n \in Nat : f[n + 1] = Next1(f[n])
  BY <1>4
<1> HIDE DEF step
<1>6. f = [n \in Nat |-> IF n = 0 THEN Starts ELSE Next1(f[n - 1])]
  <2>1. \A n \in Nat : f[n] = IF n = 0 THEN Starts ELSE Next1(f[n - 1])
    <3> SUFFICES ASSUME NEW n \in Nat, n # 0 PROVE f[n] = Next1(f[n - 1])
      BY <1>4
    <3>1. n - 1 \in Nat /\ (n - 1) + 1 = n
      OBVIOUS
    <3> QED
      BY <1>5, <3>1
  <2> QED
    BY <2>1
<1>7. Near = [n \in Nat |-> IF n = 0 THEN Starts ELSE Next1(Near[n - 1])]
  <2>1. Near = CHOOSE g : g = [n \in Nat |-> IF n = 0 THEN Starts ELSE Next1(g[n - 1])]
    BY DEF Near, Starts, Targets, Next1
  <2> QED
    BY <1>6, <2>1
<1>8. Near[0] = Starts
  BY <1>7
<1>9. ASSUME NEW n \in Nat PROVE Near[n + 1] = Next1(Near[n])
  BY <1>7
<1> QED
  BY <1>8, <1>9 DEF Next1

-----------------------------------------------------------------------------
\* Breadth first with one worker, and a frontier that never was full.
Orderly ==
  Mode = "breadth" /\ (\A t, w \in crew : t = w) /\ (\A a \in told : a[2] # "full")

\* What is explored was served; the tasks outside the crew do nothing; a pop is
\* awaited.
WorkerInv ==
  /\ \A j \in explored : \E e \in taken : e.job = j
  /\ \A t \in Task \ crew : pc[t] = "idle" /\ pending[t] = <<>> /\ result[t] # "job"
  /\ \A t \in Task : op[t] = "pop" /\ pc[t] # "idle" => awaiting[t]

\* Entries are queued level by level and served as they were queued, and at most
\* two levels are queued at a time.
FifoInv ==
  /\ \A e, f \in Entered : e.seq < f.seq => e.job.depth <= f.job.depth
  /\ \A e \in taken, f \in heap : e.seq < f.seq
  /\ \A e \in Entered, f \in heap : e.job.depth <= f.job.depth + 1

\* Jobs of this depth may be queued now: no entry is deeper, and those that wait
\* are at most one level above.
Level(d) ==
  /\ \A e \in Entered : e.job.depth <= d
  /\ \A f \in heap : d <= f.job.depth + 1

\* A push of this page at this depth comes at the right time, or too late to find
\* a shorter way to it.
Ready(u, d) ==
  \/ u \in marked /\ \A e \in Entered : e.job.url = u => e.job.depth <= d
  \/ Level(d)

\* What a worker has still to push is of one level, and ready.
Batch(t) ==
  /\ \A k \in DOMAIN pending[t] :
       /\ Ready(StripFragment[pending[t][k].url], pending[t][k].depth)
       /\ \A i \in DOMAIN pending[t] : pending[t][i].depth = pending[t][k].depth
       /\ op[t] = "push" /\ pc[t] # "idle" => pending[t][k].depth = job[t].depth
  /\ pc[t] = "dedup" => Ready(job[t].url, job[t].depth)
  /\ Carries(t) => Level(job[t].depth)
  /\ result[t] = "job" => \A e \in Entered : e.job.depth <= job[t].depth + 1

BatchInv == \A t \in Task : Batch(t)

\* A push of the page at a depth of at most d is on its way.
OnWay(t, u, d) ==
  \/ \E k \in DOMAIN pending[t] :
       StripFragment[pending[t][k].url] = u /\ pending[t][k].depth <= d
  \/ (pc[t] = "dedup" \/ Carries(t)) /\ job[t].url = u /\ job[t].depth <= d

\* The page is on its way, queued or served, with a depth of at most d.
Within(u, d) ==
  \/ \E t \in Task : OnWay(t, u, d)
  \/ \E e \in Entered : e.job.url = u /\ e.job.depth <= d

\* No seed and no link comes later than one level below its page.
ShortestInv ==
  /\ \A i \in DOMAIN Seeds : Within(StripFragment[Seeds[i]], 0)
  /\ \A j \in explored : j.depth < MaxDepth =>
       \A i \in DOMAIN Links[j.url] : Within(StripFragment[Links[j.url][i]], j.depth + 1)

BreadthInv == WorkerInv /\ (Orderly => FifoInv /\ BatchInv /\ ShortestInv)

\* The frontier's and the crawl's invariants that the steps below need.
Known == IInv /\ CrawlInv /\ LinkInv /\ BreadthInv

\* A task with something to do is the only one that has.
Idle(w) == pc[w] = "idle" /\ pending[w] = <<>> /\ result[w] # "job"

\* With one worker, everybody else is idle while it works.
LEMMA OthersIdle ==
  ASSUME WorkerInv, Orderly, NEW t \in Task, ~Idle(t) \/ t \in crew
  PROVE  \A w \in Task \ {t} : Idle(w)
BY DEF WorkerInv, Orderly, Idle

\* A task without work has nothing that could be out of order.
LEMMA IdleBatch == ASSUME NEW w \in Task, Idle(w) PROVE Batch(w)
<1>1. pending[w] = <<>> /\ pc[w] = "idle" /\ result[w] # "job"
  BY DEF Idle
<1>2. DOMAIN pending[w] = {}
  BY <1>1
<1>3. QED BY <1>1, <1>2 DEF Batch, Carries, Unplaced

\* What every step leaves alone: the crew, the other tasks, and what was ever
\* told, entered, served or marked.
Frame(t) ==
  /\ crew' = crew /\ told \subseteq told' /\ taken \subseteq taken'
  /\ Entered \subseteq Entered' /\ marked \subseteq marked'
  /\ \A w \in Task \ {t} :
       /\ pc'[w] = pc[w] /\ op'[w] = op[w] /\ job'[w] = job[w] /\ result'[w] = result[w]
       /\ pending'[w] = pending[w] /\ awaiting'[w] = awaiting[w]

\* Ask calls pop and changes nothing but the worker that asks.
LEMMA AskFrame ==
  ASSUME TypeOK, CrawlTypeOK, NEW t \in Task, Ask(t)
  PROVE  /\ Frame(t) /\ t \in crew
         /\ pc'[t] = "locking" /\ op'[t] = "pop" /\ result'[t] = "none" /\ awaiting'[t]
         /\ pc[t] = "idle" /\ pending[t] = <<>>
         /\ UNCHANGED <<heap, taken, marked, told, job, pending, explored>>
BY DEF Ask, CallPop, Begin, Goto, Frame, TypeOK, CrawlTypeOK, Entered

\* Submit hands the first pending job to push.
LEMMA SubmitFrame ==
  ASSUME TypeOK, CrawlTypeOK, NEW t \in Task, Submit(t)
  PROVE  LET j == Head(pending[t])
         IN  /\ Frame(t)
             /\ pc'[t] = "dedup" /\ op'[t] = "push" /\ result'[t] = "none"
             /\ job'[t].url = StripFragment[j.url] /\ job'[t].depth = j.depth
             /\ pc[t] = "idle" /\ pending[t] # <<>> /\ pending[t] \in Seq(Job)
             /\ pending'[t] = Tail(pending[t])
             /\ UNCHANGED <<heap, taken, marked, told, explored>>
<1> DEFINE j == Head(pending[t])
<1>1. pending[t] # <<>> /\ pending[t] \in Seq(Job)
  BY DEF Submit, CrawlTypeOK
<1>2. j \in Job
  BY <1>1
<1>3. job'[t] = [j EXCEPT !.url = StripFragment[j.url]]
  BY DEF Submit, CallPush, TypeOK
<1>4. job'[t].url = StripFragment[j.url] /\ job'[t].depth = j.depth
  BY <1>2, <1>3, StrippedJob
<1>5. /\ Frame(t)
      /\ pc'[t] = "dedup" /\ op'[t] = "push" /\ result'[t] = "none"
      /\ pc[t] = "idle" /\ pending'[t] = Tail(pending[t])
      /\ UNCHANGED <<heap, taken, marked, told, explored>>
  BY DEF Submit, CallPush, Begin, Goto, Frame, TypeOK, CrawlTypeOK, Entered
<1>6. QED BY <1>1, <1>4, <1>5

\* Work puts the links of the page, or the job to be tried again, before the worker.
LEMMA WorkFrame ==
  ASSUME TypeOK, CrawlTypeOK, LinkInv, NEW t \in Task, Work(t)
  PROVE  /\ Frame(t) /\ UNCHANGED vars
         /\ pc[t] = "idle" /\ result[t] = "job" /\ pending[t] = <<>>
         /\ \/ pending'[t] = Discovered(job[t]) /\ explored' = explored \cup {job[t]}
            \/ \E error : pending'[t] = Retry(job[t], error) /\ explored' = explored
<1>1. /\ awaiting[t] /\ pc[t] = "idle" /\ result[t] = "job" /\ UNCHANGED <<vars, crew>>
      /\ awaiting' = [awaiting EXCEPT ![t] = FALSE]
  BY DEF Work, HasJob
<1>2. pending[t] = <<>>
  BY <1>1 DEF LinkInv, DrainInv
<1>3. \/ /\ pending' = [pending EXCEPT ![t] = Discovered(job[t])]
         /\ explored' = explored \cup {job[t]}
      \/ \E error : pending' = [pending EXCEPT ![t] = Retry(job[t], error)] /\ explored' = explored
  BY DEF Work
<1>4. \A w \in Task \ {t} : pending'[w] = pending[w] /\ awaiting'[w] = awaiting[w]
  BY <1>1, <1>3 DEF CrawlTypeOK
<1>5. Frame(t)
  BY <1>1, <1>4 DEF Frame, vars, Entered
<1>6. QED BY <1>1, <1>2, <1>3, <1>5 DEF CrawlTypeOK

\* A step inside the frontier leaves the worker's list alone; only a mark, an
\* enqueue or a pop changes what is queued.
LEMMA StepFrame ==
  ASSUME TypeOK, CrawlTypeOK, NEW t \in Task, InFrontier(t)
  PROVE  /\ Frame(t) /\ UNCHANGED <<crawlVars, op>> /\ pc[t] # "idle"
         /\ \/ PushMark(t) \/ Enqueue(t) \/ PopJob(t)
            \/ UNCHANGED <<heap, taken, marked, job>>
<1>0. UNCHANGED crawlVars /\ Step(t)
  BY DEF InFrontier
<1>1. /\ crew' = crew /\ \A w \in Task \ {t} : pending'[w] = pending[w] /\ awaiting'[w] = awaiting[w]
  BY <1>0 DEF crawlVars
<1> USE DEF TypeOK, Goto, Return, Frame, Entered
<1>2. CASE PushMark(t)
  BY <1>0, <1>1, <1>2 DEF PushMark
<1>3. CASE PushDuplicate(t)
  BY <1>0, <1>1, <1>3 DEF PushDuplicate
<1>4. CASE RequestLock(t)
  BY <1>0, <1>1, <1>4 DEF RequestLock
<1>5. CASE PushFull(t)
  BY <1>0, <1>1, <1>5 DEF PushFull, Locked
<1>6. CASE Enqueue(t)
  BY <1>0, <1>1, <1>6 DEF Enqueue, Locked
<1>7. CASE CountPushed(t)
  BY <1>0, <1>1, <1>7 DEF CountPushed
<1>8. CASE PopJob(t)
  BY <1>0, <1>1, <1>8 DEF PopJob, Locked
<1>9. CASE PopEmpty(t)
  BY <1>0, <1>1, <1>9 DEF PopEmpty, Locked
<1>10. QED
  BY <1>0, <1>2, <1>3, <1>4, <1>5, <1>6, <1>7, <1>8, <1>9 DEF Step

\* The crew does all the work, whatever its size and the mode.
LEMMA InitWorkerInv == CrawlInit => WorkerInv
BY DEF CrawlInit, Init, WorkerInv

\* No step gives work to a task outside the crew.
LEMMA WorkerStep ==
  ASSUME TypeOK, CrawlInv, LinkInv, WorkerInv, NEW t \in Task, Advance(t)
  PROVE  WorkerInv'
<1> USE DEF WorkerInv
<1>0. CrawlTypeOK
  BY DEF CrawlInv
<1>1. CASE Ask(t)
  BY <1>0, <1>1, AskFrame DEF Frame
<1>2. CASE Submit(t)
  BY <1>0, <1>2, SubmitFrame DEF Frame
<1>3. CASE Work(t)
  <2>1. \A j \in explored' : \E e \in taken' : e.job = j
    <3>1. \E e \in taken : e.job = job[t]
      BY <1>0, <1>3, WorkFrame DEF CrawlInv
    <3>2. explored' \subseteq explored \cup {job[t]} /\ taken \subseteq taken'
      BY <1>0, <1>3, WorkFrame DEF Frame
    <3>3. QED BY <3>1, <3>2
  <2>2. Frame(t) /\ UNCHANGED vars /\ t \in crew /\ pc[t] = "idle"
    BY <1>0, <1>3, WorkFrame
  <2>3. QED BY <2>1, <2>2 DEF Frame, vars
<1>4. CASE InFrontier(t)
  <2>1. Frame(t) /\ UNCHANGED <<crawlVars, op>> /\ pc[t] # "idle"
    BY <1>0, <1>4, StepFrame
  <2>2. QED BY <2>1 DEF Frame, crawlVars
<1>5. QED BY <1>1, <1>2, <1>3, <1>4 DEF Advance

\* At first the seeds are pending, all at depth 0.
LEMMA InitBreadthInv == CrawlInit => BreadthInv
<1> SUFFICES ASSUME CrawlInit PROVE BreadthInv
  OBVIOUS
<1> DEFINE seeds == [i \in DOMAIN Seeds |-> NewJob(Seeds[i], 0)]
<1>1. PICK w \in crew : pending = [t \in Task |-> IF t = w THEN seeds ELSE <<>>]
  BY DEF CrawlInit
<1>2. \A i \in DOMAIN Seeds : NewJob(Seeds[i], 0).url = Seeds[i] /\ NewJob(Seeds[i], 0).depth = 0
  BY DEF NewJob
<1>3. /\ heap = {} /\ taken = {} /\ Entered = {} /\ explored = {} /\ w \in Task
      /\ \A t \in Task : pc[t] = "idle" /\ op[t] = "pop" /\ result[t] = "none"
  BY DEF CrawlInit, Init, Entered
<1>4. FifoInv /\ \A d : Level(d)
  BY <1>3 DEF FifoInv, Level
<1>5. BatchInv
  <2> SUFFICES ASSUME NEW t \in Task PROVE Batch(t)
    BY DEF BatchInv
  <2>1. \A k \in DOMAIN pending[t] : pending[t][k].depth = 0
    BY <1>1, <1>2
  <2>2. QED BY <1>3, <1>4, <2>1 DEF Batch, Ready, Carries, Unplaced
<1>6. ShortestInv
  <2>1. ASSUME NEW i \in DOMAIN Seeds PROVE Within(StripFragment[Seeds[i]], 0)
    <3>1. i \in DOMAIN pending[w] /\ pending[w][i].url = Seeds[i] /\ pending[w][i].depth = 0
      BY <1>1, <1>2, <1>3
    <3>2. OnWay(w, StripFragment[Seeds[i]], 0)
      BY <3>1 DEF OnWay
    <3>3. QED BY <1>3, <3>2 DEF Within
  <2>2. QED BY <1>3, <2>1 DEF ShortestInv
<1>7. QED BY <1>4, <1>5, <1>6, InitWorkerInv DEF BreadthInv

\* What a step does to the pushes of the task that takes it decides what it does to
\* the pages within reach.
LEMMA WithinStays ==
  ASSUME NEW t \in Task, Frame(t),
         \A u \in Url, d \in Nat : OnWay(t, u, d) => Within(u, d)'
  PROVE  \A u \in Url, d \in Nat : Within(u, d) => Within(u, d)'
<1> SUFFICES ASSUME NEW u \in Url, NEW d \in Nat, Within(u, d) PROVE Within(u, d)'
  OBVIOUS
<1>1. CASE \E e \in Entered : e.job.url = u /\ e.job.depth <= d
  BY <1>1 DEF Within, Frame
<1>2. CASE OnWay(t, u, d)
  BY <1>2
<1>3. ASSUME NEW w \in Task \ {t}, OnWay(w, u, d) PROVE Within(u, d)'
  <2>1. OnWay(w, u, d)'
    BY <1>3 DEF OnWay, Carries, Frame
  <2>2. QED BY <2>1 DEF Within
<1>4. QED BY <1>1, <1>2, <1>3 DEF Within

\* The pages ShortestInv speaks of.
LEMMA LinkTypes ==
  ASSUME NEW j \in Job
  PROVE  /\ j.url \in Url /\ j.depth \in Nat /\ j.depth + 1 \in Nat
         /\ Links[j.url] \in Seq(Url)
         /\ \A i \in DOMAIN Links[j.url] :
              Links[j.url][i] \in Url /\ StripFragment[Links[j.url][i]] \in Url
<1>1. j.url \in Url /\ j.depth \in Nat /\ Links[j.url] \in Seq(Url)
  BY JobFields, SiteAssumption
<1>2. QED BY <1>1, StripAssumption

\* Seeds are URLs without their fragments too.
LEMMA SeedTypes == \A i \in DOMAIN Seeds : StripFragment[Seeds[i]] \in Url
BY SiteAssumption, StripAssumption

\* What is within reach stays so when no page is explored.
LEMMA ShortestStays ==
  ASSUME CrawlTypeOK, ShortestInv, explored' = explored,
         \A u \in Url, d \in Nat : Within(u, d) => Within(u, d)'
  PROVE  ShortestInv'
<1>1. ASSUME NEW i \in DOMAIN Seeds PROVE Within(StripFragment[Seeds[i]], 0)'
  BY SeedTypes DEF ShortestInv
<1>2. ASSUME NEW j \in explored, j.depth < MaxDepth, NEW i \in DOMAIN Links[j.url]
      PROVE  Within(StripFragment[Links[j.url][i]], j.depth + 1)'
  <2>1. j \in Job
    BY DEF CrawlTypeOK
  <2>2. StripFragment[Links[j.url][i]] \in Url /\ j.depth + 1 \in Nat
    BY <1>2, <2>1, LinkTypes
  <2>3. Within(StripFragment[Links[j.url][i]], j.depth + 1)
    BY <1>2 DEF ShortestInv
  <2>4. QED BY <2>2, <2>3
<1>3. QED BY <1>1, <1>2 DEF ShortestInv

\* What is ready stays so while no entry is added.
LEMMA ReadyStays ==
  ASSUME Entered' = Entered, heap' \subseteq heap, marked \subseteq marked',
         NEW u, NEW d
  PROVE  (Level(d) => Level(d)') /\ (Ready(u, d) => Ready(u, d)')
BY DEF Level, Ready


\* The steps of a worker that crawls breadth first, one after the other.
Steady(t) == FifoInv' /\ Batch(t)' /\ ShortestInv'

\* Asking for a job keeps the order.
LEMMA AskBreadth ==
  ASSUME TypeOK, CrawlTypeOK, FifoInv, ShortestInv, NEW t \in Task, Ask(t)
  PROVE  Steady(t)
<1>1. /\ Frame(t)
      /\ pc'[t] = "locking" /\ op'[t] = "pop" /\ result'[t] = "none" /\ pc[t] = "idle"
      /\ pending[t] = <<>> /\ UNCHANGED <<heap, taken, marked, told, job, pending, explored>>
  BY AskFrame
<1>2. FifoInv'
  BY <1>1 DEF FifoInv, Entered
<1>3. DOMAIN pending[t] = {} /\ DOMAIN pending'[t] = {}
  BY <1>1
<1>4. Batch(t)'
  BY <1>1, <1>3 DEF Batch, Carries
<1>5. \A u \in Url, d \in Nat : OnWay(t, u, d) => Within(u, d)'
  BY <1>1, <1>3 DEF OnWay, Carries, Unplaced
<1>6. QED BY <1>1, <1>2, <1>4, <1>5, WithinStays, ShortestStays DEF Steady

\* A pending job on its way into push keeps its place in the batch.
LEMMA SubmitBreadth ==
  ASSUME TypeOK, CrawlTypeOK, FifoInv, ShortestInv, NEW t \in Task, Batch(t), Submit(t)
  PROVE  Steady(t)
<1> DEFINE j == Head(pending[t])
           rest == Tail(pending[t])
<1>1. /\ Frame(t)
      /\ pc'[t] = "dedup" /\ op'[t] = "push" /\ result'[t] = "none"
      /\ job'[t].url = StripFragment[j.url] /\ job'[t].depth = j.depth
      /\ pc[t] = "idle" /\ pending[t] # <<>> /\ pending[t] \in Seq(Job)
      /\ pending'[t] = rest
      /\ UNCHANGED <<heap, taken, marked, told, explored>>
  BY SubmitFrame
<1>2. FifoInv' /\ Entered' = Entered
  BY <1>1 DEF FifoInv, Entered
<1>3. /\ 1 \in DOMAIN pending[t] /\ j = pending[t][1]
      /\ \A k \in DOMAIN rest : k + 1 \in DOMAIN pending[t] /\ rest[k] = pending[t][k + 1]
      /\ \A k \in DOMAIN pending[t] : k # 1 => k - 1 \in DOMAIN rest /\ rest[k - 1] = pending[t][k]
  BY <1>1
<1> HIDE DEF j, rest
<1>4. Batch(t)'
  <2>1. Ready(job'[t].url, job'[t].depth)
    BY <1>1, <1>3 DEF Batch
  <2>2. ASSUME NEW k \in DOMAIN rest
        PROVE  /\ Ready(StripFragment[rest[k].url], rest[k].depth)
               /\ rest[k].depth = job'[t].depth
               /\ \A i \in DOMAIN rest : rest[i].depth = rest[k].depth
    BY <1>1, <1>3 DEF Batch
  <2>3. \A u, d : Ready(u, d) => Ready(u, d)'
    BY <1>1, <1>2, ReadyStays
  <2>4. pending'[t] = rest /\ ~Carries(t)'
    BY <1>1 DEF Carries, Unplaced
  <2>5. QED BY <1>1, <2>1, <2>2, <2>3, <2>4 DEF Batch
<1>5. ASSUME NEW u \in Url, NEW d \in Nat, OnWay(t, u, d) PROVE Within(u, d)'
  <2>1. PICK k \in DOMAIN pending[t] :
          StripFragment[pending[t][k].url] = u /\ pending[t][k].depth <= d
    BY <1>1, <1>5 DEF OnWay, Carries, Unplaced
  <2>2. OnWay(t, u, d)'
    BY <1>1, <1>3, <2>1 DEF OnWay
  <2>3. QED BY <2>2 DEF Within
<1>6. QED BY <1>1, <1>2, <1>4, <1>5, WithinStays, ShortestStays DEF Steady

\* A page's links are one level below it, and a level below it is the next to be
\* queued: the page was at the front of the queue when it was taken.
LEMMA NextLevel ==
  ASSUME TypeOK, CrawlInv, FifoInv, NEW t \in Task, Batch(t), result[t] = "job"
  PROVE  Level(job[t].depth + 1)
<1>1. PICK e \in taken : e.job = job[t]
  BY DEF CrawlInv
<1>2. ASSUME NEW f \in heap PROVE job[t].depth + 1 <= f.job.depth + 1
  <2>1. e.seq < f.seq /\ e \in Entered /\ f \in Entered
    BY DEF FifoInv, Entered
  <2>2. e.job.depth <= f.job.depth
    BY <2>1 DEF FifoInv
  <2>3. e.job.depth \in Nat /\ f.job.depth \in Nat
    BY <2>1, EnteredType DEF JobType
  <2>4. QED BY <1>1, <2>2, <2>3
<1>3. QED BY <1>2 DEF Batch, Level

\* A job that is tried again was marked, and no other entry is for its page.
LEMMA RetryReady ==
  ASSUME TypeOK, CrawlInv, MarkInv, StripInv, QueuedAtMostOnce,
         NEW t \in Task, result[t] = "job"
  PROVE  Ready(StripFragment[job[t].url], job[t].depth) /\ job[t] \in Job
<1>1. PICK e \in taken : e.job = job[t]
  BY DEF CrawlInv
<1>2. e \in Entered /\ StripFragment[job[t].url] = job[t].url /\ job[t] \in Job
  BY <1>1 DEF Entered, StripInv, Stripped, CrawlInv, Sound
<1>3. job[t].url \in marked
  BY <1>1, <1>2 DEF MarkInv
<1>4. ASSUME NEW f \in Entered, f.job.url = job[t].url PROVE f.job.depth <= job[t].depth
  <2>1. f = e
    BY <1>1, <1>2, <1>4 DEF QueuedAtMostOnce
  <2>2. job[t].depth \in Nat
    BY <1>2, JobFields
  <2>3. QED BY <1>1, <2>1, <2>2
<1>5. QED BY <1>2, <1>3, <1>4 DEF Ready

\* The links of a page are one level below it, and nothing above them is queued
\* behind them.
LEMMA WorkBreadth ==
  ASSUME IInv, CrawlInv, LinkInv, FifoInv, ShortestInv, NEW t \in Task, Batch(t), Work(t)
  PROVE  Steady(t)
<1>0. TypeOK /\ MarkInv /\ StripInv /\ QueuedAtMostOnce /\ CrawlTypeOK
  BY DEF IInv, CrawlInv
<1>1. /\ Frame(t) /\ UNCHANGED vars
      /\ pc[t] = "idle" /\ result[t] = "job" /\ pending[t] = <<>>
  BY <1>0, WorkFrame
<1>2. FifoInv' /\ Entered' = Entered /\ UNCHANGED <<heap, marked, pc, op, job, result>>
  BY <1>1 DEF FifoInv, Entered, vars
<1>3. DOMAIN pending[t] = {}
  BY <1>1
<1>4. job[t] \in Job
  BY <1>0, <1>1, RetryReady
<1>5. \A u \in Url, d \in Nat : Within(u, d) => Within(u, d)'
  <2>1. \A u \in Url, d \in Nat : OnWay(t, u, d) => Within(u, d)'
    BY <1>1, <1>3 DEF OnWay, Carries, Unplaced
  <2>2. QED BY <1>1, <2>1, WithinStays
<1>6. \A u, d : (Level(d) => Level(d)') /\ (Ready(u, d) => Ready(u, d)')
  BY <1>2, ReadyStays
<1>7. ASSUME NEW d, \A k \in DOMAIN pending'[t] :
               pending'[t][k].depth = d /\ Ready(StripFragment[pending'[t][k].url], d)
      PROVE  Batch(t)'
  <2>1. \A k \in DOMAIN pending'[t] : Ready(StripFragment[pending[t][k].url], pending[t][k].depth)'
    <3> SUFFICES ASSUME NEW k \in DOMAIN pending'[t]
                 PROVE  Ready(StripFragment[pending[t][k].url], pending[t][k].depth)'
      OBVIOUS
    <3> DEFINE u == StripFragment[pending'[t][k].url]
    <3>1. Ready(u, d) /\ pending'[t][k].depth = d
      BY <1>7
    <3> HIDE DEF u
    <3>2. \/ u \in marked /\ \A e \in Entered : e.job.url = u => e.job.depth <= d
          \/ Level(d)
      BY <3>1 DEF Ready
    <3>3. \/ u \in marked' /\ \A e \in Entered' : e.job.url = u => e.job.depth <= d
          \/ /\ \A e \in Entered' : e.job.depth <= d
             /\ \A f \in heap' : d <= f.job.depth + 1
      BY <1>2, <3>2 DEF Level
    <3>4. QED BY <3>1, <3>3 DEF Ready, Level, u
  <2>2. pc'[t] = "idle" /\ ~Carries(t)'
    BY <1>1, <1>2 DEF Carries, Unplaced
  <2>3. result'[t] = "job" => \A e \in Entered' : e.job.depth <= job'[t].depth + 1
    BY <1>2 DEF Batch
  <2>4. QED BY <1>7, <2>1, <2>2, <2>3 DEF Batch
<1>8. CASE pending'[t] = Discovered(job[t]) /\ explored' = explored \cup {job[t]}
  <2>1. Level(job[t].depth + 1)
    BY <1>0, <1>1, NextLevel
  <2>2. \A k \in DOMAIN Discovered(job[t]) : Discovered(job[t])[k].depth = job[t].depth + 1
    BY DEF Discovered, NewJob
  <2>3. Batch(t)'
    <3>1. \A u : Ready(u, job[t].depth + 1)
      BY <2>1 DEF Ready
    <3>2. QED BY <1>7, <1>8, <2>2, <3>1
  <2>4. ASSUME NEW i \in DOMAIN Seeds PROVE Within(StripFragment[Seeds[i]], 0)'
    BY <1>5, SeedTypes DEF ShortestInv
  <2>5. ASSUME NEW j \in explored', j.depth < MaxDepth, NEW i \in DOMAIN Links[j.url]
        PROVE  Within(StripFragment[Links[j.url][i]], j.depth + 1)'
    <3>1. CASE j \in explored
      <4>1. j \in Job
        BY <1>0, <3>1 DEF CrawlTypeOK
      <4>2. StripFragment[Links[j.url][i]] \in Url /\ j.depth + 1 \in Nat
        BY <2>5, <4>1, LinkTypes
      <4>3. Within(StripFragment[Links[j.url][i]], j.depth + 1)
        BY <2>5, <3>1 DEF ShortestInv
      <4>4. QED BY <1>5, <4>2, <4>3
    <3>2. CASE j = job[t]
      <4>1. /\ i \in DOMAIN Discovered(j)
            /\ Discovered(j)[i].url = Links[j.url][i] /\ Discovered(j)[i].depth = j.depth + 1
        BY <2>5 DEF Discovered, NewJob
      <4>2. j.depth + 1 <= j.depth + 1
        BY <1>4, <3>2, JobFields
      <4>3. OnWay(t, StripFragment[Links[j.url][i]], j.depth + 1)'
        BY <1>8, <3>2, <4>1, <4>2 DEF OnWay
      <4>4. QED BY <4>3 DEF Within
    <3>3. QED BY <1>8, <3>1, <3>2
  <2>6. QED BY <1>2, <2>3, <2>4, <2>5 DEF Steady, ShortestInv
<1>9. ASSUME NEW error, pending'[t] = Retry(job[t], error), explored' = explored
      PROVE  Steady(t)
  <2>1. Ready(StripFragment[job[t].url], job[t].depth)
    BY <1>0, <1>1, RetryReady
  <2>2. \A k \in DOMAIN Retry(job[t], error) :
          /\ Retry(job[t], error)[k].url = job[t].url
          /\ Retry(job[t], error)[k].depth = job[t].depth
    <3>1. CASE IsRetryable(error) /\ ~IsExhausted(NextAttempt(job[t]))
      <4>1. Retry(job[t], error) = <<NextAttempt(job[t])>>
        BY <3>1 DEF Retry
      <4>2. NextAttempt(job[t]).url = job[t].url /\ NextAttempt(job[t]).depth = job[t].depth
        BY <1>4, <3>1, NextAttemptType
      <4>3. QED BY <4>1, <4>2
    <3>2. CASE ~(IsRetryable(error) /\ ~IsExhausted(NextAttempt(job[t])))
      BY <3>2 DEF Retry
    <3>3. QED BY <3>1, <3>2
  <2>3. Batch(t)'
    BY <1>7, <1>9, <2>1, <2>2
  <2>4. QED BY <1>0, <1>2, <1>5, <1>9, <2>3, ShortestStays DEF Steady
<1>10. QED BY <1>0, <1>8, <1>9, WorkFrame

\* A push that the filter answers is for a page that was queued at most as deep.
LEMMA DuplicateBreadth ==
  ASSUME NoFalsePositive, Known, Orderly, NEW t \in Task, PushDuplicate(t), UNCHANGED crawlVars,
         \A w \in Task \ {t} : Idle(w)
  PROVE  \E e \in Entered : e.job.url = job[t].url /\ e.job.depth <= job[t].depth
<1> DEFINE u == job[t].url
<1>0. /\ TypeOK /\ MarkInv /\ NoSilentLoss /\ FilterInv /\ Batch(t)
      /\ pc[t] = "dedup" /\ Check(bits, u)
  BY DEF Known, IInv, LinkInv, BreadthInv, BatchInv, PushDuplicate
<1>1. u \in Url /\ marked \in SUBSET Url /\ Hash[u] \subseteq bits
  BY <1>0 DEF TypeOK, JobType, Check
<1> HIDE DEF u
<1>2. \A b \in Hash[u] : \E v \in marked : b \in Hash[v]
  BY <1>0, <1>1 DEF FilterInv
<1>3. u \in marked
  BY <1>1, <1>2 DEF NoFalsePositive
<1>4. \A w \in Task : ~Carries(w)
  BY <1>0 DEF Idle, Carries, Unplaced
<1>5. <<u, "full">> \notin told /\ <<u, "cancelled">> \notin told
  BY <1>0 DEF Orderly, FilterInv
<1>6. PICK e \in Entered : e.job.url = u
  BY <1>0, <1>3, <1>4, <1>5 DEF NoSilentLoss
<1>7. e.job.depth <= job[t].depth
  BY <1>0, <1>6 DEF Batch, Ready, Level, u
<1>8. QED BY <1>6, <1>7 DEF u

\* A step of the frontier that queues nothing and serves nothing, and leaves nothing
\* of a page but what is within reach.
LEMMA QuietBreadth ==
  ASSUME CrawlTypeOK, FifoInv, ShortestInv, NEW t \in Task, Batch(t), Frame(t),
         UNCHANGED <<crawlVars, op, heap, taken>>, pc[t] # "idle",
         pc'[t] # "dedup", result'[t] # "job",
         job'[t].url = job[t].url, job'[t].depth = job[t].depth,
         Carries(t)' => Level(job[t].depth),
         pc[t] = "dedup" \/ Carries(t) =>
           \/ Carries(t)'
           \/ \E e \in Entered : e.job.url = job[t].url /\ e.job.depth <= job[t].depth,
         job[t].depth \in Nat, TypeOK
  PROVE  Steady(t)
<1>1. FifoInv' /\ Entered' = Entered /\ pending' = pending /\ explored' = explored
  BY DEF FifoInv, Entered, crawlVars
<1>2. marked \subseteq marked'
  BY DEF Frame
<1>3. Batch(t)'
  <2>1. \A u, d : (Level(d) => Level(d)') /\ (Ready(u, d) => Ready(u, d)')
    BY <1>1, <1>2, ReadyStays
  <2>2. ASSUME NEW k \in DOMAIN pending[t]
        PROVE  /\ Ready(StripFragment[pending[t][k].url], pending[t][k].depth)
               /\ \A i \in DOMAIN pending[t] : pending[t][i].depth = pending[t][k].depth
               /\ op[t] = "push" => pending[t][k].depth = job[t].depth
    BY DEF Batch
  <2>3. QED BY <1>1, <2>1, <2>2 DEF Batch
<1>4. ASSUME NEW u \in Url, NEW d \in Nat, OnWay(t, u, d) PROVE Within(u, d)'
  <2>1. CASE \E k \in DOMAIN pending[t] :
               StripFragment[pending[t][k].url] = u /\ pending[t][k].depth <= d
    BY <1>1, <2>1 DEF OnWay, Within
  <2>2. CASE (pc[t] = "dedup" \/ Carries(t)) /\ job[t].url = u /\ job[t].depth <= d
    <3>1. CASE Carries(t)'
      BY <2>2, <3>1 DEF OnWay, Within
    <3>2. ASSUME NEW e \in Entered, e.job.url = u, e.job.depth <= job[t].depth
          PROVE  Within(u, d)'
      <4>1. e.job.depth \in Nat
        BY EnteredType DEF JobType
      <4>2. e.job.depth <= d
        BY <2>2, <3>2, <4>1
      <4>3. QED BY <1>1, <3>2, <4>2 DEF Within
    <3>3. QED BY <2>2, <3>1, <3>2
  <2>3. QED BY <1>4, <2>1, <2>2 DEF OnWay
<1>5. QED BY <1>1, <1>3, <1>4, WithinStays, ShortestStays DEF Steady

\* The newest entry is no less deep than the others, and at most a level below those
\* that wait.
LEMMA EnqueueBreadth ==
  ASSUME Known, FifoInv, ShortestInv, NEW t \in Task, Batch(t), InFrontier(t), Enqueue(t)
  PROVE  Steady(t)
<1> DEFINE new == [job |-> job[t], seq |-> seq + 1]
           d == job[t].depth
<1>0. TypeOK /\ OrderInv /\ CrawlTypeOK /\ CrawlInv
  BY DEF Known, IInv, CrawlInv
<1>1. /\ heap' = heap \cup {new} /\ taken' = taken /\ Entered' = Entered \cup {new}
      /\ UNCHANGED <<job, marked>> /\ Carries(t) /\ ~Carries(t)'
  BY <1>0, EnqueueEffect
<1>2. new.job = job[t] /\ new.seq = seq + 1
  OBVIOUS
<1>3. Frame(t) /\ UNCHANGED crawlVars /\ UNCHANGED op /\ pc[t] # "idle"
  BY <1>0, StepFrame
<1>4. pc'[t] = "counting" /\ op[t] = "push" /\ result'[t] = result[t] /\ pc[t] # "idle"
  BY <1>0 DEF Enqueue, Goto, Locked, TypeOK
<1>5. result'[t] # "job"
  BY <1>4, <1>0 DEF CrawlInv
<1>6. Level(d) /\ d \in Nat
  BY <1>0, <1>1 DEF Batch, TypeOK, JobType
<1> HIDE DEF new
<1>7. FifoInv'
  <2>1. \A e \in Entered : e.seq \in Nat /\ e.seq < new.seq /\ e.job.depth \in Nat /\ e.job.depth <= d
    BY <1>0, <1>2, <1>6, EnteredType DEF OrderInv, Level, JobType, TypeOK
  <2>2. \A f \in heap : d <= f.job.depth + 1
    BY <1>6 DEF Level
  <2>3. new.job.depth = d /\ new.seq \in Nat
    BY <1>0, <1>2 DEF TypeOK
  <2> HIDE DEF d
  <2>4. ASSUME NEW e \in Entered', NEW f \in Entered', e.seq < f.seq PROVE e.job.depth <= f.job.depth
    <3>1. CASE e \in Entered /\ f \in Entered
      BY <2>4, <3>1 DEF FifoInv
    <3>2. CASE f = new
      BY <1>1, <1>6, <2>1, <2>3, <2>4, <3>2
    <3>3. CASE e = new
      BY <1>1, <1>6, <2>1, <2>3, <2>4, <3>3
    <3>4. QED BY <1>1, <3>1, <3>2, <3>3
  <2>5. ASSUME NEW e \in taken', NEW f \in heap' PROVE e.seq < f.seq
    <3>1. e \in taken /\ e \in Entered
      BY <1>1 DEF Entered
    <3>2. CASE f \in heap
      BY <3>1, <3>2 DEF FifoInv
    <3>3. CASE f = new
      BY <2>1, <3>1, <3>3
    <3>4. QED BY <1>1, <3>2, <3>3
  <2>6. ASSUME NEW e \in Entered', NEW f \in heap' PROVE e.job.depth <= f.job.depth + 1
    <3>1. CASE e \in Entered /\ f \in heap
      BY <3>1 DEF FifoInv
    <3>2. CASE e \in Entered /\ f = new
      BY <1>6, <2>1, <2>3, <3>2
    <3>3. CASE e = new /\ f \in heap
      BY <2>2, <2>3, <3>3
    <3>4. CASE e = new /\ f = new
      BY <1>6, <2>3, <3>4
    <3>5. QED BY <1>1, <3>1, <3>2, <3>3, <3>4
  <2>7. QED BY <2>4, <2>5, <2>6 DEF FifoInv
<1>8. Batch(t)'
  <2>1. pending' = pending
    BY <1>3 DEF crawlVars
  <2>2. ASSUME NEW u, Ready(u, d) PROVE Ready(u, d)'
    <3>1. d <= d /\ d <= d + 1
      BY <1>6
    <3>2. \/ u \in marked /\ \A e \in Entered : e.job.url = u => e.job.depth <= d
          \/ (\A e \in Entered : e.job.depth <= d) /\ \A f \in heap : d <= f.job.depth + 1
      BY <2>2 DEF Ready, Level
    <3>3. new.job.depth = d /\ d' = d
      BY <1>1, <1>2
    <3> HIDE DEF d
    <3>4. \/ u \in marked' /\ \A e \in Entered' : e.job.url = u => e.job.depth <= d
          \/ (\A e \in Entered' : e.job.depth <= d) /\ \A f \in heap' : d <= f.job.depth + 1
      BY <1>1, <3>1, <3>2, <3>3
    <3>5. QED BY <3>3, <3>4 DEF Ready, Level
  <2>3. ASSUME NEW k \in DOMAIN pending[t]
        PROVE  /\ Ready(StripFragment[pending[t][k].url], d) /\ pending[t][k].depth = d
               /\ \A i \in DOMAIN pending[t] : pending[t][i].depth = pending[t][k].depth
    BY <1>4 DEF Batch
  <2>4. ASSUME NEW k \in DOMAIN pending[t]
        PROVE  Ready(StripFragment[pending[t][k].url], pending[t][k].depth)'
    <3>1. Ready(StripFragment[pending[t][k].url], d)'
      BY <2>1, <2>2, <2>3
    <3>2. d' = d /\ pending[t][k].depth = d
      BY <1>1, <2>3
    <3>3. QED BY <2>1, <3>1, <3>2
  <2>5. QED BY <1>1, <1>4, <1>5, <2>1, <2>3, <2>4 DEF Batch
<1>9. ASSUME NEW u \in Url, NEW n \in Nat, OnWay(t, u, n) PROVE Within(u, n)'
  <2>1. CASE \E k \in DOMAIN pending[t] :
               StripFragment[pending[t][k].url] = u /\ pending[t][k].depth <= n
    BY <1>3, <2>1 DEF OnWay, Within, crawlVars
  <2>2. CASE job[t].url = u /\ job[t].depth <= n
    BY <1>1, <1>2, <2>2 DEF Within
  <2>3. QED BY <1>9, <2>1, <2>2 DEF OnWay
<1>10. QED BY <1>0, <1>3, <1>7, <1>8, <1>9, WithinStays, ShortestStays DEF Steady, crawlVars

\* In breadth mode a pop serves the entry that was queued first.
LEMMA PopBreadth ==
  ASSUME Known, Orderly, FifoInv, ShortestInv, NEW t \in Task, Batch(t), InFrontier(t), PopJob(t)
  PROVE  Steady(t)
<1>0. TypeOK /\ OrderInv /\ CrawlTypeOK /\ CrawlInv /\ LinkInv /\ WorkerInv
  BY DEF Known, IInv, CrawlInv, BreadthInv
<1>1. PICK e \in heap : /\ \A f \in heap \ {e} : Before(e, f)
                        /\ heap' = heap \ {e}
                        /\ taken' = taken \cup {e}
                        /\ job' = [job EXCEPT ![t] = e.job]
  BY DEF PopJob
<1>2. /\ Entered' = Entered /\ UNCHANGED <<op, marked>> /\ ~Carries(t)
      /\ op[t] = "pop" /\ pc[t] # "idle" /\ pc[t] # "dedup" /\ pc'[t] = "idle" /\ job'[t] = e.job
  BY <1>0, <1>1, PopEffect DEF PopJob, Locked, Return, Goto, TypeOK
<1>3. Frame(t) /\ UNCHANGED crawlVars
  BY <1>0, StepFrame
<1>4. pending[t] = <<>> /\ pending' = pending /\ explored' = explored
  BY <1>0, <1>2, <1>3 DEF WorkerInv, LinkInv, DrainInv, crawlVars
<1>5. DOMAIN pending[t] = {}
  BY <1>4
<1>6. ASSUME NEW f \in heap \ {e} PROVE e.seq < f.seq
  <2>1. e \in Entered /\ f \in Entered /\ Before(e, f)
    BY <1>1 DEF Entered
  <2>2. /\ e.seq \in Nat /\ f.seq \in Nat /\ e.job \in JobType /\ f.job \in JobType
        /\ e.seq # f.seq
        /\ e.job.priority = EffectivePriority(e.job) /\ f.job.priority = EffectivePriority(f.job)
    BY <1>0, <2>1, EnteredType DEF OrderInv
  <2>3. e.job.priority > f.job.priority => e.job.depth < f.job.depth
    BY <2>2, PriorityRanks DEF Orderly
  <2>4. f.seq < e.seq => f.job.depth <= e.job.depth
    BY <2>1 DEF FifoInv
  <2>5. e.job.depth \in Nat /\ f.job.depth \in Nat
    BY <2>2 DEF JobType
  <2>6. QED BY <2>1, <2>2, <2>3, <2>4, <2>5 DEF Before
<1>7. FifoInv'
  <2>1. \A f \in taken', g \in heap' : f.seq < g.seq
    BY <1>1, <1>6 DEF FifoInv
  <2>2. QED BY <1>1, <1>2, <2>1 DEF FifoInv
<1>8. Batch(t)'
  <2>1. \A f \in Entered : f.job.depth <= e.job.depth + 1
    BY DEF FifoInv
  <2>2. QED BY <1>2, <1>4, <1>5, <2>1 DEF Batch, Carries, Unplaced
<1>9. \A u \in Url, d \in Nat : OnWay(t, u, d) => Within(u, d)'
  BY <1>2, <1>5 DEF OnWay
<1>10. QED BY <1>0, <1>3, <1>4, <1>7, <1>8, <1>9, WithinStays, ShortestStays DEF Steady

\* Inside the frontier: a job is queued behind those of its level, a duplicate is
\* within reach already, and a pop takes the lowest level.
LEMMA FrontierBreadth ==
  ASSUME NoFalsePositive, Known, Orderly, Orderly', NEW t \in Task, InFrontier(t)
  PROVE  Steady(t)
<1>0. /\ TypeOK /\ MarkInv /\ CrawlTypeOK /\ CrawlInv /\ WorkerInv
      /\ FifoInv /\ ShortestInv /\ Batch(t)
  BY DEF Known, IInv, CrawlInv, BreadthInv, BatchInv
<1>1. /\ Frame(t) /\ UNCHANGED <<crawlVars, op>> /\ pc[t] # "idle" /\ Step(t)
  BY <1>0, StepFrame DEF InFrontier
<1>2. \A w \in Task \ {t} : Idle(w)
  BY <1>0, <1>1, OthersIdle DEF Idle
<1>3. job[t].depth \in Nat /\ UNCHANGED crawlVars /\ UNCHANGED op
  BY <1>0, <1>1 DEF TypeOK, JobType
<1>4. result[t] # "job"
  BY <1>0, <1>1 DEF CrawlInv
<1>5. CASE PushDuplicate(t)
  <2>1. /\ UNCHANGED <<heap, taken, job>> /\ pc'[t] = "idle" /\ result'[t] = "duplicate"
    BY <1>0, <1>5 DEF PushDuplicate, Return, Goto, TypeOK
  <2>2. \E e \in Entered : e.job.url = job[t].url /\ e.job.depth <= job[t].depth
    BY <1>2, <1>3, <1>5, DuplicateBreadth
  <2>3. ~Carries(t)'
    BY <2>1 DEF Carries, Unplaced
  <2>4. QED BY <1>0, <1>1, <1>3, <2>1, <2>2, <2>3, QuietBreadth
<1>6. CASE PushMark(t)
  <2>1. /\ job[t].url \notin marked /\ job'[t].url = job[t].url
        /\ UNCHANGED <<heap, taken>>
    BY <1>0, <1>6, MarkEffect
  <2>2. /\ job'[t].depth = job[t].depth /\ pc[t] = "dedup" /\ op[t] = "push"
        /\ pc'[t] = "locking" /\ result' = result
    BY <1>0, <1>6 DEF PushMark, Goto, TypeOK, JobType, MarkInv
  <2>3. Level(job[t].depth)
    BY <1>0, <2>1, <2>2 DEF Batch, Ready
  <2>4. Carries(t)'
    BY <1>3, <2>2 DEF Carries, Unplaced
  <2>5. QED BY <1>0, <1>1, <1>3, <1>4, <2>1, <2>2, <2>3, <2>4, QuietBreadth
<1>7. CASE RequestLock(t)
  <2>1. /\ UNCHANGED <<heap, taken, job, result>> /\ pc[t] = "locking"
        /\ pc'[t] \in {"locked", "suspended"}
    BY <1>0, <1>7 DEF RequestLock, Goto, TypeOK
  <2>2. Carries(t)' = Carries(t)
    BY <1>3, <2>1 DEF Carries, Unplaced
  <2>3. Carries(t) => Level(job[t].depth)
    BY <1>0 DEF Batch
  <2>4. QED BY <1>0, <1>1, <1>3, <1>4, <2>1, <2>2, <2>3, QuietBreadth
<1>8. CASE PushFull(t)
  <2>1. <<job[t].url, "full">> \in told'
    BY <1>8 DEF PushFull, Return, Locked
  <2>2. QED BY <2>1 DEF Orderly
<1>9. CASE Enqueue(t)
  BY <1>0, <1>9, EnqueueBreadth
<1>10. CASE CountPushed(t)
  <2>1. /\ UNCHANGED <<heap, taken, job>> /\ pc[t] = "counting" /\ pc'[t] = "idle"
        /\ result'[t] = "accepted"
    BY <1>0, <1>10 DEF CountPushed, Return, Goto, TypeOK
  <2>2. ~Carries(t) /\ ~Carries(t)'
    BY <2>1 DEF Carries, Unplaced
  <2>3. QED BY <1>0, <1>1, <1>3, <2>1, <2>2, QuietBreadth
<1>11. CASE PopJob(t)
  BY <1>0, <1>11, PopBreadth
<1>12. CASE PopEmpty(t)
  <2>1. /\ UNCHANGED <<heap, taken, job>> /\ pc'[t] = "idle" /\ result'[t] = "empty"
        /\ op[t] = "pop" /\ pc[t] # "dedup"
    BY <1>0, <1>12 DEF PopEmpty, Return, Goto, Locked, TypeOK
  <2>2. ~Carries(t) /\ ~Carries(t)'
    BY <1>3, <2>1 DEF Carries
  <2>3. QED BY <1>0, <1>1, <1>3, <2>1, <2>2, QuietBreadth
<1>13. QED
  BY <1>1, <1>5, <1>6, <1>7, <1>8, <1>9, <1>10, <1>11, <1>12 DEF Step

\* Stuttering changes nothing.
LEMMA StutterBreadthInv ==
  ASSUME BreadthInv, UNCHANGED <<vars, crawlVars>>
  PROVE  BreadthInv'
<1>1. /\ \A t : Carries(t)' = Carries(t) /\ Entered' = Entered /\ Orderly' = Orderly
      /\ UNCHANGED <<heap, taken, marked, pc, op, job, result, pending, awaiting, explored, crew>>
  BY DEF vars, crawlVars, Carries, Entered, Orderly
<1>2. WorkerInv' /\ (FifoInv => FifoInv')
  BY <1>1 DEF BreadthInv, WorkerInv, FifoInv
<1>3. ASSUME BatchInv PROVE BatchInv'
  <2>1. \A u, d : (Level(d) => Level(d)') /\ (Ready(u, d) => Ready(u, d)')
    BY <1>1, ReadyStays
  <2>2. ASSUME NEW t \in Task PROVE Batch(t)'
    <3>1. Batch(t)
      BY <1>3 DEF BatchInv
    <3>2. QED BY <1>1, <2>1, <3>1 DEF Batch
  <2>3. QED BY <2>2 DEF BatchInv
<1>4. ASSUME ShortestInv PROVE ShortestInv'
  <2>1. \A t, u, d : OnWay(t, u, d)' = OnWay(t, u, d)
    BY <1>1 DEF OnWay
  <2>2. \A u, d : Within(u, d)' = Within(u, d)
    BY <1>1, <2>1 DEF Within
  <2>3. QED BY <1>1, <1>4, <2>2 DEF ShortestInv
<1>5. QED BY <1>1, <1>2, <1>3, <1>4 DEF BreadthInv

\* The order is kept by every step of the crawl.
LEMMA BreadthStep ==
  ASSUME NoFalsePositive, Known, [CrawlNext]_<<vars, crawlVars>>
  PROVE  BreadthInv'
<1>0. /\ IInv /\ TypeOK /\ CrawlTypeOK /\ CrawlInv /\ LinkInv /\ BreadthInv /\ WorkerInv
  BY DEF Known, IInv, CrawlInv, BreadthInv
<1>1. ASSUME NEW t \in Task, Advance(t) PROVE BreadthInv'
  <2>1. WorkerInv'
    BY <1>0, <1>1, WorkerStep
  <2>2. Frame(t) /\ (t \in crew \/ ~Idle(t))
    BY <1>0, <1>1, AskFrame, SubmitFrame, WorkFrame, StepFrame DEF Advance, Idle
  <2>3. ASSUME Orderly' PROVE FifoInv' /\ BatchInv' /\ ShortestInv'
    <3>1. Orderly
      BY <2>2, <2>3 DEF Orderly, Frame
    <3>2. FifoInv /\ ShortestInv /\ Batch(t)
      BY <1>0, <3>1 DEF BreadthInv, BatchInv
    <3>3. Steady(t)
      BY <1>0, <1>1, <2>3, <3>1, <3>2, AskBreadth, SubmitBreadth, WorkBreadth, FrontierBreadth,
         NoFalsePositive, Known DEF Advance
    <3>4. ASSUME NEW w \in Task PROVE Batch(w)'
      <4>1. CASE w = t
        BY <3>3, <4>1 DEF Steady
      <4>2. CASE w # t
        <5>1. Idle(w)
          BY <1>0, <2>2, <3>1, <4>2, OthersIdle
        <5>2. Idle(w)'
          BY <2>2, <4>2, <5>1 DEF Idle, Frame
        <5>3. DOMAIN pending'[w] = {} /\ pc'[w] = "idle" /\ result'[w] # "job"
          BY <5>2 DEF Idle
        <5>4. QED BY <5>3 DEF Batch, Carries, Unplaced
      <4>3. QED BY <4>1, <4>2
    <3>5. QED BY <3>3, <3>4 DEF Steady, BatchInv
  <2>4. QED BY <2>1, <2>3 DEF BreadthInv
<1>2. QED BY <1>0, <1>1, StutterBreadthInv DEF CrawlNext

-----------------------------------------------------------------------------
\* The invariants hold together.
LEMMA KnownCorrect == ASSUME NoFalsePositive PROVE CrawlSpec => []Known
<1>1. CrawlInit => Known
  BY InitIInv, InitCrawlInv, InitLinkInv, InitBreadthInv DEF CrawlInit, Known
<1>2. ASSUME Known, IInv', CrawlInv', [CrawlNext]_<<vars, crawlVars>> PROVE Known'
  BY <1>2, LinkStep, BreadthStep, NoFalsePositive DEF Known
<1>3. QED BY <1>1, <1>2, BothInvariants, PTL DEF CrawlSpec

\* The pages served within n links, when the crawl is over.
Served(n) == {e.job.url : e \in {f \in taken : f.job.depth <= n}}

\* When the crawl is over, what is within reach has been served.
LEMMA QuietIsServed ==
  ASSUME Known, Quiet, NEW u, NEW d, Within(u, d)
  PROVE  \E e \in taken : e.job.url = u /\ e.job.depth <= d
<1>1. \A t \in Task : pending[t] = <<>> /\ (op[t] = "push" => pc[t] = "idle")
  BY DEF Quiet
<1>2. \A t \in Task : pc[t] = "dedup" => op[t] = "push"
  BY DEF Known, IInv, MarkInv
<1>3. \A t \in Task : ~OnWay(t, u, d)
  BY <1>1, <1>2 DEF OnWay, Carries, Unplaced
<1>4. Entered = taken
  BY DEF Quiet, Entered
<1>5. QED BY <1>3, <1>4 DEF Within

\* Level 0: the seeds, and nothing else, were served at depth 0.
LEMMA SeedsServed ==
  ASSUME Known, Orderly, Quiet
  PROVE  Served(0) = Starts
<1>0. CrawlTypeOK /\ ShortestInv /\ Entered = taken
  BY DEF Known, CrawlInv, BreadthInv, Quiet, Entered
<1>1. ASSUME NEW e \in taken, e.job.depth <= 0 PROVE e.job.url \in Starts
  <2>1. Sound(e.job, explored)
    BY <1>0 DEF Known, CrawlInv
  <2>2. e.job.depth = 0
    BY <1>1, <2>1, JobFields DEF Sound
  <2>3. \A j \in explored : j.depth \in Nat
    BY <1>0, JobFields DEF CrawlTypeOK
  <2>4. \/ Target(e.job.url, Seeds)
        \/ \E j \in explored : j.depth + 1 = 0
    BY <2>1, <2>2 DEF Sound, Chained
  <2>5. Target(e.job.url, Seeds)
    BY <2>3, <2>4
  <2>6. QED BY <2>5 DEF Target, Starts
<1>2. ASSUME NEW i \in DOMAIN Seeds PROVE StripFragment[Seeds[i]] \in Served(0)
  BY <1>0, QuietIsServed DEF ShortestInv, Served
<1>3. QED BY <1>1, <1>2 DEF Served, Starts

\* One level more: what was served up to depth n + 1 are the links of what was served
\* up to depth n, and that itself.
LEMMA NextLevelServed ==
  ASSUME Known, Orderly, Quiet, NEW n \in Nat, n < MaxDepth, Served(n) = Near[n]
  PROVE  Served(n + 1) = Near[n + 1]
<1> DEFINE nearby == {k \in explored : k.url \in Near[n]}
<1>0. /\ CrawlTypeOK /\ ShortestInv /\ WorkerInv /\ QueuedAtMostOnce /\ StripInv /\ Entered = taken
      /\ TypeOK
  BY DEF Known, CrawlInv, BreadthInv, IInv, Quiet, Entered
<1>1. Near[n + 1] = Near[n] \cup UNION {Targets(j) : j \in nearby}
  BY <1>0, NearUnfolds
<1>2. ASSUME NEW e \in taken PROVE e.job.depth \in Nat /\ Sound(e.job, explored)
  BY <1>0, JobFields DEF Known, CrawlInv, Sound
<1>3. ASSUME NEW e \in taken, e.job.depth <= n + 1 PROVE e.job.url \in Near[n + 1]
  <2>1. CASE e.job.depth <= n
    <3>1. e.job.url \in Near[n]
      BY <2>1 DEF Served
    <3>2. QED BY <1>1, <3>1
  <2>2. CASE e.job.depth = n + 1
    <3>1. PICK j \in explored : j.depth + 1 = n + 1 /\ Target(e.job.url, Links[j.url])
      BY <1>2, <2>2 DEF Sound, Chained
    <3>2. j.depth = n
      BY <1>0, <3>1, JobFields DEF CrawlTypeOK
    <3>3. PICK f \in taken : f.job = j
      BY <1>0 DEF WorkerInv
    <3>4. j.url \in Near[n]
      BY <3>2, <3>3 DEF Served
    <3>5. j \in nearby /\ e.job.url \in Targets(j)
      BY <3>1, <3>4 DEF Target, Targets
    <3>6. QED BY <1>1, <3>5
  <2>3. QED BY <1>2, <1>3, <2>1, <2>2
<1>4. ASSUME NEW u \in Near[n] PROVE u \in Served(n + 1)
  <2>1. PICK e \in taken : e.job.depth <= n /\ e.job.url = u
    BY DEF Served
  <2>2. e.job.depth <= n + 1
    BY <1>2, <2>1
  <2>3. QED BY <2>1, <2>2 DEF Served
<1>5. ASSUME NEW j \in nearby, NEW u \in Targets(j) PROVE u \in Served(n + 1)
  <2>1. j \in explored /\ j \in Job /\ j.url \in Near[n]
    BY <1>0 DEF CrawlTypeOK
  <2>2. PICK f \in taken : f.job = j
    BY <1>0, <2>1 DEF WorkerInv
  <2>3. PICK g \in taken : g.job.depth <= n /\ g.job.url = j.url
    BY <2>1 DEF Served
  <2>4. f = g
    BY <1>0, <2>2, <2>3 DEF QueuedAtMostOnce
  <2>5. j.depth \in Nat /\ j.depth <= n
    BY <2>1, <2>2, <2>3, <2>4, JobFields
  <2>6. PICK i \in DOMAIN Links[j.url] : StripFragment[Links[j.url][i]] = u
    BY DEF Targets
  <2>7. Within(u, j.depth + 1)
    <3>1. j.depth < MaxDepth
      BY <2>5, BudgetAssumption
    <3>2. QED BY <1>0, <2>1, <2>6, <3>1 DEF ShortestInv
  <2>8. PICK e \in taken : e.job.url = u /\ e.job.depth <= j.depth + 1
    BY <2>7, QuietIsServed
  <2>9. e.job.depth <= n + 1
    BY <1>2, <2>5, <2>8
  <2>10. QED BY <2>8, <2>9 DEF Served
<1>6. Served(n + 1) \subseteq Near[n + 1]
  BY <1>3 DEF Served
<1>7. Near[n + 1] \subseteq Served(n + 1)
  <2> HIDE DEF nearby
  <2>1. UNION {Targets(j) : j \in nearby} \subseteq Served(n + 1)
    BY <1>5
  <2>2. QED BY <1>1, <1>4, <2>1
<1>8. QED BY <1>6, <1>7

\* One worker in breadth mode that no full frontier sends away reaches every page
\* within the depth limit by a shortest way.
THEOREM BreadthFirst ==
  ASSUME NoFalsePositive PROVE CrawlSpec => []BreadthFirstIsComplete
<1>1. ASSUME Known PROVE BreadthFirstIsComplete
  <2> SUFFICES ASSUME Quiet, Orderly, NEW n \in 0..MaxDepth PROVE Served(n) = Near[n]
    BY DEF BreadthFirstIsComplete, Orderly, Served
  <2> DEFINE T == {m \in Nat : m <= MaxDepth => Served(m) = Near[m]}
  <2>1. 0 \in T
    BY <1>1, SeedsServed, NearUnfolds DEF Known, CrawlInv
  <2>2. ASSUME NEW m \in Nat, m \in T PROVE m + 1 \in T
    BY <1>1, <2>2, NextLevelServed, BudgetAssumption
  <2> HIDE DEF T
  <2>3. Nat \subseteq T
    BY <2>1, <2>2, Induction
  <2>4. QED BY <2>3, BudgetAssumption DEF T
<1>2. QED BY <1>1, KnownCorrect, PTL
=============================================================================
