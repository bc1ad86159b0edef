------------------------------ MODULE CrawlLoop ------------------------------
(***************************************************************************)
(* A crawl: workers that feed a LocalFrontier with the links of the pages  *)
(* they took out of it.  The job and its retry budget (crates/fc-core/     *)
(* src/types.rs) and the kinds of errors (error.rs) are the code's; the    *)
(* loop around pop and push is the one their comments describe, and is     *)
(* external: the worker itself is not in the repository.                   *)
(***************************************************************************)
EXTENDS LocalFrontier

CONSTANTS
  Seeds,        \* the URLs the crawl starts from, in the order they are pushed
  Links,        \* ParsedPage::links: the links of each page, in order
  Outcome,      \* what fetching each page may give: Page, or a CrawlError
  Page,         \* Ok, whatever its status: the page is parsed
  MaxDepth,     \* crawler.depth
  MaxAttempts   \* max_attempts of every job

CrawlError ==
  [kind : {"Http", "Network", "Timeout", "TooManyRedirects", "RobotsDisallowed", "Parse",
           "Extraction", "Scheduler", "BloomCapacityExceeded", "Export", "Io", "Redis",
           "Worker", "Config", "UrlParse", "Serialization", "Shutdown"},
   status : Nat]

ASSUME SiteAssumption ==
  /\ Seeds \in Seq(Url)
  /\ Links \in [Url -> Seq(Url)]
  /\ Outcome \in [Url -> SUBSET (CrawlError \cup {Page})]
  /\ Page \notin CrawlError
ASSUME BudgetAssumption == MaxDepth \in Nat /\ MaxAttempts \in Nat
ASSUME AnyJobAssumption ==
  Job = [url : Url, depth : 0..MaxDepth, priority : Priority, attempt : 0..MaxAttempts]

\* CrawlJob::new(url, depth), with Priority::NORMAL.
NewJob(u, depth) == [url |-> u, depth |-> depth, priority |-> 128, attempt |-> 0]

IsExhausted(j) == j.attempt >= MaxAttempts

NextAttempt(j) == [j EXCEPT !.attempt = @ + 1]

IsRetryable(error) ==
  \/ error.kind \in {"Network", "Timeout"}
  \/ error.kind = "Http" /\ (error.status = 429 \/ error.status >= 500)

VARIABLES
  crew,         \* the workers of this crawl
  pending,      \* the jobs each worker has still to push
  awaiting,     \* has the worker popped without handling the answer yet?
  explored,     \* history: the jobs whose page was parsed
  failed        \* history: the jobs whose fetch failed, with the error

crawlVars == <<crew, pending, awaiting, explored, failed>>

CrawlTypeOK ==
  /\ crew \in SUBSET Task
  /\ pending \in [Task -> Seq(Job)]
  /\ awaiting \in [Task -> BOOLEAN]
  /\ explored \in SUBSET Job
  /\ failed \in SUBSET (Job \X CrawlError)

\* One of the workers pushes the seeds before it pops.
CrawlInit ==
  /\ Init
  /\ crew \in SUBSET Task
  /\ \E t \in crew :
       pending = [w \in Task |-> IF w = t
                                 THEN [i \in DOMAIN Seeds |-> NewJob(Seeds[i], 0)]
                                 ELSE <<>>]
  /\ awaiting = [t \in Task |-> FALSE]
  /\ explored = {}
  /\ failed = {}

-----------------------------------------------------------------------------
\* The worker has a popped job in hand.
HasJob(t) == awaiting[t] /\ pc[t] = "idle" /\ result[t] = "job"

\* Mutant: the links of the pages at the greatest depth are pushed too.
DiscoveredTooDeep(j) ==
  [i \in DOMAIN Links[j.url] |-> NewJob(Links[j.url][i], j.depth + 1)]

\* The jobs for the links of a page: none once the depth is reached.
Discovered(j) ==
  IF j.depth < MaxDepth
  THEN [i \in DOMAIN Links[j.url] |-> NewJob(Links[j.url][i], j.depth + 1)]
  ELSE <<>>

\* What is left of a failed job: the next attempt, if it may help and the budget
\* allows it.
Retry(j, error) ==
  IF IsRetryable(error) /\ ~IsExhausted(NextAttempt(j)) THEN <<NextAttempt(j)>> ELSE <<>>

\* The worker pops when it has nothing else to do; it does so again when the
\* frontier was empty.
Ask(t) ==
  /\ t \in crew /\ pending[t] = <<>> /\ ~HasJob(t)
  /\ CallPop(t)
  /\ awaiting' = [awaiting EXCEPT ![t] = TRUE]
  /\ UNCHANGED <<crew, pending, explored, failed>>

\* The worker fetches its job, and parses the page if it got one.
Work(t) ==
  /\ HasJob(t)
  /\ awaiting' = [awaiting EXCEPT ![t] = FALSE]
  /\ \E outcome \in Outcome[job[t].url] :
       IF outcome = Page
       THEN /\ pending' = [pending EXCEPT ![t] = Discovered(job[t])]
            /\ explored' = explored \cup {job[t]}
            /\ UNCHANGED failed
       ELSE /\ pending' = [pending EXCEPT ![t] = Retry(job[t], outcome)]
            /\ failed' = failed \cup {<<job[t], outcome>>}
            /\ UNCHANGED explored
  /\ UNCHANGED <<vars, crew>>

\* The worker pushes a link or a retry; it goes on whatever the answer is.
Submit(t) ==
  /\ pending[t] # <<>>
  /\ CallPush(t, Head(pending[t]))
  /\ pending' = [pending EXCEPT ![t] = Tail(@)]
  /\ UNCHANGED <<crew, awaiting, explored, failed>>

InFrontier(t) == Step(t) /\ UNCHANGED crawlVars

Advance(t) == Ask(t) \/ Work(t) \/ Submit(t) \/ InFrontier(t)

CrawlNext == \E t \in Task : Advance(t)

CrawlSpec == CrawlInit /\ [][CrawlNext]_<<vars, crawlVars>>

\* Each worker keeps going.
FairCrawlSpec == CrawlSpec /\ \A t \in Task : WF_<<vars, crawlVars>>(Advance(t))

-----------------------------------------------------------------------------
\* No job waits, is in a worker's hands, or is on its way into the frontier.
Quiet ==
  /\ heap = {}
  /\ \A t \in Task : pending[t] = <<>> /\ ~HasJob(t) /\ (op[t] = "push" => pc[t] = "idle")

\* The crawl of a finite site ends, whatever its links and however fetches fail:
\* the filter lets each page in once, and retries have a budget (types.rs:154).
CrawlEnds == <>[]Quiet

\* The page is among the targets of these links.
Target(u, links) == \E i \in DOMAIN links : StripFragment[links[i]] = u

\* A seed, or a link of an explored page one level above.
Chained(u, depth, pages) ==
  \/ depth = 0 /\ Target(u, Seeds)
  \/ \E j \in pages : j.depth + 1 = depth /\ Target(u, Links[j.url])

\* Every queued job keeps to the depth limit, and its depth is the length of a
\* chain of explored pages from a seed to it (types.rs:70).
DepthIsAChain ==
  \A e \in Entered :
    e.job.depth <= MaxDepth /\ Chained(e.job.url, e.job.depth, explored)

\* When the crawl is over, each link of an explored page above the depth limit
\* has been taken up by some worker, or was refused by a full frontier.
EveryLinkIsFollowed ==
  Quiet =>
    \A j \in explored : j.depth < MaxDepth =>
      \A i \in DOMAIN Links[j.url] :
        LET u == StripFragment[Links[j.url][i]]
        IN  <<u, "full">> \in told \/ \E e \in taken : e.job.url = u

\* The pages at most n links away from a seed, along explored pages.
Near[n \in Nat] ==
  IF n = 0
  THEN {StripFragment[Seeds[i]] : i \in DOMAIN Seeds}
  ELSE Near[n - 1] \cup
         UNION {{StripFragment[Links[j.url][i]] : i \in DOMAIN Links[j.url]} :
                  j \in {k \in explored : k.url \in Near[n - 1]}}

\* One worker in breadth mode reaches every page within the depth limit by a
\* shortest way, so that none is cut off because it was found too deep first:
\* the order of the queue and the check against duplicates fit each other.
BreadthFirstIsComplete ==
  Quiet /\ Mode = "breadth" /\ (\A t, w \in crew : t = w) /\ (\A a \in told : a[2] # "full")
    => \A n \in 0..MaxDepth : {e.job.url : e \in {f \in taken : f.job.depth <= n}} = Near[n]

\* "Maximum retries before the job is discarded" (types.rs:83), "ready to requeue"
\* (types.rs:160): a job that failed for a passing reason is tried again until its
\* budget is used up.
RetriesAreTried ==
  Quiet =>
    \A f \in failed :
      IsRetryable(f[2]) /\ ~IsExhausted(NextAttempt(f[1])) =>
        \E e \in taken : e.job = NextAttempt(f[1])
=============================================================================
