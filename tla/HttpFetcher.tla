----------------------------- MODULE HttpFetcher -----------------------------
(***************************************************************************)
(* HttpFetcher (crates/fc-engine/src/fetcher.rs) over the proxy pool: each *)
(* task picks a proxy for the domain of its job, sends the request,        *)
(* reports the outcome to the pool and reads the body.  The selection and  *)
(* the report are the pool's own steps; sending and reading are awaits,    *)
(* during which other tasks run.  The network is external: which status    *)
(* codes come back over a route is a constant, and any await may fail.     *)
(***************************************************************************)
EXTENDS ProxyPool

CONSTANTS
  Domain,           \* the hosts of the jobs
  Home,             \* fnv1a(domain) % entries.len()
  Answers           \* the status codes that come back over each route

\* A route is a proxy, or None for a direct connection.
Route == Proxy \cup {None}

ASSUME HomeAssumption == Domain # {} /\ Home \in [Domain -> Proxy]
ASSUME NetworkAssumption ==
  DOMAIN Answers = Route /\ \A r \in Route : Answers[r] \subseteq 100..599

VARIABLES
  stage,    \* where each task is in `fetch`
  domain,   \* the domain of the job it fetches
  route     \* proxy_url: the proxy its request goes over, or None

fetchVars == <<stage, domain, route>>
allVars == <<vars, fetchVars>>

FetchTypeOK ==
  /\ TypeOK
  /\ stage \in [Thread -> {"idle", "selecting", "sending", "recording", "reading"}]
  /\ domain \in [Thread -> Domain]
  /\ route \in [Thread -> Route]

FetchInit ==
  /\ Init
  /\ stage = [t \in Thread |-> "idle"]
  /\ domain = [t \in Thread |-> CHOOSE d \in Domain : TRUE]
  /\ route = [t \in Thread |-> None]

-----------------------------------------------------------------------------
Enter(t, where) == stage' = [stage EXCEPT ![t] = where]

\* Mutant: any response is a success.
IsSuccessAlways(status) == status >= 200

\* The status codes that fetch reports to the pool as a success.
IsSuccess(status) == status \in 200..499

\* Mutant: the scan ignores the domain.
FetchFromFirst(t, d) ==
  /\ stage[t] = "idle"
  /\ CallFindAvailableFrom(t, 0)
  /\ Enter(t, "selecting")
  /\ domain' = [domain EXCEPT ![t] = d]
  /\ UNCHANGED route

\* fetch(job) of a job of domain d: select_proxy asks the pool for a proxy.
Fetch(t, d) ==
  /\ stage[t] = "idle"
  /\ CallFindAvailableFrom(t, Home[d])
  /\ Enter(t, "selecting")
  /\ domain' = [domain EXCEPT ![t] = d]
  /\ UNCHANGED route

\* fetch(job) by a fetcher that was built without a pool: directly.
FetchWithoutPool(t) ==
  /\ stage[t] = "idle"
  /\ Enter(t, "sending")
  /\ UNCHANGED <<vars, domain, route>>

\* select_proxy: the pool looks for an available proxy; the request goes over the
\* one it answers, or directly.
Select(t) ==
  /\ stage[t] = "selecting"
  /\ Step(t)
  /\ IF pc'[t] = "idle"
     THEN Enter(t, "sending") /\ route' = [route EXCEPT ![t] = answer'[t]]
     ELSE UNCHANGED <<stage, route>>
  /\ UNCHANGED domain

\* fetch returns and drops its locals.
Finish(t) ==
  /\ Enter(t, "idle")
  /\ route' = [route EXCEPT ![t] = None]

\* Mutant: the fetcher keeps one proxy for all its fetches, and another fetch that
\* is under way has set it.
RespondShared(t, status) ==
  /\ stage[t] = "sending"
  /\ status \in Answers[route[t]]
  /\ \/ route[t] = None /\ UNCHANGED vars
     \/ /\ route[t] # None
        /\ \E w \in Thread :
             /\ route[w] # None
             /\ IF IsSuccess(status)
                THEN RecordSuccess(t, route[w])
                ELSE RecordFailure(t, route[w])
  /\ Enter(t, IF pc'[t] = "idle" THEN "reading" ELSE "recording")
  /\ UNCHANGED <<domain, route>>

\* A response arrives.  Its status is reported if it came over a proxy.
Respond(t, status) ==
  /\ stage[t] = "sending"
  /\ status \in Answers[route[t]]
  /\ \/ route[t] = None /\ UNCHANGED vars
     \/ route[t] # None /\ IsSuccess(status) /\ RecordSuccess(t, route[t])
     \/ route[t] # None /\ ~IsSuccess(status) /\ RecordFailure(t, route[t])
  /\ Enter(t, IF pc'[t] = "idle" THEN "reading" ELSE "recording")
  /\ UNCHANGED <<domain, route>>

\* record_failure has reached the threshold and quarantines the proxy.
Record(t) ==
  /\ stage[t] = "recording"
  /\ Step(t)
  /\ IF pc'[t] = "idle" THEN Enter(t, "reading") ELSE UNCHANGED stage
  /\ UNCHANGED <<domain, route>>

\* No response: the proxy's URL is invalid, the connection fails, the request
\* times out or is redirected too often, and `?` returns the error at once; or the
\* caller drops the future.
SendFails(t) ==
  /\ stage[t] = "sending"
  /\ Finish(t)
  /\ UNCHANGED <<vars, domain>>

\* read_body_limited: Ok with the whole body, an error on the way, or a dropped
\* future.
ReadBody(t) ==
  /\ stage[t] = "reading"
  /\ Finish(t)
  /\ UNCHANGED <<vars, domain>>

FetchStep(t) ==
  \/ Select(t)
  \/ \E status \in UNION {Answers[r] : r \in Route} : Respond(t, status)
  \/ Record(t)
  \/ SendFails(t)
  \/ ReadBody(t)

FetchTick == Tick /\ UNCHANGED fetchVars

FetchNext ==
  \/ \E t \in Thread :
       FetchStep(t) \/ FetchWithoutPool(t) \/ \E d \in Domain : Fetch(t, d)
  \/ FetchTick

FetchSpec == FetchInit /\ [][FetchNext]_allVars

\* The clock runs, and a fetch goes on: the client's timeout bounds both awaits.
FairFetchSpec ==
  FetchSpec /\ WF_allVars(FetchTick) /\ \A t \in Thread : WF_allVars(FetchStep(t))

-----------------------------------------------------------------------------
\* The proxies that a scan from the domain's own proxy meets before a route.
Ahead(d, r) ==
  IF r = None THEN Proxy
  ELSE {p \in Proxy : (p - Home[d] + N) % N < (r - Home[d] + N) % N}

\* A fetch passes over a proxy, and in the end connects directly, only if the
\* proxy was quarantined at some moment of the selection: a domain keeps its
\* proxy while that proxy is available (proxy.rs:156-164, fetcher.rs:135-139).
RouteIsSticky ==
  [][\A t \in Thread :
       stage[t] = "selecting" /\ stage'[t] = "sending" =>
         Ahead(domain[t], route'[t]) \cap steady[t] = {}]_allVars

\* The proxies over which only answers below the server errors come back.
Healthy == {p \in Proxy : Answers[p] \subseteq 200..499}

\* A healthy proxy is never banned, however many fetches use it at once with
\* others that fail, pages that are missing and connections that break: an outcome
\* is reported on the proxy that was chosen two awaits before (fetcher.rs:205-259).
HealthyProxyIsNeverBanned == \A p \in Healthy : ~quarantined[p]

\* A proxy that only answers with server errors is quarantined again and again,
\* as long as it is used: no success or expiry race keeps it in service.
BrokenProxyIsQuarantined ==
  \A p \in {q \in Proxy : Answers[q] \cap 200..499 = {}} :
    ([]<>(\E t \in Thread : stage[t] = "reading" /\ route[t] = p))
      => []<>(quarantined[p])

\* Every fetch returns, whatever the pool, the network and the other fetches do.
EveryFetchReturns == \A t \in Thread : stage[t] # "idle" ~> stage[t] = "idle"

\* "records success/failure back to the pool so quarantine logic can kick in": a
\* proxy over which every request fails is quarantined if it is used for ever.
DeadProxyIsQuarantined ==
  \A p \in {q \in Proxy : Answers[q] = {}} :
    ([]<>(\E t \in Thread : stage[t] = "sending" /\ route[t] = p))
      => <>(quarantined[p])
=============================================================================
