# Ferrocrawl in TLA+

Ferrocrawl is a web crawler in Rust (`src/crates/`). This directory holds TLA+ modules of
its concurrent core and its page processing, TLC configurations that check them on small instances, and
proofs for TLAPS. File names below are relative to `src/crates/`.

## 1. Inventory

What exists in the repository, with the state each part keeps:

| Component | State | Operations | What makes it correct |
|---|---|---|---|
| `fc-scheduler/src/frontier.rs` `LocalFrontier` | a binary heap and a sequence counter behind a tokio `Mutex`; `total_pushed` atomic; a shared `DedupFilter` | `push`, `pop`, `len` | a page is queued once; capacity; priority order, FIFO in a priority; no URL vanishes behind an `Ok`; every call returns |
| `fc-scheduler/src/bloom.rs` `BloomDedupFilter` | Bloom filter behind a `std::sync::RwLock`; `count` atomic | `check_and_insert`, `contains`, `len`, `fill_ratio` | of concurrent callers with one URL exactly one gets `true`; no false negative; the count is right |
| `fc-scheduler/src/rate_limiter.rs` `DomainRateLimiter` | `DashMap` from host to `Arc<Limiter>`; each limiter is a GCRA bucket of the `governor` crate | `until_ready`, `check`, `wait_duration`, `reset` | a domain keeps to its quota; waiters are served |
| `fc-scheduler/src/proxy.rs` `ProxyPool` | per proxy: failure count, quarantine flag, quarantine start; a cursor | `next_proxy` (round-robin, random), `proxy_for_domain`, `available`, `record_success`, `record_failure` | a proxy is banned after enough consecutive failures, and not for ever; a scan finds an available proxy and never serves a banned one |
| `fc-engine/src/fetcher.rs` `HttpFetcher` | a shared HTTP client and the pool | `fetch` | outcomes are charged to the right proxy; a domain keeps its proxy; a selection and a report end |
| `fc-engine/src/parser.rs` `HtmlParser` | none | `parse` | the links are the web pages the anchors mention, each once, in order |
| `fc-engine/src/extractor.rs` `SchemaExtractor`, `SchemaRegistry` | compiled schemas, read-only | `matches`, `extract`, `extract_all`, `from_dir` | good files are loaded whatever lies beside them; one bad schema suppresses no other; fields follow their rules |
| `fc-core/src/types.rs` `CrawlJob`, `error.rs` `CrawlError` | the depth, priority and attempts of a job; the kind of an error | `new`, builders, `next_attempt`, `is_exhausted`, `is_retryable` | a crawl keeps to its depth, misses no page, tries again what may succeed, and ends |
| `fc-core/src/config.rs` `CrawlerConfig` | the settings | `load`, `default_config` | overrides are merged key by key and spoil no file that loads; a partial file loads |
| `fc-core/src/traits.rs` | none | the traits | contracts of the other crates |
| `fc-api`, `fc-export`, `fc-solana`, `fc-cli` | none | stubs | nothing to check |

Interaction: tasks of a multi-threaded tokio runtime share each component through an
`Arc`. A `push` asks the filter first and takes the frontier's lock afterwards. A worker
(described by the traits and by comments in `fc-core`, not written yet) pops a job, waits
for the rate limiter, and calls `fetch`, which asks the pool for a proxy and reports the
outcome back; it parses the page and pushes its links, or pushes the failed job again. There are no messages and no persistent state, so nothing is recovered
after a crash; what can go wrong is interleaving, cancellation of a future, errors
between two steps, and values that are stale when they are used. `PROJECT.json` lists
these hazards at their lines.

## 2. Modules

| Module | Models | Kind |
|---|---|---|
| `Bloom` | the `bloomfilter` crate: bits, and the set of bits of a URL | operators, external |
| `DedupFilter` | the `DedupFilter` trait: each call takes effect at one moment | abstract specification |
| `BloomDedupFilter` | `bloom.rs`: double-checked locking, one action per lock operation and per access under a lock | implements `DedupFilter` |
| `Scheduler` | the `Scheduler` trait: a line of jobs, served from the front | abstract specification |
| `LocalFrontier` | `frontier.rs`: push and pop around the Mutex, cancellation | implements `Scheduler` |
| `CrawlLoop` | workers around a frontier: seeds, links, depth, retries; `types.rs`, `error.rs` and the loop their comments describe | composition with `LocalFrontier` |
| `DomainRateLimiter` | `rate_limiter.rs`: look-up, creation, token buckets, reset, clock | |
| `ProxyPool` | `proxy.rs`: one action per atomic access | |
| `HttpFetcher` | `fetcher.rs`, composed with `ProxyPool` | composition |
| `HtmlParser` | `parser.rs`: base, loop over the anchors | |
| `SchemaRegistry` | `extractor.rs`: loading of a directory, extraction | |
| `Configuration` | `config.rs`: sections, layers, what may be missing | |
| `MC...` | instances for TLC; `MCEngine` holds the parser, the registry and the configuration, which share nothing | |
| `...Proofs` | theorems about `BloomDedupFilter`, `LocalFrontier`, `CrawlLoop`, `DomainRateLimiter`, `ProxyPool`, `HttpFetcher`; `EngineProofs` those about `HtmlParser`, `SchemaRegistry` and `Configuration` | proofs |
| `Recursion` | induction over the natural numbers, and that recursive functions satisfy their equations | lemmas |

An operator whose comment starts with `Mutant:` is not part of a specification: it is a
plausible mistake in the definition that follows it, kept to show that a property of a
run notices it.

### Correspondence and grain

* **BloomDedupFilter.** `Call` is the entry of `check_and_insert` or `contains`;
  `AcquireRead`, `CheckShared`, `AcquireWrite`, `CheckExclusive`, `Insert`, `Count` are the
  lines of the two functions in order. The guards are dropped with the step that leaves
  their scope. The `RwLock` may serve waiters in any order. Poisoning is left out: no code
  between acquisition and release can panic. `count` uses `Relaxed` accesses, but only the
  holder of the write guard adds to it.
* **LocalFrontier.** The filter is used as one atomic step (`PushDuplicate` or `PushMark`);
  that this is legitimate is what `ImplementsContract` says of `BloomDedupFilter`. The tokio
  `Mutex` is external and fair: `RequestLock` takes it or queues up, `Unlock` hands it to the
  head of the queue. `Cancel` drops the future at its only suspension point. URLs are
  abstract values; `StripFragment` is a function of them; nothing is said of their text.
  `told`, `marked` and `taken` are history variables.
* **CrawlLoop.** The worker is not in the repository, so the loop is external: it pops
  (`Ask`), fetches and parses (`Work`), and pushes what comes of it, one job at a time
  (`Submit`). What it does with a page or an error is what comments say it does: links are
  pushed one level deeper until the depth is reached (`types.rs:69`), and a failed job is
  pushed again with `next_attempt` if `is_retryable` says so and `is_exhausted` does not
  (`types.rs:80`, `error.rs:89`). An answer of `push` does not stop the loop. `push` and
  `pop` are the frontier's steps, in full; rate limits and proxies only delay a fetch, whose
  outcome is a constant of the page. `crew` chooses how many workers there are.
* **DomainRateLimiter.** `get_or_create` is `Lookup` and `Create`; the DashMap makes each of
  them atomic, and tasks interleave between them. `Create` does not hand out the entry of
  the map but the caller's own limiter, as the code does. The GCRA limiter is external: a
  debt in clock ticks that falls with time and grows by one emission interval for each grant.
* **ProxyPool.** Atomics are sequentially consistent in the model. The code uses
  `Relaxed` for most: a stale load only makes a thread act on a value that some
  interleaving of the model gives it as well, except for the pair of flag and moment; there
  the moment is read and written under its mutex, and written before the flag is set
  with `Release`. The moment is an age that stops at the duration, the failure count stops at
  the threshold, and both are compared with nothing larger. `next_random` starts anywhere.
  `available` is modelled with the quarantines it lifts; the number it returns is not.
  `steady` and `barred` are history variables of a scan: the entries that were in service, and
  those that were banned, ever since it began. A ban that the scan itself takes away stays in
  `barred`, so a scan that released a proxy too early would be noticed; one that another thread
  releases leaves it, since the code accepts that such a release may be early (`proxy.rs:42-43`).
  Two entries with the same URL are not modelled.
* **HttpFetcher.** `Fetch` asks the pool, `FetchWithoutPool` is the same call when there is
  none. `route` is `proxy_url`. `Select` and `Record` are the pool's steps, taken inside a fetch.
  `Respond` is the arrival of a response with its report, `SendFails` each way out by `?` before
  the report, `ReadBody` the rest; the last two are the awaits, where the future may also be
  dropped. Headers, redirects and bodies are left out.
* **HtmlParser.** A document is the hrefs of its `<base>` and `<a>` elements. `Join`, `Web`
  and `Bare` are the url crate's; nothing is assumed of relative URLs, only that removing a
  fragment is idempotent and keeps the scheme, and that a `javascript:` href has that scheme.
  `Visit` is one turn of the loop; `Parse` and `ReturnPage` are the rest. The variables are
  locals of a call and have a fixed value between calls.
* **SchemaRegistry.** A document is what each selector finds in it, a raw value is Empty or
  something that parses or does not. `ReadEntry` is one turn of the loop of `from_dir`, in any
  order, `ExtractNext` one of `extract_all`, whose blocking task may panic. Regexes,
  selectors and number formats are constants.
* **Configuration.** A setting is a section and a key, a layer maps settings to where their
  value comes from and whether it converts to the type of the field. `Load` merges the layers
  and deserialises; `Tables` and `Deserializes` are what the `config` crate and serde derive
  make of the attributes: a section that no layer mentions is its `Default`, in one that is
  mentioned each field without `#[serde(default)]` and without `Option` must be given.

## 3. Runs

Twelve runs: seven pass, five exhibit disagreements between code and documentation.

| Run | Instance | Shows |
|---|---|---|
| `bloom` | 3 threads, 3 URLs on 3 bits, 1 call each | each URL accepted once, no false negative, exact count, implementation of `DedupFilter`, each call returns |
| `frontier` | 2 tasks, 4 jobs on 3 pages, false positives, capacity 2, depth first | queued once, capacity, order, no silent loss, metric, the invariant of the proofs, implementation of `Scheduler`, each call returns |
| `crawl` | up to 2 workers, 9 URLs, depth 2, capacity 3, breadth first, 3 attempts | depths are chains, no link is dropped unnoticed, a single worker reaches every page within the depth by a shortest way, the crawl ends |
| `limiter` | 2 tasks, 1 domain, resets, an override, zero burst | overshoot bounded by the strays, one shared bucket, each waiter is served |
| `proxy_safety` | 2 threads, 2 proxies, threshold 2, all operations | flag and moment, counts, bans; a scan from a fixed start misses no proxy that is in service all along, and no scan serves one that is banned all along |
| `fetch` | 2 tasks, 1 domain at home in the middle of 3 proxies (a broken one, then one that fails at times, then a healthy one), threshold 2, with and without the pool | a healthy proxy is never banned, routes, quarantine of a broken proxy, quarantines end, each fetch returns |
| `engine` | all pages of up to 3 anchors of 8 hrefs under 4 bases; 6 files, 4 kinds of rule, all documents of up to 2 matches; 11 configuration files under all environments of 4 variables | links, loading, records, fields, overrides of settings |
| `crawl_retry` | as `crawl` | violation: no retry is ever made |
| `config` | as in `engine` | violation: a file that gives part of a section does not load |
| `limiter_quota` | 2 tasks | violation: two buckets for a new domain |
| `proxy_round_robin` | 2 threads | violation: `None` while a proxy is available |
| `fetch_dead` | 1 task | violation: a dead proxy is never quarantined |

`ImplementsScheduler` is the safety part of the Scheduler's specification under a refinement
mapping: `Line` puts the entries of the heap in the order in which they will be served, each
behind as many as are `Before` it. It is checked in the run and proved for every instance. That
calls return is `EveryCallReturns`, checked in the same run.

**Bounds.** Calls are not bounded, except in `BloomDedupFilter` (`MaxCalls`), where the
counter would grow; the frontier needs no bound because the filter lets each URL in once.
Three threads let two interfere with the call of a third; two URLs that fill the bits of
the third give false positives. The jobs of `frontier` are the smallest set with a duplicate by
fragment, a tie that only the cut to `u8` makes, and one job more than the capacity. Two
racing tasks give one loser; that the bound of the overshoot grows with the number of tasks
and no faster is a theorem. The bound of `limiter` is tight: with one stray less it is
violated. Two proxies make a scan wrap around; a second and a third failure are told apart
from the threshold only up to it, and with a threshold of two failures add up. In `fetch` the
domain's scans start at entry 1 and wrap around to entry 0; one domain is enough, because
two tasks then meet at one proxy, and the theorems hold for any hash of any domains. Since a
proxy of that instance is healthy, no selection there ends with a direct connection; that a scan
answers `None` only when it should is checked in `proxy_safety` and proved for fetches. The site of `crawl` has a page with a long and a short way
to it at the depth limit, a cycle, a link that differs in its fragment, and more links than the
frontier has room for; its filter is exact, because a false positive loses a page by
design. `BreadthFirstIsComplete` is stated for one worker and breadth first: with two, the
one with the shorter way may be overtaken, and depth first goes the longer way on purpose;
the page is then cut off, which no comment promises against.

**Fairness.** A thread or task inside a call takes its next step if it can: the operating
system schedules threads, and the runtime polls a task that was woken. Weak fairness is
enough because the Mutex hands over in order, and each waiting condition, once true,
either stays true or is used up by a call that itself ends (in `bloom` each thread makes
finitely many calls, so that nobody holds the lock in turns for ever: `std` promises no
fairness among waiters). The clock ticks. A fetch returns because the client's timeout
bounds both awaits. In `crawl` each worker keeps taking steps; a pop that finds nothing is
made again. That the network answers, or its timeout strikes, is thereby assumed;
what `EveryFetchReturns` shows is that the scan and the ban inside a fetch come to an end
although other fetches ban and release meanwhile. No other run assumes that anybody starts a call. `WaitersAreServed` has the
condition that newcomers stop: a newcomer can take the token for which a sleeper was
woken, and `governor` has no queue.

### Disagreements found

Checked by a run (see `findings` in `PROJECT.json`): `get_or_create` returns a limiter that is
not in the map (`rate_limiter.rs:134`); a round-robin scan can miss an available proxy
(`proxy.rs:200`); transport errors are never recorded (`fetcher.rs:241`); a requeued job is
answered as a duplicate (`frontier.rs:209`); a section must be given whole
(`config.rs:26`), which both `config/crawler.toml` and the example of `README.md` fail.

Seen while reading, and evident without a run:

* `check` takes the token it finds (`rate_limiter.rs:98`), where its doc (`rate_limiter.rs:94`)
  says that it does not.
* `fetch` answers `Ok` for every status, so the HTTP branch of `is_retryable` (`error.rs:98`)
  is never taken: 429 and 5xx are not retried.
* The success of a proxy is recorded before the body is read (`fetcher.rs:254`), so a connection
  that is cut in the body counts as a success.
* The environment variables need the prefix `FC__` (`config.rs:59`), where `README.md:191` says
  `FC_`; the sink `clickhouse` of `README.md:171` is `click_house` under `snake_case`
  (`config.rs:299`), and its `[clickhouse]` section belongs below `[export]`.
* `load` validates nothing.
* `frontier.rs:192` says that the query is sorted before deduplication; it is not.
* `config.rs:153` says that URLs are dropped and not errored when the frontier is full, and
  `traits.rs:144` that `push` fails for infrastructure only; `push` returns an error.
* `rate_limiter.rs:193` calls the token of a domain at 1 rps its single one; an override does
  not change the burst.
* The client that is built for a proxy (`fetcher.rs:215`) has none of the default headers
  (`config.rs:106`: "sent with every request"), ignores `follow_redirects`, and drops the referrer.
* `read_body_limited` (`fetcher.rs:162`) neither truncates nor discards.
* `parse` fails for text that is not UTF-8, where its doc (`parser.rs:87`) says that it fails
  only for what is not HTML.
* The test at `parser.rs:235` expects two links of a document that has none, so it fails.
* An optional field is omitted also when an element matches but its value is empty or does
  not parse (`extractor.rs:310`); the doc (`extractor.rs:102`) says when no element matches.
* `select_proxy` (`fetcher.rs:135`) always asks for the domain's proxy; the configured rotation
  (`fetcher.rs:18`) has no effect on fetches.

## 4. Proofs

TLAPS proves, for every value of the constants:

* **`BloomDedupFilterProofs`**: `IInv` is invariant; hence exactly one acceptance, no false
  negative and the count. `IInv` adds to the properties what the program counters say of the
  guards (`LockInv`) and `CallInv`: past the fast path the URL was new when the call began,
  and after the second check it still is, since only the holder of the write guard sets bits.
  `BitsInv`, the bits are those of the accepted URLs, is what lets both checks be read as
  statements about earlier acceptances.
  `ImplementsContractSafety` proves step simulation: every behaviour of `Spec` is one of
  `DedupFilter`'s `Spec`, so calls are atomic.
* **`LocalFrontierProofs`**: `IInv` is invariant; hence at most once, capacity, order, no silent
  loss and the metric. `QueuedAtMostOnce` alone is not inductive: a push between filter and
  heap must be the only one with its URL, and that URL must be in no entry and still be marked
  (`MarkInv`), stripped (`StripInv`). `NoOvertaking` needs sequence numbers to be unique and
  bounded by `seq`, and each entry to have the priority of its job (`OrderInv`).
  `IsAScheduler` proves the refinement `ImplementsScheduler`: on a heap with unique sequence numbers
  `Before` is a strict total order, so the position of an entry, the number of entries not behind
  it, numbers the heap from 1 without gaps (`PositionGrows` and the lemmas around it). The
  entry that `pop` takes is at position 1 and leaves the tail of the line; a new entry splits the
  line at its own position. The rest is step simulation, one step of the frontier at a time.
* **`CrawlLoopProofs`**: a step of a crawl is a step of the frontier or leaves it alone
  (`CrawlUsesFrontier`), hence no crawl fetches a page twice. `CrawlInv` follows each job with
  its depth from the page that mentions it through `pending`, the call and the heap; it gives
  `DepthsAreChains`. `LinksAreFollowed` needs more: whatever a filter without false positives
  (`NoFalsePositive`, the theorem's assumption) has marked is on its way, queued, served or
  refused (`FilterInv`), and each link of an explored page is still pending or marked
  (`AllReached`).
  `BreadthFirst` says that one worker reaches every page within the depth by a shortest way.
  Its invariant `BreadthInv`: no task outside the crew has work (`WorkerInv`), entries are
  queued level by level, served as they were queued, and at most two levels are queued at a time
  (`FifoInv`), what the worker has still to push is of one level that may be queued now, or a page that
  was reached before and not deeper (`BatchInv`), and every seed and every link of an explored page is within
  the depth it should have, queued, served or on its way (`ShortestInv`). When
  the crawl is quiet, induction over the depth gives the equality with `Near`.
* **`DomainRateLimiterProofs`**: `LimiterInv` is invariant, for any number of tasks and domains. A
  limiter that a task holds and the map does not have can give one grant to that task, since
  `held` is dropped with the grant; so `StrayInv` counts the strays together with the tasks that may
  still cause one (`Strayers`, `Creators`), by the cardinality of sets of tasks. `SharedBucket`
  says that the rest of the debt is the shared bucket's; both give the bound.
* **`ProxyPoolProofs`**: `PoolInv` is invariant. `DatedInv` says that a thread about to set the
  flag has stored the moment, `OverThresholdIsHandled` names the threads that will ban or
  forgive, and `ScanInv` measures a scan by the distance on the ring: what has never been
  quarantined since it began lies ahead of it. `NoneIsRight` is an action property proved from it.
  `BarredInv` is its counterpart: what bars a scan from an entry is a quarantine that runs still, and
  a scan that has found a quarantine expired is not barred from that entry, whoever bans it again
  before the flag is cleared. `BannedStayOut` follows: the entry a scan answers is one whose flag it
  has just read as clear, or whose expired quarantine it has itself taken away.
* **`HttpFetcherProofs`**: a step of a fetch is a step of the pool or leaves it alone
  (`FetchUsesPool`), so the pool's theorems hold under fetches. `FetchInv` adds that a selection is as
  far from the domain's own proxy as entries it has given up, which proves that routes are
  sticky (`RoutesAreSticky`). `HealthyInv` adds that no ban of a healthy proxy is under way at any
  of its steps, which holds because a report goes to the route of its own fetch, unchanged through
  both awaits; it gives `HealthyStayInService`, for any network.
* **`EngineProofs`**: three modules that share nothing.
  *Parser*: `ParserInv` is invariant; hence `LinksAreTheMentioned` and
  `DocumentOrder`. The lemma `TargetIsOfTheWeb` says that the prefix tests only anticipate the
  test of the scheme; `VisitMentions` that a turn of the loop adds one mention of one URL.
  `DocumentOrder` needs the other property: a URL that is in `seen` was mentioned before.
  *Registry*: `GoodFilesLoaded` needs that already while `from_dir` runs the extractors are
  the schemas of the good files read so far, in some order (`LoadInv`); `HoldsGrows` adds one file,
  with `OrderGrows` for the order and `FlattenAppend` for the library's `FlattenSeq`.
  `RecordsIndependent` counts: a record is due as the number of those due up to it
  (`DueRank`), and what is due up to a visited extractor does not change any more (`DueStays`).
  `FieldsAreRight`: `FieldsFollow` is an induction over the number of rules applied, and a record
  comes from the visited extractor alone (`RecordsInv`).
  *Configuration*: `OverridesAreSafe`. Variables for keys of the file's tables add no table to
  the merged layers (`TablesOfOverrides`), so each table still has every field that it needs, from
  the file or from the environment (`OverridesDeserialize`).
* **`Recursion`**: the library's induction theorems have an operator as a parameter, which the
  provers cannot instantiate. `Induction` states induction with a set instead, proved
  from the well-foundedness of `<` on the naturals; a property becomes the set of the numbers that
  have it. `RecursionHasASolution` and `RecursionUpTo` say that a function defined by recursion exists, so that
  `Near`, `Fields` and `FlattenSeq` satisfy their equations (`NearUnfolds`, `FieldsUnfold`,
  `FlattenIs`); the proofs about them go on from the equations.

Assumptions: finite sets of threads, tasks or limiters and (for the count) of URLs; each URL
has at least one bit; stripping a fragment twice is stripping it once and keeps the scheme;
`javascript:` and `mailto:` hrefs do not join to http(s) URLs; at most one token is earned in a
clock tick (`ClockAssumption`, a choice of the tick); a directory has finitely many entries, a value
of a layer comes from it or is bad (`LayerAssumption`), and an error is not a configuration
(`InvalidAssumption`). `LinksAreFollowed` and `BreadthFirst` also assume a filter
without false positives (`NoFalsePositive`): a false positive drops a page by design.

Only model-checked: what is promised to happen eventually (`EveryCallReturns` of the filter and of the
frontier, `CrawlEnds`, `WaitersAreServed`, `QuarantineEnds`, `BrokenProxyIsQuarantined`,
`EveryFetchReturns`) and the liveness part of `ImplementsContract`, whose safety part is
`ImplementsContractSafety`. They rest on fairness, which is defined with `ENABLED`, and that is out of the
prover's reach. Every invariant and every action property that a passing run checks is proved.
The five violated properties are false, and their runs show it.

## 5. Order of the modules, and what is left

The order was: filter, frontier, limiter, pool, fetcher, parser, registry, crawl, configuration;
abstract specifications for the filter and the frontier; then the proofs, filter and frontier
first. What could follow:

1. When the worker of the repository is written, `CrawlLoop` takes its loop from there instead of
   from the comments, and is composed with the limiter and the fetcher.
2. The frontier for Redis, with its reclaimed jobs and restarts, when it exists.

## 6. Not modelled

The stubs (`fc-api`, `fc-export`, `fc-solana`, `fc-cli`) have no behaviour. Of the settings it is
modelled where their values come from, not what they are. The builders of `CrawlJob` set one field each;
`Page`, `FetchResponse` and the other records are data. Logging, metrics and the operations that
only read (`len`, `current_len`, `count`, `fill_ratio`, `domain_count`, `total`, `url`, `bind_addr`)
change no state. The text of headers and the limit of a body are left out. The frontier for Redis and
the worker that comments mention are not in the repository.
