# A TLA+ model of secman-web-check

secman-web-check is a bounded scanner of explicitly supplied HTTP(S) targets. One command
scans many targets in killable worker processes under a run-wide admission controller, merges
and reviews what they found, writes reports, stores a history in MariaDB and hands snapshots to
the central SecMan service through a durable queue. This directory models the parts of it in
which order, failure and limits decide whether the result can be trusted, checks them with TLC
on small instances and proves the most important statements with TLAPS for all values of the
constants.

Paths below are relative to the package directory `src/src/` unless they begin with `docs/`.

## 1. The system

| Part | State it keeps | Operations | Talks to |
|---|---|---|---|
| Scan command, `cli.py` | options, the runs of both modes, `operational_failure`, process status | scan, review, write, store, push; `delivery` retry / upload / quarantine | everything below |
| Batch, `orchestrator.py` `scan_all` | thread pool, futures, one worker process per target and its pipe | submit, supervise, kill, reclaim, interrupt, salvage | workers by pipe, admission by manager proxy |
| Admission, `traffic.py` | leases, schedules, counters, cancelled flag, in a manager process under one lock | `admit`, `release_owner`, `cancel` | every network operation of every worker |
| Scan of a target, `orchestrator.py` `scan_target` | errors, check executions, findings, coverage | a dozen stages in order, then the verdict | collector, probes, planner, crawl, tools |
| Probes and planner, `checks/active.py`, `agent.py` | probes sent, calls and actions left | fixed sequence, or one chosen by a provider | collector, provider |
| HTTP collection, `http.py` | request budget of the target, chain of redirects | one hop: origin check, address policy, slot, request | the target |
| Crawl, `crawler.py` | queue, seen URLs, pages, counters | take a URL, collect it, add its links | collector |
| Delivery queue, `integration_outbox.py` | SQLite rows (template, payload, state, backoff), `sender.lock` | enqueue, retry, quarantine | SecMan over HTTP |
| Templates and binding, `delivery.py`, `secman.py` | none | templates, prepare, synchronize, match_subject | queue, SecMan |
| Merge and review, `visual.py`, `system_review.py` | none | `merge_runs`, `review_run` | provider |
| History, `storage.py` | MariaDB tables and schema version | install, save, export, list | MariaDB |
| Visual capture, `visual.py`, `browser_discovery.py` | context of a page, its request budget, threads that fetch for it; queue and seen URLs of a discovery | capture, route a request, follow links, analyse a crop | Chromium, collector, provider |
| External engines, `external_*.py` | tool processes, local proxy | run, admit a request | subprocesses |
| TLS, `tls.py`, `tls_transport.py` | leased socket | inventory, vulnerability rules | SSLyze |
| Comparison, `reports/compare.py` | none | `compare_reports` on two exported runs | files |
| Code audit, `code_audit.py` | issues of the repository, the run in SecMan | `audit import`: list, create, match, submit | GitHub, SecMan |
| Pure parts: `targets.py`, `config.py`, `components.py`, `intelligence.py`, `api_inventory.py`, `checks/*`, `reports/*`, `evaluation.py` | none | parse, match, format, compare | - |

What is hard in it:

* **Concurrency.** Threads of several processes share one lock that lives in a third process;
  workers are killed at any instruction; a supervisor, a deadline and Ctrl-C race for a result;
  several senders, enqueuers and an operator share one SQLite file.
* **Failure and order.** Rows queued at once are stamped in one order and committed in another. A request may be recorded although its answer is lost; a target may be
  rebound while its delivery waits; late deliveries overtake nothing but may be old; each of a
  dozen stages fails in its own way and the verdict has to remember it.
* **Repetition.** A migration cut off between two statements, an issue whose creation was not
  answered, a run sent twice: each command is meant to be run again, next to others.
* **Limits.** Leases, operations, provider calls, requests, pages, rows, pool threads.
* **Claims of absence.** SecMan closes findings because a scan did not see them. Everything from
  the crawl's verdict to the flags of a snapshot decides whether that is justified, and `compare`
  makes the same claim of two stored runs.

`PROJECT.json` lists every hazard at its line, with the properties that cover it. The ones
nothing covers carry a note.

## 2. The modules

| Module | Models | Role |
|---|---|---|
| `Delivery` | what the queue promises | abstract specification |
| `Outbox` | `integration_outbox.py`, `delivery.prepare` | detailed; implements `Delivery` |
| `Traffic` | `traffic.py` | the admission of requests |
| `Engines` | `scan_with_external`, `confined_run`, the proxy, `TlsScanner.scan`, `tls_connections`, over `Traffic` | one worker's tools and TLS scan, with their threads |
| `ScanBatch` | `scan_all`, `_bounded_scan_target`, `_target_worker`, the manager's lock | processes, kills, interrupts |
| `Collector` | `HttpCollector.collect`, `RequestBudget` | EXTENDed by who collects |
| `Crawl` | `crawler.py`, over `Collector` | one target's crawl |
| `TargetScan` | `scan_target`, `checks/active.py`, `agent.py` | one target's stages and verdict |
| `Browser` | `BrowserCapturer`, `collect_one`, `discover_browser`, the analysis of a visual target | captures, their threads and the DNS |
| `ScanCommand` | `scan()`, `delivery_command()`, `merge_runs`, `review_run`, `save`, `templates` | a sequence of commands and SecMan |
| `History` | `MariaDbStore`: `install`, `save`, `status`, `list_runs`, `export` | installers and saves on one database |
| `Comparison` | `compare_reports`, over the runs `History` exports | what "resolved" claims |
| `Publish` | `code_audit.py`, `audit import`, `list_subjects`, `match_subject` | publishers on one repository |
| `MC*` | - | values of the constants for TLC |
| `*Proofs` | - | theorems about the module of that name (`SecmanProofs`: `Outbox` and `Publish`, the two ways to SecMan; `HistoryProofs`: also `Comparison`; `TrafficProofs`: also `Engines`) |

How they fit together: a worker of `ScanBatch` runs a `TargetScan`, whose crawl stage is a
`Crawl` over a `Collector`, whose rendered discovery is a `Browser`, and each of whose network
operations is a request of `Traffic`; its external and TLS stages are `Engines`. `ScanCommand` starts from the results those modules allow,
feeds the lanes of `Outbox` and stores into `History`, from which `Comparison` reads. `Publish`
shares SecMan with `ScanCommand` and nothing else.
The modules are composed by abstraction: where one uses another, it keeps the verdicts the
other can give (the crawl stage of `TargetScan` is complete or not, the browser stage has errors or not
or raises, the scans of `ScanCommand` return results that are complete exactly when they are a
success) and a property of the other says when they are given (`CompleteIsClosed`,
`QuietMeansRendered`, `SuccessIsEarned`). `Crawl` and `Collector` are composed as one state machine,
and so are `Engines` and `Traffic`, and `History` and `Comparison`. `Traffic` does everything under the lock in one step;
`ScanBatch` takes the same critical section apart (wait, enter, leave, die inside).

### State and actions against the code

**Outbox.** One function per column of table `delivery`: `state`, `payload`, `waiting`
(`next_attempt` in the future), `created`. `EnqueueCheck` stands for the SELECTs of `enqueue()`, `Stamp` for the `time.time()` among the arguments
of its INSERT (line 72), `EnqueueInsert` for the commit, which may have waited for the write lock of another enqueuer meanwhile. A sender takes `flock` and its snapshot of the rows (`RetryStart`), then goes
row by row: pass over, block the lane, prepare and commit the payload, send, await, settle
or fail. `Crash` is possible wherever a sender is. The network loses and repeats; the service
treats a known run key as a replay. A row's place in the order is its stamp, so
rows may be committed in another order than the one they are sent in. `earlier` is a history variable: the rows that were stored when a row was stamped.
Stamps are counted; they do not repeat or run backwards, although the code reads the wall clock. The backoff is the Boolean "still waiting".
The byte limits are left out.

**Traffic.** `ReadClock` is the `time.monotonic()` before the lock, `Decide` (deny, poll again or grant)
everything under it, `Release` the `finally` of a caller, `ReleaseOwner` what the supervisor does
for a killed worker. Time is a counter up to `Horizon`; a rate is a gap in ticks.

**Engines.** `job` is what the worker is doing, one tool after the other and then the TLS scan. A thread is free, reading what the tool wants (`begun`), in `admit()`, about to
dial, or connected; it remembers the address it has resolved and the deadline of the proxy it belongs to. `points` is what the DNS answers at the moment, and every answer
must be allowed (`resolve_allowed`). The proxy's threads are daemons: `ToolEnds` and `ToolTimesOut` leave them running. Steps on admission are the actions of `Traffic`
with the thread as the request. Other threads of the run are `Elsewhere`. A connection that is closed for its byte limit is one that closes.

**ScanBatch.** `future`, `sup`, `worker`, `pipe` per target, `lock`, `zombies` and `heir` for the manager's
server threads. A client that dies inside the critical section leaves the lock with `Ghost`, for
good. A worker inside is at `"crit"`, then, if it
has found the `cancelled` flag unset and room (`Pass`, `traffic.py:37`), at `"grant"`, and takes its lease in a step of its own (`Grant`, `traffic.py:64`). `cancel()` sets the flag under the same lock (`CanCancel`),
so that only the lock keeps it from falling in between, and a kill does. One whose acquire was pending does so later. An identity of a dead server thread may be
reused by a client that connects afterwards; the pool threads are taken to be connected before
the first worker dies. There is one Ctrl-C per batch.
A worker that reports has no lease of its own any more; a thread of the proxy may still have one (see `Engines`), which the supervisor reclaims like a killed worker's.

**Collector / Crawl.** `trail` is the chain of a collection, `slots` the budget that counts hops,
`requests` the crawl's own counter. URLs are model values with an origin, and the list of links
of a document is chosen by the environment the moment it is read.

**TargetScan.** `stage` is the program counter of `scan_target`. `executions` is a tally: how many records of each state
a check has; the order of the code's list is left out, because nothing reads it. `chosen` is the same for the planner's own list, which replaces
records at its end. Probes are sent one per step.
`passive` is the tally of the passive rules, of which there are three kinds (one that needs HTML, one that reads the body, one for rendered pages): each has an execution for the root,
for each crawled and for each rendered page (`CrawledPage`, `RenderedPage`), at most `MaxPages` of either kind.
Stages with loops of their own (paths, scripts, tools, pages) are one step with the outcomes they
record; `Raises` is the exception that leaves `scan_target` from one of four of them.

**Browser.** `phase` is where `capture()` is, or the loop of `discover_browser()`, or the analysis.
`flying` are the threads the route handler has started: each holds a request whose host has been
resolved and approved, and none is stopped when its capture ends. `good` is the set of origins all of
whose addresses are allowed at the moment; `Rebind` changes it, which is what pinning the approved
address is for. `slots` is the budget object of each capture, `main` the fate of the document. A redirect the handler answers with
(`Redirect`, `visual.py:173`) is followed by Chromium itself, which does not call the handler again: `Follow` leads it on to anywhere and `Arrive` gives it an answer, neither with a
scope, an approved address or a slot; what `capture()` looks at afterwards is `final`, the address of the page, and the address of the server. A result of
`capture()` is what its callers tell apart. Requests the handler aborts at sight (other methods, media), the inventory
of observed operations, a page that navigates by itself, and the cap of 200 links are left out.

**ScanCommand.** `stage` is where `scan()` is. `security`, `visual`, `report` are its three runs;
`written` is what the report on disk holds, `stored` whether the run is in the history, `lane` and `done`
the queue per scanner ID: one for each mode, and `"shared"` for `SECMAN_SCANNER_ID`, which a baseline or a visual run falls back to (`ScannerOf`). Targets
are known by their public URL in reports, snapshots and findings: two may have the same one (`Twins`), and then the review of the last is found for both (`LastOf`, `cli.py:188`); two
URLs may have one subject. How a command ends (`exit`) and the status of its process (`Status`) are kept apart, since a traceback ends with 1 like `--fail-on`. `open` is SecMan's side: which run last reported a fact, and 0 once closed.
`looked` is a history variable: which facts a complete baseline scan that looked for them did not see, and when. A command may
be killed at every stage, and retries and uploads happen between commands. The conditions under
which `templates()` marks a snapshot as closing (mode, profile and its approved hash, status 200, no
redirect, no query, `complete`) are one operator, `Closes`. Rows are not quarantined here; `Outbox` does that.

**History.** `schema` is the set of DDL statements MariaDB has carried out and `ledger` the committed rows
of `schema_version`. An installer has the version and statement it is at, the ledger its transaction
has seen (`view`, taken at the first SELECT after a commit) and the rows it has not committed (`mine`). `Apply` carries
out one statement, which commits; `Record` waits while another transaction holds the row and is refused
once it is committed. A save counts the rows of its transaction; `stored` is what other connections
see. One lost connection stands for every failure between two statements.

**Comparison.** One rule, one target. What the later scan sees follows from the pages it visits, which of them
are flawed and which answer with an error. Findings and coverage rows are keyed by the public URL, as in
the code, so that pages differing in their query are one key.

**Publish.** `pub` is where each command is, with the page it reads, the issues it knows, and the number it has created. A body for SecMan is all its run key is made of: subject, commit, and of each finding
the record as it was read (its texts, severity and verdict) and its link; `remote` are the bodies SecMan has, with their publishers.
GitHub pages the listing by position with the newest first; the owner may take a label away between
two pages. A request fails with or without its effect. `since` and `shaken` are history variables: how many issues
there were when the listing began, and whether the owner changed a list while the command relied on it.

## 3. What is checked

Each run is one question. Sizes are distinct states.

| Run | Question | Instance | States |
|---|---|---|---|
| `MCOutbox` | Does every row keep its body, its order and its lane, and is what is delivered recorded? | two senders, two enqueuers, two rows of one scanner and one of another, stamps and commits in any order, room for one row, a rebound target, crashes, loss, repetition | 458 464 |
| `MCOutboxQuarantine` | Is a quarantined row left alone? | the same, one sender resuming blocked rows | violated |
| `MCEngines` | Are limits, budgets and rates kept, is every dial of a tool or of the TLS scanner admitted and allowed, and does everything end? | a connection of one worker and a thread of another, one lease, two operations, one tool, two answers of the DNS, clock to 2 | 79 316 |
| `MCScanBatch` | Does each target get its own result, does nothing stay behind, and does the batch return? | three targets, two threads, one Ctrl-C, kills anywhere | 1 220 930 |
| `MCScanBatchStuck` | Does the batch always return? | the same | violated |
| `MCCrawl` | Is the request budget kept, does a chain stay in scope and secure, is a complete crawl closed, does it end? | seven URLs, redirects, three documents with links, ceilings of two and three | 733 913 |
| `MCTargetScan` | Is there one verdict per check, and one per page for a passive rule, is no probe sent unasked, and is a success earned? | every opt-in alone and the combinations of the command line, two probes, three planner budgets, two crawled and two rendered pages, every failure | 842 756 |
| `MCTargetScanRaises` | Are errors retained on the result? | the same | violated |
| `MCScanCommand` | Do reports lose nothing, is a finding closed only by a scan that looked, is the process status true? | two commands, two targets, three URLs on two subjects, own and shared scanner IDs, all kinds of command, deferral, retry, upload, kills | 3 853 743 |
| `MCBrowser` | Are requests approved, is a quiet discovery complete, is an analysis of the capture at hand? | five URLs on three origins, depth two, redirects that leave the scope, three requests with two slots, two moves of the DNS | 1 627 168 |
| `MCHistory` | Is what is recorded installed, when does an installation fail, are runs stored whole, and is what is resolved gone? | four migrations, two installers with a fault, four kinds of run, two public URLs with queries | 379 202 |
| `MCPublish` | Is what is submitted complete, do issues have a cause when doubled, do reruns complete? | two publishers that both push to SecMan, two findings and one, ceilings of one, pages of one row, one failed request, label changes | 785 347 |

### Why the bounds are enough

* *Outbox*: order needs two rows in a lane, independence a second lane, the overshoot
  two enqueuers, and so do stamps out of order; rebinding two subjects, resuming and racing two senders. `MaxWasted` bounds the stamps whose INSERT fails: one leaves a gap in the order. Every row passes through the same code.
* *Engines*: a thread in each of two workers for one lease: exceeding a limit needs one thread more than the
  limit, reclaiming a second worker. The one connection at a time may be a tool's that outlives its tool and delays the TLS scan. `Horizon` 2 lets a lease expire, a reading
  grow old and a second admission follow the first by a gap. Everything but `NothingHangs` is proved for all values: several origins, tools, threads and any clock.
* *ScanBatch*: one target more than threads makes a future wait; two workers make
  a lock worth having.
* *Crawl*: link lists have cycles, a URL no parser accepts, another site, a downgrade and a page
  named twice; ceilings are hit by pages, depth and requests each.
* *TargetScan*: two probes make the second the first that runs out; all stages are independent but for the verdict,
  so opt-ins alone and the combinations of the command line exercise each path to it.
  Two pages make a truncated one among whole ones.
* *Browser*: four pages and depth two make a page reachable on a longer and a shorter way and leave
  a thread behind from two captures ago; three requests meet a budget of two, and two moves of the DNS make an address good,
  bad and good again around one request. Chromium may follow a redirect to every URL, in scope or not.
* *ScanCommand*: a finding is opened by one command and closed by the next, in either order of delivery;
  a second target has the first's finding as a neighbour: with the same public URL, with another one of the same subject, or with a subject of its own.
  The scanner IDs of either command are its own or the shared one, so that a visual run and then a baseline meet in one lane. `MaxLane` bounds only what may wait when
  a command or an upload begins.
* *History*: every prefix of the four real migrations is an initial state, with every version recorded by another
  release; two installers make all races of two, and one fault at any statement plus any number of reruns leaves every partial migration.
  Saves: a run that fits, one too large, one with a repeated URL and one from before the archive.
* *Comparison*: two public URLs, each with and without a query, are the two ways pages can share a key, as the target and as a crawled page.
* *Publish*: one row per page and three pages make an issue slip past the listing, both by a shift and by falling off its end; two findings against
  a ceiling of one make a rerun necessary, and a second publisher's issue the link of a rerun; one failed request is lost with or without its effect.

Deadlock is checked where it means something (`Outbox` runs for ever). The other
systems end: a batch returns, a crawl finishes, the clock, the faults and the commands are bounded.

Type invariants are conjuncts of a property of the run where they have no line of their own
(`PoolAndLock`, `DialsAreAdmitted`, `OneVerdictPerCheck`, `InstalledIsComplete`, `DuplicatesHaveACause`) or are part of a proved invariant; most are both.

### Fairness

* `Outbox`, `Browser`, `History` and `ScanCommand` need none. That whoever holds `sender.lock` lets it go is stated
  without fairness: `RetryAdvances` says that each step of the holder brings it nearer to the end, or is another process's.
* `Engines`: time passes, threads run, and a tool, or a worker in its TLS scan, is killed when its time is up. Nobody must release a lease, end a tool or close a connection:
  expiry and deadlines must suffice. That a relay ends at its deadline is the loop of the proxy's handler, whose calls all have timeouts.
* `ScanBatch`: supervisors, the main thread and deadlines move on; a worker must only leave the critical section it is in. It may hang anywhere else.
* `Crawl`: one thread that waits for nothing without a timeout, so `WF(Next)`.
* `Publish`: a command goes on (its requests have timeouts), and one that has failed is run again, which is what its message asks
  for ("rerun to continue"). Nothing is assumed of the owner, and faults are not fair: they are bounded.

### What the code does otherwise than it says

Three runs end in a violation, which is the expected outcome.

* `BatchReturns`: a worker killed inside `admit()`, or while its acquire is pending, takes the
  manager's lock with it, and `release_owner()` waits for ever. `ReturnsUnlessLockIsLost` shows that nothing else does this.
* `QuarantineIsFinal`: a sender with `--resume-blocked` updates by id a row that was quarantined after its snapshot.
* `ErrorsAreRetained`: a link such as `http://[` makes `urljoin` raise outside of any `try`; and the exception handler of
  `capture()` (`visual.py:347`) reads `links`, which has no value before line 303, so that a page that does not load leaves
  it by `UnboundLocalError`. A tool that is killed at its timeout ends in `TimeoutExpired`
  (`external_profile.py:128`), which `scan_with_external()` does not catch (`external_scanners.py:190`). Each time the target is reported as failed without anything that was found.

Smaller observations made while modelling:

* `enqueue()` counts the rows before its transaction, so docs/SECMAN.md's capacity can be exceeded by the number of concurrent
  enqueuers less one, and by no more (`BoundedOvershoot`).
* `created` is read before the INSERT waits for the write lock. Of two enqueues at once the older row can be committed after the newer one was sent, so the order of a lane is
  kept only between enqueues that do not overlap, which is what `HeadOfLine` promises. SecMan rejects what comes late (docs/SECMAN.md:158).
* `admit()` schedules from a clock reading made before it waited for the lock. Two admissions may be closer
  than 1/rate; the long-run rate is kept (`RatesAreKept`, proved).
* Ctrl-C after the last target has finished skips history and upload in silence, and the status may be 0. `ExitIsTrue` is stated for runs that were not interrupted.
* A command whose visual batch cannot start loses the security scan's results (`LookFails`).
* `sqlite3.Error` is not among the exceptions the upload catches (`PushDies`, `SyncDies`), so the second mode is not tried. The traceback ends the process with 1, the status of `--fail-on`,
  where docs/SECMAN.md:163 has 2; a draft of the report that cannot be written (`cli.py:721`) and workers that cannot be started do the same. `ExitIsTrue` names them.
* Two targets that SecMan matches to one subject close each other's findings, and nothing refuses them. `ClosedMeansGone` names that exception.
* With `SECMAN_SCANNER_ID` alone, a baseline and a visual run share a scanner (docs/SECMAN.md:64, docs/CLI.md:262), and a complete baseline closes the visual findings it never looked for,
  which is what separate registrations are meant to prevent. `ClosedMeansGone` names that exception too.
* `_reviewed_snapshot()` finds a review by public URL, the last one winning (`cli.py:188`): of targets that differ only in their query SecMan gets, for each, what the review said of the last.
* A crawled page with a truncated body makes the rules that read bodies give up on it (`checks/__init__.py:47`), and the target is a success all the same: only the root's truncation is an
  error (`orchestrator.py:138`). `SuccessIsEarned` names it.
* `referenced_javascript()` looks for the substring `html` in the content type, other stages for a media type that is HTML: scripts of a page that is neither are fetched, with their errors, although its check says unsupported.
* A redirect the route handler gives as an answer is followed by Chromium itself, without the handler: no scope, pinned address or budget for the hops after it, where docs/SAFETY.md:54-56 has
  every request intercepted and every redirect validated. What is found by that way is not in the evidence of a rendered discovery. The checks after the load keep pages out of scope from being read or captured
  (`RequestsAreApproved`).
* A rerun of `audit import` with another `--commit-sha` is another run for SecMan, with the same findings.
* `compare_reports()` looks at the query and the status of the target only. Crawled pages that differ in their query share an identifier and a
  coverage row, and a crawled page that answered with an error counts as looked at; so a finding still present on a page can be called resolved
  when another page of the same public URL was read, although docs/ARCHITECTURE.md:228 and docs/REPORTS.md:79 read more strictly. `ResolvedIsGone`
  is what does hold, and names the exception.
* Targets that differ only in their query can be scanned in one run, which can then neither be stored (the key of run and URL) nor compared.
* The check of the server's address after a capture (`visual.py:289`) finds nothing for a page the route handler has answered: there, what protects is the pinned address. It does find that of a page Chromium fetched itself.
* A capture that ends with an error, or a page that is no 200, reports no requests and no evidence, although it made some.
* The crop of an operator is matched to a target by index and host name, and compared only with this run's screenshot: one made from an earlier run is accepted.
* `existing()` reads a bounded number of pages and by position: a finding whose issue lies beyond, or that slips past while the owner changes labels, gets a second issue (`DuplicatesHaveACause`).

## 4. What is proved

All proofs are checked by TLAPS to the last leaf. They hold for every value of the constants that meets the
module's named assumption, and for unbounded behaviours.

**Outbox** (`SecmanProofs`, from `OutboxAssumption`). `IInv` is inductive. `OneBodyPerDelivery` alone is not:
that a body on its way is the committed one rests on the sender holding what the row holds (`BodyInv`), which rests on there being
one sender (`LockInv`). `HeadOfLine` needs to know of every row still to be looked at that the unsettled rows of its lane with an earlier stamp that were there for the snapshot are also
still to come or have blocked the lane (`TodoInv`), and that a row which was stored when another was stamped has the earlier stamp (`OrderInv`). `DeliveredWasRecorded` needs
`ReplyInv`. `Committed` is an action property; `Lanes`
needs one sender as well. `Overshoot` counts the inserts under way with the rows (`RoomInv`): each enqueuer that has found room adds at most one. `Advances` proves `RetryAdvances` with the measure `Remaining`; `Refinement` shows that each step of the queue is a step of `Delivery` or a stutter.

**Traffic** (`TrafficProofs`, from `TrafficAssumption`). Limits on live work follow from limits on leases and
`Working \subseteq leases` (`HolderInv`), which needs stamps that are never in the future: a lease is expired by an old reading only if it is expired now.
The rates follow from `RateInv`: the schedule is never more than a gap ahead of the clock and never behind what was admitted.
`Limits` and `Rates` put them together as the run states them.

**Engines** (in `TrafficProofs`, from `EnginesAssumption` too). `EnginesAreAdmitted`: what tools, proxy and TLS scanner do implements `Traffic`, so all of the above holds of it.
`Dials` then proves `DialsAreAdmitted` from `ThreadInv`: how far a thread is with its connection says how far it is with its admission; and before its
deadline, what dials is work that is bounded (`WorkLimits`).

**Crawl** (`CrawlProofs`, from both assumptions). Both request bounds need `ChainInv`: while a page is collected its redirect limit is what is left of the
crawl's counter, and the chain is no longer than that. `NeverDowngraded` needs that what is asked next is as secure as the chain so far.
`CompleteCrawlsAreClosed` rests on `ClosureInv`: as long as there is no error, what the documents read so far owe the crawl has been taken up or waits in the queue, and what was
taken up has been fetched, is one of the optional metadata files, or is under way (`OwedInv`); nothing in the queue is deeper than the ceiling, so that nothing is dropped in silence (`QueueInv`);
and the end finds an empty queue (`DoneInv`).

**TargetScan** (`TargetScanProofs`, from `TargetScanAssumption`). `OptedIn`: the fixed sequence and the planner exclude each other and what is still to do was never sent (`ProbeInv`).
`OneVerdictEach`, `SuccessesAreEarned` and `SuccessesAreWhole` follow from `VerdictInv`. Which checks have their one record at a stage is a function of the stage, the options and what was sent (`TallyInv`, with `RecordedAt`);
the planner's records are apart from the probes it has still to send, and a failed one is remembered as an error to come (`ChosenInv`); whether a probe was sent and what
its record says agree, also after the planner's records have replaced the skipped ones (`TriedInv`); and while there is no error, no record of a failure exists
and nothing owed was skipped (`FlawlessInv`). `PageInv` counts the passive executions by page and ties those that gave up to truncated bodies.

**Browser** (`BrowserProofs`, from `BrowserAssumption`). `RequestsApproved`: an address was approved before its request got a thread, and the thread
keeps what was approved (`FlightInv`), whatever the DNS does and however many captures it outlives; and what is read or captured has passed the check of its final address, wherever Chromium was led before. `Analysis`: before the verdict nothing was sent, given or
accepted, and only a discovery loops (`VerdictInv`). `QuietDiscoveriesAreComplete` is the correctness of a breadth-first search over a site that is discovered as it is read, among threads and
failures. `RenderInv` says: what is read was read once (`ReadInv`); the queue holds the rest of one level and then the beginning of the next (`LevelInv`); and as long as there is no error,
what is within the present depth is seen or queued for it, what is within less is done with, and so are the links of the pages done with (`SearchInv`). Without `LevelInv` it is
false: a page first met on a longer way would be marked as seen with its links cut off. The closure `Within` is a recursive function. That it exists is proved too (`LayersExist`), by iteration
from the well-foundedness of the naturals (`Induction` is a statement about sets of numbers, `Iteration` about a function, so neither takes an operator); then that reading a
page changes nothing up to its own level (`LayersRead`) and that a closed level is the last (`LayersClosed`).

**ScanCommand** (`ScanCommandProofs`, from `CommandAssumption`). `ClosedTruly` holds for any subjects and scanner IDs, with the exceptions the property names. A fact is
open because of a row that was delivered (`OpenInv`); rows of a lane are in the order of their runs and a closing row is the first of its run and
target (`OrderInv`), so the row that opened a fact is of an earlier run than the one that closes it; and a closing row is a
complete baseline scan that is on record in `looked` (`RowsInv`), in a lane of its own or in the shared one. `OrderInv` survives a push because the command has no rows in the
lane it will use before it (`FreshInv`) and an upload because saved reports are the last command's and close nothing (`SavedInv`). `RowsInv`
survives it because a baseline scan is queued as it was made (`ScanInv`): a reviewed scan counts as an extended one.
`NothingFoundIsLost` (`ReportsOutliveFailures`) and `ExitCodesAreTrue` (the action property `ExitIsTrue`) rest on `OutcomeInv`: a scan that was not asked for has no results (`ScansInv`); from the merge on, the report holds what both scans
found, calls a target a success only where every scan did, and is what the files hold once written (`ReportInv`); rows of this run say nothing of a target that is not reported of it or, if the review said it, of a twin (`OwnRowsInv`); and a
mode that is done with has a row for each target, delivered unless that was deferred (`HandedInv`).

**History and Comparison** (`HistoryProofs`, from both assumptions). `CompleteInstalls` and `InstallFailures` rest on `InstallInv`: a recorded version has
its statements and all versions before it (`LedgerInv`); so has one that is recorded but not committed, which no other installer can record
(`Mine`, `NobodyElses`); what a transaction has seen is still so (`ViewHolds`), since rows of the ledger are never changed; and an installer gets to a version
when those before it are recorded, and to its INSERT when all its statements are carried out (`Stage`). That no statement is refused (`NeverRefused`) needs of the
four migrations that each statement finds its table in an earlier one (`Dependencies`). `WholeRuns` rests on counting rows (`SaveInv`), with a run from before the
archive never having all of its rows. `ResolutionsAreTrue` needs no history of the comparison: what is resolved follows from one scan, and from there being
one page without a query for a public URL.

**ScanBatch** (`ScanBatchProofs`, from `BatchAssumption`). `IInv` says for each target how far its future, its supervisor and its worker are with each other
(`FutureInv`, `SupInv`, `ResultInv`), what the main thread knows (`MainInv`), who is inside the lock (`LockInv`: a client that has the lock or the identity of
a dead one, and an identity is inherited only from a client that no longer lives), and that workers and the supervisors that run them are
no more than the threads (`PoolInv`, by the theorems on finite sets). `NoneAfterCancel` needs that whoever has found the flag unset is still inside, and alone there, so that `cancel()` is not (`LockInv`).
`Pool`, `OwnResults`, `NothingLeft`, `Kept` and `NoneAfterCancel` follow: everything of the run but its liveness.

**Publish** (`SecmanProofs`, from `PublishAssumption`; its names carry a prefix where they would meet those of `Outbox`). `PublishInv` is inductive. `SecondIssuesHaveACause` rests on `ListedInv`: unless the owner changed
labels, a marked issue from before the listing is known by now, or has enough newer rows to be on a page still to come or beyond the ceiling: new issues only push it further back. `SubmissionsAreTrue` needs that an issue known for a finding
is one (`FoundInv`), that SecMan comes after all issues are created (`LinkedInv`), and that the subjects listed are a prefix of those there are (`SubjectInv`); `RetriesAreTheSameRun` that what SecMan holds is a body of its publisher's own commit and findings, each once and each linked to an issue with its marker, which
holds because the ceiling stops a command before SecMan (`RemoteInv`).

So every invariant and every action property that a run checks is proved. Not in the prover's reach, and only model-checked, is liveness (`NothingHangs`, `ReturnsUnlessLockIsLost`, `CrawlEnds`, `RerunsComplete`), since fairness
is stated with ENABLED. The three expected violations have their counterexamples from TLC.

## 5. What is not modelled

* Text: parsing of HTML, URLs, cookies, headers, TOML and CSV, the rules of the passive checks, component versions, report formats. They have no state,
  and unit tests reach them.
* The address policy, DNS and sockets: they show as refusals and failures of a hop, and as `good` in `Browser`.
* SecMan, GitHub, the providers, MariaDB, Chromium, SSLyze and the external tools: external, as far as the code relies on them.
* An AWS account or an asset a subject is bound to: `SubjectOf` depends on the URL alone. Operators who set two scanner IDs to one value.
* Byte limits, clocks as such and file permissions; a second Ctrl-C; the visual batch of several targets, which is one step of `ScanCommand`.
* Command lines, checksums and confinement of the external tools and what they print; the rules on SSLyze's results. `Engines` has the processes and their connections, `TargetScan`
  the outcomes of the stages.

## 6. How the project is organised, and what could follow

The order was that of what results depend on: queue, admission, batch, crawl, target and command, then browser, engines, history, comparison and publication.
What would add most next:

1. `Algorithms`: `_affected` (version ranges) and `load_targets`, each against a reference definition over
   bounded inputs.
2. Composition: `ScanCommand` over the lanes of `Outbox` instead of its own; `TargetScan`'s crawl stage over `Crawl`'s verdict.
3. Proofs: what each composition of item 2 promises the other side, as a refinement; measures that decrease for the properties of termination, like `RetryAdvances`.
