# eggsearch: verification project

eggsearch is a Rust MCP server, CLI and SDK that searches the web, code hosts and advisory databases and fetches
pages for coding agents. This directory holds TLA+ models of the parts of it where concurrency, deadlines, caches
and failures meet, the TLC configurations that check them on small instances, and TLAPS proofs that hold for every
value of the constants. Paths below are relative to the repository root; `src/...` is its Rust source.

## 1. Inventory of the system

| component | state it keeps | operations | hard behaviour |
|---|---|---|---|
| `core/` pure types, limits, scoring, evidence roles, URL canonicalisation | none | pure functions | boundary values only |
| `meta/dispatch`, `meta/adapter/execution` | one call's queue, JoinSet, counters, ledger, deadline | `dispatch_subqueries`, `dispatch_parallel` | tasks end in any order, panic, die or hang while a deadline runs |
| `meta/adapter/web` | one call's JoinSet | fan-out of one query | same conventions without a queue |
| `meta/provider_diagnostics`, `meta/adapter/status` | `ProviderHealthRegistry`: failures, cooldown per provider | `record_success`, `record_failure`, `record_provider_health` | concurrent searches, cooldown that expires and recurs |
| `meta/engines` (43 engines) | `KevClient` catalogue cache, arXiv `RequestGate` | `search_batch`, advisory lookups | cache without single flight, pacing across concurrent callers |
| `meta/*planner*`, grouping, RRF, mapping | none | pure functions | plan shape (repeated subquery ids reach the dispatcher) |
| `meta/forge_adapter` | global forge semaphore, aggregate read budget | discovery, archive and tree reads | budget and semaphore under concurrent reads |
| `meta/package_resolver`, `meta/probe` | probe semaphore and deadline | resolution, liveness probe | bounded fan-out |
| `meta/local*`, `local_inventory_cache` | inventory cache, git subprocesses | index, search, safe open | stale inventory, bounded subprocess |
| `fetch/origin` | `OriginController`: bounded table of per-origin semaphores, failure counts, circuits | `acquire*`, `record_*`, `reset_circuit`, eviction | waiting behind a semaphore while a circuit opens or the entry is evicted |
| `fetch/client` | a fetch in flight: redirect hop, origin permit | `fetch*`, redirect loop, revalidation | permits held across origins, retries, conditional requests |
| `fetch/cache` | raw and derived LRU with byte counters, scope gate | `get_*`, `insert_*`, `invalidate_scope` | two locks, byte budgets, invalidation against in-flight inserts |
| `fetch/browser` | browser process, driver task, user-data directory, restart budget, profiles and locks | `ensure_browser`, `launch`, profile locks | crash of the browser during launch, late drivers, dropped renders, lock files removed by name |
| `fetch/{extract,render,pdf,span,detect}` | none | pure functions | layout, not state |
| `mcp/` server, state, HTTP transport, tools | shared adapters, fetch client, host-scoped caches | ten tools | composition of the above; graceful shutdown |
| `process` | one child, kill thread, two readers | `run_bounded_command` | timeout against exit, kill after exit, flags set out of order |
| `startup` | service files, pid record, cron-check lock | install, restart, `croncheck`, stop owned process | restart of a process that died, stale pid, two checkers |
| `update` | candidate binary, installed executable, service lifecycle | download, verify, replace, restart | one step of several failing, a replaced executable that no longer finds itself, overlapping updates |
| `integrations`, `commands`, `sdk`, `platform` | client configuration files | apply, verify | file rewriting; I/O |
| `bindings/python`, `fuzz`, `packaging`, docs, tests | none | wrappers, scripts | not part of the running core |

How they interact: a tool of `mcp/` calls a workflow of `meta/adapter`, which plans subqueries and calls
`dispatch_subqueries`; the dispatcher runs provider engines as tasks and hands results, failures and the attempt
ledger back; `record_provider_health` feeds the shared health registry from them. `web_fetch` and `batch_fetch`
call `fetch/client`, which consults the cache, asks `fetch/origin` for a permit per origin, follows redirects and
may escalate to the browser. All concurrent tool calls share the adapters, the origin table, the fetch cache, the
health registry and the browser lifecycles.

What makes each part correct:

* dispatcher: caps hold whatever the completion order; no slot leaks; no urgent job is overtaken needlessly; one
  attempt record per job; statistics agree with the ledger; the call ends although providers hang.
* origin control: permits are conserved through time-outs, circuit rejections and evictions; no more requests at
  one origin than its ceiling; nobody is admitted through an open circuit; no waiter starves.
* health registry: a provider is in cooldown only after consecutive failures of its own, and leaves it.
* fetch cache: the byte counter equals what is stored and stays in budget; an entry gives way to an older body only when
  two calls overlap.
* engines with state: the KEV catalogue is never older than its TTL allows; arXiv is asked once at a time, with pauses.
* browser lifecycle: at most one live browser is in use, the restart budget refuses a render only when none lives, a
  dead browser leaves the slot; a profile is used by one request at a time.
* bounded command, startup, update: the child is reaped and only it is killed; two checkers do not both restart;
  an update goes back to an older version only when another overtakes it, and reports what became of the service.

`PROJECT.json` repeats this inventory component by component, and lists every place where the code is hard to test
(its "hazards") with the property that watches it or the reason why none does.

## 2. Plan

| order | module | what it models | state |
|---|---|---|---|
| 1 | `Dispatch`, abstract `JobLedger` | `dispatch_parallel` as a whole; what it promises about jobs | done |
| 2 | `OriginControl` | `OriginController`: table, semaphores, circuits, eviction | done |
| 3 | `CronWatch` | cron watchdog, PID record, start lock, install/restart/uninstall | done |
| 4 | `FetchPermits` | retry loop of the fetch tools around the client's redirect loop | done |
| 5 | `BrowserLifecycle`, `ProfileLock` | shared browser: launch, driver, crash, relaunch, restart budget; profile locks | done |
| 6 | `FetchCache` | raw LRU tier, byte counter, 304 and re-insertion | done |
| 7 | `WebSearch` | health registry, cooldown routing and the fan-out of concurrent web_search calls | done |
| 8 | `BoundedCommand`, `Update` | child, kill thread, readers; replace and restart | done |
| 9 | `KevCatalogue`, `ArxivGate` | catalogue shared by lookups; pacing gate | done |
| 10 | abstract `OriginPermits` | what the controller promises of permits and circuits to those who fetch | done |
| 11 | derived cache tier, browser directories, private browsers of profiles | what is left of modelled components | open |

Composition: `Dispatch` is shown to implement `JobLedger`. `FetchPermits` composes two tools and the client with an
abstraction of `OriginControl`; what it takes from there (waiters are served) is what `OriginControl` is checked for,
and both implement the same abstract specification, `OriginPermits`: the controller with its table, objects and queues
behind it, the fetches with their two kinds of permit in front of it.
`CronWatch` composes three kinds of processes that only share files and a port.

A module is written so that it can be proved about: parameters are constants with a named assumption, no `RECURSIVE`
operator is used, an invariant is a conjunction of named parts, an operation is an action. The proofs about the larger
modules live in `<Module>Proofs`; those about the smaller ones are joined in `ProcessProofs` (browser, profile lock,
bounded command, update) and `SharedStateProofs` (fetch cache, KEV catalogue, arXiv gate), and `ServerStateProofs`
carries them over to the composition that `server_state` checks. Operators commented `MUTANT` are plausible bugs of the definition below them: substituting one must
make a named property fail, which shows that the property can tell the code from a broken one.

There is one run per question, and a dozen in all, so that the whole project is checked in minutes. Components that
share no state are checked side by side in one run (`server_state`, section 7).

Every safety property and every action property that a passing run checks is proved for all values of the constants,
and the findings that depend on one condition are delimited by a theorem: what holds when subquery ids are distinct
(section 3), when the origin table has room for every origin (section 4), and when the host is not Linux (section 7).
`PermitSpec` (the refinement of `OriginPermits`) is proved for both modules and in no run of its own; TLC confirms it
when it is added to `MCOriginSteady.cfg` or `MCFetchPermits.cfg` as a PROPERTY.

## 3. Dispatch and JobLedger

Source: `src/meta/dispatch/execution.rs` (`dispatch_parallel`), `src/meta/dispatch/types.rs`,
`src/meta/adapter/execution.rs`.

The executor is one async task. It sorts the plan, passes over the pending queue (`Examine`: a job is recorded as a
capability skip, started, or rotated to the back), ends the pass (`EndPass`: nothing left to wait for; deadline
already past; otherwise wait), waits for the JoinSet under the remaining time (`CollectResult`, `CollectJoinError`,
`TimeoutArm`) and finally completes the ledger and the statistics (`Report`). Provider calls are tasks that end at any
moment with any outcome, panic, die without an outcome, or never end.

| model | code |
|---|---|
| `jobs`, `prio` | `sorted_jobs`, priority of each subquery |
| `todo`, `blocked` | `pending_queue`: the jobs not yet examined in this pass, and those rotated. Rotation keeps the sort order within each part, so two sets and the order `Before` stand for the queue |
| `task` | JoinSet and `active_tasks`; `refused` is a task spawned after the deadline, which answers with a timeout |
| `global_active`, `provider_active`, `running_counts`, `terminal_counts` | the counters of the same names |
| `start_times` | keys of `job_start_times`; a key can be shared by two jobs |
| `attempts` | `collected_attempts`, sorted by the job a record stands for |
| `deadline` | `RequestDeadlineStats`, with the sets of ids whose sizes it reports |
| `expired` | `overall_deadline` has passed; it may pass between any two steps |

Abstracted: results, latencies, metadata and error values (an outcome is Success, Failed or TimedOut). Left out because
unreachable: the `Ok(None)` arm (the executor would have to wait on an empty JoinSet, which `NoIdleSlot` excludes) and
`NotApplicable`, which nothing constructs. At the deadline's pre-check a task that has ended but was not collected is
reported as interrupted, as the code does. The report records the pending jobs first and takes their start times out
(`StartsLeft`), then the jobs whose start times are left; where ids repeat, a pending job takes the start of a running
one along, and the two get one record.

*Run `dispatch_safety`*: two subqueries with distinct ids, sent to every one of up to three engines, as the plans of
repo, research and security searches are: 0 to 3 engines, each of which supports a subquery's role or does not (the third
at most the first's), with every assignment of two priorities; global cap 2, cap per provider configured as 0 and so
clamped to 1. Six jobs over two slots are enough for a job to be blocked by its provider alone, by the global cap alone
and by both, for one of another priority to pass it, and for three generations of tasks. Checked: no cap is passed and
no counter drifts (`SlotsAccounted`), the executor never waits beside a startable job, no job overtakes a more urgent
one that could run, every job gets exactly one attempt record, what is reported of the deadline agrees with the attempts
(`ReportMatchesLedger`), the call returns (`Termination`) and the executor implements `JobLedger`.

*Fairness*: the executor is polled when it can make progress and the deadline passes. No provider is assumed to answer.

*Claims that fail*: `dispatch_outcome_claim` checks the comments over the deadline accounting, which say what
"interrupted" and "skipped" mean, and `architecture/engines.md` on capability skips in the health records. The claim is
that no call contradicts all three sentences; a security search over two general engines and one for documentation
does. `dispatch_repeated_ids` gives two subqueries the same id, as exact-error plans with two codes do: they share a job
key and one job loses its record at the deadline.

*Proved* (`DispatchProofs`) for every plan, any caps and any number of providers: `TypeOK`, `SlotsAccounted`,
`NoIdleSlot`, `NoOvertaking`, `ReportMatchesLedger`, and, for plans with distinct ids, `LedgerComplete` and the
refinement of `JobLedger`. The inductive invariant is `TypeOK`, `SlotInv` (the counters equal the tasks in flight and
stay within the caps, a pending job was never started), `QueueInv` (a rotated job is kept back by a cap that is still
full; a waiting executor has examined its queue and something runs), `LedgerInv` (until the return a job lacks a record
exactly while it is pending or running, no job has two, and the start times are those of the running keys) and
`StatsInv` (a subquery's terminal count is the number of its collected jobs; until the return open jobs have no attempt
and collected ones their outcome; the report finds the account of a late call, or nothing open). The properties alone are not inductive: the caps follow only from counters that
match, conservation and order only from what is known of rotated jobs, the statistics only from attempts counted by
subquery. Distinct ids are where repeated ones break `LedgerComplete`. For the refinement, what the ledger says of a job
is read off its place (pending, running, or its attempt), and each step of the executor moves one job or none, except
the last, which closes all that are open. From the refinement follow `VerdictsAreFinal` (an answered, skipped or
interrupted job stays so) and `ReturnSettlesAll` (the call returns with a verdict on every job).
*Only model-checked*: `Termination`.

## 4. OriginControl

Source: `src/fetch/origin.rs` (`OriginController`), and its callers in `src/fetch/client.rs` and `src/mcp/tools`.

The table maps an origin to an `OriginState` object with two semaphores (fetches and renders) and the failure counter
with its circuit. A request looks the object up (`LookUp`), checks the circuit (`PassCircuit`, `RejectAtCircuit`),
takes a permit or queues (`Take`, `Queue`), checks the circuit again when it has one (`Admit`, `RejectAfterWait`),
reports an outcome on the entry that is then in the table (`RecordSuccess`, `RecordFailure`, `Note`) and releases
(`Release`). Between any two of these steps others run, so an entry can be evicted and made anew under a request; the
model gives every object made a number, and a request keeps the number it looked up. `TimeOut` drops the future of a
bounded wait wherever it is.

When a new origin finds the table full (`BeginSweep`), the request sweeps it for a victim and makes its object. It has
the table's mutex until then, so nobody else looks anything up (`TableFree`), but that mutex protects neither permits nor
circuits: others take and return permits, record outcomes and queue while the sweep reads the entries one after the
other, first the permits of a kind, then of the other (`SeeHttp`, `SeeBrowser`), then, after waiting for its lock, the
circuit (`SeeCircuit`). `Replace` evicts the least recently used of the entries found idle, or, if none was, of all. So a
backed-off entry may go although another has become idle behind the sweep's back, and an entry found idle may be in use.
A request that gives up drops its sweep where it awaits a circuit's lock.

| model | code |
|---|---|
| `states`, `last_access`, `made` | the table with its LRU times; objects made so far |
| `permits`, `ahead` | both `tokio` semaphores of each object: free permits, and for a waiter those queued before it (they are FIFO) |
| `failures` | `FailureState`: consecutive failures (saturating at `U8_MAX`) and `open_until` |
| `pc`, `key`, `st`, `report` | where a request is, its origin, the object it refers to, the outcome it is recording |
| `sweep` | the sweep under way, which has the table's mutex: what it looks at, `unread` and `idle` entries; and as history the entries idle ever since it began (`untouched`), used after their permits were counted (`taken`), backed off after they were found idle (`opened`) |
| `forced`, `raced` | history: origins evicted under a request while no entry stayed idle; evicted between a lookup and its acquire, or after a permit was taken behind the sweep |

Abstracted or left out: `RateLimited` counts like `Retryable`; `last_failure_class` is never read; delays and
Retry-After only reach the caller; `reset_circuit` is never called; a request with an unbounded wait is not cancelled
here (FetchPermits drops calls at every point). The configuration refuses zero values, hence the assumptions.

*Runs*. `origin_eviction`: three origins over a table of two, one fetch that waits for ever and one hop that gives up, a
circuit that opens at the first failure, four objects, a clock of one tick: every kind of eviction (idle, busy, backed
off, just looked up) and re-creation occurs, and every order in which a sweep of two entries reads what the other request
changes. `TableBounded`, `CeilingKept`, `NoAdmissionWhileOpen`, `BackoffPersists`.
`origin_contention`: three fetches and a render at one origin, one permit of each kind, threshold two, counter cut at
three: three-deep queues, time-outs at every point, rejections before and after the wait. `TypeOK`, `PermitAccounting`,
`NoStarvation`. One permit of a kind is enough for every conflict; more permits are covered by the proofs. `origin_eviction_race`
checks the comment on eviction without the `raced` exception, and finds the window between a lookup and the eviction, in
which the request may or may not have taken its permit.

`BackoffPersists` promises what the code can: the entry of an open circuit goes only after a sweep during which no entry
was idle from beginning to end, or when that circuit opened after the sweep had found it closed. Two things it does not
forbid, since the code does them: a success of before the circuit opened closes it when it arrives, and an outcome is
recorded on the entry that is in the table by then, not on the object whose permit the request holds.

*Fairness*: a request that can go on does, and so does a sweep (`WF`), and one that uses a permit ends its use (`SF` on `Release`, because a
hop may go round its redirects in between): network calls time out and redirects are counted. Nothing is assumed of the
clock, or of anybody arriving.

*Proved* (`OriginControlProofs`) for any number of origins and requests and any sizes: `TypeOK`, `PermitAccounting`,
`CeilingKept`, `NoAdmissionWhileOpen`, `BackoffPersists`. The chain: `TypeOK` and `PermitAccounting` together are
inductive (a waiter has a place only at a semaphore without free permits, a release hands over or frees). `SweepOwned`
(one request sweeps, for an origin without an entry) and `SweepRead` (what a sweep has seen of an entry still holds,
except where `taken` or `opened` says that it was overtaken, and an entry that stayed idle is found idle) carry the
readings to the eviction. With them `ReferencesCurrent` is inductive (who refers to an origin's object refers to the one
in the table, unless the origin was forced out or raced); the users of such an origin are the holders at one semaphore,
which gives the ceiling and the admissions. All five together are `ControllerInv`. For the backoff, `SweepRead` says
that a victim with an open circuit was not found idle, or was and opened since, and that otherwise nothing stayed idle;
`OpenBounded` (no circuit is open for longer than a full duration from now) shows that a new failure only extends one.
`TableBounded` is proved as well, from `TableInv`: the table is finite, so a full one has a least recently used entry.
`RoomKeepsCeiling` delimits the finding: if the table has room for every origin in use, nothing is evicted and the
comment is true. `FirstInLineCorrect` is the safety half of `NoStarvation`: of the waiters at a semaphore one is ahead
of all others (from `LineInv`: `ahead` is a strict order that is total on each queue), so a permit that is given back
finds an owner. *Only model-checked*: `NoStarvation`, that is, that the waiter's turn comes.

*Refinement*: with room for every origin the controller implements `OriginPermits` (`ImplementsPermits`). That
specification knows no table, objects or queues: a user is at an origin or nowhere, an origin has a count of failures
up to the threshold and a circuit that is open or not; a user is admitted below the ceiling with the circuit closed,
only a user of an origin records there, time closes circuits. The mapping reads a user's origin off `pc` and `key`
(permits that wait for their second check do not count), and the count and circuit off the object the table has for
the origin, an origin without an entry being blank. The invariant it needs is `EntryInv`: objects not made yet are
blank, no two origins share an object, and an outcome in progress is for the object of the origin whose permit is held.
Without room it is false, and has to be: an evicted entry takes its permits and its backoff along. Renders use the same
circuits but record nothing, so they are not users here.

## 5. CronWatch

Source: `src/startup.rs` (cron method, `PidFileGuard`, `stop_owned_process`, install, restart, uninstall),
`src/mcp/http.rs` (`run`: bind, serve, drain), `src/commands/mcp.rs`, `src/update.rs` (the replacement).

The crontab entry starts a server every minute (`Fire`: `cron_line` renders `mcp serve --pid-file`). croncheck is a
command of its own, run by whoever schedules it (`Check`), and starts a server under a lock. Servers, watchers and an
operator's commands share a crontab, a port, a PID record, a lock file and the installed executable. Every file
operation is a step; a process may be killed between two steps (`Crash`), after which its files stay. `Replace` is an
update: on Linux /proc/PID/exe of a process that runs the old executable is a deleted file afterwards, so its record no
longer matches (`process_matches`), and it may fail where it looks for its own path. A member of `Watchers` or `Servers`
stands for one process and, when nothing refers to that any more, for the next one.

| model | code |
|---|---|
| `port` | the server that listens; binding fails if there is one; a probe is refused if there is none |
| `record` | whose record is in `mcp-serve.pid`; written by renaming a staged file over it |
| `lock`, `written` | who created the file at `croncheck.lock`, and who has written its content into the file it made |
| `seen` | the owner of a record or lock file a process has read |
| `replaced` | processes whose executable an update has replaced |
| `crashes`, `marks` | bound on kills, failed spawns and replacements; history of the causes the properties except |

`croncheck`: probe, create the lock (`create_new`) and write it, or read and vet the one that is there and remove and
re-create it, probe again under the lock, spawn, wait for health, unlock. A server: look for a record, vet it, clear it,
persist its own, bind, serve, and on exit compare and remove its record. A server that drains has given up its port
before its record. A lock file that was created but not written, or cannot be read, counts as live.

*Run `cron_safety`*: two watchers, two servers, one command, one kill or replacement; either a command is entered or a
process is killed or replaced; the entry is installed or not. Two watchers overlap at every point, a server cron starts
meets one that a watcher or a command started, and recycled identities make the runs of cron unbounded. `TypeOK`,
`LockExclusive`, `NoDuplicate` (the recheck under the lock starts no server beside another), `RecordKept` (the server
that listens is the recorded one) and `Recovery` (again and again somebody listens, unless there is no entry and a
dead watcher's unreadable lock is in the way).

`cron_documented` checks what `docs/service.md` and `architecture/commands.md` say of the entry and of the PID record:
that no step contradicts both. Cron starts a server, without croncheck, beside one that listens and has lost its record.

The safety properties name their exceptions, because the code has them. Two watchers that find the same stale lock may
remove each other's (`takeover`); servers that cron or a command starts, and killed or impatient watchers, have no lock
(`unguarded`); two servers that start together fight for the record (`overlap`), and a server takes the record of one
whose executable was replaced for stale (`disowned`).

*Fairness*: cron fires, croncheck is run again and again, every process that runs is scheduled, a command that was
entered runs to its end. None is assumed of kills, replacements and commands.

*Proved* (`CronWatchProofs`) for any number of watchers, servers, commands, kills and replacements: `TypeOK`,
`LockExclusive` (from `LockInv`: past the creation of its lock a watcher still has it at the path), `RecordKept` (from
`RecordInv`: at most one server starts at a time and the record is its own from persist to exit) and `NoDuplicate`
(from `NoDupInv`, with `LockInv`: a starting server has a watcher that awaits it under the lock).
*Only model-checked*: `Recovery`.
*Left out*: systemd, launchd and Windows, crontab text, configuration errors before the bind, hosts other than Linux,
where the executable's path stays valid (and, but for macOS, no record is ever live), and reuse of a PID between the
check that it matches and the signal.

## 6. FetchPermits

Source: `src/mcp/tools/web_fetch.rs` and `batch_fetch.rs` (retry loops), `src/fetch/client.rs` (`fetch_internal`,
`fetch_conditional`).

A fetch starts at a cache lookup (`Start`), may revalidate a stale entry without a permit (`Revalidate`,
`RevalidateElsewhere`, `Serve`, `FetchAnew`), then asks for a permit of its URL's origin for each attempt (`Ask`,
`Admit`, `TurnAway`). Inside the attempt the client follows redirects (`Contact`, `AskHop`, `AdmitHop`, `TurnAwayHop`,
`TimeOutHop`, `SendFails`, `Refused`, `Redirect`, ...); for web_fetch it takes a second permit at an origin other than
the first. The outcome is recorded (`Succeed`, `GiveUp`, `Retry`) on the origin of the URL, whoever failed; a hop also
records on its own. `Cancel` drops a call anywhere.

The origin controller appears as what `OriginControl` shows of an origin that is not evicted: a permit is given when one
is free and the circuit closed. Its failure counter stops at the threshold, beyond which more failures change nothing.
A failure's class is the tool's, taken from the text of the error: a time-out is NonRetryable there although the client
calls it Retryable at the hop. The raw origin of a code host's source file is a second start origin.

*Runs*. `fetch_permits`: two web_fetch calls, two origins that redirect to each other, of which one is the other's raw
origin, one permit per origin, two attempts, two redirects, threshold two. Two calls that hold one permit each and wait,
each at a redirect, for the other's is the smallest deadlock, and only web_fetch can get into it: a batch item never
waits for a redirect's permit. Two redirects lead away and back. Batch items are in the proofs, which hold for any
fetches, and in the second run. `TypeOK`,
`ThrottledWithinCeiling`, `NeverWaitsForItself`, `PermitsServeRequests`, `EveryFetchEnds`. `fetch_ceiling_claim` checks
what the architecture documents say of all requests: revalidations, redirects of batch items and source files at their
raw origin do not take a permit.

*Fairness*: steps inside a call happen (requests, hop waits and sleeps have time-outs), and who waits for the first
permit is served (`SF` on admission), which is `NoStarvation` of `OriginControl`. A call is never obliged to be dropped.

*Proved* (`FetchPermitsProofs`) for any fetches, origins, limits and chains of redirects: `TypeOK`,
`PermitsServeRequests`, `NeverWaitsForItself` (from `PlaceInv`, which ties the two permits to the place of the fetch)
and `ThrottledWithinCeiling` (with `PermitsWithinCeiling`: the permits of an origin that are out, of both kinds, are at
most its concurrency; a throttled request at an origin has one of them). The fetches, too, implement `OriginPermits`
(`ImplementsPermits`), each as two users: the attempt's permit and the redirect loop's. The steps that record an outcome
are the ones to prove: `PlaceInv` says that the attempt's permit is still held when a fetch succeeds or gives up, and the
hop's when a redirected request is answered, so nothing is ever recorded at an origin without a permit of it, even
though web_fetch drops and retakes permits between attempts and hops. *Only model-checked*: `EveryFetchEnds`.
*Left out*: URL validation beyond its failing, the document pipeline, browser escalation, repo items and the waves of a
batch.

## 7. State kept between calls: run `server_state`

Eight smaller parts keep state between calls and share none of it. `MCServerState` checks them in one run: `part`
chooses one at the start, the others stay as they are. It has no deadlock check, because a bounded command and an
updater end. A run takes three minutes, most of it for the liveness properties.

**BrowserLifecycle** (`src/fetch/browser/lifecycle.rs`, `navigate.rs`, `run_browser_fetch` in `src/mcp/tools/common.rs`).
A render waits for a permit (`AskToRender`, `AdmitRender`), takes the browser in the slot if there is one
(`LookForBrowser`), or takes the restart lock, looks again, counts the launch or is refused, and starts a process
(`LockRestarts`, `FoundUnderLock`, `CountLaunch`, `RestartLimitReached`, `StartChrome`, `StoreHandle`, `StoreBrowser`).
Each browser has a driver task, which ends when the connection does (`ChromeExits`, `DriverEnds`) and then empties the
slot, whoever is in it (`DriverClears`). A render may be dropped wherever it waits. `slot`, count and lock are the
variables `browser`, `ever_launched`, `restarts`, `restart_state`; launches are numbered. Bounds: three renders, two
permits, one restart: a cold start of two renders, a third in the queue, a crash, and the relaunch, beside an older
driver that is late. `OneLiveBrowser`, `RefusedOnlyWithoutBrowser`, `DeadBrowserCleared`, `EveryRenderEnds`. The first
two except the mark `wiped` (a late driver has emptied the slot of a later browser), the third `late` (a browser stored
after its driver ended stays in the slot for good): both happen, although `architecture/fetch.md` calls
`ensure_browser` "safe under concurrent cold starts". Fairness: permit and lock are fair (`SF`), a task that can run
does, a browser without a handle is killed.

**ProfileLock** (`src/fetch/browser/profiles.rs`). A request opens the lock file (`OpenLock`), tries flock (`Flock`),
and on its way out unlocks, then removes the name (`UnlockProfile`, `RemoveLock`); its process may be killed
(`KillRequest`). The file is an inode with or without a name, so three requests and four inodes show every order of
opening, unlocking and removing. `ProfileExclusive` says that requests are serialized, as `docs/safety.md` does, until
a name is removed under another request that has the file open (`undercut`): then they are not.

**FetchCache** (`src/fetch/cache.rs`, `web_fetch.rs`, `batch_fetch.rs`). A call finds an entry fresh (`Hit`), revalidates
it (`Revalidate`; on a 304 `WriteBack` stores the entry it read before; `Modified` and, for batch items,
`RevalidationFails` and `NotDerived` go on), or fetches (`FetchAnew`, `OriginSends`, `Store`), while the origin publishes
new versions. `insert_raw` is one step under the tier's mutex, in its order: replace, evict for bytes, evict at the
count. Bounds: a web_fetch and a batch item, three URLs of which one grows through bodies of 1, 3 and 5 bytes, four
bytes and two entries of space: replacement by a longer and by an oversized body, and both kinds of eviction.
`BytesMatch`, `NeverGoesBack`.

**WebSearch** (`src/meta/adapter/web.rs`, `status.rs`, `src/meta/provider_diagnostics.rs`). A search looks at the cooldown
of each default provider, one lock at a time (`CheckCooldown`), asks those that are left, or all if none is (`Route`),
collects (`Collect`) until all have ended or the deadline aborts the rest (`Deadline`), and then records health one
provider at a time (`RecordSuccess`, `RecordFailure`, `RecordTimeout`). Two searches, two providers, threshold two: a
search that records while another routes, and failures that count from both sides of a cooldown.
`CooldownMeansFailures`, `AlwaysAsksSomeone`, `BlameOnlyAtDeadline`. That a task has ended and that it is collected are
one step here, since no state but the search's own depends on it.

**BoundedCommand** (`src/process.rs`). One command: the child, helpers it leaves behind in its process group or outside,
the kill thread, two readers and the caller that joins them. `try_terminate` is three steps (`Swap`, `StoreTrigger`,
`KillGroup`), the end of the caller four (`JoinReaders`, `Wait`, `SetExited`, `JoinKillThread`). `ReasonNamesTheKill`,
`OnlyTheTimeoutStrays` (the kill thread, and it alone, may signal a process group whose child was reaped, between the
wait and `exited`), `EveryCommandReturns` (except while a daemon of another session has the pipes). Fairness: threads
run and the timeout comes; no process need ever exit. Read errors are left out: they end a reader like the end of the
stream.

**Update** (`src/update.rs`, `restart` of `src/startup.rs`). Updaters run side by side through snapshot, version lookup,
permission probe, download and verification or a Cargo build, replacement and restart; each step may fail, releases
appear and the service starts and stops meanwhile. `orphaned` are the updaters whose executable has been replaced: on
Linux they cannot find it any more (`Lost`). `destination` is what an updater has found when it settled what to
replace. Two updaters and three versions: one is overtaken by a newer version of the other. `DowngradeNeedsOverlap`:
an update goes back only when it was overtaken. The managers that the model does not tell apart are represented by one
each. Run `update_restart` checks `docs/update.md` on what follows the replacement: on Linux the healthy service is
neither restarted nor is the restart reported as failed. Not modelled: `update --check`, which changes nothing, what
makes a verification fail, and that `sc stop` returns before a Windows service has stopped.

**KevCatalogue** (`src/meta/engines/kev.rs`) and **ArxivGate** (`src/meta/engines/arxiv.rs`). A lookup answers from a
fresh catalogue or fetches all of it (`BeginLookup`, `ReceiveCatalogue`, `StoreCatalogue`, `AnswerLookup`; `FetchFails`),
without single flight, so that a slower request may put an older catalogue in the place of a newer one. Times are ages;
they grow only while a request is awaited, which ends within its timeout. TTL and timeout are two units each, so that
two requests overlap within one TTL. The gate is the FIFO mutex `waiters` with the time of the last start; a search may
be dropped in the queue, asleep with the lock, or during its request (`LeaveGate`). `EnginesKeepTime`: no answer rests on
a catalogue older than TTL and timeout together, and arXiv has one request at a time, at least the interval after the
one before. `EveryTurnComes`: who queues gets out of the queue, if timers fire, tasks run and requests time out.

*Proved*, for any number of renders, requests, searches, providers and any limits:

* Browser (`ProcessProofs`): `BrowserTypeOK`, `OneLiveBrowser`, `RefusedOnlyWithoutBrowser`. The inductive invariant
  `BrowserInv` joins `NumberInv` (launches above the count do not exist yet), `LaunchInv` (while a render
  launches, the slot is empty and nobody else holds its browser), `DriverInv` (a driver that ends has no browser) and
  `LiveInv` (a live browser in use is in the slot or just being stored, unless `wiped`): without `DriverInv` a driver
  could clear the slot of a live browser and not leave the mark. `DeadHasDriver` is the safety half of
  `DeadBrowserCleared`: while a dead browser is in the slot its driver is still to end, unless it was stored `late`
  (from `SlotInv`).
* Profile lock (`ProcessProofs`): `ProfileTypeOK`, `ProfileExclusive`, from `NameInv` (who has a file open has the one
  with the name, unless `undercut`).
* Web search (`WebSearchProofs`): `SearchTypeOK`, `CooldownMeansFailures`, `AlwaysAsksSomeone`, `BlameOnlyAtDeadline`,
  with `FanOutInv` (a search that collects has asked somebody, one that records waits for no engine).
* Bounded command (`ProcessProofs`): `CommandTypeOK`, `ReasonNamesTheKill`, `OnlyTheTimeoutStrays`, from `KillInv` (at
  most one thread is between the swap and the kill, and the trigger, once stored, names it), `TruncationInv` and
  `CallerInv` (where each thread is when the caller has joined it).
* Update (`ProcessProofs`): `UpdateTypeOK` and `DowngradeNeedsOverlap`, from `VersionInv` (an updater that nobody
  overtook is the version installed; past the comparison it has looked up a newer one). `ReplacedOutcome` says exactly
  how an update that replaced the executable ends, from `ReplacedInv`: with a healthy service, on Linux always with the
  lifecycle error, elsewhere with the restart or its failure; so `RestartReported`, which run `update_restart` refutes
  on Linux, holds on every other host (`RestartReportedElsewhere`).
* Fetch cache (`SharedStateProofs`): `CacheTypeOK`, `BytesMatch` for any body lengths and limits, `NeverGoesBack`. What
  entries take is a recursive function over the sequence; its laws (`TakenSums`, `PrefixKeeps`, `RemoveKeeps`,
  `ConsKeeps`) are proved by a least counterexample among the natural numbers, which needs no induction rule.
  `EvictFits` says that eviction keeps the longest prefix that leaves room. `BytesMatch` is inductive with
  `CacheTypeOK`; the saturating subtraction never saturates, since what is subtracted is part of the sum. `NeverGoesBack`
  needs `AnswerInv`: an answer that no other call has written behind is at least as new as the entry in the tier.
* KEV catalogue (`SharedStateProofs`): `KevTypeOK`, `AnswerRecent`, from `AgeInv` (no request and no body under way is
  older than the timeout; the catalogue is older than its time of fetching by at most that).
* arXiv gate (`SharedStateProofs`): `GateTypeOK`, `GateSpaced`, from `QueueInv` (who is at the gate or in a request
  is in the queue, once, and a request is at its head).
* The server (`ServerStateProofs`): a step of the composition is a step or a stutter of each part (`PartSteps`), so that
  every behaviour of it is one of each part (`PartsRun`), and `StateTypeOK`, all the invariants, all the action
  properties and `EnginesKeepTime` hold of it.

*Only model-checked*: the liveness properties, `DeadBrowserCleared` and `EveryCallEnds`.

*Not modelled*: the browser's user-data directories, the origin permit of a render (`OriginControl` has it), the private
browser of a profile and its close, page interception; metadata files of profiles; the derived tier, which is the raw
tier over documents, and `invalidate_scope`, which only tests call; views and warnings of provider status.

## 8. What is not modelled, and what the prover does not reach

Not modelled are the pure parts (planners, grouping, ranking, document pipeline, types and configuration), the engines
without state, the forge adapter and the resolvers (sequential requests under one semaphore), the local workspace, the
projection of the ten tools, the integrations and the command line: they are functions, or input and output, and
`PROJECT.json` gives the reason for each. They are most of the code.

Liveness (`Termination`, `NoStarvation`, `Recovery`, `EveryFetchEnds`, `EveryCallEnds`, `DeadBrowserCleared`) is checked
by TLC on the instances above: TLAPS has no rules for fairness and `ENABLED`. They are the only checked properties
without a theorem; two of them have their safety half proved (`FirstInLineCorrect`, `DeadHasDriver`). The induction
rules of the library take an operator as a parameter and cannot be used; where an induction over data was needed, over
the entries of a cache and the queue of a semaphore, it is an argument by a least element instead. No module declares a
recursive operator. The theorems are about the models; that these follow the code rests on the
correspondence above and on the line map in `PROJECT.json`.

## 9. Reading and running

    tlc -workers 2 -config MCDispatch.cfg MCDispatch       # a run: module and configuration as in PROJECT.json
    tlapm DispatchProofs.tla                               # the proofs of a component

A run takes up to about three minutes, a proof module one or two. A run whose `expect` is `violation` is meant to
fail: its counterexample is the evidence for the entry in `findings`.
