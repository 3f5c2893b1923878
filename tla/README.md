# A verification project for kahin

kahin is an MCP server that drives a browser: a Python process (`kahin/`) with one asyncio
event loop, one browser *engine* at a time, and, for the Camoufox/Mirage engine, a Zig sidecar
(`camoufox-harness/core/`) that speaks Juggler to Firefox over pipes.  This directory holds TLA+
models of its stateful parts, TLC configurations that check them on small instances, and
machine-checked proofs of what holds for every instance.

All line numbers below refer to the repository's files.

## 1. Inventory

### How the parts interact

* **One event loop.**  Tools are coroutines.  Code between two real suspension points is atomic;
  an uncontended `asyncio.Lock` does not suspend.  `job.lock` never spans an `await`, so
  `_transition` is atomic.  Concurrency comes from the crawl worker task, the reader tasks of the
  engine, and tool calls the client overlaps.
* **Shared state** lives in `kahin/_state.py`: the current engine, its lifecycle lock, the crawl
  registry, event buffers, and a machine-wide lock file that lets one MCP process own the browser.
* **Calls** go tool → engine → sidecar; **messages** come back through the engine's reader task,
  which resolves pending futures and feeds event callbacks; **EOF** calls the death callback
  (`oracle._on_engine_death`), while an explicit stop goes through `pilot.browser_stop`.
* **Timeouts** everywhere: 60 s engine start, 15 s engine stop, 45 s page, 15 s rotation gate, 30 s
  response, 5 s write.

### Components, their state, operations and what makes them correct

| component | state | operations | hard behaviour | correctness |
|---|---|---|---|---|
| crawl job (`tools/crawler_mirage.py`) | job state, queue, visited, page budget, retries, ledger counters, pause event, rotation gate, timers | worker loop, page processing, challenge contract, rotation, recovery; pause, resume, stop | tools act while the worker is suspended; page timer cancels at any await; engine dies or is stopped underneath | one result per page, no lost page, budgets, no page after a CAPTCHA without resume, delay served, a job always ends, a finished job is frozen |
| crawl ledgers and cursors (same file, 269-333, 1206-1339) | bounded results and events, sequence numbers, wake event | append, page by cursor, long poll | ledger overflows under a reader; response shrinks to a byte budget | a reader sees every retained entry once, in order, and is told of a gap |
| crawl registry (1346-1563, `_state.py`) | jobs, active id | start, prune, resolve | two starts interleave; a stranded job blocks | at most one live job; never prunes a live job |
| engine lifecycle (`pilot.py` 560-827, `_state.py`, `oracle.py`) | current engine, lifecycle lock, machine lock, last death | start, reuse, reap, stop, death callback | start/stop/death/healer/promotion interleave; two processes | one browser per machine; no orphan browser; who has a browser has the lock |
| promotion (`_common.py` 393-529) | the engine being replaced | start candidate, migrate, publish or roll back | candidate or old engine dies half-way | never two published engines; rollback keeps the old one |
| healer (`_healer.py`, `residual_self/fate.py`) | failure counts, known patterns | classify, recover, record | restart races the lifecycle lock | never closes an engine it does not own |
| Mirage IPC (`the_twins/mirage.py`) | pending calls, sessions, pages, contexts, buffers, death flag | call, read, track sessions, create/close/switch page, stop | late answers, timeouts, write stall, death | each call is answered exactly once; nothing waits for ever; sessions match pages |
| Shadow (`the_twins/chassis.py`, `shadow.py`) | pending calls, process | the same over a WebSocket | the same | the same |
| network, DOM stream, screencast, chooser, dialogs (`dejavu_mirage.py`, `reliability_mirage.py`, `dom_stream*.py`, `screencast_mirage.py`, `upload_mirage.py`, `dialog_mirage.py`) | bounded queues, armed flags, cursors, generations | arm, wait, fulfil, page | event before or after the waiter; two waiters; overflow | no intercepted request is left hanging; each event goes to one waiter |
| sidecar loop and flows (`core/ipc_main.zig`, `driver.zig`, `src/transport/session.zig`) | tasks in flight, wire calls by id, pages by target and by session, current target | start, advance, finish a task; dispatch a browser message | replies and events in any order, deadlines racing late replies, re-attached targets, the browser or the client going away | every request is answered once; the router waits for exactly the calls of the tasks; the page indexes agree |
| sidecar pages and navigation (`driver.zig`, `adapters/page.zig`) | main frame, URL, contexts, the state machine of a navigation | begin, started, committed, aborted, loaded | what one navigation leaves behind; navigations of the page's own; a frame id that is freed while borrowed | a navigation is not done on the strength of an earlier one |
| sidecar pipe and processes (`core/src/transport/pipe.zig`, `frame.zig`, `process-manager/*.zig`) | byte buffers, child process | frame, reap | partial reads, child exit | frames are never split or merged; no zombie |
| schema, capabilities, launchers, scripts | none, or files | lookups | – | not modelled |

### Hazards

`PROJECT.json` lists each one with its line and the properties that watch it.

## 2. Plan

| step | modules | state |
|---|---|---|
| one crawl job | `CrawlJob` | modelled, safety proved (section 3) |
| who starts, replaces and stops the browser | `EngineLifecycle`, `BrowserSlot` | modelled, safety and the refinement proved (section 4) |
| the sidecar's loop, pages and navigations | `Sidecar`, `JugglerPage` | modelled, safety proved (section 5) |
| the calls between Python and the sidecar; tabs | `MirageIpc`, `MirageTabs` | modelled, safety proved (section 6) |
| the tools that act on a page | `PageActions` | modelled, safety proved (section 7) |
| requests, frames and file choosers a tool waits for | `EngineWire`, `Routes`, `Screencast`, `Uploads`, `Capture` | modelled, safety proved (section 8) |
| the DOM change stream | `DomStream` | modelled, safety proved (section 9) |
| what is kept of crawl jobs | `CrawlStore` | modelled, safety proved (section 10) |
| next: framing over a byte pipe (abstractly, a queue of messages), process reaping, the Shadow engine's CDP socket, the healer's tracker | | open |

The modules that are composed: `MirageTabs` runs its tools over the calls of `MirageIpc`; `Capture`
joins `Routes`, `Screencast` and `Uploads` over the one line and the current tab of `EngineWire`;
`Sidecar` holds a `JugglerPage` per target; `EngineLifecycle` implements `BrowserSlot`.  A crawl job
sees the engine only as alive, dead or gone (`CrawlJob.engine`), the registry sees a job only as live
or ended (`CrawlStore`), so those are separate models of two sides of one interface.

## 3. CrawlJob: one background crawl

### Model and code

`CrawlJob.tla` models one job from the moment its worker task exists: `_run_job` and everything it
calls, and `kahin_crawl_pause`, `kahin_crawl_resume`, `kahin_crawl_stop`.  (`queued → running`
happens inside `crawl_start` with no suspension point, so nobody can observe `queued`.)

An action is the code from one suspension point to the next; `pc` says where the worker is
suspended.  The comment at the top of the module names the points.

| state | code |
|---|---|
| `state`, `Allowed`, `Transition` | `job.state`, `_ALLOWED_TRANSITIONS`, `_transition`; a refused transition changes nothing, and the callers in the loop ignore the refusal, so the model does too |
| `queue`, `visited`, `budget`, `dropped` | `_queue` (with `_queued`), `_visited`, `_page_budget_urls` (`pages_fetched` is its size), the URLs counted in `dropped` |
| `backoffs`, `challenges` | `_retries` |
| `succeeded`, `failed` | results counted per URL; the uncounted "paused" entry of a CAPTCHA is not one |
| `resumeEvent`, `cancelRequested`, `gate` | the `asyncio.Event`, the flag, the holder of `rotation_gate` |
| `backoffOver`, `expired` | the clock against `backoff_until` and `maxDurationSeconds` |
| `engine` | what `state._current_engine` refers to: a live engine, a dead one still referenced, none |
| `armed`, `killed`, `stopper` | the page timer, `task.cancel()`, a running `crawl_stop` |
| `history` | read by properties only |

Time is abstract: a delay is a flag an environment step raises, a timer may fire whenever it runs.
Page content is abstract: any set of URLs may be linked, any tool call may succeed, fail, or see a
rate limit or a CAPTCHA.  One `kahin_crawl_stop` runs at a time.  A rotation is possible whenever pages or time allow (`RotationEvery`
forces it; the time-based trigger may come at any page).  `Faults` selects what the environment may
do, so that a run can say which fault a property depends on.

### What the runs check

The core run uses two seeds, the other one; three URLs, two pages, depth 1, a queue of two, one
pause, one retry of each kind and a forced rotation after every page: the smallest bounds at which a
retry, a second retry that is refused, a full queue, a page limit with work left, a rotation between
two pages and a recovery all happen.  A job ends, so deadlock is not
an error.

| run | shows |
|---|---|
| `crawl_core` (all faults) | `FrontierKept` (`FrontierSound`, `RetryAtHead`, `PageBudget`, `PagesAccountedFor`); `WaitsAreSafe` (`PausedIsParked`, `GateMatchesRotation`); `RecordsStand` (`NoUrlForgotten`, `FinishedIsFrozen`); `RotationNeverEvades` |
| `crawl_faults` (the engine dies, answers its health check late, is stopped and started by the user; fair) | `TypeOK`; `SiteRespected` (`HeldUntilResumed`, `BackoffHonoured`) and `ReportsTrue` (`OneResultPerPage`, `EndedMeansTerminal`, `DiedTwiceIsTrue`), as long as the timer does not hit a rotation, no tool raises and the duration does not elapse; the crawl settles (`CrawlSettles`); a stop request ends the job, also one that times out waiting for the gate (`StopEndsJob`) |

A property with parts in brackets is their conjunction.

Fairness is weak fairness of the worker, of a `crawl_stop` in progress and of the backoff clock:
each await of theirs is bounded by a timeout in the code.  Pausing, resuming, stopping and every
fault stay optional.

### Disagreements between the code and what it says

Each was met while modelling.  TLC shows it in the run named, with the switch named here changed; no
run is kept for them.

| property | shown by | what happens |
|---|---|---|
| `EndedMeansTerminal` | `crawl_faults` with `Faults = {"duration"}` | the duration limit ends the worker, but a job that is backing off or paused refuses `failed` or `completed` (`crawler_mirage.py:1105`): its worker is gone and it stays as it is, against "a background task must never die silently" (1154) |
| `OneResultPerPage` | `crawl_faults` with `Faults = {"slow_rotation"}` | the page timer fires in the rotation after a recorded page (`crawler_mirage.py:1089` inside the timer of 1129); the page gets a second result, against "rather than silently making the same URL eligible for a later duplicate fetch" (464-465) |
| a job that is cancelled leaves the browser open | `crawl_faults` with `Faults = {}` | a stop during a rotation leaves no browser (923), against "do not close the browser" (1713) |
| `DiedTwiceIsTrue` without its condition on pauses | `crawl_faults` | a recovery attempt is spent on a rotation that declines to run because the job is paused (`crawler_mirage.py:950,911`); "engine died twice" (945) after one death and no restart |
| `BackoffHonoured` without its condition on pauses | `crawl_faults` | pause and resume put a job that backs off to `running` (1700): the rest of the rate-limit delay is skipped, against "Retry-After honoring" (15) |
| `CrashGetsItsRetry` | `crawl_faults` | `_mirage_eval_result` hands the engine's death on as a page result (`_common.py:633`); the page is recorded failed, against "a crashed engine gets one chance to retry the URL" (`crawler_mirage.py:786-787`) |
| `HeldUntilResumed` | `crawl_faults` with `Faults = {"slow_rotation"}` | a timed-out rotation leaves the job `rotating` (909), from which a CAPTCHA cannot pause it, against "after a CAPTCHA/access-denied the job never resumes on its own" (1649-1650) |

### What is proved

`CrawlJob_proofs.tla` proves, from `CrawlAssumption` alone (finitely many URLs, distinct seeds that
fit the queue, natural-number limits), every property of `crawl_core` (`FrontierIsKept`,
`WaitsStaySafe`, `RecordsAlwaysStand`, `RotationsNeverEvade`), part by part, and, without the faults
that break them, the two safety properties of `crawl_faults`:

* `TypesOK`.  `TypeOK` is not inductive: requeueing needs the page in flight to be one, so
  `TypeInv` adds that.
* `GateProtectsRotation` and `PausedJobsPark`, from `GateInv`.  The pause event is safe because a
  `crawl_stop` that has to wait can only be waiting for a rotation, and a rotating job is not paused.
* `FrontierIsSound` and `RetriesComeFirst`, from `FrontierInv`: while a page is in flight no started
  page is queued, and every started page is visited or queued.  `FrontierMoves` lists the five ways
  in which any step changes the frontier; each has one lemma.
* `PagesWithinBudget`, from the same list and the cardinality theorems.
* `FinishedJobsAreFrozen`, from `TerminalInv`: a worker still inside a page of a terminal job has
  been cancelled.
* `RotationsNeverEvade`: only started pages have retries, and none is queued when a rotation begins.
* `NoPageIsLost`, from `AccountInv`: an unanswered visited page is the one in flight, and there is
  room to requeue it, because only the links of an answered page can fill the queue.
* `NoUrlIsForgotten`, from the five frontier moves.

* `SitesAreRespected`, from `Waits`, where the page timer does not fire inside a rotation.  `Course`
  comes first: a page is worked on only while the job is running or was paused meanwhile, a job is
  `rotating` only inside a rotation or with a stop requested, and a requested stop waits for a
  rotation only.  Then a held job has nobody in a page (`Holding`) and a job never paused is
  `backing_off` until its delay is over (`Untouched`).
* `ReportsAreTrue`, from `Results`, where in addition no tool raises and the duration limit does not
  strike: a page that is `Open` has no result yet, and one that has a result stays visited, so it is
  neither queued nor taken again.  The hypotheses are those the table of disagreements forces.

Only model-checked: the liveness properties.

## 4. EngineLifecycle: who starts, replaces and stops the browser

### Model and code

`EngineLifecycle.tla` models several MCP server processes on one machine: `kahin_browser_start`
and `kahin_browser_stop`, the promotion of a Shadow session to Camoufox, the healer's
`RESTART_ENGINE`, `stop()` and the reader of both engines, the death callback, the health probe and
the two locks.

| state | code |
|---|---|
| `slot` | the holder of the `flock` on the machine's lock file |
| `current`, `bound`, `lifecycle` | per process: `state._current_engine`, the healer's `_engine_ref`, the holder of `state._lifecycle_lock` |
| `engine` | per engine object: its kind, its server process, its operating system process (`os`), its reader task, and `_dead`, `_stopping`, `_process is not None` (`handle`), the registered death callback (`watched`), `_preserve_state_on_stop` |
| `pc`, `target`, `candidate`, `reason`, `want` | per tool call: the await it is suspended in, the engine it probes or stops, the engine it starts, what follows the stop, the kind asked for |

An action runs from one await to the next.  `stop()` is one piece of code that six callers await;
`StopTakesProcess`, `StopFindsNothing`, `StopRefused`, `StopReaped` and `StopGivesUp` are its steps, and
`StopEnds` dispatches on `reason` to what the caller does with the outcome.

A call that waits for the lifecycle lock has read nothing it later uses, so it is modelled as one
that has not begun.  Answers that change nothing (a conflicting configuration, an unusable page of a
reused engine, a live Shadow) are left out or are `ProbeFindsAlive`.  Where cancelling a call takes
the path of a failure, the failure's action stands for both; `CallCancelled` is the rest.  The lock
file always works: the code's fallback for platforms and file systems without `flock`
(`_state.py:57,85-88`) gives up the promise by design.  A server process does not exit.  Left out are the
healer that `browser_start` itself runs under (620), whose restart would find the lock in its own hand; a
refused stop of a start that failed after it had published (780-786), or of a Camoufox that a promotion abandons;
and an engine that dies between its health check and its publication, which counts as a failed boot.

`Engines` bounds the engines that exist at once: an engine whose process is gone and that nobody refers
to gives its name to the next one.  A start needs a free name, so a run in which orphans pile up
would stop early; that is why `life_promotion`, which checks liveness, allows no fault that makes orphans.  Three engines are
enough for a published one, its successor and one that another server starts.

`BrowserSlot.tla` is the promise of `README.md:129-131`: an owner, a set of open browsers, and only
the owner opens one, when none is open.  `SlotSpec` maps `owner` to the lock file and `open` to the
processes that run.

### What the runs check

| run | shows |
|---|---|
| `life_slot` (2 servers, start and stop; crashes, refused stops) | `SlotSpec`: the servers implement `BrowserSlot`; `IdleFreesSlot` |
| `life_servers` (2 servers, start and healers; readers and writes that fail under a running browser, slow stops, withdrawn calls) | `TypeOK`, `PublishedHoldsSlot` |
| `life_promotion` (1 server, 2 calls: start, stop, promote; crashes, refused stops; fair) | `NoOrphan`, `ReapBeforePublish`, `CallsReturn` |

Each run names in `Tools` and `Faults` what it allows: a property may fail with the rest, which is what
the tables below show.  Engines are interchangeable, so `life_slot` and `life_servers` use symmetry;
`life_promotion`, which checks liveness, does not.

Fairness is weak fairness of every call that has begun (each await is bounded by a timer: 60 s for a
start, 15 s around a stop, 5 s inside it), of the reader once it has something to see, and of the exit
of a process that was told to end.  Nobody has to begin a call, and no fault has to happen.

### Disagreements between the code and what it says

Each was met while modelling.  TLC shows it with `OneServer` (the second with `TwoServers`), two
calls, three engines and the tools and faults named here; no run is kept for them.

| property | tools; faults | what happens |
|---|---|---|
| `NoneLeftBehind` | start, heal; none | the healer stops an engine and forgets whatever is published by then, also one that was published while it waited (`_healer.py:285`), against `_healer.py:278` and `_state.py:22-24` |
| one browser at a time (part of `SlotSpec`) | start, stop; transport | a reader error under a running browser frees the machine lock (`oracle.py:114`); two servers run a browser each, against `README.md:129` |
| `NoOrphan` | start, stop of Shadow; slow | `stop()` drops its process handle before the process has ended (`chassis.py:207`); the retry of a failed stop finds no process, reports success and forgets a browser that still runs, against "the engine reference was retained for cleanup" (`pilot.py:821`) |
| `PublishedHoldsSlot` | start, promote; crash | Shadow dies by itself in the handoff and its death callback frees the lock (`oracle.py:114`); Camoufox is published without it (`_common.py:527`) |
| what is published is alive | start, promote; crash | Camoufox dies while the promotion awaits Shadow's stop and is published dead, against "Publish only after Camoufox is healthy" (`_common.py:524`) |
| `IdleFreesSlot` | start, heal; none | the healer's restart clears the engine but keeps the machine lock (`_healer.py:280`); another server is told to "stop it" (`pilot.py:706`), which `kahin_browser_stop` answers with "No engine running." |
| `NoneLeftBehind` | start, promote; cancel | a call withdrawn while the promotion awaits Shadow's stop forgets the running Camoufox (`_common.py:511` catches `Exception` only), against `pilot.py:146-148` |
| `IdleFreesSlot` | start, stop; cancel | a start withdrawn in its cleanup skips `release_browser_lock()` (`pilot.py:753`): the server keeps the lock without an engine |

### What is proved

From `HomeAssumption`, `NoneAssumption` and `ScopeAssumption` (a call has a home, `None` is nothing
else, the switches are known ones):

* `TypeCorrect` (`EngineLifecycle_proofs.tla`).  `TypeOK` is not inductive alone: a start that reaps
  goes on to boot the kind it was asked for, so `TypeInv` adds that the kind is known by then.
* `PublishedIsCovered` and `DeadEnginesFreeTheSlot` (`EngineLifecycle_proofs.tla`), for systems without
  promotions but with every fault and an active healer.  `SlotInv` is the inductive invariant: between
  its awaits a call other than the healer's holds the lifecycle lock (`LockInv`), so no two calls of a
  process are at work under it (`OneAtATime`); a booting call holds the machine lock and its process has
  no engine (`BootInv`), so no death callback can take the lock from under it; a failed start cleans up
  with no engine published (`AbortInv`), so giving the lock back uncovers nothing; a published engine has
  its callback in place (`WatchedInv`).  Every step is one of six: a quiet step, a return, a boot, a
  publication, a release, a death; each has a lemma.  The fourth and fifth rows of the table above show why
  promotions have to be left out.

* `IdleServersFreeTheSlot`, `NoBrowserIsForgotten` and `ShadowIsReapedFirst` (`EngineLifecycle_proofs.tla`),
  promotions included.  `Fits` is the invariant they rest on: where a call is decides which of `target`,
  `candidate` and the published engine of its process are set, and which are the same (`Sound`).  A step
  of a call touches its own process only, under a lock that is its own or free (`Acts`), so each action
  says where its call is now, in the terms of `Sound` (`Now`), and `FitsKept` does the rest.
  `NoOrphan` is not inductive alone: a running process that was taken from its engine (`stop()` drops the
  handle) must have somebody who waits for its exit (`Taken`).  For `ReapBeforePublish`, a call
  handles engines of its own process only (`Owned`), and an engine whose handle is gone was marked as stopping
  before (`Marked`), so what the promotion reaped does not come back before it publishes.
* `SlotImplemented` (`EngineLifecycle_proofs.tla`): `Spec => SlotSpec`, step by step.  With all of the above and
  without promotions, the lock covers every process that runs, published or not (`Cover`), and a process
  that runs while its server could take the lock is the published one or one that a call of that server is at
  (`Neighbours`).  So a boot finds no process (`Alone`) and opens the only one; a process that ends by itself
  is the only one its server had (`AloneInDeath`), and the lock its callback frees covers nothing; all other
  steps stutter or give the lock back with no browser open.

The hypotheses name the tools and faults that are excluded, and each is needed: for every one of them
TLC finds a counterexample as soon as it is allowed next to start and stop, with two calls and three engines.

| theorem | excluded |
|---|---|
| `PublishedIsCovered`, `DeadEnginesFreeTheSlot` | promotion |
| `IdleServersFreeTheSlot` | healer; withdrawn calls |
| `NoBrowserIsForgotten`, `ShadowIsReapedFirst` | healer; slow stops, withdrawn calls |
| `SlotImplemented` | promotion, healer; transport errors, slow stops, withdrawn calls |

What goes wrong is in the table of disagreements.  Only model-checked: that calls return.

## 5. Sidecar: requests in flight between Python and the browser

### Model and code

The sidecar is one thread.  `run()` (`ipc_main.zig`) polls the browser's pipe and stdin with the
nearest deadline as its timeout, replays what the browser sent, starts requests, advances every task
in flight until none makes progress, and writes the answers.  `Sidecar.tla` follows these parts of a
turn with `phase`; each action is one step of one part: one message replayed, one line started, one
task polled, one task finished.

| state | code |
|---|---|
| `phase`, `ready`, `chunk`, `index`, `progressed`, `running`, `stdinEof` | the locals of `run()`: where it is, `revents`, the unread rest of the chunk, the loop indexes and flags |
| `inflight`, `task` | the list of `Task`s and their fields, with the fields of the flow a task drives (`call`, `retry_left`, `settle_until_ms`, `nav_id`, ...) |
| `pending`, `wire` | `router.pending`, `next_id` |
| `pages`, `bySession`, `current` | `Driver.pages`, `by_session`, `current_target` |
| `fd`, `lineBuf` | lines in the stdin pipe and in the buffer of `nextStdinLine` |
| `answer`, `answers` | the response written for an id, and how many |
| `pipe`, `calls`, `site`, `browserUp` | the browser: messages on their way, calls it works on, its targets |
| `plan` | the client: what it asks for in order, whether it waits for answers, what the browser does by itself |
| `news` | read by `NavNeedsNews` only |

`JugglerPage.tla` holds what is known of a page, and `Lifecycle` (`adapters/page.zig`) as operators
on a record.  `Lifecycle.frame_id` borrows the page's main frame id.  When the page frees that id
(`driver.zig:1676`, 1718) the comparison reads freed memory; the model calls the frame `Freed` and
lets the comparison go either way.

Time is abstract: `late`, `settle` and `grace` say whether a deadline, the settle of a retried
evaluation or the grace of a started navigation has passed.  `Due` is what `nextPollTimeoutMs` looks
at.  Deadlines that pass in the middle of a turn are seen in the next one.

The browser replies to each call at most once, in any order or never; announces a page before or
after the reply that created it; starts, commits (possibly another address), or aborts a
navigation; and, as the plan allows, opens and closes pages, navigates by itself, swaps main frames,
drops contexts, re-attaches targets and exits.  Messages of the pipe are not reordered; a chunk holds
any number of them.

Left out: subframes (the driver keeps them in a map that only `getFrameTree` reads); intercepted requests, console and network events, which
are only passed on; the size limits of answers; answers that do not parse, which fail their flow
(`driver.zig:456`, 588, 729); malformed requests and `getFrameTree`, which are answered in the step that reads
them (`ipc_main.zig:376-424`, 587-610); several execution contexts of a page.  An end of file
on the browser's pipe always comes with a hang-up on Linux, so it is not a case of its own.

### What the runs check

| run | shows |
|---|---|
| `side_live` (2 requests in turn, any kind but screenshots; popups, exit of the browser; fair) | `TypeOK`, `EveryRequestAnswered` |
| `side` (one of four plans, 2 addresses, 2 attachments) | `NavNeedsNews`; `BooksBalance` (`RequestsAccountedFor`, `CallsOwned`, `SessionIndex`, `CurrentTargetLives`) |

The plans of `side`: two navigations in turn of a page that navigates by itself or loads late; three
overlapping requests (a new page, an evaluation or a screenshot, a close or a clipped screenshot)
while the target is detached or the browser crashes; two requests of a page that is re-attached or
loses its context; two of a page whose main frame is swapped while the client may leave.  Each hazard
needs two of these things to meet, not all of them at once.

One target, one message under way at a time and two or three requests are enough for each hazard: a
late reply needs one call and its deadline, a stale navigation needs a second one, a stale session a
second attach.  The client stops asking and the loop may end, so deadlock is not an error.  Addresses
are only compared, so `side` uses symmetry.

Fairness is weak fairness of the loop, which runs whenever `poll` has something to report, and strong
fairness of the deadlines and settles, because time goes on between turns however often the loop is
woken.  The browser has no fairness: it may leave everything undone.

### Disagreements between the code and what it says

Met while modelling; no run is kept for them.

| property | shown by | what happens |
|---|---|---|
| `GraceWakesLoop` | `side` | the end of the 500 ms grace of a started navigation is not among the deadlines of `nextPollTimeoutMs` (`ipc_main.zig:854`), against "the nearest deadline the loop must wake up for" (852) and "holding the IPC request for 30s makes every later tool look dead" (`driver.zig:73-77`): under a silent browser such a navigation is held to its full deadline and reported as failed |
| `NavNeedsNews` without its condition on the other navigations | `side` | a navigation that failed or timed out leaves its page's lifecycle `waiting`, in which `begin()` does nothing (`page.zig:162`); the next one is reported done with the flags and the id of the failed one before its page has moved, the "stale `.waiting` navigation" of `driver.zig:629-633` |
| the same | the first plan of `side` with requests that overlap | two navigations of one page share one lifecycle: the commit of the first completes the second |
| `EveryRequestAnswered` | `side_live` with `"shot"` | a screenshot of a page without a main frame looks at no deadline (`ipc_main.zig:698`): it is never answered, and once its deadline has passed `poll` returns at once for ever, against "so timeouts fire even when both fds are silent" (261-262) |
| `EveryRequestAnswered` | `side_live` with `MaxInflight = 1` and requests that overlap | a line that was read but found the list of tasks full waits for new input on stdin, not for a free place (289-293) |

A navigation to the address the page already shows is reported done at once (`driver.zig:638`),
before anything commits; `NavNeedsNews` excuses it.

### What is proved

`Sidecar_proofs.tla`, from `PlanAssumption`, `NameAssumption` (`None` is no target and no session) and
`BoundAssumption`, for any client and browser and any number of requests, targets and sessions:
`SidecarTypes`, `BooksAlwaysBalance`, `NavigationsNeedNews`, `WaitingClients`.

`BooksBalance` is not inductive.  `Balanced` adds to it what the code relies on without saying so:

* `AnswersSuit`: the value of an answer is used by the kind of the call it answers (the id of a
  navigation, the target of a new page), so the answer on its way to a wire id must be of the kind its task asked
  for.  It holds because wire ids are given out in order and never again (`WiresPast`): a late reply of
  a call that was given up finds nobody, rather than somebody else.
* `Owned`: the router's table is the inverse of the calls the tasks wait for.  A poll does one of four
  things to its call (`Becomes`): it keeps it, forgets it, is refused one by a browser that is gone,
  or opens one; every flow is shown to be one of the four, and the four are shown to keep the table.
* `TaskShapes`: a task holds a result only while the loop is on its way to `finish` it, so nothing can come between
  a result and its answer but the answer.  A screenshot between two steps holds no call.
* `Ledger`: a request is in the pipe, in the line buffer or in flight, in one place and once;
  `swapRemove` takes exactly one out (`SwapRemoves`).  Requests are left behind only after a close.
* `Sessioned`: a session belongs to the target it names.  With it a detach removes
  exactly the page that has the session, or none, in whichever order detach and re-attach arrive.

`NavNeedsNews` needs `NavBooks`, which ties a page's lifecycle to the navigation it serves: as long as no navigation failed,
a page that waits has a navigation under way; one that is done left its page waiting for
nothing; and while there was no news for one, its page's `started` and `committed` are false.  So
`begin()` finds a page that does not wait and clears both flags.  This is an invariant
only if the client has one navigation in flight at a time (`OneNavAtATime`), the hypothesis of
`NavigationsNeedNews`: otherwise it fails, see the third row above.  `WaitingClients` derives
that hypothesis for a client that waits for each answer.

Only model-checked: `EveryRequestAnswered`, which is liveness.

## 6. MirageIpc and MirageTabs: calls and tabs on the Python side

### Model and code

`MirageIpc.tla` is `Mirage.call`, the reader task and `stop()` of `the_twins/mirage.py`.
`MirageTabs.tla` adds the trackers the reader feeds and the tools that open, choose, close and
navigate tabs (`trainman_mirage.py`, `pilot.py`, `dejavu_mirage.py`), each over the calls of `MirageIpc`.

| state | code |
|---|---|
| `call` | what a caller waits for: the write lock, the pipe to drain, its future |
| `pending`, `writer`, `handle`, `dead`, `reader`, `stopping` | `_pending`, the holder of `_write_lock`, `_process is not None`, `_dead`, the reader task, how far `stop()` is |
| `sidecar`, `asked`, `inbox` | the process, the requests it has, the lines of its stdout nobody has read |
| `sessions`, `contexts`, `current`, `pageLock` | `_sessions`, `_frame_contexts`, `_current_target`, the holder of `_page_lock` |
| `tool` | what each caller runs: which answer it waits for, and for which tool `ensure_page` or `create_page` runs |
| `page`, `worlds` | the browser: its tabs and their sessions, the sessions whose main frame has a context |

A call with a free lock and a pipe with room writes and waits without a suspension, so it is one step.
A wait with a timer (`_wait_for_page_frame`, the attach of a new tab, the detach of a closed one) ends
when its condition holds or, when the timer may have run out, without it.  A future that `stop()` cancels
raises `CancelledError` through the whole tool (`ToolCancelled`).  What `navigate` does after an error depends on its
text: a response timeout, of `Page.navigate` or of the `Browser.newPage` that should have opened its page, is
recovered from once; an error of the sidecar's may say "timeout", "aborted", or neither, so the model lets it be
recovered from, tried again, or final.  A request id, a session and
a target that nobody holds any more stand for new ones.

### What the run checks

`tabs`: one caller opens a tab and navigates it, the other brings a tab to the front, switches to it or
closes it; two tabs, three sessions, an inbox of two lines, and one thing that goes wrong or that the
browser does by itself (the sidecar exits or hangs, a late reply, a refusal, `kahin_browser_stop`; a
popup, a closed tab, a re-attached one, a reload).

| property | says |
|---|---|
| `NothingLeftOver` | the futures in `_pending` are exactly those somebody waits for, none is left when the reader has ended, and the page lock is held only by a tool that opens the first tab |
| `TabsAgree` | the current tab is a known one; once the reader has read what there is, the known tabs and contexts are the browser's |
| `ToolsReturn` | every tool ends, whatever the sidecar does |

A tool that closes needs two tabs to close the wrong one, a re-attached tab needs a third session, and
an inbox of two lines lets an event overtake what the tool believes.  Fairness is weak fairness of all
of Python's steps together: nothing in the model repeats for ever, and each wait has a timer in the
code.  The browser and the faults have no fairness.

### What is proved

`MirageTabs_proofs.tla`, from `IpcAssumption` and `TabsAssumption` (the names are distinct, and there is
a target and a session for the boot window), for every number of callers, tabs, sessions and request
ids, every script, every event of the browser and all faults: `TypesOK`, `NothingIsLeftOver` and
`TabsAlwaysAgree`.  The invariant `Inv` has three parts.

* `IpcInv`, of the calls: no id is used by two calls, the pending table is exact, and it is empty once
  the reader has ended.
* `ToolInv`, of the tools: between its calls a tool has none, and `Fits` says of each place of a tool
  what it is for and whether the page lock is its own.  The lock can then be given back wherever
  `wait_for` cancels, and by nobody else.
* `TabsInv`, of the tabs.  `TabsAgree` speaks of an empty inbox, so it says nothing of the steps in
  between; `View` says what the lines nobody has read yet are going to do.  Every tab of the browser is
  the one Python shows when it has read them all (`PagesShown`: the newest attachment whose end is not
  announced), and likewise its context (`WorldsHeard`).  To carry that through a line, `View` also
  says that a session belongs to one tab (`OneTab`), that its attachment is the first that is heard of it
  (`News`), that a context is only announced of a session that is shown by then (`TalkShown`), and that no
  other session has one (`ContextsKnown`, `WorldsLive`).

Reading the first line leaves `View` as it is (`ReadView`); this is where an end that is stale must
not count.  A line at the other end keeps it together with what the browser did
(`WriteAttached`, `WriteDetached`, `WriteTalk`, `WriteReply`); a re-attached tab is two of them in
either order (`ReattachesKeeps`).  Once the reader is stopped, `View` is claimed no more.

### Disagreements between the code and what it says

* `_adopt_existing_window` (`mirage.py:1442-1477`) calls a raw `Target.getTargets`, a domain Juggler
  does not have, so it adopts nothing and waits a second; a boot window announced in that second gets
  a second window beside it, which the docstring (1450) says it prevents.
* `kahin_mirage_tab_new(url)` navigates whatever tab is current when its own tab is there: another
  caller's switch in between sends the URL elsewhere.  `navigate` waits, likewise, on the tab that is
  current after it has navigated another one.

Left out: the launch of the process and its ready line, event buffers (section 8), the Obscura tools, and
the question for `Browser.health` that each tool asks before anything else (`_common.py:182-183`).

## 7. PageActions: tools that act on a page

### Model and code

`PageActions.tla` holds twenty tools that click, hover, drag, type, press keys, tick boxes, fill, wait,
read, and save or load a session.  A tool is the sequence of its calls (`Steps`); it chooses its tab when
it starts and is suspended only inside a call or between two polls, so a step is what one call does in
the page and what the tool makes of the answer.

| state | code |
|---|---|
| `tool` | the tool, its next call, the tab and element it resolved, what it measured (point, document, condition), what it holds down, what it answered |
| `tab` | per tab, the page: its document, whether it fits the window, what each element is (ok, absent, hidden, disabled, covered), the focus, the text, the box |
| `current` | `_current_target` |

A page has a text field and a check box.  Where they are is a condition; a point is the element
that was there when it was measured, and goes stale when the page moves.

### What the run checks

`actions`: one caller runs any tool, the other clicks, on two tabs whose pages fit the window or scroll.
One thing changes: an element moves, is covered, disabled or removed, focus is lost, the page reloads,
the tab closes, another tab is chosen, or a call fails.

| property | says |
|---|---|
| `PressLands` | a press lands on the element that was asked for, in a state to take it, unless the page changed after the point was measured |
| `OneTabPerAction` | all the input of a tool goes to one tab |
| `SuccessIsReal` | text reported as typed is in the field, a box reported as ticked or unticked is so, unless somebody else changed it since; an uncheck whose verifying probe gets no answer is excepted |

One change at any of the steps of a tool is what the checks of `actionability.py` are for; the proofs below
hold for any number of them.  The only waits are bounded polls, so there is
nothing to say about liveness.

### What is proved

Everything the run checks, for every number of callers and tabs, every script and any number of changes
(`PageActions_proofs.tla`), from `ActionsAssumption`: there is a tab, `None` is neither tab nor element,
scripts name tools.

* `Inv` says of a tool that what it has left to do is the end of its sequence (`Course`), and of the pages
  where elements can be: on a page that fits every element has places of its own, on another one at most
  one is in view (`Placed`).  What the proofs need to know of the twenty sequences is `Sound`, shown for each.
* `PressesLand`: `PressLands` only looks back at presses that were made.  `Aimed` looks ahead: while presses
  are due and nothing is to be measured before them (`Measured`), the point hits the element, as long as
  nobody touched the page.  The measurement makes it true (`AimHits`), the tool's own input moves nothing
  (`EffectOK`), and every step of another tool or of the page that changes the page ends the claim (`SeenOK`).
* `InputStaysOnOneTab`: input goes to the tab a tool has (`OneTab`); it changes its tab only where it ends, or
  when it is `state_load`.
* `ReportedSuccessIsReal`: `TextOK` and `TickOK` follow the text from the moment it is noted: it is what it was,
  or the tool has typed.  A box is as reported when the last probe saw it; only an uncheck that got no answer
  reports what it has not seen.
* `TypesOK`: the types.

### Disagreements between the code and what it says

* A probe of `_check_flow` that fails is a record without a `code` and without a `checked`
  (`reliability_mirage.py:49-56`).  The tool that asks what the element is goes on to press it, check box or
  not (229-240); an uncheck that looks whether the box is unticked answers `checked: false, changed: true`
  (250-262), though "Uncheck a checkbox and verify its final state" (297) is promised.  The model calls that
  answer `blind`, and `SuccessIsReal` does not claim that it is true.
* A drag presses at a point measured before its target was scrolled into view; an error between the
  press and the release leaves the button down.
* `wait_for_ready` keeps its last point across a failed probe, against "consecutive polls"
  (`actionability.py:13-14`).
* `return_snapshot` takes its snapshot of the tab that is current by then, `kahin_mirage_state_load`
  navigates the current tab and restores into the one that is current afterwards.
* `kahin_mirage_dom_action` looks neither at visibility nor at what covers the node.  `PressLands` excludes
  it, and drags on pages that scroll; `OneTabPerAction` excludes `state_load`.
* `click_humanized` sends a move to the last position, which the trajectory avoids
  (`stealth_mirage.py:130-131`).

Left out: locator syntax, keyboard layouts, content of forms and snapshots, the Obscura tools.

## 8. Capture: requests, frames and file choosers

### Model and code

Three modules for three trackers of `mirage.py` and their tools, over `EngineWire.tla` (the line the
reader takes, the tab that is current, the end of the engine); `Capture.tla` joins them.

| module | state | code |
|---|---|---|
| `Routes` | `window`, `routed`, `listed`, `pausing`, `asked`, `lapsed` | `_network_events`, `_network_routed_ids`, `state._network_requests`; whether the browser pauses a tab's requests, and who asked it to (`reliability_mirage.py`, `dejavu_mirage.py`) |
| `Screencast` | `frames`, `frameEvent`, `castId`, `castTab`, `starting`, `generation`, `holder`, `stream` | `_screencast_frames`, `_screencast_event`, `_screencast_id`, `_screencast_session_id`, `_screencast_starting`, `_screencast_generation`, `_screencast_lock`; the browser's stream (`screencast_mirage.py`) |
| `Uploads` | `choosers`, `chooserEvent`, `context`, `docs`, `opened` | `_pending_choosers`, `_chooser_event`, `_frame_contexts`; the pages' documents and the choosers they opened (`upload_mirage.py`) |

### What the run checks

`capture`: nine plans of two or three callers (`MCCapture`): two routes and the persistent mode
against each other; a stream that is started twice, stopped, and read by two callers, one of them with
an older generation; three uploads, or two after interception was switched on by hand.  Up to three
events and two troubles (a failed or cancelled call, another tab chosen, the end of the engine).

| property | says |
|---|---|
| `RoutedOnce` | two routes never take the same request, also when the window and the set of ids taken from it are forgotten between them |
| `NothingStranded` | when the routes of a tab have ended, none of its requests is left paused and it pauses no more, unless the persistent mode was asked for or a route lapsed |
| `StreamSound` | a tool returns frames of the stream it knows, and the frame the browser waits for is on its way, queued or being acknowledged |
| `NobodyOverslept` | nobody sleeps while something it waits for is queued |
| `FedByItsTab` | a file chooser gets files once at most, and from an upload of its own tab |

A window of one event, two request ids that both tabs use, and a chooser buffer of two are the smallest
at which something falls out of each.  There is no liveness: every wait has a timer, and what is in
question is what the timer leaves behind.

### Disagreements between the code and what it says

* A route that is cancelled (`CancelledError` is not an `Exception`) leaves interception on, and so does
  an enable call that timed out but took effect; a route that ends switches interception off for the whole
  tab, under the persistent mode and under another route (`lapsed`, `asked` say when).
* Routed ids are bare request ids, although `dejavu_mirage.py` says that they are unique only per
  session; `_owner_session_id` prefers the current tab.
* A frame tool with an older generation, or `fresh`, takes frames of a newer stream and cannot
  acknowledge them (`mirage.py:1040-1042`): the stream stalls, against the docstring at
  `screencast_mirage.py:156-161`.  `strayed` excuses it.
* A stop that failed, followed by a start on the same tab, lets old frames in under the new
  generation; after `stop()` a start reply that was already resolved sets `_screencast_id` again.
* `stop()` wakes those who wait for choosers and requests, but they do not look whether the engine lives
  (`mirage.py:488-490`).
* `Page.setInterceptFileChooserDialog` forgets the pending choosers of every tab (1259-1264).

Left out: Network events other than requests, which also fill the window of `_network_events`, a start that is
suspended between its two clears, a call that takes effect after its timeout, an explicit screencast id, the raw CDP methods, cancelled screencast tools, choosers
without a context, dialogs, downloads, workers and websockets.

### What is proved

`Capture_proofs.tla`, from `WireAssumption`, `RoutesAssumption` and `UploadsAssumption` (what the constants
are: callers, tabs, request ids, bounds that are natural numbers), for every number of callers and tabs and
every plan: `CaptureTypes`, `RequestsRoutedOnce`, `NoTabStranded`, `ChoosersFedRight`, `NobodySleepsOn`,
`StreamStaysSound`.

A step is the turn of one caller, an answer of the browser, an event of a page, the reader's, or the
end of the engine.  `WireOK` says of each caller that where its tool is decides what it has asked the
browser for (`Fits`), or that it was cancelled and left its call behind (`LeftBehind`); and that a call has
one reply at most, which only a served one has (`OneReply`).  From this follows which turns a tool can take, by its
kind (`TurnAmong`), so that each property has to look at the tools of one kind only:

* `RoutedOnce` needs `RequestsOK`: a request on the line is there once, is not in the window and was taken by
  nobody; one of the window that was taken has its id in the set of ids taken.
* `NothingStranded` needs `PausesOK`: while the engine lives, a tab that pauses requests was asked to, has lapsed, or has
  a route that will switch it off, also while the call that switches it on or off is still on its way.
* `FedByItsTab` needs `ChoosersOK`: a chooser that was not fed is on the line, in the queue or in one call, never in
  two of them.
* `NobodyOverslept`: frames and choosers are queued only in steps that wake everybody, and a
  tool goes to sleep only after it looked.

* `StreamSound` needs `StreamOK`.  Python knows the stream by its id, or, while a start is on its way, only by its tab;
  `StreamId` and `StreamTab` name the stream it follows in either case.  While the engine lives and no call has
  failed, the browser plays that stream or none (`PlaysOK`); a frame on the line is of that stream and precedes
  the answer to the call that stops it (`LinesOK`); what is queued is of it and of the generation there is
  (`QueueOK`, `AgesOK`); a tool whose generation is the present one noted the present stream, one with an older
  generation noted another or none (`AgesOK`, `QueueOK`), so that what a tool takes is of the stream it noted
  (`ItemsOK`).  One tool at a time starts or stops a stream, and a start under way is that tool's (`LockOK`).
  From these, a frame that the browser waits for is on the line, queued, or the subject of an acknowledgement
  that is still to be served or has failed (`FlowsOK`): an acknowledgement under the stream's own id that is
  served ends the wait, one that fails puts the frame back.  The excuses of the property (`failed`, `strayed`) are where the
  induction breaks: a failed stop leaves the browser playing a stream that Python has forgotten, and a tool
  with an older generation drops frames that it cannot acknowledge.

## 9. DomStream: what changed in a page

### Model and code

| state | code |
|---|---|
| `doc`, `connected`, `happened` | the page: its document, the nodes in it, its mutation records so far |
| `stream` | `window[KEY]` of the page script (`dom_stream.py`): the ring, the ids of nodes, the live nodes |
| `binding`, `script`, `entry` | `_dom_binding_installed`, `_dom_init_script_installed`, `_DOM_STREAM_STATE` (`dom_stream_mirage.py`) |
| `tool`, `reader` | what each agent runs; its cursor, the changes it knows and the nodes its actions met |
| `view` | the node the last action scrolled to and focused, and whose action that was, until the page looks different |

A burst of mutations is one callback of the observer; records beyond the batch, and events beyond the
ring, are dropped the way the script drops them.  A poll for a signal may return at any time.
`kahin_mirage_dom_action` is a lookup in the page (`Acts`) and then up to two calls that send mouse events
or text (`Inputs`), with whatever the page and the other agent do between them.

### What the run checks

`dom`: two agents, a document of two nodes, a ring of two or three events, a batch of two, drains of one
or three events; up to two bursts, one navigation or one failed call; one agent reads while the other
starts, stops, reconfigures or snapshots; in one plan both take a snapshot and act.

| property | says |
|---|---|
| `NothingMissed` | an agent that goes on from its cursor knows every change up to it, or was told to take a new snapshot |
| `ActsOnItsOwn` | the lookup of an action finds the very node its reference was given for, never one of another document or stream with the same number; its input meets that node too, unless the page mutated, navigated or scrolled or another agent acted after the lookup |

Two readers and a ring smaller than two bursts are needed for one to overtake the other; a larger ring
only delays that.

### Disagreements between the code and what it says

* `RefsWork` fails under `dom`: a node that is moved, or removed and added again, keeps its id but
  leaves the live nodes for good (`dom_stream.py:156` adds to them only with a new id, 340 strikes
  off), so its reference is refused although `refsLive` is true (`dom_stream_mirage.py:40-44`).
* `kahin_mirage_dom_action` promises `stale_node` "instead of acting on an accidental replacement"
  (`dom_stream_mirage.py:372-374`), but only the lookup checks.  The press, the release and the text are sent
  in calls of their own, to a remembered point or to the focus (418-446), and if the page mutates, navigates or
  scrolls in between they meet whatever is there, also in another document.  `ActsOnItsOwn` claims nothing of
  such input (`steady`).
* A batch that overflowed reaches a second reader only as the overflow event; a stop and a start lose
  the ring size that was configured; `agent_status` does not notice a page without a stream.  (That a
  navigation is invisible without `stream_id` the tool's own documentation says.)

Left out: the content of events, attribute filters, the page's own input and focus events, which share the
ring, the streams of frames, which are recorded under their page's session; the page's script and its bookkeeping in Python are one
step where one `evaluate` does both.

### What is proved

`DomStream_proofs.tla` proves all three properties from `DomAssumption`: `DomTypes`, `AgentsMissNothing`,
`ReferencesAreSafe`.  The invariant `DomInv` says of the page's stream that its ring is the end of its log and
its ids are distinct (`StreamOK`), of the binding and the script that a tool which is past installing them
finds them (`Booted`), and of each agent that, if the stream is still the one it reads, it knows every change
up to its cursor or was told (`Knows`), and its reference is the node's (`Refers`).  Every step either goes on
with the stream (`Continues`: the log grows, ids stay) or replaces it by one with an id no agent has seen,
which frees it of what agents believed of the old one.  That is why a navigation can neither hide a change
nor lend a number to another node.  For the input that follows a lookup, `Aimed` says that while `view` is
still the agent's, an action under way has found its own node there (`AimsStand`).

## 10. CrawlStore: what is kept of crawl jobs

### Model and code

| state | code |
|---|---|
| `jobs`, `kept`, `active` | every job there was, `state._crawl_jobs`, `state._active_crawl_id` |
| `finished` | the order of `finished_at`, by which the oldest are dropped (1527) |
| `jobs[j].count` | how many results and events a job has recorded; the ledgers hold the last `Ledger` of them (`crawler_mirage.py:269-333`) |
| `tool`, `seen` | what a client runs (`kahin_crawl_start`, `_stop`, `_results`, `_events`), its cursors and what it got |

`kahin_crawl_start` is suspended once, while it asks the engine, between its early check for an active
job and its second one (1510); `CrawlJob` stands behind `Works`, `Completes`, `Strands` and
`TaskCancelled`.  What exceeds the byte budget is cut (`Cuts`): results one by one while one is left
(1258-1339), events at once to the first half of the limit (305-313).

### What the run checks

`store`: two clients that start and stop jobs, or read results or events of one; four jobs, of which
one is retained, three results, ledgers of two entries, limits of one or two.

| property | says |
|---|---|
| `RegistrySound` | a job that has not ended is the active one and in the registry, however starts overlap; a job that was dropped is older than those retained |
| `NothingSkipped` | a client that goes on at `nextCursor` gets every entry once, and is told of those it was too late for |

Ledgers of two entries overflow with the third, a cursor can then be ahead of, inside or behind what is
retained; four jobs drop one while another is live.  A job whose worker ended without a terminal state
(`Strands`, section 3) stays the active one: `RegistrySound` allows it, and the next `crawl_start` is
refused until it is stopped.  A worker cancelled before its first step leaves a finished job as the
active one, which the next start replaces.

Left out: what `kahin_crawl_pause` and `kahin_crawl_resume` record, the deadline of a poll, the text of exports, `failed` as an outcome of its own
(`completed` stands for both).

### What is proved

`CrawlStore_proofs.tla`, from `StoreAssumption` alone (bounds of at least one, positive limits, a plan
for every client):

* `RegistryIsSound`.  The invariant `StoreInv` is the two parts of `RegistrySound` and the types of the
  registry.  It makes every step one of three: the registry is left alone (`LeftAlone`), the one live
  job, which is the active one, ends and becomes the one that finished last (`OneEnds`), or a job is
  added when none is live (`OneIsAdded`), which is what the second check of `kahin_crawl_start` is for.
  Only the third drops jobs, and those have as many later ones among the retained as the bound asks.
* `TypesOK`: the registry is bounded.  No two jobs finish at the same time (`EndsInOrder`), so those that
  have fewer than `Retained` later ones are `Retained` at most (`LastOnes`), and the new job makes one
  more.  No ledger ever counts fewer entries (`JobsGrow`), so a cursor stays behind what its job has recorded.
* `NothingIsSkipped`.  `ReadInv` says of each client and ledger that everything below its cursor was
  got or reported as gone, and nothing at or above it was got (`Complete`).  A read takes a run of
  entries that begins at the cursor or at the oldest entry left, and cutting the answer short takes
  entries off its end only (`CutLeavesBeginning`), so the next cursor is one past what was got
  (`ReadCompletes`).  A client that waits for events knows its job, although the registry may have
  dropped it.

## 11. What is proved and what is only checked

| module | proved for every value of the constants | model-checked only |
|---|---|---|
| `CrawlJob` | every invariant and action property, `SiteRespected` and `ReportsTrue` where they hold (section 3) | liveness |
| `EngineLifecycle` | every invariant, `ReapBeforePublish`, the refinement of `BrowserSlot`, each where it holds (section 4) | liveness |
| `Capture` | everything | – |
| `DomStream` | everything | – |
| `CrawlStore` | everything | – |
| `MirageTabs` (with `MirageIpc`) | `TypeOK`, `NothingLeftOver`, `TabsAgree` | `ToolsReturn` |
| `PageActions` | everything | – |
| `Sidecar` (with `JugglerPage`) | `TypeOK`, `BooksBalance`, and `NavNeedsNews` for one navigation at a time (section 5) | `EveryRequestAnswered` |

What is only model-checked is liveness under fairness, which is out of reach of the provers used.
`NavNeedsNews` does not hold for clients that have several navigations in flight (section 5).

## 12. Not modelled

* The Shadow engine's CDP socket: its process and its life are in `EngineLifecycle`, its pending calls
  are planned.
* The sidecar's pipe, framing, process manager and other adapters: planned, or parameters and answers of
  wire calls that are only passed on.
* The healer's error classification, counters and pattern database: planned.
* Capabilities, the protocol schema and its lookup tools: static tables.
* Storage, emulation, accessibility, extensions, visualization: one request each, no state of their own.
  (Saving and loading a session, and humanized clicks, are in `PageActions`.)
* Argument validation, formatting, the content of pages and snapshots, file layout of profiles,
  installation scripts and build tools.
