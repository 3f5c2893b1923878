------------------------------ MODULE CrawlJob ------------------------------
(***************************************************************************)
(* One background crawl job of kahin/tools/crawler_mirage.py: the worker   *)
(* task _run_job, the tools kahin_crawl_pause / resume / stop that act on  *)
(* the job while the worker is suspended, and the browser engine the       *)
(* worker depends on.                                                      *)
(*                                                                         *)
(* The program is one asyncio event loop, so code between two awaits is    *)
(* atomic.  An action is the code from one suspension point to the next;   *)
(* pc names the suspension point:                                          *)
(*   loop       the inter-page delay (or the task not yet scheduled)       *)
(*   parked     resume_event.wait()       recheck   the backoff sleep, or  *)
(*                                        a parked worker already woken    *)
(*   gate       engine health probe and tab pin before a page              *)
(*   navigate, challenge, extract         the three tool calls of a page   *)
(*   probe      the health probe of _recover_failed_page                   *)
(*   rot_stop, rot_start, rot_undo        browser stop/start in a rotation *)
(*   done       the task has returned                                      *)
(***************************************************************************)
EXTENDS Naturals, Sequences, FiniteSets

CONSTANTS
  Url,               \* canonical URLs the site can link to
  Seeds,             \* the deduplicated seed list, in order
  MaxPages, MaxDepth, MaxQueue,
  RotationEvery,     \* rotationEveryPages
  BackoffRetries,    \* _BACKOFF_MAX_RETRIES
  ChallengeRetries,  \* _CHALLENGE_MAX_RETRIES
  MaxPauses,         \* bound on calls of kahin_crawl_pause (bounds the state space)
  Faults             \* what the environment may do, a subset of AllFaults

(***************************************************************************)
(* engine_death   the sidecar or Firefox dies at any moment                *)
(* degraded       a health probe of a live engine times out or errs        *)
(* user_browser   kahin_browser_stop / kahin_browser_start by the client   *)
(* tool_raise     a tool call inside a page raises instead of returning    *)
(* slow_rotation  the 45 s page timer may fire inside stop/start           *)
(* duration       maxDurationSeconds may elapse                            *)
(***************************************************************************)
AllFaults == {"engine_death", "degraded", "user_browser", "tool_raise",
              "slow_rotation", "duration"}

ASSUME CrawlAssumption ==
  /\ MaxPages \in Nat \ {0} /\ MaxDepth \in Nat /\ MaxQueue \in Nat \ {0}
  /\ RotationEvery \in Nat \ {0}
  /\ BackoffRetries \in Nat /\ ChallengeRetries \in Nat /\ MaxPauses \in Nat
  /\ Faults \subseteq AllFaults
  /\ IsFiniteSet(Url)
  /\ Seeds \in Seq(Url) /\ Len(Seeds) \in 1..MaxQueue
  /\ \A i, j \in 1..Len(Seeds) : Seeds[i] = Seeds[j] => i = j

VARIABLES
  state,             \* job.state
  queue,             \* job._queue; job._queued is the set of its URLs
  visited,           \* job._visited
  budget,            \* job._page_budget_urls; pages_fetched is its size
  dropped,           \* the URLs counted in job.dropped
  backoffs, challenges, \* job._retries, by kind
  succeeded, failed, \* counted results per URL in the ledger
  sinceRotation,     \* job.pages_since_rotation
  rotations,         \* job.rotations
  recoveryAttempts,  \* job.recovery_attempts
  cancelRequested,   \* job.cancel_requested
  resumeEvent,       \* job.resume_event.is_set()
  backoffOver,       \* time.time() >= job.backoff_until
  expired,           \* elapsed >= maxDurationSeconds
  gate,              \* holder of job.rotation_gate
  engine,            \* the engine behind state._current_engine
  pc, item,          \* the worker: suspension point, page being processed
  armed,             \* the page timer of asyncio.wait_for is running
  why,               \* reason argument of _rotate_engine
  hashKnown,         \* previous_hash is not None in _rotate_engine
  killed,            \* task.cancel() was called
  stopper,           \* kahin_crawl_stop: idle, gate (waiting) or task
  pauses,            \* calls of kahin_crawl_pause so far
  history            \* what has happened; read by properties only

frontier == <<queue, visited, budget, dropped>>
budgets  == <<backoffs, challenges>>
ledger   == <<succeeded, failed>>
counters == <<sinceRotation, rotations, recoveryAttempts>>
signals  == <<cancelRequested, resumeEvent, backoffOver, expired>>
worker   == <<pc, item, armed, why, hashKnown>>
client   == <<killed, stopper, pauses>>
vars == <<state, frontier, budgets, ledger, counters, signals, gate, engine,
          worker, client, history>>

-----------------------------------------------------------------------------
(* The job state machine. *)

Terminal == {"completed", "failed", "cancelled"}

Allowed ==
  [queued      |-> {"running", "paused", "cancelled"},
   running     |-> {"backing_off", "paused", "rotating", "completed", "failed",
                    "cancelled"},
   backing_off |-> {"running", "paused", "rotating", "failed", "cancelled"},
   paused      |-> {"running", "cancelled"},
   rotating    |-> {"running", "failed", "cancelled"},
   completed   |-> {}, failed |-> {}, cancelled |-> {}]

\* _transition: a refused request changes nothing, and the crawl loop ignores
\* the error it returns.
Transition(from, to) == IF to \in Allowed[from] THEN to ELSE from
To(new) == state' = Transition(state, new)

Item == [url : Url, depth : 0..MaxDepth]
NoItem == [url |-> "none", depth |-> 0]

UrlsOf(q) == {q[i].url : i \in DOMAIN q}
QueuedUrls == UrlsOf(queue)

Init ==
  /\ state = "running"
  /\ queue = [i \in 1..Len(Seeds) |-> [url |-> Seeds[i], depth |-> 0]]
  /\ visited = {} /\ budget = {} /\ dropped = {}
  /\ backoffs = [u \in Url |-> 0] /\ challenges = [u \in Url |-> 0]
  /\ succeeded = [u \in Url |-> 0] /\ failed = [u \in Url |-> 0]
  /\ sinceRotation = 0 /\ rotations = 0 /\ recoveryAttempts = 0
  /\ cancelRequested = FALSE /\ resumeEvent = FALSE
  /\ backoffOver = TRUE /\ expired = FALSE
  /\ gate = "free" /\ engine = "alive"
  /\ pc = "loop" /\ item = NoItem /\ armed = FALSE
  /\ why = "rotation" /\ hashKnown = TRUE
  /\ killed = FALSE /\ stopper = "idle" /\ pauses = 0
  /\ history = {}

-----------------------------------------------------------------------------
(* What the steps of a page are built from. *)

At(p) == pc = p /\ ~killed
GoTo(p) == pc' = p /\ UNCHANGED <<item, armed, why, hashKnown>>

\* _process_url has returned (or was abandoned): the finally block clears the
\* current page, and the delay before the next iteration begins.
EndPage == pc' = "loop" /\ item' = NoItem /\ armed' = FALSE
           /\ UNCHANGED <<why, hashKnown>>
Exit == pc' = "done" /\ item' = NoItem /\ armed' = FALSE
        /\ UNCHANGED <<why, hashKnown>>

RecordSuccess == succeeded' = [succeeded EXCEPT ![item.url] = @ + 1]
                 /\ UNCHANGED failed
RecordFailed  == failed' = [failed EXCEPT ![item.url] = @ + 1]
                 /\ UNCHANGED succeeded

\* Faulty variants of RequeueFront (see PROJECT.json, mutants): to the back of
\* the queue; still marked visited.
RequeueBack ==
  /\ UNCHANGED budget
  /\ IF Len(queue) >= MaxQueue
       THEN dropped' = dropped \union {item.url} /\ UNCHANGED <<queue, visited>>
       ELSE /\ queue' = Append(queue, item)
            /\ visited' = visited \ {item.url} /\ UNCHANGED dropped
RequeueVisited ==
  /\ UNCHANGED <<budget, visited, dropped>>
  /\ queue' = IF Len(queue) >= MaxQueue THEN queue ELSE <<item>> \o queue
\* The URL goes back to the head of the queue, unless the queue is full: then
\* it stays visited and is counted as dropped.
RequeueFront ==
  /\ UNCHANGED budget
  /\ IF item.url \in QueuedUrls
       THEN UNCHANGED <<queue, visited, dropped>>
     ELSE IF Len(queue) >= MaxQueue
       THEN dropped' = dropped \union {item.url} /\ UNCHANGED <<queue, visited>>
     ELSE /\ queue' = <<item>> \o queue
          /\ visited' = visited \ {item.url}
          /\ UNCHANGED dropped

\* Faulty variant: the queue is cleared and nothing is counted.
DropUncounted == queue' = <<>> /\ UNCHANGED <<visited, budget, dropped>>

DropQueue ==
  /\ dropped' = dropped \union QueuedUrls
  /\ queue' = <<>>
  /\ UNCHANGED <<visited, budget>>

\* Faulty variant: the depth bound is off by one.
FreshTooDeep(links) == IF item.depth > MaxDepth THEN {}
                       ELSE links \ (visited \union QueuedUrls)

\* The links of a fetched page that are neither visited nor queued, in the
\* order the document lists them, as far as the queue has room.
Fresh(links) == IF item.depth + 1 > MaxDepth THEN {}
                ELSE links \ (visited \union QueuedUrls)

EnqueueLinks(links) ==
  LET fresh == Fresh(links)
      room == IF Len(queue) >= MaxQueue THEN 0 ELSE MaxQueue - Len(queue)
      n == IF Cardinality(fresh) <= room THEN Cardinality(fresh) ELSE room
  IN \E new \in [1..n -> fresh] :
       /\ \A i, j \in 1..n : new[i] = new[j] => i = j
       /\ queue' = queue \o [i \in 1..n |-> [url |-> new[i], depth |-> item.depth + 1]]
       /\ dropped' = dropped \union (fresh \ {new[i] : i \in 1..n})
       /\ UNCHANGED <<visited, budget>>

SetResume == resumeEvent' = TRUE /\ pc' = IF pc = "parked" THEN "recheck" ELSE pc

-----------------------------------------------------------------------------
(* The loop of _run_job, up to the page it takes. *)

\* Faulty variant: the worker leaves without publishing the cancellation.
LoopAbandoned ==
  /\ At("loop") /\ cancelRequested /\ Exit
  /\ UNCHANGED <<state, frontier, budgets, ledger, counters, signals, gate, engine, client, history>>

LoopCancelled ==
  /\ At("loop") /\ cancelRequested
  /\ To("cancelled") /\ Exit
  /\ UNCHANGED <<frontier, budgets, ledger, counters, signals, gate, engine, client, history>>

LoopExpired ==
  /\ At("loop") /\ ~cancelRequested /\ expired
  /\ DropQueue /\ To("completed") /\ Exit
  /\ UNCHANGED <<budgets, ledger, counters, signals, gate, engine, client, history>>

\* _wait_runnable runs at the top of an iteration and again whenever a waiting
\* worker wakes; only the former checks the duration first.
Deciding == \/ At("loop") /\ ~cancelRequested /\ ~expired
            \/ At("recheck")

StopWaiting ==
  /\ Deciding /\ (state \in Terminal \/ cancelRequested)
  /\ Exit
  /\ UNCHANGED <<state, frontier, budgets, ledger, counters, signals, gate, engine, client, history>>

Park ==
  /\ Deciding /\ ~cancelRequested /\ state = "paused"
  /\ GoTo("parked")
  /\ UNCHANGED <<state, frontier, budgets, ledger, counters, signals, gate, engine, client, history>>

Doze ==
  /\ Deciding /\ ~cancelRequested /\ state = "backing_off" /\ ~backoffOver
  /\ pc # "recheck" /\ GoTo("recheck")
  /\ UNCHANGED <<state, frontier, budgets, ledger, counters, signals, gate, engine, client, history>>

\* Faulty variants: a pause, or the backoff clock, is not waited for.
RunnableIfPaused ==
  /\ Deciding /\ ~cancelRequested
  /\ state \in {"running", "rotating", "paused"}
Runnable ==
  /\ Deciding /\ ~cancelRequested
  /\ state \in {"running", "rotating"} \/ (state = "backing_off" /\ backoffOver)

\* An expired backoff is turned into "running" before the queue is looked at.
Woken == IF state = "backing_off" THEN "running" ELSE state

OverBudget == Cardinality(budget) >= MaxPages /\ queue # <<>>
              /\ Head(queue).url \notin budget

PageLimit ==
  /\ Runnable /\ OverBudget
  /\ DropQueue /\ state' = Transition(Woken, "completed") /\ Exit
  /\ UNCHANGED <<budgets, ledger, counters, signals, gate, engine, client, history>>

Drained ==
  /\ Runnable /\ queue = <<>>
  /\ state' = Transition(Woken, "completed") /\ Exit
  /\ UNCHANGED <<frontier, budgets, ledger, counters, signals, gate, engine, client, history>>

TakePage ==
  /\ Runnable /\ queue # <<>> /\ ~OverBudget
  /\ state' = Woken
  /\ item' = Head(queue) /\ queue' = Tail(queue)
  /\ visited' = visited \union {Head(queue).url}
  /\ budget' = budget \union {Head(queue).url}
  /\ pc' = "gate" /\ armed' = TRUE /\ UNCHANGED <<why, hashKnown>>
  /\ UNCHANGED <<dropped, budgets, ledger, counters, signals, gate, engine, client, history>>

-----------------------------------------------------------------------------
(* Rotation and recovery of the engine. *)

\* _rotate_engine from the acquisition of the gate to the first await.
RotationRefused == state # "running" \/ cancelRequested

\* Faulty variant: the engine is stopped without announcing the rotation.
BeginUnannounced(reason) ==
  /\ gate = "free" /\ ~RotationRefused
  /\ gate' = "worker" /\ UNCHANGED state
  /\ why' = reason /\ hashKnown' = (engine # "none")
  /\ pc' = "rot_stop" /\ UNCHANGED <<item, armed>>

BeginRotation(reason) ==
  /\ gate = "free" /\ ~RotationRefused
  /\ gate' = "worker" /\ state' = "rotating"
  /\ why' = reason /\ hashKnown' = (engine # "none")
  /\ pc' = "rot_stop" /\ UNCHANGED <<item, armed>>

\* Faulty variants of RecoverySpent: the page is retried although it was
\* recorded; the attempt counter is compared with the wrong bound.
RecoverySpentRetried ==
  /\ recoveryAttempts >= 1
  /\ RecordFailed /\ To("failed") /\ EndPage /\ RequeueFront
  /\ history' = history \union {"died_twice"}
  /\ UNCHANGED <<counters, gate>>
\* _recover_engine.  The attempt is consumed before _rotate_engine decides
\* whether it may run at all.
RecoverySpent ==
  /\ recoveryAttempts >= 1
  /\ RecordFailed /\ To("failed") /\ EndPage
  /\ history' = history \union {"died_twice"}
  /\ UNCHANGED <<frontier, counters, gate>>

RecoveryRefused ==
  /\ recoveryAttempts = 0 /\ RotationRefused /\ gate = "free"
  /\ recoveryAttempts' = 1
  /\ IF cancelRequested THEN UNCHANGED frontier ELSE RequeueFront
  /\ EndPage
  /\ UNCHANGED <<state, ledger, sinceRotation, rotations, gate, history>>

RecoveryBegins ==
  /\ recoveryAttempts = 0
  /\ BeginRotation("recovery")
  /\ recoveryAttempts' = 1
  /\ history' = history \union {"restarted"}
  /\ UNCHANGED <<frontier, ledger, sinceRotation, rotations>>

Recover == RecoverySpent \/ RecoveryRefused \/ RecoveryBegins

\* A probe of a live engine may still time out or report "degraded".
LooksDead == engine = "dead" \/ (engine = "alive" /\ "degraded" \in Faults)

\* browser_stop has answered.  An engine that refuses to stop and looks dead is left
\* to browser_start; a stop seen in between ends the rotation there.
RotationStopped ==
  /\ At("rot_stop")
  /\ engine' \in {"none"} \union (IF LooksDead THEN {engine} ELSE {})
  /\ IF cancelRequested
       THEN EndPage /\ gate' = "free"
       ELSE GoTo("rot_start") /\ UNCHANGED gate
  /\ UNCHANGED <<state, frontier, budgets, ledger, counters, signals, client, history>>

RotationStopRefused ==
  /\ At("rot_stop") /\ engine = "alive"
  /\ To("failed") /\ EndPage /\ gate' = "free"
  /\ UNCHANGED <<frontier, budgets, ledger, counters, signals, engine, client, history>>

\* browser_start has answered with an engine of another identity hash.
RotationStarted ==
  /\ At("rot_start") /\ hashKnown
  /\ engine' = "alive"
  /\ IF cancelRequested
       THEN GoTo("rot_undo") /\ UNCHANGED <<state, frontier, counters, gate>>
       ELSE /\ rotations' = rotations + 1 /\ sinceRotation' = 0
            /\ UNCHANGED recoveryAttempts
            /\ To("running") /\ gate' = "free" /\ EndPage
            /\ IF why = "recovery" THEN RequeueFront ELSE UNCHANGED frontier
  /\ UNCHANGED <<budgets, ledger, signals, client, history>>

\* browser_start failed, or the engine it started reports an unchanged (or
\* incomparable) identity hash and is left running.
RotationStartFailed ==
  /\ At("rot_start")
  /\ engine' \in {"none", "alive", engine}
  /\ To("failed") /\ EndPage /\ gate' = "free"
  /\ UNCHANGED <<frontier, budgets, ledger, counters, signals, client, history>>

\* A stop request seen after the boot: the new engine is stopped again.
RotationUndone ==
  /\ At("rot_undo")
  /\ engine' \in {"none", engine}
  /\ EndPage /\ gate' = "free"
  /\ UNCHANGED <<state, frontier, budgets, ledger, counters, signals, client, history>>

-----------------------------------------------------------------------------
(* One page: _engine_gate, then the three tool calls of _process_url. *)

GateOpens ==
  /\ At("gate") /\ engine = "alive"
  /\ GoTo("navigate")
  /\ UNCHANGED <<state, frontier, budgets, ledger, counters, signals, gate, engine, client, history>>

\* The engine was stopped, or the crawl tab is gone.
GateFails ==
  /\ At("gate") /\ engine # "dead"
  /\ RecordFailed /\ To("failed") /\ EndPage
  /\ UNCHANGED <<frontier, budgets, counters, signals, gate, engine, client, history>>

GateRecovers ==
  /\ At("gate") /\ LooksDead
  /\ Recover
  /\ UNCHANGED <<budgets, signals, engine, client>>

ToolCall == {"navigate", "challenge", "extract"}

ToolSucceeds ==
  /\ ~killed /\ engine = "alive"
  /\ \/ pc = "navigate" /\ GoTo("challenge")
     \/ pc = "challenge" /\ GoTo("extract")
  /\ UNCHANGED <<state, frontier, budgets, ledger, counters, signals, gate, engine, client, history>>

\* An error that _looks_like_engine_failure: probe before blaming the page.
ToolSuspectsEngine ==
  /\ ~killed /\ pc \in ToolCall /\ engine # "none"
  /\ GoTo("probe")
  /\ UNCHANGED <<state, frontier, budgets, ledger, counters, signals, gate, engine, client, history>>

\* An ordinary page failure.  _mirage_eval_result hands the "engine is dead"
\* answer to its caller as a dict, so a death seen by the challenge probe or by
\* the extraction is classified here; navigate reports it as a failure code.
ToolBlamesPage ==
  /\ ~killed /\ pc \in ToolCall
  /\ pc = "navigate" => engine # "dead"
  /\ RecordFailed /\ EndPage
  /\ history' = IF engine = "dead" /\ recoveryAttempts = 0
                THEN history \union {"crash_blamed_on_page"} ELSE history
  /\ UNCHANGED <<state, frontier, budgets, counters, signals, gate, engine, client>>

\* ensure_page raises inside a tool: the healer may have stopped the engine,
\* and _run_job ends with internal_error.
ToolRaises ==
  /\ "tool_raise" \in Faults
  /\ ~killed /\ pc \in ToolCall
  /\ engine' \in {engine, "none"}
  /\ To("failed") /\ Exit
  /\ UNCHANGED <<frontier, budgets, ledger, counters, signals, gate, client, history>>

Captcha ==
  /\ At("challenge") /\ engine = "alive"
  /\ challenges' = [challenges EXCEPT ![item.url] = @ + 1]
  /\ UNCHANGED backoffs
  /\ IF challenges[item.url] + 1 > ChallengeRetries
       THEN RecordFailed /\ UNCHANGED <<state, frontier, resumeEvent, history>>
       ELSE /\ RequeueFront
            /\ resumeEvent' = FALSE
            /\ To("paused")
            /\ history' = history \union {"held"}
            /\ UNCHANGED ledger
  /\ EndPage
  /\ UNCHANGED <<counters, cancelRequested, backoffOver, expired, gate, engine, client>>

\* Faulty variant: the backoff attempts are not counted.
RateLimitedForever ==
  /\ At("challenge") /\ engine = "alive"
  /\ backoffOver' = FALSE /\ To("backing_off") /\ RequeueFront /\ EndPage
  /\ UNCHANGED <<budgets, ledger, counters, cancelRequested, resumeEvent, expired, gate, engine,
                 client, history>>

RateLimited ==
  /\ At("challenge") /\ engine = "alive"
  /\ backoffs' = [backoffs EXCEPT ![item.url] = @ + 1]
  /\ UNCHANGED challenges
  /\ IF backoffs[item.url] + 1 > BackoffRetries
       THEN RecordFailed /\ UNCHANGED <<state, frontier, backoffOver>>
       ELSE /\ backoffOver' = FALSE
            /\ To("backing_off")
            /\ RequeueFront
            /\ UNCHANGED ledger
  /\ EndPage
  /\ UNCHANGED <<counters, cancelRequested, resumeEvent, expired, gate, engine, client, history>>

\* The page is in the ledger.  Afterwards, and only if there is work left, the
\* engine may be due for rotation: by page count, or because time has passed.
Extracted ==
  /\ At("extract") /\ engine = "alive"
  /\ \E links \in SUBSET Url : EnqueueLinks(links)
  /\ RecordSuccess
  /\ sinceRotation' = sinceRotation + 1
  /\ \/ /\ queue' # <<>> /\ ~RotationRefused
        /\ BeginRotation("rotation")
     \/ /\ queue' = <<>> \/ RotationRefused \/ sinceRotation' < RotationEvery
        /\ EndPage /\ UNCHANGED <<state, gate>>
  /\ UNCHANGED <<budgets, rotations, recoveryAttempts, signals, engine, client, history>>

\* _recover_failed_page, after the health probe has answered.
ProbeAlive ==
  /\ At("probe") /\ engine = "alive"
  /\ RecordFailed /\ EndPage
  /\ UNCHANGED <<state, frontier, budgets, counters, signals, gate, engine, client, history>>

ProbeDead ==
  /\ At("probe") /\ (engine = "none" \/ LooksDead)
  /\ IF cancelRequested
       THEN EndPage /\ UNCHANGED <<state, frontier, ledger, counters, gate, history>>
       ELSE Recover
  /\ UNCHANGED <<budgets, signals, engine, client>>

\* asyncio.wait_for cancels _process_url at its current await.  An engine being
\* stopped is reaped but stays referenced; an engine being started is torn
\* down, unless it was already published.
PageTimeout ==
  /\ ~killed /\ armed
  /\ pc \in ToolCall \union {"gate", "probe"}
     \/ ("slow_rotation" \in Faults /\ pc \in {"rot_stop", "rot_start", "rot_undo"})
  /\ engine' \in CASE pc \in {"rot_stop", "rot_undo"} /\ engine # "none" -> {engine, "dead"}
                   [] pc = "rot_start" -> {engine, "none", "alive"}
                   [] OTHER -> {engine}
  /\ gate' = IF gate = "worker" THEN "free" ELSE gate
  /\ pc' = "probe" /\ armed' = FALSE /\ UNCHANGED <<item, why, hashKnown>>
  /\ UNCHANGED <<state, frontier, budgets, ledger, counters, signals, client, history>>

\* CancelledError reaches the worker at its next resumption.
WorkerCancelled ==
  /\ killed /\ pc # "done"
  /\ To("cancelled") /\ Exit
  /\ UNCHANGED <<frontier, budgets, ledger, counters, signals, gate, engine, client, history>>

-----------------------------------------------------------------------------
(* The tools of the client, and the environment. *)

\* crawl_pause clears the event before it knows whether the pause is allowed.
Pause ==
  /\ state \notin Terminal \union {"paused"} /\ pauses < MaxPauses
  /\ resumeEvent' = FALSE
  /\ To("paused")
  /\ pauses' = pauses + 1
  /\ UNCHANGED <<frontier, budgets, ledger, counters, cancelRequested, backoffOver,
                 expired, gate, engine, worker, killed, stopper, history>>

Resume ==
  /\ state = "paused"
  /\ To("running") /\ SetResume
  /\ history' = history \ {"held"}
  /\ UNCHANGED <<frontier, budgets, ledger, counters, cancelRequested, backoffOver,
                 expired, gate, engine, item, armed, why, hashKnown, client>>

\* With the gate in hand, crawl_stop publishes the terminal state and cancels
\* the worker task, if it still runs.
CancelJob ==
  /\ gate' = "stopper" /\ stopper' = "task"
  /\ To("cancelled")
  /\ killed' = (pc # "done")

\* One crawl_stop runs at a time: a second one would set what is set already, and wait as the first does.
StopCalled ==
  /\ stopper = "idle" /\ state \notin Terminal
  /\ cancelRequested' = TRUE /\ SetResume
  /\ \/ gate = "free" /\ CancelJob
     \/ /\ gate # "free" /\ stopper' = "gate"
        /\ UNCHANGED <<state, gate, killed>>
  /\ UNCHANGED <<frontier, budgets, ledger, counters, backoffOver, expired, engine,
                 item, armed, why, hashKnown, pauses, history>>

StopGetsGate ==
  /\ stopper = "gate" /\ gate = "free"
  /\ \/ state \notin Terminal /\ CancelJob
     \/ state \in Terminal /\ stopper' = "idle" /\ UNCHANGED <<state, gate, killed>>
  /\ UNCHANGED <<frontier, budgets, ledger, counters, signals, engine, worker, pauses, history>>

\* rotation_in_progress after _ROTATION_GATE_TIMEOUT; the request stays set.
StopTimesOut ==
  /\ stopper = "gate" /\ gate # "free"
  /\ stopper' = "idle"
  /\ UNCHANGED <<state, frontier, budgets, ledger, counters, signals, gate, engine,
                 worker, killed, pauses, history>>

\* The worker has ended, or ten seconds have passed.
StopReturns ==
  /\ stopper = "task"
  /\ stopper' = "idle" /\ gate' = "free"
  /\ UNCHANGED <<state, frontier, budgets, ledger, counters, signals, engine, worker,
                 killed, pauses, history>>

BackoffExpires ==
  /\ ~backoffOver /\ backoffOver' = TRUE
  /\ UNCHANGED <<state, frontier, budgets, ledger, counters, cancelRequested, resumeEvent,
                 expired, gate, engine, worker, client, history>>

DurationElapses ==
  /\ "duration" \in Faults /\ ~expired /\ expired' = TRUE
  /\ UNCHANGED <<state, frontier, budgets, ledger, counters, cancelRequested, resumeEvent,
                 backoffOver, gate, engine, worker, client, history>>

EngineDies ==
  /\ "engine_death" \in Faults
  /\ engine = "alive" /\ engine' = "dead"
  /\ UNCHANGED <<state, frontier, budgets, ledger, counters, signals, gate, worker,
                 client, history>>

UserStopsBrowser ==
  /\ "user_browser" \in Faults
  /\ engine # "none" /\ engine' = "none"
  /\ UNCHANGED <<state, frontier, budgets, ledger, counters, signals, gate, worker,
                 client, history>>

UserStartsBrowser ==
  /\ "user_browser" \in Faults
  /\ engine # "alive" /\ engine' = "alive"
  /\ UNCHANGED <<state, frontier, budgets, ledger, counters, signals, gate, worker,
                 client, history>>

-----------------------------------------------------------------------------
Loop == \/ LoopCancelled \/ LoopExpired \/ StopWaiting \/ Park \/ Doze
        \/ PageLimit \/ Drained \/ TakePage
Rotation == \/ RotationStopped \/ RotationStopRefused
            \/ RotationStarted \/ RotationStartFailed \/ RotationUndone
Page == \/ GateOpens \/ GateFails \/ GateRecovers
        \/ ToolSucceeds \/ ToolSuspectsEngine \/ ToolBlamesPage \/ ToolRaises
        \/ Captcha \/ RateLimited \/ Extracted \/ ProbeAlive \/ ProbeDead
Worker == Loop \/ Rotation \/ Page \/ WorkerCancelled
Stopper == StopGetsGate \/ StopReturns
Client == Pause \/ Resume \/ StopCalled \/ Stopper \/ StopTimesOut
Environment == \/ PageTimeout \/ BackoffExpires \/ DurationElapses
               \/ EngineDies \/ UserStopsBrowser \/ UserStartsBrowser

Next == Worker \/ Client \/ Environment

Spec == Init /\ [][Next]_vars

\* Every await of the worker and of crawl_stop is bounded by a timeout, and the
\* backoff clock advances.  Nothing obliges the client to call a tool.
Fairness == WF_vars(Worker) /\ WF_vars(Stopper) /\ WF_vars(BackoffExpires)
FairSpec == Spec /\ Fairness

-----------------------------------------------------------------------------
(* Properties. *)

States == DOMAIN Allowed
PCs == {"loop", "parked", "recheck", "gate", "navigate", "challenge", "extract",
        "probe", "rot_stop", "rot_start", "rot_undo", "done"}
InPage == {"gate", "navigate", "challenge", "extract"}
Rotating == {"rot_stop", "rot_start", "rot_undo"}

FrontierTypes ==
  /\ queue \in Seq(Item)
  /\ visited \in SUBSET Url /\ budget \in SUBSET Url /\ dropped \in SUBSET Url

LedgerTypes ==
  /\ backoffs \in [Url -> Nat] /\ challenges \in [Url -> Nat]
  /\ succeeded \in [Url -> Nat] /\ failed \in [Url -> Nat]
  /\ sinceRotation \in Nat /\ rotations \in Nat /\ recoveryAttempts \in {0, 1}

WorkerTypes ==
  /\ pc \in PCs /\ item \in Item \union {NoItem}
  /\ armed \in BOOLEAN /\ why \in {"rotation", "recovery"} /\ hashKnown \in BOOLEAN
  /\ engine \in {"alive", "dead", "none"}

JobTypes ==
  /\ state \in States
  /\ cancelRequested \in BOOLEAN /\ resumeEvent \in BOOLEAN
  /\ backoffOver \in BOOLEAN /\ expired \in BOOLEAN
  /\ gate \in {"free", "worker", "stopper"}
  /\ killed \in BOOLEAN /\ stopper \in {"idle", "gate", "task"} /\ pauses \in Nat
  /\ history \subseteq {"held", "restarted", "died_twice", "crash_blamed_on_page"}

\* Every field of the job has the type the constructor gives it; in particular
\* the queue holds pages within maxDepth and at most one recovery is counted.
TypeOK == FrontierTypes /\ LedgerTypes /\ WorkerTypes /\ JobTypes

\* A paused job has its resume event cleared.  Event.wait() on a set event
\* returns without suspending, so a worker that found the job paused with the
\* event set would spin in _wait_runnable and block the whole server.
PausedIsParked == state = "paused" => ~resumeEvent

\* The frontier never offers a page twice: queued URLs are distinct, none of
\* them is visited, and the queue respects _MAX_QUEUE.
FrontierSound ==
  /\ \A i, j \in DOMAIN queue : queue[i].url = queue[j].url => i = j
  /\ QueuedUrls \intersect visited = {}
  /\ Len(queue) <= MaxQueue

\* A page that was started before and must be tried again is at the head of
\* the queue, so a retry is never overtaken, never dropped by the page limit,
\* and never separated from its attempt by a rotation of the identity.
RetryAtHead == \A i \in DOMAIN queue : i # 1 => queue[i].url \notin budget

\* pages_fetched never exceeds maxPages, however often pages are retried.
PageBudget == Cardinality(budget) <= MaxPages

\* Between pages, every visited URL of a live job has been answered in the
\* result ledger: no page is lost by a retry, a recovery or a rotation, not
\* even by a retry that finds the queue full.
PagesAccountedFor ==
  (pc \in {"loop", "parked", "recheck"} /\ state \notin Terminal /\ ~cancelRequested)
    => \A u \in visited : succeeded[u] + failed[u] > 0

\* The frontier loses no page and offers none twice, and the page budget, retries
\* and recoveries included, is what the client set (_enqueue, _requeue_front).
FrontierKept == FrontierSound /\ RetryAtHead /\ PageBudget /\ PagesAccountedFor

\* No URL gets two final results: a page recorded as fetched or failed is not
\* fetched or failed again.
OneResultPerPage == \A u \in Url : succeeded[u] + failed[u] <= 1

\* The rotation gate is held by the worker exactly while it stops and starts
\* the engine, and then the job says so; a stop that owns the gate therefore
\* never meets a half-rotated engine.
GateMatchesRotation ==
  /\ (gate = "worker") <=> (pc \in Rotating)
  /\ gate = "worker" => state = "rotating" /\ ~killed

\* Whoever waits is let through in time: a paused worker parks, and the gate of
\* _rotate_engine is held exactly by a rotation, which nothing interrupts.
WaitsAreSafe == PausedIsParked /\ GateMatchesRotation

\* The worker never ends and leaves the job in a state nobody will ever move:
\* a returned task means a terminal job.
EndedMeansTerminal == pc = "done" => state \in Terminal

\* After a CAPTCHA or access-denied page no page is requested until the client
\* resumes the job.
HeldUntilResumed == "held" \in history => pc \notin InPage

\* After a rate limit no page is requested before the backoff has elapsed, unless a
\* client that paused and resumed the job has cut it short.
BackoffHonoured == (pc = "gate" /\ pauses = 0) => backoffOver

\* "Engine died twice" is only reported of a job nobody paused when the one recovery
\* restart was really performed.  (A paused job spends its attempt on a rotation
\* that declines to run.)
DiedTwiceIsTrue == ("died_twice" \in history /\ pauses = 0) => "restarted" \in history

\* A site is left alone as long as it asks for: after a CAPTCHA until the client
\* resumes the job, after a rate limit until the backoff has elapsed or a client has
\* paused and resumed the job.
SiteRespected == HeldUntilResumed /\ BackoffHonoured

\* What the job reports is true: one result per page, a worker that is done means
\* a job that has ended, and an engine that died twice was restarted in between (unless the job was paused).
ReportsTrue == OneResultPerPage /\ EndedMeansTerminal /\ DiedTwiceIsTrue

\* A page is not recorded as failed because the engine crashed under it while
\* the recovery restart is still available.
CrashGetsItsRetry == "crash_blamed_on_page" \notin history

\* A finished job is finished: its state and its results never change again,
\* whatever the worker was doing when it was stopped.
FinishedIsFrozen ==
  [][(state \in Terminal) => (UNCHANGED state /\ UNCHANGED ledger)]_vars

\* A URL that was ever queued is queued, visited or counted as dropped from
\* then on, through retries, page limits and the duration limit.
NoUrlForgotten ==
  [][QueuedUrls \union visited \union dropped
       \subseteq (QueuedUrls \union visited \union dropped)']_vars

\* What is on record stands: no URL is forgotten by a page limit, a duration limit
\* or a retry, and a finished job is not touched by the worker it stopped.
RecordsStand == NoUrlForgotten /\ FinishedIsFrozen

\* A rotation that is not a recovery starts only when no page still waits for
\* a rate limit or a challenge to clear: a new identity is never put between a
\* challenge and its retry.
RotationNeverEvades ==
  [][(pc # "rot_stop" /\ pc' = "rot_stop" /\ why' = "rotation")
       => \A u \in UrlsOf(queue') : backoffs[u] = 0 /\ challenges[u] = 0]_vars

\* A stop request ends the job, also when it arrives in the middle of a
\* rotation and gives up waiting for it.
StopEndsJob == cancelRequested ~> (state \in Terminal)

\* Left alone, a crawl comes to rest: the retry budgets, the page budget and
\* the single recovery leave only a terminal state or a pause that waits for
\* the client.
CrawlSettles == <>[](state \in Terminal \/ state = "paused")
=============================================================================
