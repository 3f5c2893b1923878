-------------------------- MODULE EngineLifecycle --------------------------
(***************************************************************************)
(* Who starts, replaces and stops the browser: kahin_browser_start and     *)
(* kahin_browser_stop (tools/pilot.py), the promotion of a Shadow session  *)
(* to Camoufox (tools/_common.py), the healer's RESTART_ENGINE             *)
(* (_healer.py), the death callback (oracle.py) and the two locks of       *)
(* _state.py, in several MCP server processes on one machine.              *)
(*                                                                         *)
(* An action is the code of a tool call from one suspension point to the   *)
(* next.  Taking a free asyncio.Lock does not suspend, and nothing a call  *)
(* reads before it holds the lifecycle lock is used afterwards, so a call  *)
(* that waits for the lock is one that has not begun.  pc names the point: *)
(*   probe     browser_start awaits the health of the current Mirage       *)
(*   boot      candidate.start()           page   the first ensure_page()  *)
(*   snapshot  reading the Shadow page     takeover  the Camoufox that is  *)
(*             to replace it starts        handoff  the page moves to it   *)
(*   drain     a stop() has cancelled the engine's reader                  *)
(*   exit      a stop() has told the browser process to end and awaits it  *)
(***************************************************************************)
EXTENDS FiniteSets

CONSTANTS
  Procs,    \* MCP server processes
  Calls,    \* tool calls: each runs one tool after another
  Home,     \* the process a call runs in
  Engines,  \* engine objects; bounds the number of starts
  Kinds,    \* engines a client asks for, a subset of AllKinds
  Tools,    \* tools the clients use, a subset of AllTools
  Faults,   \* what the environment may do, a subset of AllFaults
  None

AllKinds  == {"shadow", "mirage"}
AllTools  == {"start", "stop", "promote", "heal"}
\* crash: a browser process ends; transport: the reader fails under a running
\* process; refuse: stop() raises before it reaches the process; slow: a
\* process outlives the time a stop gives it; cancel: the client withdraws a
\* call that runs.
AllFaults == {"crash", "transport", "refuse", "slow", "cancel"}

\* Why a call stops an engine.
Reasons == {"reap", "stop", "abort", "unpublish", "heal", "replace", "abandon"}

ASSUME HomeAssumption  == Home \in [Calls -> Procs]
ASSUME NoneAssumption  == None \notin Procs \cup Calls \cup Engines \cup AllKinds \cup Reasons
ASSUME ScopeAssumption == Kinds \subseteq AllKinds /\ Tools \subseteq AllTools /\ Faults \subseteq AllFaults

VARIABLES
  slot,       \* the process that holds the machine's lock file, or None
  current,    \* per process: state._current_engine
  bound,      \* per process: the healer's _engine_ref
  lifecycle,  \* per process: the call that holds state._lifecycle_lock
  engine,     \* the engine objects and their operating system processes
  pc,         \* per call: where it is suspended
  target,     \* per call: the engine it probes, reads or stops
  candidate,  \* per call: the engine it is starting
  reason,     \* per call: why it stops its target
  want        \* per call: the kind of engine browser_start was asked for

vars == <<slot, current, bound, lifecycle, engine, pc, target, candidate, reason, want>>

Points  == {"idle", "probe", "boot", "page", "snapshot", "takeover", "handoff", "drain", "exit"}

\* os: hollow is a sidecar whose Firefox is gone.  handle: _process is set.
\* watched: the death callback is registered.  preserve: _preserve_state_on_stop.
EngineState ==
  [kind: AllKinds \cup {None}, home: Procs \cup {None},
   os: {"absent", "running", "hollow", "gone"},
   reader: {"none", "running", "cancelled", "ended"},
   dead: BOOLEAN, stopping: BOOLEAN, handle: BOOLEAN, watched: BOOLEAN, preserve: BOOLEAN]

Unborn == [kind |-> None, home |-> None, os |-> "absent", reader |-> "none", dead |-> FALSE,
           stopping |-> FALSE, handle |-> FALSE, watched |-> FALSE, preserve |-> FALSE]

\* Faulty variant: the process starts before the engine says whose it is.
StartedNameless(k, p) == [Unborn EXCEPT !.kind = k, !.os = "running",
                                        !.reader = "running", !.handle = TRUE]

Started(k, p) == [Unborn EXCEPT !.kind = k, !.home = p, !.os = "running",
                                !.reader = "running", !.handle = TRUE]

Init ==
  /\ slot = None
  /\ current = [p \in Procs |-> None]
  /\ bound = [p \in Procs |-> None]
  /\ lifecycle = [p \in Procs |-> None]
  /\ engine = [e \in Engines |-> Unborn]
  /\ pc = [c \in Calls |-> "idle"]
  /\ target = [c \in Calls |-> None]
  /\ candidate = [c \in Calls |-> None]
  /\ reason = [c \in Calls |-> None]
  /\ want = [c \in Calls |-> None]

-----------------------------------------------------------------------------
(* Engines, and what everybody does to them *)

Running(e) == engine[e].os \in {"running", "hollow"}

\* is_alive(): the transport is up and the process has not exited.
IsAlive(e) == ~engine[e].dead /\ engine[e].handle /\ Running(e)

\* release_browser_lock(): a process gives back only the lock it holds.
Released(p) == IF slot = p THEN None ELSE slot

\* Faulty variant: the lock file is not looked at.
SlotFreeUnchecked(p) == slot \in Procs \cup {None}

\* acquire_browser_lock() succeeds: the lock is ours already, or free.
SlotFree(p) == slot \in {None, p}

\* _mark_dead() runs the death callback, once, and only if it is registered.
\* _on_engine_death() gives the machine lock back unless the engine is no
\* longer current, is being replaced, or is being stopped.
SlotAfterDeath(e) ==
  LET p == engine[e].home IN
  IF /\ ~engine[e].dead
     /\ engine[e].watched
     /\ current[p] = e
     /\ ~engine[e].preserve
     /\ ~engine[e].stopping
  THEN Released(p) ELSE slot

\* The first lines of stop(): mark the engine and cancel its reader.
Cancelled(r) ==
  [r EXCEPT !.stopping = TRUE, !.reader = IF @ = "running" THEN "cancelled" ELSE @]

\* Call c suspends in stop() of engine e, which E describes.
StopBegins(c, e, why, E) ==
  /\ engine' = [engine EXCEPT ![e] = Cancelled(E)]
  /\ pc' = [pc EXCEPT ![c] = "drain"]
  /\ target' = [target EXCEPT ![c] = e]
  /\ reason' = [reason EXCEPT ![c] = why]

\* Call c returns; if it holds the lifecycle lock it lets it go.
Returns(c) ==
  /\ pc' = [pc EXCEPT ![c] = "idle"]
  /\ target' = [target EXCEPT ![c] = None]
  /\ candidate' = [candidate EXCEPT ![c] = None]
  /\ reason' = [reason EXCEPT ![c] = None]
  /\ want' = [want EXCEPT ![c] = None]
  /\ lifecycle' = [p \in Procs |-> IF lifecycle[p] = c THEN None ELSE lifecycle[p]]

\* Call c can take the lifecycle lock of its process.
Enters(c) == pc[c] = "idle" /\ lifecycle[Home[c]] = None

\* Nothing refers to e any more: its name can stand for another object.
Unused(e) ==
  \/ engine[e].kind = None
  \/ /\ engine[e].os = "gone"
     /\ engine[e].reader = "ended"
     /\ \A p \in Procs : e \notin {current[p], bound[p]}
     /\ \A c \in Calls : e \notin {target[c], candidate[c]}

\* Call c suspends in start() of a new engine of kind k, whose process runs.
Boots(c, k, point) ==
  \E e \in Engines :
    /\ Unused(e)
    /\ engine' = [engine EXCEPT ![e] = Started(k, Home[c])]
    /\ candidate' = [candidate EXCEPT ![c] = e]
    /\ pc' = [pc EXCEPT ![c] = point]

-----------------------------------------------------------------------------
(* kahin_browser_start *)

\* No engine: claim the machine lock and boot a candidate in one step.
StartFresh(c, k) ==
  LET p == Home[c] IN
  /\ "start" \in Tools
  /\ Enters(c)
  /\ current[p] = None
  /\ SlotFree(p)
  /\ slot' = p
  /\ lifecycle' = [lifecycle EXCEPT ![p] = c]
  /\ Boots(c, k, "boot")
  /\ UNCHANGED <<current, bound, target, reason, want>>

\* An engine is current: a Mirage is asked for its health, a Shadow is looked
\* at.  A live Shadow is reused, or refused to another kind: nothing changes.
StartOverEngine(c, k) ==
  LET p == Home[c]
      e == current[p] IN
  /\ "start" \in Tools
  /\ Enters(c)
  /\ e # None
  /\ lifecycle' = [lifecycle EXCEPT ![p] = c]
  /\ want' = [want EXCEPT ![c] = k]
  /\ \/ /\ engine[e].kind = "mirage"
        /\ pc' = [pc EXCEPT ![c] = "probe"]
        /\ target' = [target EXCEPT ![c] = e]
        /\ UNCHANGED <<engine, reason>>
     \/ /\ engine[e].kind = "shadow"
        /\ ~IsAlive(e)
        /\ StopBegins(c, e, "reap", engine[e])
  /\ UNCHANGED <<slot, current, bound, candidate>>

\* The current Mirage answers, or its health is unknown while the process is
\* up: it is reused.
ProbeFindsAlive(c) ==
  /\ pc[c] = "probe"
  /\ IsAlive(target[c])
  /\ Returns(c)
  /\ UNCHANGED <<slot, current, bound, engine>>

\* health() finds the process or its Firefox gone; it marks the engine dead
\* unless is_alive() had already said so.  The engine is reaped.
ProbeFindsDead(c) ==
  LET e == target[c] IN
  /\ pc[c] = "probe"
  /\ \/ /\ ~IsAlive(e)
        /\ StopBegins(c, e, "reap", engine[e])
        /\ UNCHANGED slot
     \/ /\ ~IsAlive(e) \/ engine[e].os = "hollow"
        /\ StopBegins(c, e, "reap", [engine[e] EXCEPT !.dead = TRUE])
        /\ slot' = SlotAfterDeath(e)
  /\ UNCHANGED <<current, bound, lifecycle, candidate, want>>

\* start() fails, times out or is cancelled: the candidate is stopped.
BootFails(c) ==
  /\ pc[c] = "boot"
  /\ StopBegins(c, candidate[c], "abort", engine[candidate[c]])
  /\ UNCHANGED <<slot, current, bound, lifecycle, candidate, want>>

\* Boot validation passed: publish the engine and register the callbacks.  A
\* Mirage then still owes its first page.  An engine that its reader calls dead just
\* before this is taken to have failed its boot; the code publishes it dead.
BootDone(c) ==
  LET p == Home[c]
      e == candidate[c] IN
  /\ pc[c] = "boot"
  /\ engine[e].os = "running"
  /\ ~engine[e].dead
  /\ current' = [current EXCEPT ![p] = e]
  /\ bound' = [bound EXCEPT ![p] = e]
  /\ engine' = [engine EXCEPT ![e].watched = TRUE]
  /\ \/ /\ engine[e].kind = "mirage"
        /\ pc' = [pc EXCEPT ![c] = "page"]
        /\ UNCHANGED <<lifecycle, target, candidate, reason, want>>
     \/ /\ engine[e].kind = "shadow"
        /\ Returns(c)
  /\ UNCHANGED slot

PageReady(c) ==
  /\ pc[c] = "page"
  /\ ~engine[candidate[c]].dead
  /\ Returns(c)
  /\ UNCHANGED <<slot, current, bound, engine>>

\* The first page fails: withdraw the engine and stop it.
PageFails(c) ==
  /\ pc[c] = "page"
  /\ current' = [current EXCEPT ![Home[c]] = None]
  /\ StopBegins(c, candidate[c], "unpublish", engine[candidate[c]])
  /\ UNCHANGED <<slot, bound, lifecycle, candidate, want>>

-----------------------------------------------------------------------------
(* kahin_browser_stop, the healer's RESTART_ENGINE, the promotion *)

BrowserStop(c) ==
  LET p == Home[c]
      e == current[p] IN
  /\ "stop" \in Tools
  /\ Enters(c)
  /\ \/ /\ e = None
        /\ bound' = [bound EXCEPT ![p] = None]
        /\ UNCHANGED <<lifecycle, engine, pc, target, reason>>
     \/ /\ e # None
        /\ lifecycle' = [lifecycle EXCEPT ![p] = c]
        /\ StopBegins(c, e, "stop", engine[e])
        /\ UNCHANGED bound
  /\ UNCHANGED <<slot, current, candidate, want>>

\* A tool call on the engine ends with a timeout or a lost connection, and
\* Healer.safe stops the engine without taking the lifecycle lock.  The healer that
\* browser_start itself runs under, lock in hand, is left out.
HealerRestarts(c) ==
  LET p == Home[c]
      e == IF bound[p] # None THEN bound[p] ELSE current[p] IN
  /\ "heal" \in Tools
  /\ pc[c] = "idle"
  /\ e # None
  /\ StopBegins(c, e, "heal", engine[e])
  /\ UNCHANGED <<slot, current, bound, lifecycle, candidate, want>>

\* A visual tool meets a Shadow session: read the page it shows.
Promote(c) ==
  LET p == Home[c]
      e == current[p] IN
  /\ "promote" \in Tools
  /\ Enters(c)
  /\ e # None
  /\ engine[e].kind = "shadow"
  /\ lifecycle' = [lifecycle EXCEPT ![p] = c]
  /\ pc' = [pc EXCEPT ![c] = "snapshot"]
  /\ target' = [target EXCEPT ![c] = e]
  /\ UNCHANGED <<slot, current, bound, engine, candidate, reason, want>>

SnapshotFails(c) ==
  /\ pc[c] = "snapshot"
  /\ Returns(c)
  /\ UNCHANGED <<slot, current, bound, engine>>

\* The Camoufox that takes over is started under the machine lock as it is.
SnapshotTaken(c) ==
  /\ pc[c] = "snapshot"
  /\ ~engine[target[c]].dead
  /\ Boots(c, "mirage", "takeover")
  /\ UNCHANGED <<slot, current, bound, lifecycle, target, reason, want>>

TakeoverBooted(c) ==
  LET e == candidate[c] IN
  /\ pc[c] = "takeover"
  /\ engine[e].os = "running"
  /\ ~engine[e].dead
  /\ engine' = [engine EXCEPT ![e].watched = TRUE]
  /\ pc' = [pc EXCEPT ![c] = "handoff"]
  /\ UNCHANGED <<slot, current, bound, lifecycle, target, candidate, reason, want>>

\* The start or the handoff fails or is cancelled: Shadow stays.
TakeoverFails(c) ==
  /\ pc[c] \in {"takeover", "handoff"}
  /\ StopBegins(c, candidate[c], "abandon", engine[candidate[c]])
  /\ UNCHANGED <<slot, current, bound, lifecycle, candidate, want>>

\* Camoufox shows the page: Shadow is stopped before Camoufox is published.
HandoffDone(c) ==
  LET e == target[c] IN
  /\ pc[c] = "handoff"
  /\ ~engine[candidate[c]].dead
  /\ StopBegins(c, e, "replace", [engine[e] EXCEPT !.preserve = TRUE])
  /\ UNCHANGED <<slot, current, bound, lifecycle, candidate, want>>

-----------------------------------------------------------------------------
(* What follows a stop() that returned (ok) or raised                       *)

\* browser_start dropped a dead engine, or keeps it if it could not.
ReapEnds(c, ok) ==
  LET p == Home[c] IN
  /\ reason[c] = "reap"
  /\ current' = IF ok THEN [current EXCEPT ![p] = None] ELSE current
  /\ bound' = IF ok THEN [bound EXCEPT ![p] = None] ELSE bound
  /\ \/ /\ ok /\ SlotFree(p)
        /\ slot' = p
        /\ Boots(c, want[c], "boot")
        /\ target' = [target EXCEPT ![c] = None]
        /\ reason' = [reason EXCEPT ![c] = None]
        /\ UNCHANGED <<lifecycle, want>>
     \/ /\ ~(ok /\ SlotFree(p))
        /\ Returns(c)
        /\ UNCHANGED <<slot, engine>>

\* Faulty variant: a failed start is tried again in the same call.
AbortRetries(c, ok) ==
  /\ reason[c] \in {"abort", "unpublish"}
  /\ Boots(c, engine[candidate[c]].kind, "boot")
  /\ target' = [target EXCEPT ![c] = None]
  /\ reason' = [reason EXCEPT ![c] = None]
  /\ UNCHANGED <<slot, current, bound, lifecycle, want>>

\* A failed start gives the machine lock back, whatever the cleanup did.
AbortEnds(c, ok) ==
  LET p == Home[c] IN
  /\ reason[c] \in {"abort", "unpublish"}
  /\ slot' = Released(p)
  /\ bound' = [bound EXCEPT ![p] = None]
  /\ Returns(c)
  /\ UNCHANGED <<current, engine>>

\* Faulty variant: the lock is not given back.
StopKeepsSlot(c, ok) ==
  LET p == Home[c] IN
  /\ reason[c] = "stop"
  /\ slot' = slot
  /\ current' = IF ok THEN [current EXCEPT ![p] = None] ELSE current
  /\ bound' = IF ok THEN [bound EXCEPT ![p] = None] ELSE bound
  /\ Returns(c)
  /\ UNCHANGED engine

BrowserStopEnds(c, ok) ==
  LET p == Home[c] IN
  /\ reason[c] = "stop"
  /\ slot' = IF ok THEN Released(p) ELSE slot
  /\ current' = IF ok THEN [current EXCEPT ![p] = None] ELSE current
  /\ bound' = IF ok THEN [bound EXCEPT ![p] = None] ELSE bound
  /\ Returns(c)
  /\ UNCHANGED engine

\* The healer clears whatever is current by now.
HealerEnds(c, ok) ==
  LET p == Home[c] IN
  /\ reason[c] = "heal"
  /\ current' = IF ok THEN [current EXCEPT ![p] = None] ELSE current
  /\ bound' = IF ok THEN [bound EXCEPT ![p] = None] ELSE bound
  /\ Returns(c)
  /\ UNCHANGED <<slot, engine>>

\* Faulty variant: Camoufox is forgotten when Shadow could not be stopped.
ReplaceLeavesCandidate(c, ok) ==
  LET p == Home[c] IN
  /\ reason[c] = "replace"
  /\ current' = IF ok THEN [current EXCEPT ![p] = candidate[c]] ELSE current
  /\ bound' = IF ok THEN [bound EXCEPT ![p] = candidate[c]] ELSE bound
  /\ Returns(c)
  /\ UNCHANGED <<slot, engine>>

\* Faulty variant: Camoufox is published though Shadow could not be stopped.
ReplaceRegardless(c, ok) ==
  LET p == Home[c] IN
  /\ reason[c] = "replace"
  /\ current' = [current EXCEPT ![p] = candidate[c]]
  /\ bound' = [bound EXCEPT ![p] = candidate[c]]
  /\ Returns(c)
  /\ UNCHANGED <<slot, engine>>

\* Shadow is gone: publish Camoufox.  It could not be stopped: drop Camoufox.
ReplaceEnds(c, ok) ==
  LET p == Home[c]
      kept == [engine EXCEPT ![target[c]].preserve = FALSE] IN
  /\ reason[c] = "replace"
  /\ \/ /\ ok
        /\ current' = [current EXCEPT ![p] = candidate[c]]
        /\ bound' = [bound EXCEPT ![p] = candidate[c]]
        /\ engine' = kept
        /\ Returns(c)
     \/ /\ ~ok
        /\ engine' = [kept EXCEPT ![candidate[c]] = Cancelled(@)]
        /\ pc' = [pc EXCEPT ![c] = "drain"]
        /\ target' = [target EXCEPT ![c] = candidate[c]]
        /\ reason' = [reason EXCEPT ![c] = "abandon"]
        /\ UNCHANGED <<current, bound, lifecycle, candidate, want>>
  /\ UNCHANGED slot

AbandonEnds(c, ok) ==
  /\ reason[c] = "abandon"
  /\ Returns(c)
  /\ UNCHANGED <<slot, current, bound, engine>>

StopEnds(c, ok) ==
  \/ ReapEnds(c, ok)
  \/ AbortEnds(c, ok)
  \/ BrowserStopEnds(c, ok)
  \/ HealerEnds(c, ok)
  \/ ReplaceEnds(c, ok)
  \/ AbandonEnds(c, ok)

-----------------------------------------------------------------------------
(* stop() itself *)

\* The reader has ended, or is no longer waited for (Mirage after a second; a
\* second stop() at once).  stop() takes the process away from the engine.
StopTakesProcess(c) ==
  LET e == target[c] IN
  /\ pc[c] = "drain"
  /\ engine[e].handle
  /\ engine' = [engine EXCEPT ![e].handle = FALSE]
  /\ pc' = [pc EXCEPT ![c] = "exit"]
  /\ UNCHANGED <<slot, current, bound, lifecycle, target, candidate, reason, want>>

\* Another stop() took the process: this one has nothing left to wait for.
StopFindsNothing(c) ==
  /\ pc[c] = "drain"
  /\ ~engine[target[c]].handle
  /\ StopEnds(c, TRUE)

\* stop() raises before it has taken the process.  A start that fails in start()
\* stops its candidate there and once more in browser_start, so one refusal does not
\* count; that of a start that fails once it has published, which is stopped once, and
\* that of an abandoned Camoufox are left out.
StopRefused(c) ==
  /\ "refuse" \in Faults
  /\ pc[c] = "drain"
  /\ engine[target[c]].handle
  /\ reason[c] \in {"reap", "stop", "heal", "replace"}
  /\ StopEnds(c, FALSE)

StopReaped(c) ==
  /\ pc[c] = "exit"
  /\ engine[target[c]].os = "gone"
  /\ StopEnds(c, TRUE)

\* The process outlives the stop.  Mirage sends a kill and stops waiting;
\* around Shadow's stop the caller's timeout strikes between the terminate
\* and the kill.
StopGivesUp(c) ==
  LET e == target[c] IN
  /\ "slow" \in Faults
  /\ pc[c] = "exit"
  /\ Running(e)
  /\ \/ engine[e].kind = "mirage" /\ StopEnds(c, TRUE)
     \/ /\ engine[e].kind = "shadow"
        /\ reason[c] \in {"reap", "stop", "replace"}
        /\ StopEnds(c, FALSE)

\* The client withdraws a call in a probe or in a stop(): CancelledError skips
\* what follows the await, except the lock's release.  _stop_engine first
\* stops the engine again, so the process has its order to end; Mirage's
\* stop() swallows the error while it waits for its reader and later sees the
\* kill through.  (In start() and in the handoff a cancelled call takes the
\* path of a failed one; the cleanup of an abandoned Camoufox swallows it.)
CallCancelled(c) ==
  LET e == target[c] IN
  /\ "cancel" \in Faults
  /\ \/ pc[c] = "probe"
     \/ /\ pc[c] = "drain" /\ reason[c] \in {"heal", "replace"}
        /\ engine[e].kind = "shadow"
     \/ /\ pc[c] = "exit" /\ reason[c] # "abandon"
        /\ engine[e].kind = "mirage" => engine[e].os = "gone"
  /\ Returns(c)
  /\ UNCHANGED <<slot, current, bound, engine>>

-----------------------------------------------------------------------------
(* Operating system and transport *)

Crash(e) ==
  /\ "crash" \in Faults
  /\ \/ Running(e) /\ engine' = [engine EXCEPT ![e].os = "gone"]
     \/ /\ engine[e].kind = "mirage" /\ engine[e].os = "running"
        /\ engine' = [engine EXCEPT ![e].os = "hollow"]
  /\ UNCHANGED <<slot, current, bound, lifecycle, pc, target, candidate, reason, want>>

\* A process that was told to end does.
ProcessExits(e) ==
  /\ Running(e)
  /\ engine[e].stopping /\ ~engine[e].handle
  /\ engine' = [engine EXCEPT ![e].os = "gone"]
  /\ UNCHANGED <<slot, current, bound, lifecycle, pc, target, candidate, reason, want>>

\* The reader meets the end of the stream, fails, or has been cancelled.
ReaderEnds(e) ==
  /\ \/ engine[e].reader = "cancelled"
     \/ /\ engine[e].reader = "running"
        /\ engine[e].os # "running" \/ "transport" \in Faults
  /\ engine' = [engine EXCEPT ![e].reader = "ended", ![e].dead = TRUE]
  /\ slot' = SlotAfterDeath(e)
  /\ UNCHANGED <<current, bound, lifecycle, pc, target, candidate, reason, want>>

\* Any tool begins with _require_engine(), which asks the current Mirage for
\* its health, outside the lifecycle lock; health() marks a dead one.
HealthFindsDead(e) ==
  /\ engine[e].kind = "mirage" /\ ~engine[e].dead
  /\ \E p \in Procs : current[p] = e
  /\ engine[e].os # "running" \/ ~engine[e].handle
  /\ engine' = [engine EXCEPT ![e].dead = TRUE]
  /\ slot' = SlotAfterDeath(e)
  /\ UNCHANGED <<current, bound, lifecycle, pc, target, candidate, reason, want>>

\* A write to the sidecar is not drained in time.
WriteStalls(e) ==
  /\ "transport" \in Faults
  /\ engine[e].kind = "mirage" /\ IsAlive(e)
  /\ engine' = [engine EXCEPT ![e].dead = TRUE]
  /\ slot' = SlotAfterDeath(e)
  /\ UNCHANGED <<current, bound, lifecycle, pc, target, candidate, reason, want>>

-----------------------------------------------------------------------------

\* A call that has begun goes on.
Step(c) ==
  \/ ProbeFindsAlive(c) \/ ProbeFindsDead(c)
  \/ BootDone(c) \/ BootFails(c) \/ PageReady(c) \/ PageFails(c)
  \/ SnapshotTaken(c) \/ SnapshotFails(c)
  \/ TakeoverBooted(c) \/ TakeoverFails(c) \/ HandoffDone(c)
  \/ StopTakesProcess(c) \/ StopFindsNothing(c) \/ StopRefused(c)
  \/ StopReaped(c) \/ StopGivesUp(c)

\* A client or a failing tool begins one.
Begin(c) ==
  \/ \E k \in Kinds : StartFresh(c, k) \/ StartOverEngine(c, k)
  \/ BrowserStop(c)
  \/ HealerRestarts(c)
  \/ Promote(c)

Environment(e) ==
  Crash(e) \/ ProcessExits(e) \/ ReaderEnds(e) \/ HealthFindsDead(e) \/ WriteStalls(e)

Next ==
  \/ \E c \in Calls : Begin(c) \/ Step(c) \/ CallCancelled(c)
  \/ \E e \in Engines : Environment(e)

Spec == Init /\ [][Next]_vars

\* The event loop runs what is ready, every await is bounded by a timer, and
\* a process that is killed exits.
FairSpec ==
  /\ Spec
  /\ \A c \in Calls : WF_vars(Step(c))
  /\ \A e \in Engines : WF_vars(ProcessExits(e)) /\ WF_vars(ReaderEnds(e))

-----------------------------------------------------------------------------
(* Properties *)

TypeOK ==
  /\ slot \in Procs \cup {None}
  /\ current \in [Procs -> Engines \cup {None}]
  /\ bound \in [Procs -> Engines \cup {None}]
  /\ lifecycle \in [Procs -> Calls \cup {None}]
  /\ engine \in [Engines -> EngineState]
  /\ \A e \in Engines : engine[e].home = None <=> engine[e].kind = None
  /\ pc \in [Calls -> Points]
  /\ target \in [Calls -> Engines \cup {None}]
  /\ candidate \in [Calls -> Engines \cup {None}]
  /\ reason \in [Calls -> Reasons \cup {None}]
  /\ want \in [Calls -> AllKinds \cup {None}]

Live == {e \in Engines : engine[e].os = "running"}

\* A usable published browser is covered by the machine lock: no other
\* process can open one beside it (acquire_browser_lock, _state.py:48-55).
PublishedHoldsSlot ==
  \A p \in Procs :
    current[p] # None /\ ~engine[current[p]].dead => slot = p

\* Engine e is current, or a tool call is starting or stopping it.
Reachable(e) ==
  \/ \E p \in Procs : current[p] = e
  \/ \E c \in Calls : e \in {target[c], candidate[c]}

\* Every browser process can still be reached by somebody who will see it
\* gone (the cleanup rules of browser_start and of _on_engine_death,
\* oracle.py:88-95).
NoOrphan == \A e \in Engines : Running(e) => Reachable(e)

\* At the least, no browser is forgotten that nobody has told to end ("an
\* interrupted MCP request must not leave a browser child behind",
\* pilot.py:147-148).
NoneLeftBehind == \A e \in Engines : Running(e) /\ engine[e].handle => Reachable(e)

\* A process that has no browser, and no call about to give it one, does not
\* keep the machine's slot from the others.
IdleFreesSlot ==
  \A p \in Procs : slot = p => current[p] # None \/ lifecycle[p] # None

\* An engine that died by itself does not keep the slot: its death callback
\* gave it back, so that another process may start (_on_engine_death).
DeadFreesSlot ==
  \A p \in Procs :
    LET e == current[p] IN
    e # None /\ engine[e].dead /\ ~engine[e].stopping => slot # p

\* One published engine follows another only when the first one's processes
\* are gone ("Reap Shadow before publishing Mirage", _common.py:506).
ReapBeforePublish ==
  [][\A p \in Procs :
       current[p] # None /\ current'[p] \notin {None, current[p]} => ~Running(current[p])]_vars

\* Every call that has begun comes to an end.
CallsReturn == \A c \in Calls : (pc[c] # "idle") ~> (pc[c] = "idle")

\* Seen from outside the processes, starts, stops and crashes are what
\* BrowserSlot promises.
Slot == INSTANCE BrowserSlot WITH owner <- slot, open <- Live
SlotSpec == Slot!Spec
=============================================================================
