---------------------------- MODULE MirageTabs ----------------------------
(***************************************************************************)
(* The tabs of a Mirage engine: what Python knows of them from the         *)
(* sidecar's events, and the tools that open, choose, close and navigate   *)
(* them, running concurrently over the calls of MirageIpc.                 *)
(*                                                                         *)
(* pc says which answer a tool waits for.  "ensure" and "create" are       *)
(* subroutines (ensure_page, create_page); then says what follows them.    *)
(***************************************************************************)
EXTENDS MirageIpc

CONSTANTS MaxTarget, MaxSession, MaxInbox,
          Script,      \* which tools a caller may run
          Events       \* what the browser may do by itself, see EventKinds

EventKinds == {"popup", "close", "reattach", "reload"}
ToolKinds == {"act", "front", "new", "newUrl", "switch", "close", "closeCurrent", "navigate"}

ASSUME TabsAssumption ==
    /\ MaxTarget \in Nat \ {0} /\ MaxSession \in Nat \ {0} /\ MaxInbox \in Nat
    /\ None \notin Nat
    /\ Script \in [Callers -> SUBSET ToolKinds]
    /\ Events \subseteq EventKinds

VARIABLES
    sessions,  \* _sessions: the session of each known tab
    contexts,  \* _frame_contexts: sessions whose main frame has a known context
    current,   \* _current_target
    pageLock,  \* who holds _page_lock
    tool,      \* per caller, the tool it runs
    page,      \* the browser's tabs: the session of each
    worlds     \* sessions whose main frame has a context

vars == <<ipcVars, sessions, contexts, current, pageLock, tool, page, worlds>>
pythonVars == <<sessions, contexts, current, pageLock, tool>>
browserVars == <<page, worlds>>

Targets == 1 .. MaxTarget
Sessions == 1 .. MaxSession
Known == {t \in Targets : sessions[t] # None}
Live == {page[t] : t \in Targets} \ {None}

Idle == [name |-> "none", pc |-> "idle", then |-> "none", target |-> None, session |-> None,
         old |-> None, retried |-> FALSE]

InboxSessions == UNION {IF m.kind = "reply" THEN {} ELSE {m.session} : m \in {inbox[i] : i \in DOMAIN inbox}}
InboxTargets == UNION {IF m.kind = "reply" THEN {m.page} ELSE {m.target} : m \in {inbox[i] : i \in DOMAIN inbox}}
\* The browser never names a thing twice; a name nobody holds any more stands for a new one.
FreeSessions == Sessions \ (Live \cup InboxSessions \cup contexts \cup {sessions[t] : t \in Targets}
                            \cup {tool[c].session : c \in Callers}
                            \cup {call[c].session : c \in Callers} \cup {r.session : r \in asked})
FreeTargets == {t \in Targets : page[t] = None /\ sessions[t] = None} \ (InboxTargets \cup {current}
                \cup {tool[c].target : c \in Callers} \cup {call[c].page : c \in Callers})

InitTabs ==
    /\ InitIpc
    /\ contexts = {} /\ current = None /\ pageLock = None
    /\ tool = [c \in Callers |-> Idle]
    /\ worlds = {}
    /\ \/ page = [t \in Targets |-> None] /\ sessions = page /\ inbox = <<>>
       \* The window Camoufox opens at boot, announced before or after the first tool runs.
       \/ /\ page = [t \in Targets |-> IF t = 1 THEN 1 ELSE None]
          /\ \/ sessions = page /\ inbox = <<>>
             \/ /\ sessions = [t \in Targets |-> None]
                /\ inbox = <<[kind |-> "attached", target |-> 1, session |-> 1]>>

-----------------------------------------------------------------------------
(* The reader's trackers                                                   *)

\* _track_session, attachedToTarget: no context of the old or of a reused session survives.
TrackAttached(m) ==
    /\ contexts' = contexts \ {sessions[m.target], m.session}
    /\ sessions' = [sessions EXCEPT ![m.target] = m.session]
    /\ UNCHANGED current

\* Faulty variant: every detach counts.
NeverStale(m) == FALSE

\* detachedFromTarget: one of an earlier session of a tab that was re-attached is ignored.
Stale(m) == sessions[m.target] \notin {None, m.session}

TrackDetached(m) ==
    IF Stale(m)
    THEN UNCHANGED <<sessions, contexts, current>>
    ELSE /\ contexts' = contexts \ {m.session}
         /\ sessions' = [sessions EXCEPT ![m.target] = None]
         /\ IF current # m.target THEN UNCHANGED current
            ELSE LET rest == Known \ {m.target}
                 IN  current' \in IF rest = {} THEN {None} ELSE rest

\* _track_context
TrackContext(m) ==
    /\ contexts' = IF m.kind = "context" THEN contexts \cup {m.session} ELSE contexts \ {m.session}
    /\ UNCHANGED <<sessions, current>>

ReadLine ==
    /\ reader = "reads" /\ inbox # <<>>
    /\ inbox' = Tail(inbox)
    /\ LET m == Head(inbox)
       IN  CASE m.kind = "reply"    -> TakeReply(m) /\ UNCHANGED <<sessions, contexts, current>>
             [] m.kind = "attached" -> TrackAttached(m) /\ UNCHANGED <<call, pending>>
             [] m.kind = "detached" -> TrackDetached(m) /\ UNCHANGED <<call, pending>>
             [] OTHER               -> TrackContext(m) /\ UNCHANGED <<call, pending>>
    /\ UNCHANGED <<writer, asked, troubles, engineVars, pageLock, tool, browserVars>>

-----------------------------------------------------------------------------
(* Subroutines of the tools.  Each runs from one answer to the next call.  *)

At(c, pc) == tool[c].pc = pc /\ Back(c) /\ call[c].fut # "cancelled"
Good(c) == call[c].fut = "ok"

Goto(c, pc, then) == [tool EXCEPT ![c].pc = pc, ![c].then = then]
Finish(c) == tool' = [tool EXCEPT ![c] = [Idle EXCEPT !.pc = "done"]]
Released(c) == IF pageLock = c THEN None ELSE pageLock

\* With the page known, its one pinned call is made at once.
Method(then) == CASE then = "go" -> "navigate" [] then = "close" -> "close" [] OTHER -> "eval"

Proceed(c, then, t, s) ==
    IF then = "result"
    THEN Finish(c) /\ Taken(c)
    ELSE /\ Call(c, Method(then), s)
         /\ tool' = [tool EXCEPT ![c].pc = then, ![c].then = "none", ![c].target = t, ![c].session = s]

\* ensure_page: the current tab, else any known one, else look for a boot window and open a tab.
EnsurePage(c) ==
    /\ tool[c].pc = "ensure" /\ pageLock = None
    /\ IF Known # {}
       THEN /\ current' \in IF current \in Known THEN {current} ELSE Known
            /\ Proceed(c, tool[c].then, current', sessions[current'])
            /\ UNCHANGED pageLock
       ELSE /\ pageLock' = c
            /\ Call(c, "getTargets", None)
            /\ tool' = [tool EXCEPT ![c].pc = "adopt"]
            /\ UNCHANGED current
    /\ UNCHANGED <<sessions, contexts>>

\* _adopt_existing_window: the ten probes, as one.  Juggler has no Target domain, so they find nothing.
AdoptsNothing(c) ==
    /\ At(c, "adopt")
    /\ Call(c, "newPage", None)
    /\ tool' = [tool EXCEPT ![c].pc = "open"]
    /\ UNCHANGED <<sessions, contexts, current, pageLock>>

\* create_page: an answer with a target is waited for until its session is known.
PageOpened(c) ==
    /\ At(c, "open") /\ Good(c)
    /\ tool' = [tool EXCEPT ![c].pc = "attach", ![c].target = call[c].page]
    /\ Taken(c)
    /\ UNCHANGED <<sessions, contexts, current, pageLock>>

PageAttached(c) ==
    /\ tool[c].pc = "attach" /\ tool[c].target \in Known
    /\ current' = tool[c].target
    /\ Call(c, "getFrameTree", sessions[tool[c].target])
    /\ tool' = [tool EXCEPT ![c].pc = "frame", ![c].session = sessions[tool[c].target]]
    /\ UNCHANGED <<sessions, contexts, pageLock>>

\* After the replacement is there, the wedged tab is closed if it still is.
Tidies(c) ==
    LET old == tool[c].old
    IN  IF old \in Known /\ old # current
        THEN /\ Call(c, "close", sessions[old])
             /\ tool' = [tool EXCEPT ![c].pc = "close", ![c].then = "tidy", ![c].target = old]
        ELSE tool' = Goto(c, "ensure", "go") /\ Taken(c)

\* The tool a create_page or ensure_page belongs to goes on.
CreateReturns(c) ==
    /\ At(c, "frame") /\ Good(c)
    /\ pageLock' = Released(c)
    /\ CASE pageLock = c             -> Proceed(c, tool[c].then, tool[c].target, tool[c].session)
         [] tool[c].then = "recovered" -> Tidies(c)
         [] tool[c].then = "made"      -> /\ Taken(c)
                                          /\ IF tool[c].name = "newUrl"
                                             THEN tool' = Goto(c, "ensure", "quiet") ELSE Finish(c)
    /\ UNCHANGED <<sessions, contexts, current>>

\* A navigation that timed out is not given up the first time.
Wedged(c) == call[c].fut = "timeout" /\ ~tool[c].retried

\* What a tool does when its page cannot be had: stopping the old document is optional, the rest is not.
CreateFails(c) ==
    /\ pageLock' = Released(c)
    /\ IF tool[c].then = "quiet" THEN tool' = Goto(c, "ensure", "go") ELSE Finish(c)
    /\ UNCHANGED <<sessions, contexts, current>>

OpenFails(c) ==
    /\ At(c, "open") /\ ~Good(c)
    /\ tool[c].then = "go" => ~Wedged(c)
    /\ CreateFails(c) /\ Taken(c)

\* _wait_for_page_frame asks every 50 ms until its deadline; the asks are one, answered when there is
\* a frame.
FrameRaises(c) ==
    /\ tool[c].pc = "frame" /\ ~Good(c) /\ call[c].fut # "cancelled"
    /\ Back(c) \/ tool[c].session \notin worlds
    /\ CreateFails(c)
    /\ Abandoned(c) /\ UNCHANGED asked
AttachGivesUp(c) ==
    /\ tool[c].pc = "attach" /\ tool[c].target \notin Known
    /\ "slow" \in Faults \/ reader # "reads" \/ tool[c].target \notin InboxTargets
    /\ CreateFails(c) /\ Taken(c)

Creates(c) ==
    \/ EnsurePage(c) \/ AdoptsNothing(c) \/ PageOpened(c) \/ PageAttached(c) \/ CreateReturns(c)
    \/ OpenFails(c) \/ FrameRaises(c) \/ AttachGivesUp(c)

-----------------------------------------------------------------------------
(* close_page                                                              *)

\* What follows a close that worked or not: recovery opens the replacement and navigates again.
CloseEnds(c) ==
    CASE tool[c].then = "recover" -> Call(c, "newPage", None) /\ tool' = Goto(c, "open", "recovered")
      [] tool[c].then = "tidy"    -> Taken(c) /\ tool' = Goto(c, "ensure", "go")
      [] OTHER                    -> Taken(c) /\ Finish(c)

CloseAnswered(c) ==
    /\ At(c, "close")
    /\ IF Good(c) THEN tool' = [tool EXCEPT ![c].pc = "closing"] /\ Taken(c) ELSE CloseEnds(c)
    /\ UNCHANGED <<sessions, contexts, current, pageLock>>

\* Only the detach event removes the tab.
Closed(c) ==
    /\ tool[c].pc = "closing" /\ tool[c].target \notin Known
    /\ CloseEnds(c)
    /\ current' \in IF current # tool[c].target THEN {current} ELSE IF Known = {} THEN {None} ELSE Known
    /\ UNCHANGED <<sessions, contexts, pageLock>>

CloseGivesUp(c) ==
    /\ tool[c].pc = "closing" /\ tool[c].target \in Known
    /\ "slow" \in Faults \/ reader # "reads" \/ tool[c].target \notin InboxTargets
    /\ CloseEnds(c)
    /\ UNCHANGED <<sessions, contexts, current, pageLock>>

Closes(c) == CloseAnswered(c) \/ Closed(c) \/ CloseGivesUp(c)

-----------------------------------------------------------------------------
(* The tools                                                               *)

\* The first thing a tool does is to ask Browser.health (_require_engine), which ends it when the engine is
\* dead and touches no tab; the question is left out, and a tool of a dead engine fails in its first call.
First(name, pc, then) == [Idle EXCEPT !.name = name, !.pc = pc, !.then = then]

\* Any single-call tool, kahin_navigate, the CDP-shaped Page.close: the page first.
StartOnPage(c, name) ==
    /\ tool' = [tool EXCEPT ![c] = First(name, "ensure", CASE name = "act"      -> "act"
                                                          [] name = "navigate" -> "quiet"
                                                          [] OTHER             -> "close")]
    /\ UNCHANGED <<call, pending, writer, asked, current>>

\* kahin_mirage_tab_new
StartNew(c, name) ==
    /\ Call(c, "newPage", None)
    /\ tool' = [tool EXCEPT ![c] = First(name, "open", "made")]
    /\ UNCHANGED current

\* kahin_mirage_tab_switch runs without a pause.
Switch(c, t) ==
    /\ current' = t
    /\ Finish(c)
    /\ UNCHANGED <<call, pending, writer, asked>>

\* Target.activateTarget: the choice, then one call on the tab that is current.
BringToFront(c, t) ==
    /\ current' = t
    /\ Call(c, "eval", sessions[t])
    /\ tool' = [tool EXCEPT ![c] = First("front", "act", "none")]

\* kahin_mirage_tab_close
StartClose(c, t) ==
    /\ Call(c, "close", sessions[t])
    /\ tool' = [tool EXCEPT ![c] = [First("close", "close", "none") EXCEPT !.target = t]]
    /\ UNCHANGED current

StartTool(c) ==
    /\ tool[c].pc = "idle"
    /\ \E name \in Script[c] :
          CASE name \in {"act", "navigate", "closeCurrent"} -> StartOnPage(c, name)
            [] name \in {"new", "newUrl"} -> StartNew(c, name)
            [] name = "switch"            -> \E t \in Known : Switch(c, t)
            [] name = "front"             -> \E t \in Known : BringToFront(c, t)
            [] name = "close"             -> \E t \in Known : StartClose(c, t)
    /\ UNCHANGED <<sessions, contexts, pageLock>>

ActReturns(c) ==
    /\ At(c, "act")
    /\ Finish(c) /\ Taken(c)
    /\ UNCHANGED <<sessions, contexts, current, pageLock>>

\* _navigation_wait: the polls of the tab that is current after the navigation, as one.  tab_new asks
\* ensure_page once more for the tab it reports.
WaitReturns(c) ==
    /\ At(c, "landed")
    /\ IF tool[c].name = "newUrl" THEN tool' = Goto(c, "ensure", "result") ELSE Finish(c)
    /\ Taken(c)
    /\ UNCHANGED <<sessions, contexts, current, pageLock>>

\* navigate: the old document has been stopped, or not.
Quieted(c) ==
    /\ At(c, "quiet")
    /\ tool' = Goto(c, "ensure", "go")
    /\ Taken(c)
    /\ UNCHANGED <<sessions, contexts, current, pageLock>>

\* Page.navigate worked: ensure_page is asked again for the tab to wait on.
Navigated(c) ==
    /\ At(c, "go") /\ Good(c)
    /\ tool' = Goto(c, "ensure", "landed")
    /\ Taken(c)
    /\ UNCHANGED <<sessions, contexts, current, pageLock>>

\* Page.navigate came to nothing, or the page it needs was not opened.  A timeout is tried again; what an
\* error says decides whether it is a timeout of the sidecar's, an abort, or neither.
Navigating(c) == At(c, "go") \/ (At(c, "open") /\ tool[c].then = "go")
Retryable(c) == ~tool[c].retried /\ call[c].fut \in {"error", "timeout"}
Again(c) == [tool EXCEPT ![c].retried = TRUE]

\* An aborted navigation is stopped and tried once more on the same tab.
NavigateAborted(c) ==
    /\ Navigating(c) /\ Retryable(c) /\ call[c].fut = "error"
    /\ tool' = [Again(c) EXCEPT ![c].pc = "ensure", ![c].then = "quiet"]
    /\ Taken(c)
    /\ pageLock' = Released(c)
    /\ UNCHANGED <<sessions, contexts, current>>

\* _recover_mirage_navigation_target: close whatever tab is current, open another.
RecoverTarget(c) ==
    /\ Navigating(c) /\ Retryable(c)
    /\ IF current \in Known
       THEN /\ Call(c, "close", sessions[current])
            /\ tool' = [Again(c) EXCEPT ![c].pc = "close", ![c].then = "recover",
                                         ![c].target = current, ![c].old = current]
       ELSE /\ Call(c, "newPage", None)
            /\ tool' = [Again(c) EXCEPT ![c].pc = "open", ![c].then = "recovered"]
    /\ pageLock' = Released(c)
    /\ UNCHANGED <<sessions, contexts, current>>

NavigateFails(c) ==
    /\ At(c, "go") /\ ~Good(c) /\ ~Wedged(c)
    /\ Finish(c) /\ Taken(c)
    /\ UNCHANGED <<sessions, contexts, current, pageLock>>

\* The bounds navigate puts around its parts, each shorter than the calls inside: the part is
\* cancelled where it waits.
Abandons(c) ==
    /\ Trouble("slow")
    /\ tool[c].then \in {"quiet", "recover", "recovered", "tidy"} \/ tool[c].pc = "quiet"
    /\ Abandoned(c)
    /\ pageLock' = Released(c)
    /\ CASE tool[c].then = "recovered" -> Finish(c)
         [] tool[c].then = "recover"   -> tool' = Goto(c, "renew", "recovered")
         [] OTHER                      -> tool' = Goto(c, "ensure", "go")
    /\ UNCHANGED <<sessions, contexts, current>>

\* After a close that was cut short the replacement is opened all the same.
Renews(c) ==
    /\ tool[c].pc = "renew"
    /\ Call(c, "newPage", None)
    /\ tool' = [tool EXCEPT ![c].pc = "open"]
    /\ UNCHANGED <<sessions, contexts, current, pageLock>>

\* stop() has cancelled the future a tool waits for: CancelledError goes through all of the tool.
ToolCancelled(c) ==
    /\ Back(c) /\ call[c].fut = "cancelled"
    /\ Finish(c) /\ Taken(c)
    /\ pageLock' = Released(c)
    /\ UNCHANGED <<sessions, contexts, current>>

Runs(c) ==
    \/ ToolCancelled(c) \/ ActReturns(c) \/ WaitReturns(c) \/ Quieted(c) \/ Navigated(c) \/ NavigateAborted(c) \/ RecoverTarget(c)
    \/ NavigateFails(c) \/ Renews(c) \/ Creates(c) \/ Closes(c)

ToolStep(c) ==
    /\ Runs(c) \/ StartTool(c)
    /\ UNCHANGED <<inbox, troubles, engineVars, browserVars>>

ToolCut(c) ==
    /\ Abandons(c)
    /\ UNCHANGED <<asked, inbox, engineVars, browserVars>>

-----------------------------------------------------------------------------
(* The sidecar with its browser                                            *)

Reply(r, ok, t) == [kind |-> "reply", id |-> r.id, ok |-> ok, page |-> t]
Attach(t, s) == [kind |-> "attached", target |-> t, session |-> s]
Detach(t, s) == [kind |-> "detached", target |-> t, session |-> s]
Context(t, s) == [kind |-> "context", target |-> t, session |-> s]
Cleared(t, s) == [kind |-> "cleared", target |-> t, session |-> s]

Says(lines) == Len(inbox) + Len(lines) <= MaxInbox /\ inbox' = inbox \o lines
\* The sidecar may write an event on either side of the reply it belongs to.
SaysBoth(a, b) == Says(<<a, b>>) \/ Says(<<b, a>>)

Refuses(r) ==
    /\ IF \/ r.method = "getTargets"
          \/ r.method = "newPage" /\ (FreeTargets = {} \/ FreeSessions = {})
          \/ r.method \notin {"newPage", "getTargets"} /\ r.session \notin Live
       THEN UNCHANGED troubles
       ELSE Trouble("refuse")
    /\ Says(<<Reply(r, FALSE, None)>>)
    /\ UNCHANGED <<page, worlds>>

OpensPage(r) ==
    /\ r.method = "newPage" /\ FreeSessions # {}
    /\ FreeTargets # {}
    /\ LET t == Min(FreeTargets)
           s == Min(FreeSessions)
       IN  /\ page' = [page EXCEPT ![t] = s]
           /\ SaysBoth(Attach(t, s), Reply(r, TRUE, t))
    /\ UNCHANGED <<worlds, troubles>>

ClosesPage(r) ==
    /\ r.method = "close"
    /\ \E t \in Targets :
          /\ page[t] = r.session
          /\ page' = [page EXCEPT ![t] = None]
          /\ worlds' = worlds \ {r.session}
          /\ SaysBoth(Detach(t, r.session), Reply(r, TRUE, None))
    /\ UNCHANGED troubles

ServesPage(r) ==
    /\ r.method \in {"eval", "navigate", "getFrameTree"} /\ r.session \in Live
    /\ r.method = "getFrameTree" => r.session \in worlds
    /\ Says(<<Reply(r, TRUE, None)>>)
    /\ UNCHANGED <<page, worlds, troubles>>

Serves ==
    /\ sidecar = "up" /\ reader = "reads"
    /\ \E r \in asked :
          /\ asked' = asked \ {r}
          /\ Refuses(r) \/ OpensPage(r) \/ ClosesPage(r) \/ ServesPage(r)
    /\ UNCHANGED <<call, pending, writer, engineVars, pythonVars>>

\* The main frame of a new document gets its context.
Loads ==
    /\ sidecar = "up" /\ reader = "reads"
    /\ \E t \in Targets :
          /\ page[t] \in Sessions \ worlds
          /\ worlds' = worlds \cup {page[t]}
          /\ Says(<<Context(t, page[t])>>)
    /\ UNCHANGED <<page, troubles>>

Popup ==
    /\ "popup" \in Events /\ FreeSessions # {} /\ FreeTargets # {}
    /\ page' = [page EXCEPT ![Min(FreeTargets)] = Min(FreeSessions)]
    /\ Says(<<Attach(Min(FreeTargets), Min(FreeSessions))>>)
    /\ UNCHANGED worlds

PageCloses(t) ==
    /\ "close" \in Events
    /\ page' = [page EXCEPT ![t] = None]
    /\ worlds' = worlds \ {page[t]}
    /\ Says(<<Detach(t, page[t])>>)

\* A tab gets another session, announced before or after the old one's end.
Reattaches(t) ==
    /\ "reattach" \in Events /\ FreeSessions # {}
    /\ LET s == Min(FreeSessions)
       IN  /\ page' = [page EXCEPT ![t] = s]
           /\ SaysBoth(Attach(t, s), Detach(t, page[t]))
    /\ worlds' = worlds \ {page[t]}

Reloads(t) ==
    /\ "reload" \in Events /\ page[t] \in worlds
    /\ worlds' = worlds \ {page[t]}
    /\ Says(<<Cleared(t, page[t])>>)
    /\ UNCHANGED page

ByItself ==
    /\ sidecar = "up" /\ reader = "reads" /\ troubles < MaxTroubles
    /\ troubles' = troubles + 1
    /\ Popup \/ \E t \in Targets : page[t] # None /\ (PageCloses(t) \/ Reattaches(t) \/ Reloads(t))

BrowserStep ==
    /\ Loads \/ ByItself
    /\ UNCHANGED <<call, pending, writer, asked, engineVars, pythonVars>>

-----------------------------------------------------------------------------
EngineStops ==
    /\ StopEnds
    /\ sessions' = [t \in Targets |-> None]
    /\ contexts' = {} /\ current' = None
    /\ UNCHANGED <<pageLock, tool, browserVars>>

IpcStep ==
    /\ \/ \E c \in Callers : CallStep(c)
       \/ ReaderEnds \/ StopBegins \/ StopTakes \/ SidecarSticks \/ SidecarExits
    /\ UNCHANGED <<pythonVars, browserVars>>

Next ==
    \/ \E c \in Callers : ToolStep(c) \/ ToolCut(c)
    \/ ReadLine \/ Serves \/ BrowserStep \/ EngineStops \/ IpcStep

Spec == InitTabs /\ [][Next]_vars

\* Python's tasks run when they can and its timers go off, and a sidecar that is up answers.  Nothing
\* repeats for ever, so fairness of all of it together is enough.
Progress ==
    \/ \E c \in Callers : (Runs(c) /\ ToolStep(c)) \/ (CallStep(c) /\ IpcStep)
    \/ ReadLine \/ Serves \/ EngineStops
    \/ (ReaderEnds \/ StopTakes) /\ IpcStep

FairSpec == Spec /\ WF_vars(Progress)

-----------------------------------------------------------------------------
(* Properties                                                              *)

\* Every tool that begins ends, whatever the sidecar does: each wait has a timer, and a death, a
\* stalled write or a stop ends every call.  (A caller runs one tool, so in the end all are at rest.)
ToolsReturn == <>[](\A c \in Callers : tool[c].pc \in {"idle", "done"})

TypeOK ==
    /\ call \in [Callers -> [st : InStates \cup {"none", "back"}, id : 0 .. MaxId, session : Sessions \cup {None},
                             method : {"none", "eval", "navigate", "getFrameTree", "getTargets", "newPage", "close"},
                             fut : Ended \cup {"open", "timeout"}, page : Targets \cup {None}]]
    /\ pending \subseteq Ids
    /\ writer \in Callers \cup {None}
    /\ handle \in BOOLEAN /\ dead \in BOOLEAN
    /\ reader \in {"reads", "cancelled", "ended"}
    /\ stopping \in {"no", "begun", "taken", "done"}
    /\ sidecar \in {"up", "stuck", "gone"}
    /\ sessions \in [Targets -> Sessions \cup {None}]
    /\ contexts \subseteq Sessions
    /\ current \in Targets \cup {None}
    /\ pageLock \in Callers \cup {None}

\* The pending table is exact: the ids in it are those of calls that still wait for a reply, and none
\* is left once the reader has ended.  Every way out of a call (its reply, a timeout, a failed or
\* stalled write, a cancellation, a death, a stop) has to keep it so.
PendingOwned ==
    /\ pending = {call[c].id : c \in {d \in Callers : Open(d) /\ call[d].fut = "open"}}
    /\ reader = "ended" => pending = {}

\* The lock of ensure_page is held only by a tool that is opening the first tab, also after it was cancelled.
PageLockHeld ==
    \A c \in Callers : pageLock = c => tool[c].pc \in {"adopt", "open", "attach", "frame"}

\* A call or a tool that is over has left nothing behind: no pending id and no page lock.
NothingLeftOver == PendingOwned /\ PageLockHeld

\* The current tab is a known one, whatever closes, re-attaches or is chosen meanwhile.
CurrentAttached == current # None => current \in Known

\* What Python believes of the tabs is true as soon as it has read what there is: also when a tab was
\* re-attached before the end of its old session arrived.
ViewConverges ==
    reader = "reads" /\ inbox = <<>> =>
        /\ sessions = page
        /\ contexts = worlds

\* Python's picture of the tabs: the current one is known, and what is known is what the browser has.
TabsAgree == CurrentAttached /\ ViewConverges
=============================================================================
