------------------------------ MODULE Sidecar ------------------------------
(***************************************************************************)
(* The sidecar between the Python server and Camoufox: the event loop of   *)
(* ipc_main.zig, the requests in flight in it, the flows of driver.zig     *)
(* that serve them, the router of wire calls (session.zig) and the pages   *)
(* the driver tracks from the browser's events.                            *)
(*                                                                         *)
(* The sidecar is one thread.  phase names the part of a turn of its loop: *)
(*   poll     waits for the browser's pipe, stdin or the nearest deadline  *)
(*   browser  replays the chunk it read      stdin   starts requests       *)
(*   advance  polls the flow of one task     finish  answers one that is   *)
(*   flush    ends the turn                          over                  *)
(* What arrives during a turn is seen by the next poll, so clients, clock  *)
(* and browser act between turns only.                                     *)
(***************************************************************************)
EXTENDS Integers, Sequences, JugglerPage

CONSTANTS
  MaxRequests,  \* bound: requests of the Python client, which numbers them
  Targets,      \* page targets
  Plans,        \* bound: the clients and browsers there may be, see Plan
  MaxInflight,  \* max_inflight
  MaxAttach,    \* bound: sessions of one target
  MaxPipe,      \* bound: browser messages under way
  MaxEvents,    \* bound: what the browser does by itself to pages that exist
  None

\* call: a passthrough to the root session; page: one to a page session;
\* newTab: Browser.newPage with a URL; shot and clip: a screenshot without and
\* with a clip of the caller's.
AllKinds  == {"call", "page", "eval", "nav", "newPage", "newTab", "shot", "clip", "health", "close"}
\* popup: a page opens another one; own: a page navigates by itself; swap: it gets another main frame;
\* context: its execution contexts come and go; reattach: a new session for
\* it; detach: it goes away; crash: the browser exits; eof: the client closes
\* the sidecar's stdin.
AllEvents == {"popup", "own", "load", "swap", "context", "reattach", "detach", "crash", "eof"}

Requests == 1..MaxRequests
Sessions == Targets \X (1..MaxAttach)

\* script: what the client may ask for with each request; overlap: it asks again before it has its answer;
\* events: what the browser does by itself.
Plan == [script : [Requests -> SUBSET AllKinds], overlap : BOOLEAN, events : SUBSET AllEvents]

ASSUME PlanAssumption == \A p \in Plans : p.script \in [Requests -> SUBSET AllKinds] /\ p.overlap \in BOOLEAN /\ p.events \subseteq AllEvents
ASSUME NameAssumption == None \notin Targets \cup Sessions
ASSUME BoundAssumption ==
  MaxInflight \in Nat \ {0} /\ MaxAttach \in Nat \ {0} /\ MaxPipe \in Nat /\ MaxEvents \in Nat

VARIABLES
  phase,      \* part of the turn
  ready,      \* what poll reported: "browser", "hup", "stdin"
  chunk,      \* messages of the chunk that are not replayed yet
  index,      \* the in-flight task that is served
  progressed, \* a task made progress in this pass over them
  running, stdinEof,
  pages,      \* targetId -> what is known of the page
  bySession,  \* sessionId -> target
  current,    \* current_target
  pending,    \* router.pending: wire id -> the request that made the call
  wire,       \* router.next_id
  inflight,   \* the list of tasks, each named by its request
  task,       \* their state
  fd, lineBuf,\* request lines in the stdin pipe, and read but not started
  asked,      \* what the client asked with a request
  answer,     \* the answer written for a request
  answers,    \* how many were written
  news,       \* navigations of the page since a request's call (history)
  pipe,       \* messages of the browser on their way
  calls,      \* wire calls the browser works on
  site,       \* the browser's side of each target
  browserUp, clientUp, budget,
  plan        \* the client and the browser of this behaviour

loop     == <<phase, ready, chunk, index, progressed, running, stdinEof>>
driver   == <<pages, bySession, current>>
router   == <<pending, wire>>
tasks    == <<inflight, task, answer, answers, news>>
client   == <<fd, lineBuf, asked, clientUp, plan>>
browser  == <<pipe, calls, site, browserUp, budget>>
vars     == <<loop, driver, router, tasks, client, browser>>

----------------------------------------------------------------------------
(* Tasks *)

Unset  == -1   \* a navigation that has no answer yet
OwnNav == 0    \* the id of a navigation of the page's own

NoTask == [kind |-> "none", target |-> None, session |-> None, flow |-> "none", stage |-> 0,
           call |-> 0, reply |-> "none", val |-> None, retry |-> FALSE, settle |-> "none",
           grace |-> "none", nested |-> FALSE, nav |-> Unset, late |-> FALSE, outcome |-> "open"]

Drop(f, x) == [y \in DOMAIN f \ {x} |-> f[y]]
Put(f, x, v) == [y \in DOMAIN f \cup {x} |-> IF y = x THEN v ELSE f[y]]

CurrentPage == IF current # None /\ current \in DOMAIN pages THEN current ELSE None

\* The page of a request: of its session, else the current one.
ResolvePageFor(r) ==
  IF asked[r].session = None THEN CurrentPage
  ELSE IF asked[r].session \in DOMAIN bySession THEN bySession[asked[r].session] ELSE None

\* Registers a wire call and writes it.  A browser that is gone refuses it:
\* the call fails and nothing stays registered.
SendAsync(r, t, what, session, refused) ==
  /\ wire' = wire + 1
  /\ IF browserUp
     THEN /\ pending' = Put(pending, wire, r)
          /\ calls' = calls \cup {[wire |-> wire, what |-> what, url |-> asked[r].url, stage |-> "new",
                                   target |-> IF session = None THEN None ELSE session[1], replied |-> FALSE]}
          /\ task' = [task EXCEPT ![r] = [t EXCEPT !.call = wire, !.reply = "none"]]
     ELSE task' = [task EXCEPT ![r] = refused] /\ UNCHANGED <<pending, calls>>

Stays(r, t) == task' = [task EXCEPT ![r] = t] /\ UNCHANGED <<router, calls>>
Failed(t)   == [t EXCEPT !.outcome = "failed"]

\* Faulty variant: the state of the answer is passed on.
DoneAsReplied(t) == [t EXCEPT !.outcome = t.reply]
Done(t)     == [t EXCEPT !.outcome = "ok"]
Settled(t)  == [t EXCEPT !.call = 0, !.reply = "none", !.val = None]

\* Faulty variant: the router goes on waiting.
CancelForgets(r, t) == task' = [task EXCEPT ![r] = Settled(t)] /\ UNCHANGED <<router, calls>>

CancelWireCall(r, t) ==
  /\ pending' = Drop(pending, task[r].call)
  /\ task' = [task EXCEPT ![r] = Settled(t)]
  /\ UNCHANGED <<wire, calls>>

----------------------------------------------------------------------------
(* Flows: each poll makes one step. *)

FailOrRetry(t) ==
  IF t.retry THEN [t EXCEPT !.retry = FALSE, !.late = FALSE, !.settle = "running"] ELSE Failed(t)

\* The evaluation of a screenshot measures the page: its value may be no size.
Evaluated(t) ==
  IF t.kind = "eval" THEN {Done(t)}
  ELSE {[t EXCEPT !.flow = "none", !.stage = 2], Failed([t EXCEPT !.flow = "none"])}

\* EvalFlow.poll: waits for a context, evaluates, and retries once after a settle.
\* An answer that does not parse fails the flow; that case is left out here, in NavPoll and in NewPagePoll.
EvalPoll(r) ==
  LET t == task[r]
      u == [t EXCEPT !.settle = "none"]
      waiting == t.call # 0 /\ t.reply = "none"
      ready4  == t.call = 0 /\ ~t.late /\ t.settle # "running"
  IN /\ UNCHANGED pages
     /\ \/ waiting /\ ~t.late /\ Stays(r, t)
        \/ waiting /\ t.late /\ CancelWireCall(r, FailOrRetry(t))
        \/ t.reply = "err" /\ Stays(r, FailOrRetry(Settled(t)))
        \/ t.reply = "ok" /\ \E v \in Evaluated(Settled(t)) : Stays(r, v)
        \/ t.call = 0 /\ t.late /\ Stays(r, Failed(t))
        \/ t.call = 0 /\ ~t.late /\ t.settle = "running" /\ Stays(r, t)
        \/ ready4 /\ t.target \notin DOMAIN pages /\ Stays(r, Failed(u))
        \/ ready4 /\ t.target \in DOMAIN pages /\ ~pages[t.target].context /\ Stays(r, u)
        \/ /\ ready4 /\ t.target \in DOMAIN pages /\ pages[t.target].context
           /\ SendAsync(r, u, "eval", pages[t.target].session, Failed(u))

\* The lifecycle gate of NavFlow.poll, reached with the browser's answer.
Gate(r, t, ps) ==
  LET p == ps[t.target]
      done == [ps EXCEPT ![t.target].life.state = "done"]
  IN IF t.target \notin DOMAIN ps \/ (t.target \in DOMAIN ps /\ ps[t.target].life.state = "aborted")
     THEN Stays(r, Failed(t)) /\ pages' = ps
     ELSE IF \/ p.life.committed /\ p.life.nav \in {NoNav, t.nav}
             \/ UrlCommitted(p, asked[r].url)
     THEN Stays(r, Done(t)) /\ pages' = done
     ELSE IF NavigationSatisfied(p, t.nav, asked[r].url)
     THEN Stays(r, Done(t)) /\ pages' = ps
     ELSE Stays(r, t) /\ pages' = ps

\* The browser has not answered Page.navigate yet: a navigation it has started
\* is given a grace window, after which the request counts as done.
NavUnanswered(r) ==
  LET t == task[r]
      known == t.target \in DOMAIN pages
      p == pages[t.target]
      graced == [t EXCEPT !.grace = IF t.grace = "none" THEN "running" ELSE @]
  IN IF ~(known /\ pages[t.target].life.started /\ pages[t.target].life.nav # NoNav)
     THEN Stays(r, t) /\ UNCHANGED pages
     ELSE IF p.life.state = "aborted" THEN Stays(r, Failed(t)) /\ UNCHANGED pages
     ELSE IF p.life.committed \/ t.grace = "over"
     THEN /\ CancelWireCall(r, Done([graced EXCEPT !.nav = p.life.nav]))
          /\ pages' = [pages EXCEPT ![t.target].life.state = "done"]
     ELSE Stays(r, graced) /\ UNCHANGED pages

NavAnswered(r) ==
  LET t == [Settled(task[r]) EXCEPT !.nav = task[r].val]
      known == t.target \in DOMAIN pages /\ pages[t.target].main # NoFrame
  IN IF ~known THEN Gate(r, t, pages)
     ELSE \E hit \in SameFrame(pages[t.target].life, pages[t.target].main) :
            Gate(r, t, [pages EXCEPT ![t.target].life = IF hit THEN SetNavigationId(@, t.nav) ELSE @])

NavStart(r) ==
  LET t == task[r]
      p == pages[t.target]
  IN IF t.target \notin DOMAIN pages THEN Stays(r, Failed(t)) /\ UNCHANGED pages
     ELSE IF p.main = NoFrame THEN Stays(r, t) /\ UNCHANGED pages
     ELSE /\ pages' = [pages EXCEPT ![t.target].life = Begin(@, p.main)]
          /\ SendAsync(r, t, "nav", p.session, Failed(t))

\* NavFlow.poll
NavPoll(r) ==
  LET t == task[r]
  IN \/ t.late /\ Stays(r, Failed(t)) /\ UNCHANGED pages
     \/ ~t.late /\ t.call # 0 /\ t.reply = "none" /\ NavUnanswered(r)
     \/ ~t.late /\ t.reply = "err" /\ Stays(r, Failed(Settled(t))) /\ UNCHANGED pages
     \/ ~t.late /\ t.reply = "ok" /\ NavAnswered(r)
     \/ ~t.late /\ t.call = 0 /\ t.nav = Unset /\ NavStart(r)
     \/ ~t.late /\ t.call = 0 /\ t.nav # Unset /\ Gate(r, t, pages)

\* Faulty variant: the wait for the new page ignores the deadline.
AttachWaitOn(r, t) == Stays(r, IF t.target \in DOMAIN pages THEN Done(t) ELSE t)

\* The page of the reply is attached; with a URL it is navigated there.
AttachWait(r, t) ==
  Stays(r, IF t.late THEN Failed(t)
           ELSE IF t.target \notin DOMAIN pages THEN t
           ELSE IF t.kind = "newTab" THEN [t EXCEPT !.nested = TRUE] ELSE Done(t))

\* NewPageFlow.poll
NewPagePoll(r) ==
  LET t == task[r]
  IN \/ t.nested /\ NavPoll(r)
     \/ /\ ~t.nested /\ UNCHANGED pages
        /\ \/ t.call # 0 /\ t.reply = "none" /\ Stays(r, IF t.late THEN Failed(t) ELSE t)
           \/ t.reply = "err" /\ Stays(r, Failed(Settled(t)))
           \/ t.reply = "ok" /\ AttachWait(r, [Settled(t) EXCEPT !.target = t.val])
           \/ t.call = 0 /\ t.target = None /\ t.late /\ Stays(r, Failed(t))
           \/ t.call = 0 /\ t.target = None /\ ~t.late /\ SendAsync(r, t, "newPage", None, Failed(t))
           \/ t.call = 0 /\ t.target # None /\ AttachWait(r, t)

\* A task that waits for one wire call; its deadline is read before its answer.
WirePoll(r) ==
  LET t == task[r]
  IN /\ UNCHANGED pages
     /\ \/ t.late /\ CancelWireCall(r, Failed([t EXCEPT !.flow = "none"]))
        \/ ~t.late /\ t.reply = "none" /\ Stays(r, t)
        \/ ~t.late /\ t.reply # "none" /\ Stays(r, Done(t))

\* advanceScreenshot: the main frame, the size, the shot.
MeasureStart(r) ==
  LET t == task[r]
  IN /\ UNCHANGED pages
     /\ Stays(r, IF t.target \notin DOMAIN pages THEN Failed(t)
                 ELSE IF pages[t.target].main = NoFrame THEN t
                 ELSE IF t.kind = "clip" THEN [t EXCEPT !.stage = 2]
                 ELSE [t EXCEPT !.flow = "eval", !.stage = 1, !.retry = TRUE, !.late = FALSE])

Shoot(r) ==
  LET t == [task[r] EXCEPT !.flow = "wire", !.late = FALSE]
  IN /\ UNCHANGED pages
     /\ IF t.session \notin DOMAIN bySession THEN Stays(r, Failed(task[r]))
        ELSE SendAsync(r, t, "shot", t.session, Failed(task[r]))

AdvanceScreenshot(r) ==
  \/ task[r].stage = 0 /\ MeasureStart(r)
  \/ task[r].stage = 1 /\ EvalPoll(r)
  \/ task[r].stage = 2 /\ task[r].flow = "none" /\ Shoot(r)
  \/ task[r].stage = 2 /\ task[r].flow = "wire" /\ WirePoll(r)

AdvanceTask(r) ==
  \/ task[r].kind \in {"call", "page"} /\ WirePoll(r)
  \/ task[r].kind = "eval" /\ EvalPoll(r)
  \/ task[r].kind = "nav" /\ NavPoll(r)
  \/ task[r].kind \in {"newPage", "newTab"} /\ NewPagePoll(r)
  \/ task[r].kind \in {"shot", "clip"} /\ AdvanceScreenshot(r)

----------------------------------------------------------------------------
(* The loop *)

\* taskDeadline and the settle of an evaluation; the grace of a navigation is
\* not among them.
Due == \E i \in DOMAIN inflight : task[inflight[i]].late \/ task[inflight[i]].settle = "over"

StdinReadable == fd # <<>> \/ ~clientUp

Readable ==
  (IF pipe # <<>> THEN {"browser"} ELSE {}) \cup (IF ~browserUp THEN {"hup"} ELSE {})
    \cup (IF StdinReadable THEN {"stdin"} ELSE {})

Between == phase = "poll"   \* clients, clock and browser act now

AcceptsLines(rdy, tasksNow) == "stdin" \in rdy /\ ~stdinEof /\ Len(tasksNow) < MaxInflight

AfterBrowser(rdy) == IF AcceptsLines(rdy, inflight) THEN "stdin" ELSE "advance"

\* poll returns; one chunk of the pipe is read, of one or more messages.
Turn ==
  /\ phase = "poll"
  /\ Readable # {} \/ Due
  /\ ready' = Readable
  /\ chunk' \in (IF pipe # <<>> THEN 1..Len(pipe) ELSE {0})
  /\ phase' = IF chunk' > 0 THEN "browser" ELSE AfterBrowser(Readable)
  /\ UNCHANGED <<index, progressed, running, stdinEof, driver, router, tasks, client, browser>>

InFlight(r) == \E i \in DOMAIN inflight : inflight[i] = r

Answers(r, what) == answer' = [answer EXCEPT ![r] = what] /\ answers' = [answers EXCEPT ![r] = @ + 1]

\* nextStdinLine: the buffer first; one read takes all the pipe holds.
ReadStdin ==
  /\ phase = "stdin" /\ lineBuf = <<>>
  /\ \/ fd # <<>> /\ lineBuf' = fd /\ fd' = <<>> /\ UNCHANGED <<phase, stdinEof>>
     \/ fd = <<>> /\ phase' = "advance" /\ stdinEof' = ~clientUp /\ UNCHANGED <<fd, lineBuf>>
  /\ UNCHANGED <<ready, chunk, index, progressed, running, driver, router, tasks, asked, clientUp, browser>>

Enlist(r) == inflight' = Append(inflight, r) /\ UNCHANGED <<answer, answers>>
Fresh(r)  == [NoTask EXCEPT !.kind = asked[r].kind]

\* startPassthrough: an explicit session is used as it is.
StartPassthrough(r) ==
  LET session == IF asked[r].kind = "call" THEN None
                 ELSE IF asked[r].session # None THEN asked[r].session
                 ELSE IF CurrentPage # None THEN pages[CurrentPage].session ELSE None
  IN IF asked[r].kind = "page" /\ session = None
     THEN Answers(r, "rejected") /\ UNCHANGED <<inflight, task, router, calls>>
     ELSE IF browserUp
     THEN Enlist(r) /\ SendAsync(r, [Fresh(r) EXCEPT !.flow = "wire"], "call", session, NoTask)
     ELSE Answers(r, "failed") /\ wire' = wire + 1 /\ UNCHANGED <<inflight, task, pending, calls>>

\* startEvaluate, startNavigate, startScreenshot: they need a page.
StartOnPage(r) ==
  LET target == ResolvePageFor(r)
      flow == CASE asked[r].kind = "eval" -> "eval" [] asked[r].kind = "nav" -> "nav" [] OTHER -> "none"
  IN IF target = None
     THEN Answers(r, "rejected") /\ UNCHANGED <<inflight, task>>
     ELSE /\ Enlist(r)
          /\ task' = [task EXCEPT ![r] = [Fresh(r) EXCEPT !.flow = flow, !.target = target,
                        !.session = pages[target].session, !.retry = (flow = "eval")]]

\* A well formed request.  One that is not, and getFrameTree, are answered in this same step, from what the
\* router knows, and change nothing else: they are left out.
StartTask ==
  LET r == Head(lineBuf)
      kind == asked[r].kind
  IN /\ phase = "stdin" /\ lineBuf # <<>>
     /\ lineBuf' = Tail(lineBuf)
     /\ \/ kind \in {"call", "page"} /\ StartPassthrough(r) /\ UNCHANGED running
        \/ kind \in {"eval", "nav", "shot", "clip"} /\ StartOnPage(r) /\ UNCHANGED <<router, calls, running>>
        \/ /\ kind \in {"newPage", "newTab"} /\ Enlist(r)
           /\ task' = [task EXCEPT ![r] = [Fresh(r) EXCEPT !.flow = "page"]]
           /\ UNCHANGED <<router, calls, running>>
        \/ /\ kind = "health"    \* handleHealth
           /\ Answers(r, "ok") /\ UNCHANGED <<inflight, task, router, calls, running>>
        \/ /\ kind = "close"     \* handleClose: it does not wait for the reply
           /\ Answers(r, IF browserUp THEN "ok" ELSE "failed")
           /\ running' = FALSE /\ wire' = wire + 1
           /\ UNCHANGED <<inflight, task, pending, calls>>
     /\ phase' = IF AcceptsLines(ready, inflight') THEN "stdin" ELSE "advance"
     /\ UNCHANGED <<ready, chunk, index, progressed, stdinEof, driver, news, fd, asked,
                    clientUp, pipe, site, browserUp, budget>>

\* The browser is gone: every task fails, also one whose reply was just read.
BrowserGone ==
  /\ phase = "advance" /\ "hup" \in ready
  /\ answer' = [r \in Requests |-> IF InFlight(r) THEN "failed" ELSE answer[r]]
  /\ answers' = [r \in Requests |-> IF InFlight(r) THEN answers[r] + 1 ELSE answers[r]]
  /\ pending' = [w \in {v \in DOMAIN pending : \A i \in DOMAIN inflight : task[inflight[i]].call # v} |-> pending[w]]
  /\ task' = [r \in Requests |-> NoTask]
  /\ inflight' = <<>> /\ running' = FALSE /\ phase' = "flush"
  /\ UNCHANGED <<ready, chunk, index, progressed, stdinEof, driver, wire, news, client, browser>>

Fingerprint(t) == <<t.flow, t.stage>>

Navigating(r) == task[r].kind = "nav" \/ task[r].nested

\* Polls one task; a task that is over is finished next.
Advance ==
  LET r == inflight[index]
  IN /\ phase = "advance" /\ "hup" \notin ready /\ index <= Len(inflight)
     /\ AdvanceTask(r)
     /\ IF task'[r].outcome = "open"
        THEN /\ index' = index + 1
             /\ progressed' = (progressed \/ Fingerprint(task'[r]) # Fingerprint(task[r]))
             /\ UNCHANGED phase
        ELSE phase' = "finish" /\ UNCHANGED <<index, progressed>>
     \* A navigation that sends its call has heard nothing of it yet.
     /\ news' = IF wire' # wire /\ Navigating(r) THEN news \ {r} ELSE news
     /\ UNCHANGED <<ready, chunk, running, stdinEof, bySession, current,
                    inflight, answer, answers, client, pipe, site, browserUp, budget>>

\* swapRemove: the last task takes the place of the removed one.
SwapRemove(s, i) == [j \in 1..(Len(s) - 1) |-> IF j = i THEN s[Len(s)] ELSE s[j]]

\* formatTaskOk or respondErr, then freeTask, which cancels an open call.
Finish ==
  LET r == inflight[index]
      t == task[r]
  IN /\ phase = "finish" /\ phase' = "advance"
     /\ Answers(r, t.outcome)
     /\ current' = IF t.outcome = "ok" /\ t.kind \in {"newPage", "newTab"} THEN t.target ELSE current
     /\ pending' = Drop(pending, t.call)
     /\ task' = [task EXCEPT ![r] = NoTask]
     /\ inflight' = SwapRemove(inflight, index)
     /\ progressed' = TRUE
     /\ UNCHANGED <<ready, chunk, index, running, stdinEof, pages, bySession, wire, news, client, browser>>

PassOver == phase = "advance" /\ "hup" \notin ready /\ index > Len(inflight)

\* Another pass over the tasks, since one of them made progress.
NextPass ==
  /\ PassOver /\ progressed
  /\ index' = 1 /\ progressed' = FALSE
  /\ UNCHANGED <<phase, ready, chunk, running, stdinEof, driver, router, tasks, client, browser>>

\* refreshCurrentTarget
RefreshedTarget == CurrentPage

\* The end of a turn, and the loop's conditions.
Flush ==
  /\ phase = "flush" \/ (PassOver /\ ~progressed)
  /\ current' = RefreshedTarget
  /\ phase' = IF running /\ ~(stdinEof /\ inflight = <<>>) THEN "poll" ELSE "exited"
  /\ ready' = {} /\ index' = 1
  /\ UNCHANGED <<chunk, progressed, running, stdinEof, pages, bySession, router, tasks, client, browser>>

----------------------------------------------------------------------------
(* dispatchRaw: one message of the browser *)

\* router.dispatch: a reply goes to the call that waits for its id; a reply
\* that nobody waits for is dropped.
Reply(m) ==
  /\ m.type = "reply"
  /\ IF m.wire \in DOMAIN pending
     THEN /\ task' = [task EXCEPT ![pending[m.wire]] = [@ EXCEPT !.reply = m.result, !.val = m.val]]
          /\ pending' = Drop(pending, m.wire)
     ELSE UNCHANGED <<task, pending>>
  /\ UNCHANGED <<driver, news>>

\* onAttachedToTarget: a known target gets the new session and keeps the rest.
Attached(m) ==
  LET t == m.session[1]
      freed == IF t \in DOMAIN pages THEN Drop(bySession, pages[t].session) ELSE bySession
  IN /\ m.type = "attached"
     /\ pages' = IF t \in DOMAIN pages THEN [pages EXCEPT ![t].session = m.session]
                 ELSE Put(pages, t, NewPage(m.session))
     /\ bySession' = Put(freed, m.session, t)
     /\ UNCHANGED <<current, task, pending, news>>

\* onDetachedFromTarget: an old session's detach spares the re-attached page.
Detached(m) ==
  LET t == m.session[1]
  IN /\ m.type = "detached"
     /\ IF t \in DOMAIN pages /\ pages[t].session = m.session
        THEN pages' = Drop(pages, t) /\ bySession' = Drop(bySession, pages[t].session)
        ELSE UNCHANGED <<pages, bySession>>
     /\ UNCHANGED <<current, task, pending, news>>

\* The page handlers: events of an unknown session are ignored.  own is
\* whether the event is of the frame the lifecycle waits for.
PageAfter(p, m, own) ==
  LET main == p.main # NoFrame /\ p.main = m.frame
      shows == IF main THEN [p EXCEPT !.url = m.url] ELSE p
  IN CASE m.type = "frameAttached" -> OnFrameAttached(p, m.frame)
       [] m.type = "frameDetached" -> OnFrameDetached(p, m.frame)
       [] m.type = "context"       -> [p EXCEPT !.context = TRUE]
       [] m.type = "noContext"     -> [p EXCEPT !.context = FALSE]
       [] m.type = "load"          -> IF own THEN [p EXCEPT !.life = OnLoad(@)] ELSE p
       [] m.type = "started"       -> IF own THEN [p EXCEPT !.life = OnNavigationStarted(@, m.nav)] ELSE p
       [] m.type = "aborted"       -> IF own THEN [p EXCEPT !.life = OnAbort(@, m.nav)] ELSE p
       [] m.type = "committed"     -> IF main /\ own THEN [shows EXCEPT !.life = OnCommitted(@, m.nav)] ELSE shows
       [] m.type = "sameDocument"  -> IF main /\ own THEN [shows EXCEPT !.life = OnSameDocument(@)] ELSE shows

PageEvents == {"frameAttached", "frameDetached", "context", "noContext", "load", "started",
               "aborted", "committed", "sameDocument"}
Navigates  == {"started", "committed", "sameDocument", "load", "aborted"}

PageEvent(m) ==
  /\ m.type \in PageEvents
  /\ IF m.session \in DOMAIN bySession
     THEN LET t == bySession[m.session]
          IN /\ \E own \in SameFrame(pages[t].life, m.frame) :
                  pages' = [pages EXCEPT ![t] = PageAfter(@, m, own)]
             /\ news' = IF m.type \in Navigates THEN news \cup {r \in Requests : Navigating(r) /\ task[r].target = t} ELSE news
     ELSE UNCHANGED <<pages, news>>
  /\ UNCHANGED <<bySession, current, task, pending>>

DispatchRaw ==
  /\ phase = "browser" /\ chunk > 0
  /\ chunk' = chunk - 1 /\ pipe' = Tail(pipe)
  /\ phase' = IF chunk > 1 THEN phase ELSE AfterBrowser(ready)
  /\ LET m == Head(pipe) IN Reply(m) \/ Attached(m) \/ Detached(m) \/ PageEvent(m)
  /\ UNCHANGED <<ready, index, progressed, running, stdinEof, wire,
                 inflight, answer, answers, client, calls, site, browserUp, budget>>

----------------------------------------------------------------------------
(* Clients and the clock *)

\* The client writes request lines; a page request names a session it has
\* heard of, or none.
ClientAsks(r) ==
  /\ Between /\ clientUp /\ asked[r].kind = "none"
  /\ \A q \in 1..(r - 1) : asked[q].kind # "none" /\ (plan.overlap \/ answer[q] # "none")
  /\ \E k \in plan.script[r], u \in Urls, s \in {None} \cup {x \in Sessions : x[2] <= site[x[1]].attached} :
       /\ k \in {"call", "newPage", "newTab", "health", "close"} => s = None
       /\ k \notin {"nav", "newTab"} => u = CHOOSE v \in Urls : TRUE
       /\ asked' = [asked EXCEPT ![r] = [kind |-> k, session |-> s, url |-> u]]
  /\ fd' = Append(fd, r)
  /\ UNCHANGED <<loop, driver, router, tasks, lineBuf, clientUp, plan, browser>>

ClientCloses ==
  /\ Between /\ "eof" \in plan.events /\ clientUp
  /\ clientUp' = FALSE
  /\ UNCHANGED <<loop, driver, router, tasks, fd, lineBuf, asked, plan, browser>>

Passes(r, u) ==
  /\ Between /\ InFlight(r)
  /\ task' = [task EXCEPT ![r] = u]
  /\ UNCHANGED <<loop, driver, router, inflight, answer, answers, news, client, browser>>

\* A settle and a grace are shorter than the deadlines they run under.
DeadlineComes(r) ==
  ~task[r].late /\ task[r].settle = "none" /\ Passes(r, [task[r] EXCEPT !.late = TRUE])
SettleEnds(r) == task[r].settle = "running" /\ Passes(r, [task[r] EXCEPT !.settle = "over"])
GraceEnds(r)  == task[r].grace = "running" /\ Passes(r, [task[r] EXCEPT !.grace = "over"])

----------------------------------------------------------------------------
(* The browser *)

Sends(m) == Len(pipe) < MaxPipe /\ pipe' = Append(pipe, m)
Acts     == Between /\ browserUp /\ UNCHANGED <<loop, driver, router, tasks, client, browserUp>>
ActsAlone(what) == Acts /\ what \in plan.events /\ budget > 0 /\ budget' = budget - 1

SessionOf(t) == <<t, site[t].attached>>
Message(type, t) ==
  [type |-> type, session |-> SessionOf(t), frame |-> site[t].frame, nav |-> NoNav,
   url |-> NoUrl, wire |-> 0, result |-> "none", val |-> None]

\* Browser.newPage makes a target and then, in either order, attaches to it and replies.
CreatesPage(c, t) ==
  /\ Acts /\ c.what = "newPage" /\ c.target = None /\ site[t].stage = "absent"
  /\ calls' = (calls \ {c}) \cup {[c EXCEPT !.target = t]}
  /\ site' = [site EXCEPT ![t].stage = "created"]
  /\ UNCHANGED <<pipe, budget>>

Opens(t) ==
  /\ Acts /\ "popup" \in plan.events /\ site[t].stage = "absent"
  /\ site' = [site EXCEPT ![t].stage = "created"]
  /\ UNCHANGED <<pipe, calls, budget>>

Attaches(t) ==
  /\ Acts /\ site[t].stage = "created"
  /\ site' = [site EXCEPT ![t] = [@ EXCEPT !.stage = "live", !.attached = 1]]
  /\ Sends([Message("attached", t) EXCEPT !.session = <<t, 1>>])
  /\ UNCHANGED <<calls, budget>>

ShowsFrame(t, f) ==
  /\ Acts /\ site[t].stage = "live" /\ site[t].frame = NoFrame
  /\ site' = [site EXCEPT ![t].frame = f]
  /\ Sends([Message("frameAttached", t) EXCEPT !.frame = f])
  /\ UNCHANGED <<calls, budget>>

MakesContext(t) ==
  /\ Acts /\ site[t].stage = "live" /\ site[t].frame # NoFrame /\ ~site[t].context
  /\ site' = [site EXCEPT ![t].context = TRUE] /\ Sends(Message("context", t))
  /\ UNCHANGED <<calls, budget>>

\* It answers a call once, in any order, or never; a page's navigation goes on
\* without its answer.
Replies(c) ==
  /\ Acts /\ ~c.replied /\ (c.what = "newPage" => c.target # None)
  /\ calls' = (calls \ {c}) \cup
       (IF c.what = "nav" /\ c.stage # "over" THEN {[c EXCEPT !.replied = TRUE]} ELSE {})
  /\ \E result \in {"ok", "err"} :
       Sends([type |-> "reply", wire |-> c.wire, result |-> result, session |-> None, frame |-> NoFrame,
              nav |-> NoNav, url |-> NoUrl,
              val |-> IF c.what = "nav" THEN c.wire ELSE IF c.what = "newPage" THEN c.target ELSE None])
  /\ UNCHANGED <<site, budget>>

NavStep(c, from, to, type, url) ==
  /\ Acts /\ c.what = "nav" /\ c.stage = from /\ site[c.target].stage = "live"
  /\ calls' = (calls \ {c}) \cup
       (IF to = "over" /\ c.replied THEN {} ELSE {[c EXCEPT !.stage = to]})
  /\ Sends([Message(type, c.target) EXCEPT !.nav = c.wire, !.url = url])
  /\ UNCHANGED <<site, budget>>

NavStarts(c)  == NavStep(c, "new", "started", "started", NoUrl)
NavCommits(c) == \E u \in Urls : NavStep(c, "started", "over", "committed", u)   \* redirects
NavAborts(c)  == NavStep(c, "started", "over", "aborted", NoUrl)

\* A navigation of the page's own has an id no call of ours has.
OwnNavigation(t, type, url) ==
  /\ ActsAlone("own") /\ site[t].stage = "live" /\ site[t].frame # NoFrame
  /\ Sends([Message(type, t) EXCEPT !.nav = OwnNav, !.url = url])
  /\ UNCHANGED <<calls, site>>

Loads(t) ==
  /\ ActsAlone("load") /\ site[t].stage = "live" /\ site[t].frame # NoFrame
  /\ Sends(Message("load", t)) /\ UNCHANGED <<calls, site>>

SwapsFrame(t) ==
  /\ ActsAlone("swap") /\ site[t].stage = "live" /\ site[t].frame # NoFrame
  /\ Sends(Message("frameDetached", t)) /\ site' = [site EXCEPT ![t].frame = NoFrame]
  /\ UNCHANGED calls

LosesContext(t) ==
  /\ ActsAlone("context") /\ site[t].stage = "live" /\ site[t].context
  /\ Sends(Message("noContext", t)) /\ site' = [site EXCEPT ![t].context = FALSE]
  /\ UNCHANGED calls

\* A new session for a target; the old one is detached later, if at all.
Reattaches(t) ==
  /\ ActsAlone("reattach") /\ site[t].stage = "live" /\ site[t].attached < MaxAttach
  /\ site' = [site EXCEPT ![t].attached = @ + 1]
  /\ Sends([Message("attached", t) EXCEPT !.session = <<t, site[t].attached + 1>>])
  /\ UNCHANGED calls

DetachesOld(t) ==
  /\ Acts /\ site[t].stage = "live" /\ site[t].detached + 1 < site[t].attached
  /\ site' = [site EXCEPT ![t].detached = @ + 1]
  /\ Sends([Message("detached", t) EXCEPT !.session = <<t, site[t].detached + 1>>])
  /\ UNCHANGED <<calls, budget>>

Detaches(t) ==
  /\ ActsAlone("detach") /\ site[t].stage = "live"
  /\ Sends(Message("detached", t)) /\ site' = [site EXCEPT ![t].stage = "gone"]
  /\ UNCHANGED calls

Crashes ==
  /\ Between /\ "crash" \in plan.events /\ browserUp
  /\ browserUp' = FALSE /\ calls' = {}
  /\ UNCHANGED <<loop, driver, router, tasks, client, pipe, site, budget>>

----------------------------------------------------------------------------
Init ==
  /\ plan \in Plans
  /\ phase = "poll" /\ ready = {} /\ chunk = 0 /\ index = 1 /\ progressed = FALSE
  /\ running = TRUE /\ stdinEof = FALSE
  /\ pages = <<>> /\ bySession = <<>> /\ current = None
  /\ pending = <<>> /\ wire = 1
  /\ inflight = <<>> /\ task = [r \in Requests |-> NoTask]
  /\ answer = [r \in Requests |-> "none"] /\ answers = [r \in Requests |-> 0] /\ news = {}
  /\ fd = <<>> /\ lineBuf = <<>> /\ clientUp = TRUE
  /\ asked = [r \in Requests |-> [kind |-> "none", session |-> None, url |-> NoUrl]]
  /\ pipe = <<>> /\ calls = {} /\ browserUp = TRUE /\ budget = MaxEvents
  /\ site = [t \in Targets |-> [stage |-> "absent", attached |-> 0, detached |-> 0, frame |-> NoFrame, context |-> FALSE]]

Loop == (Turn \/ DispatchRaw \/ ReadStdin \/ StartTask \/ BrowserGone \/ Advance \/ Finish
         \/ NextPass \/ Flush) /\ UNCHANGED plan

Clock == \E r \in Requests : DeadlineComes(r) \/ SettleEnds(r) \/ GraceEnds(r)

Browser ==
  \/ \E t \in Targets :
       \/ \E c \in calls : CreatesPage(c, t)
       \/ \E f \in Frames : ShowsFrame(t, f)
       \/ \E u \in Urls : OwnNavigation(t, "started", NoUrl) \/ OwnNavigation(t, "committed", u)
                          \/ OwnNavigation(t, "sameDocument", u)
       \/ Opens(t) \/ Attaches(t) \/ MakesContext(t) \/ Loads(t) \/ SwapsFrame(t) \/ LosesContext(t)
       \/ Reattaches(t) \/ DetachesOld(t) \/ Detaches(t)
  \/ \E c \in calls : Replies(c) \/ NavStarts(c) \/ NavCommits(c) \/ NavAborts(c)
  \/ Crashes

Next == Loop \/ (\E r \in Requests : ClientAsks(r)) \/ ClientCloses \/ Clock \/ Browser

Spec == Init /\ [][Next]_vars

\* Time passes while the loop is between turns, and the loop handles what it
\* is woken for.  Neither the browser nor a client has to do anything.
FairSpec ==
  /\ Spec
  /\ WF_vars(Loop)
  /\ \A r \in Requests : SF_vars(DeadlineComes(r)) /\ SF_vars(SettleEnds(r))

----------------------------------------------------------------------------
(* Properties *)

Results == {"none", "ok", "failed", "rejected"}
Life == [state : {"idle", "waiting", "done", "aborted"}, frame : Frames \cup {NoFrame, Freed},
         nav : Nat \cup {NoNav}, started : BOOLEAN, committed : BOOLEAN]
Page == [session : Sessions, main : Frames \cup {NoFrame}, url : Urls \cup {NoUrl},
         context : BOOLEAN, life : Life]
Task == [kind : AllKinds \cup {"none"}, target : Targets \cup {None}, session : Sessions \cup {None},
         flow : {"none", "wire", "eval", "nav", "page"}, stage : 0..2, call : Nat,
         reply : {"none", "ok", "err"}, val : Nat \cup Targets \cup {None}, retry : BOOLEAN,
         settle : {"none", "running", "over"}, grace : {"none", "running", "over"}, nested : BOOLEAN,
         nav : Nat \cup {Unset, NoNav}, late : BOOLEAN, outcome : {"open", "ok", "failed"}]

\* The shape of the sidecar's state.
TypeOK ==
  /\ phase \in {"poll", "browser", "stdin", "advance", "finish", "flush", "exited"}
  /\ ready \subseteq {"browser", "hup", "stdin"} /\ chunk \in Nat /\ index \in Nat
  /\ {progressed, running, stdinEof, clientUp, browserUp} \subseteq BOOLEAN
  /\ DOMAIN pages \subseteq Targets /\ \A t \in DOMAIN pages : pages[t] \in Page
  /\ DOMAIN bySession \subseteq Sessions /\ \A s \in DOMAIN bySession : bySession[s] \in Targets
  /\ current \in Targets \cup {None} /\ wire \in Nat
  /\ DOMAIN pending \subseteq Nat /\ \A w \in DOMAIN pending : pending[w] \in Requests
  /\ inflight \in Seq(Requests) /\ task \in [Requests -> Task]
  /\ fd \in Seq(Requests) /\ lineBuf \in Seq(Requests)
  /\ answer \in [Requests -> Results] /\ answers \in [Requests -> Nat] /\ news \subseteq Requests

Unread(r) == asked[r].kind = "none" \/ (\E i \in DOMAIN fd : fd[i] = r) \/ (\E i \in DOMAIN lineBuf : lineBuf[i] = r)
Closed == \E r \in Requests : asked[r].kind = "close" /\ answers[r] > 0

\* Every request that was read is in flight, or was answered once: no request
\* is answered twice or forgotten, whatever times out, detaches or dies.  A
\* sidecar leaves requests without an answer only when it was told to close.
RequestsAccountedFor ==
  \A r \in Requests :
    /\ Unread(r) \/ InFlight(r) => answers[r] = 0
    /\ ~Unread(r) /\ ~InFlight(r) => answers[r] = 1
    /\ phase = "exited" /\ InFlight(r) => Closed

\* The router waits for exactly the calls the tasks wait for: no call is left
\* registered when its task ends, retries or times out, and no task waits for
\* a call that nobody would hand it.
CallsOwned ==
  /\ \A w \in DOMAIN pending : InFlight(pending[w]) /\ task[pending[w]].call = w
  /\ \A r \in Requests : InFlight(r) /\ task[r].call # 0 /\ task[r].reply = "none" =>
       task[r].call \in DOMAIN pending

\* The two indexes of the pages agree, across new sessions for a target and
\* detaches that arrive late.
SessionIndex ==
  /\ \A t \in DOMAIN pages : pages[t].session \in DOMAIN bySession /\ bySession[pages[t].session] = t
  /\ \A s \in DOMAIN bySession : bySession[s] \in DOMAIN pages /\ pages[bySession[s]].session = s

\* Between turns the current target is a page that exists.
CurrentTargetLives == phase = "poll" /\ current # None => current \in DOMAIN pages

\* What the sidecar keeps for its requests and pages agrees with them, through
\* timeouts, retries, detaches and deaths.
BooksBalance == RequestsAccountedFor /\ CallsOwned /\ SessionIndex /\ CurrentTargetLives

\* A navigation that follows only finished ones is not reported done before its
\* page has navigated at all since it was sent, unless the page shows its URL.
\* It holds for a client that has one navigation in flight at a time: two of one
\* page share its lifecycle, and the commit of the first completes the second.
NavNeedsNews ==
  \A r \in Requests :
    /\ InFlight(r) /\ Navigating(r) /\ task[r].outcome = "ok"
    /\ \A q \in Requests \ {r} : asked[q].kind \in {"nav", "newTab"} => Unread(q) \/ answer[q] \in {"ok", "rejected"}
    =>
      \/ r \in news
      \/ task[r].target \in DOMAIN pages /\ pages[task[r].target].url = asked[r].url

\* Every request is answered, or the sidecar ends: nothing but the deadlines is
\* needed, whatever the browser leaves undone.
EveryRequestAnswered ==
  \A r \in Requests : asked[r].kind # "none" ~> (answer[r] # "none" \/ phase = "exited")

\* A grace window that ended wakes the loop.
GraceWakesLoop ==
  phase = "poll" => \A r \in Requests :
    InFlight(r) /\ task[r].grace = "over" /\ task[r].call # 0 => Readable # {} \/ Due
=============================================================================
