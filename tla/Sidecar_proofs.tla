--------------------------- MODULE Sidecar_proofs ---------------------------
(***************************************************************************)
(* Proofs about Sidecar, for any client and browser, any number of         *)
(* requests, targets and sessions, and any bound.                          *)
(*                                                                         *)
(* Balanced is the inductive invariant: the types (Typed), what a task and *)
(* its wire call are to each other (Wired), what became of every request   *)
(* (Ledger), and the two indexes of the pages (Sessioned).  A poll of a    *)
(* task does one of four things to its wire call: it keeps it, forgets it, *)
(* is refused one, or opens one (Becomes); a message of the browser, the   *)
(* clock and a client that asks keep what the tasks wait for (Alike).      *)
(* NavBooks adds what a waiting page and the navigation it waits for know  *)
(* of each other.                                                          *)
(***************************************************************************)
EXTENDS Sidecar, SequenceTheorems, TLAPS

----------------------------------------------------------------------------
(* Types *)

Asked == [kind : AllKinds \cup {"none"}, session : Sessions \cup {None}, url : Urls \cup {NoUrl}]
Msg   == [type : PageEvents \cup {"reply", "attached", "detached"}, session : Sessions \cup {None},
          frame : Frames \cup {NoFrame}, nav : Nat \cup {NoNav}, url : Urls \cup {NoUrl},
          wire : Nat, result : {"none", "ok", "err"}, val : Nat \cup Targets \cup {None}]
Call  == [wire : Nat, what : {"call", "eval", "nav", "newPage", "shot"}, url : Urls \cup {NoUrl},
          stage : {"new", "started", "over"}, target : Targets \cup {None}, replied : BOOLEAN]
Site  == [stage : {"absent", "created", "live", "gone"}, attached : 0..MaxAttach, detached : Nat,
          frame : Frames \cup {NoFrame}, context : BOOLEAN]

GoodMessage(m) == IF m.type = "reply" THEN m.result \in {"ok", "err"} ELSE m.session \in Sessions

BrowserTypes ==
  /\ pipe \in Seq(Msg) /\ \A i \in DOMAIN pipe : GoodMessage(pipe[i])
  /\ calls \subseteq Call /\ \A c \in calls : c.what = "nav" => c.target \in Targets
  /\ site \in [Targets -> Site] /\ \A t \in Targets : site[t].stage = "live" => site[t].attached > 0

LoopTypes ==
  /\ asked \in [Requests -> Asked] /\ plan \in Plans
  /\ index >= 1
  /\ phase = "browser" => chunk > 0 /\ chunk <= Len(pipe)
  /\ phase = "finish" => index <= Len(inflight) /\ task[inflight[index]].outcome # "open"

\* The answer a task waits for is the one the browser gives to its call.
What(t) == IF t.kind = "nav" \/ t.nested THEN "nav"
           ELSE IF t.kind \in {"newPage", "newTab"} THEN "newPage" ELSE "other"
Suits(t, v) == (What(t) = "nav" => v \in Nat) /\ (What(t) = "newPage" => v \in Targets)

\* An answer that came, or is on its way, is one its task can use.
AnswersSuit ==
  /\ \A r \in Requests : task[r].reply = "ok" => Suits(task[r], task[r].val)
  /\ \A w \in DOMAIN pending, c \in calls :
       c.wire = w /\ What(task[pending[w]]) # "other" => c.what = What(task[pending[w]])
  /\ \A w \in DOMAIN pending, i \in DOMAIN pipe :
       pipe[i].type = "reply" /\ pipe[i].wire = w => Suits(task[pending[w]], pipe[i].val)

\* Wire ids are given out in order; none under way is still to be given out.
WiresPast ==
  /\ wire >= 1 /\ \A w \in DOMAIN pending : 0 < w /\ w < wire
  /\ \A c \in calls : c.wire < wire
  /\ \A i \in DOMAIN pipe : pipe[i].wire < wire

\* Where a task is decides what it can hold; a result is finished before anything else happens.
TaskShapes ==
  \A r \in Requests :
    /\ ~InFlight(r) => task[r] = NoTask
    /\ InFlight(r) => task[r].kind = asked[r].kind
    /\ task[r].nested => task[r].kind = "newTab"
    /\ task[r].kind \in {"shot", "clip"} =>
         (task[r].stage = 0 => task[r].call = 0) /\ (task[r].stage = 2 /\ task[r].flow = "none" => task[r].call = 0)
    /\ What(task[r]) # "nav" => task[r].nav = Unset
    /\ task[r].call < wire /\ (task[r].reply # "none" => task[r].call # 0)
    /\ task[r].outcome # "open" => phase = "finish" /\ inflight[index] = r

\* The router's table is the inverse of the calls the tasks wait for.
WaitsFor(r) == task[r].call # 0 /\ task[r].reply = "none"
Owned ==
  /\ \A w \in DOMAIN pending : task[pending[w]].call = w /\ task[pending[w]].reply = "none"
  /\ \A r \in Requests : WaitsFor(r) => task[r].call \in DOMAIN pending /\ pending[task[r].call] = r
  /\ \A r, q \in Requests : task[r].call = task[q].call /\ task[r].call # 0 => r = q

Holds(s, r) == \E i \in DOMAIN s : s[i] = r
Once(s) == \A i, j \in DOMAIN s : s[i] = s[j] => i = j
\* A request is in one place, once, until it is answered, and was answered as often as it left them.
Ledger ==
  /\ Once(fd) /\ Once(lineBuf) /\ Once(inflight)
  /\ \A r \in Requests :
       /\ Holds(fd, r) \/ Holds(lineBuf, r) \/ InFlight(r) => asked[r].kind # "none"
       /\ ~(Holds(fd, r) /\ Holds(lineBuf, r))
       /\ ~(Holds(fd, r) /\ InFlight(r))
       /\ ~(Holds(lineBuf, r) /\ InFlight(r))
       /\ answers[r] = IF Unread(r) \/ InFlight(r) THEN 0 ELSE 1
       /\ answer[r] = "none" <=> answers[r] = 0
  /\ ~running => Closed \/ (inflight = <<>> /\ phase \in {"flush", "exited"})
  /\ phase = "exited" /\ inflight # <<>> => Closed

\* A session belongs to the target it names.
Sessioned == SessionIndex /\ \A s \in DOMAIN bySession : bySession[s] = s[1]

\* Unless a navigation failed, a page that waits has one under way; a navigation that is done
\* left its page waiting for nothing; and while it has no news, its page shows none.
Under(t) == t.call # 0 \/ t.nav # Unset
Sent(r) == Under(task[r]) \/ task[r].outcome = "failed"
IsNav(r) == asked[r].kind \in {"nav", "newTab"}
OneNavAtATime == \A r, q \in Requests : InFlight(r) /\ IsNav(r) /\ InFlight(q) /\ IsNav(q) => r = q
NoneFailed == \A q \in Requests : IsNav(q) => answer[q] # "failed"
Waiting(t) == t \in DOMAIN pages /\ pages[t].life.state = "waiting"
InNav(r) == InFlight(r) /\ Navigating(r) /\ Sent(r)
NavBooks ==
  NoneFailed =>
    /\ \A t \in Targets : Waiting(t) => \E r \in Requests : InNav(r) /\ task[r].target = t
    /\ \A r \in Requests : InNav(r) /\ task[r].target \in DOMAIN pages =>
         /\ task[r].outcome = "ok" => ~Waiting(task[r].target)
         /\ Under(task[r]) /\ r \notin news => ~pages[task[r].target].life.started /\ ~pages[task[r].target].life.committed

Typed == TypeOK /\ BrowserTypes /\ LoopTypes
Wired == AnswersSuit /\ WiresPast /\ TaskShapes /\ Owned
Books == Typed /\ Wired /\ Ledger /\ Sessioned

----------------------------------------------------------------------------
(* What a task may become *)

LEMMA TaskSets ==
    ASSUME NEW t \in Task
    PROVE  /\ Settled(t) \in Task /\ Failed(t) \in Task /\ Done(t) \in Task
           /\ FailOrRetry(t) \in Task /\ \A v \in Evaluated(t) : v \in Task
<1>1. Settled(t) \in Task
  BY DEF Settled, Task
<1>2. Failed(t) \in Task /\ Done(t) \in Task
  BY DEF Failed, Done, Task
<1>3. FailOrRetry(t) \in Task
  BY DEF FailOrRetry, Failed, Task
<1>4. \A v \in Evaluated(t) : v \in Task
  <2>1. [t EXCEPT !.flow = "none", !.stage = 2] \in Task
    <3> DEFINE v == [t EXCEPT !.flow = "none"]
    <3>1. v \in Task /\ 2 \in 0..2
      BY DEF Task
    <3> HIDE DEF v
    <3>2. [v EXCEPT !.stage = 2] \in Task
      BY <3>1 DEF Task
    <3> QED
      BY <3>2 DEF v
  <2>2. [t EXCEPT !.flow = "none"] \in Task
    BY DEF Task
  <2>3. \A v \in Task : Failed(v) \in Task
    BY DEF Failed, Task
  <2> QED
    BY <1>2, <2>1, <2>2, <2>3 DEF Evaluated
<1> QED
  BY <1>1, <1>2, <1>3, <1>4

\* The task t with the call w under way.
Asking(t, w) == [t EXCEPT !.call = w, !.reply = "none"]

LEMMA Called ==
    ASSUME NEW t \in Task, NEW w \in Nat
    PROVE  LET u == Asking(t, w)
           IN  /\ u \in Task /\ u.call = w /\ u.reply = "none" /\ u.kind = t.kind /\ u.nested = t.nested
               /\ u.target = t.target /\ u.outcome = t.outcome
               /\ u.stage = t.stage /\ u.flow = t.flow /\ u.nav = t.nav
<1> DEFINE v == [t EXCEPT !.call = w]
           u == [v EXCEPT !.reply = "none"]
<1>1. v \in Task /\ v.call = w
  BY DEF Task
<1>2. v.kind = t.kind /\ v.nested = t.nested /\ v.target = t.target /\ v.outcome = t.outcome
  BY DEF Task
<1>3. v.stage = t.stage /\ v.flow = t.flow /\ v.nav = t.nav
  BY DEF Task
<1> HIDE DEF v
<1>4. u \in Task /\ u.call = v.call /\ u.reply = "none"
  BY <1>1 DEF Task
<1>5. u.kind = v.kind /\ u.nested = v.nested /\ u.target = v.target /\ u.outcome = v.outcome
  BY <1>1 DEF Task
<1>6. u.stage = v.stage /\ u.flow = v.flow /\ u.nav = v.nav
  BY <1>1 DEF Task
<1>7. u = Asking(t, w)
  BY DEF v, Asking
<1> HIDE DEF u
<1> QED
  BY <1>1, <1>2, <1>3, <1>4, <1>5, <1>6, <1>7

LEMMA WiresRise ==
    ASSUME WiresPast, wire \in Nat, DOMAIN pending \subseteq Nat
    PROVE  wire # 0 /\ wire \notin DOMAIN pending /\ 0 \notin DOMAIN pending /\ wire + 1 \in Nat
<1>1. \A w \in DOMAIN pending : w \in Nat /\ 0 < w /\ w < wire
  BY DEF WiresPast
<1> QED
  BY <1>1 DEF WiresPast

\* What one poll of a task does to it and to its call.
Shaped(u) ==
  /\ u.nested => u.kind = "newTab"
  /\ u.kind \in {"shot", "clip"} =>
       (u.stage = 0 => u.call = 0) /\ (u.stage = 2 /\ u.flow = "none" => u.call = 0)
  /\ u.reply # "none" => u.call # 0
  /\ What(u) # "nav" => u.nav = Unset

Keeps(r, u) ==
  /\ UNCHANGED <<router, calls>>
  /\ u.call = task[r].call /\ u.reply = task[r].reply /\ u.val = task[r].val /\ What(u) = What(task[r])
Forgets(r, u) ==
  /\ UNCHANGED <<wire, calls>>
  /\ DOMAIN pending' = DOMAIN pending \ {task[r].call}
  /\ \A w \in DOMAIN pending' : pending'[w] = pending[w]
  /\ u.call = 0 /\ u.reply = "none"
Refused(r, u) ==
  /\ wire' = wire + 1 /\ UNCHANGED <<pending, calls>>
  /\ task[r].call = 0 /\ u.call = 0 /\ u.reply = "none"
Opened(r, u) ==
  /\ wire' = wire + 1 /\ task[r].call = 0
  /\ DOMAIN pending' = DOMAIN pending \cup {wire}
  /\ pending'[wire] = r /\ \A w \in DOMAIN pending : pending'[w] = pending[w]
  /\ u.call = wire /\ u.reply = "none"
  /\ \E c \in Call :
       /\ calls' = calls \cup {c} /\ c.wire = wire /\ (c.what = "nav" => c.target \in Targets)
       /\ What(u) # "other" => c.what = What(u)

Becomes(r, u) ==
  /\ task' = [task EXCEPT ![r] = u]
  /\ u \in Task /\ u.kind = task[r].kind /\ Shaped(u)
  /\ Keeps(r, u) \/ Forgets(r, u) \/ Refused(r, u) \/ Opened(r, u)
Polled(r) == \E u \in Task : Becomes(r, u)

LEMMA Unregistered ==
    ASSUME Wired, NEW r \in Requests, task[r].reply # "none" \/ task[r].call = 0, TypeOK
    PROVE  task[r].call \notin DOMAIN pending
<1>1. ASSUME task[r].call \in DOMAIN pending PROVE FALSE
  <2> DEFINE q == pending[task[r].call]
  <2>1. q \in Requests /\ task[q].call = task[r].call /\ task[q].reply = "none" /\ task[r].call # 0
    BY <1>1 DEF Wired, Owned, WiresPast, TypeOK
  <2>2. q = r
    BY <2>1 DEF Wired, Owned
  <2> QED
    BY <2>1, <2>2
<1> QED
  BY <1>1

LEMMA StaysAsIs ==
    ASSUME NEW r \in Requests, NEW u \in Task, Stays(r, u), u.kind = task[r].kind, Shaped(u),
           u.call = task[r].call, u.reply = task[r].reply, u.val = task[r].val, What(u) = What(task[r])
    PROVE  Polled(r)
BY DEF Stays, Polled, Becomes, Keeps, router

LEMMA StaysAlone ==
    ASSUME Wired, TypeOK, NEW r \in Requests, NEW u \in Task, Stays(r, u), u.kind = task[r].kind, Shaped(u),
           task[r].reply # "none" \/ task[r].call = 0, u.call = 0, u.reply = "none"
    PROVE  Polled(r)
<1>1. task[r].call \notin DOMAIN pending
  BY Unregistered
<1>2. Forgets(r, u)
  BY <1>1 DEF Stays, Forgets, router
<1> QED
  BY <1>2 DEF Stays, Polled, Becomes

LEMMA Cancels ==
    ASSUME NEW r \in Requests, NEW u \in Task, CancelWireCall(r, u), u.kind = task[r].kind, Shaped(Settled(u))
    PROVE  Polled(r)
<1> DEFINE v == Settled(u)
<1>1. v \in Task
  BY TaskSets
<1>2. v.call = 0 /\ v.reply = "none" /\ v.kind = u.kind
  BY DEF Settled, Task
<1>3. task' = [task EXCEPT ![r] = v] /\ Forgets(r, v)
  <2> HIDE DEF v
  <2> QED
    BY <1>2 DEF CancelWireCall, Forgets, Drop, v
<1> HIDE DEF v
<1>4. Shaped(v)
  BY DEF v
<1> QED
  BY <1>1, <1>2, <1>3, <1>4 DEF Polled, Becomes

LEMMA Asks ==
    ASSUME Wired, Typed, NEW r \in Requests, NEW t \in Task, NEW refused \in Task,
           NEW what \in {"call", "eval", "nav", "newPage", "shot"}, NEW session \in Sessions \cup {None},
           SendAsync(r, t, what, session, refused), task[r].call = 0,
           t.kind = task[r].kind, refused.kind = task[r].kind,
           \A w \in Nat \ {0} : Shaped([t EXCEPT !.call = w, !.reply = "none"]),
           Shaped(refused), refused.call = 0, refused.reply = "none",
           what = "nav" => session \in Sessions, What(t) # "other" => what = What(t)
    PROVE  Polled(r)
<1>1. CASE ~browserUp
  BY <1>1 DEF SendAsync, Polled, Becomes, Refused
<1>2. CASE browserUp
  <2> DEFINE u == [t EXCEPT !.call = wire, !.reply = "none"]
             c == [wire |-> wire, what |-> what, url |-> asked[r].url, stage |-> "new",
                   target |-> IF session = None THEN None ELSE session[1], replied |-> FALSE]
  <2>0. wire \in Nat \ {0} /\ wire \notin DOMAIN pending
    <3>1. wire \in Nat /\ DOMAIN pending \subseteq Nat
      BY DEF Typed, TypeOK
    <3> QED
      BY <3>1, WiresRise DEF Wired
  <2>1. u \in Task /\ u.kind = t.kind /\ u.call = wire /\ u.reply = "none" /\ u.nested = t.nested
    <3>1. u = Asking(t, wire)
      BY DEF Asking
    <3> HIDE DEF u
    <3> QED
      BY <2>0, <3>1, Called
  <2>2. asked[r].url \in Urls \cup {NoUrl}
    BY DEF Typed, LoopTypes, Asked
  <2>3. session # None => session[1] \in Targets
    BY DEF Sessions
  <2>4. c \in Call /\ c.wire = wire /\ c.what = what /\ (what = "nav" => c.target \in Targets)
    BY <2>0, <2>2, <2>3, NameAssumption DEF Call
  <2>5. Shaped(u)
    BY <2>0
  <2>6. What(u) = What(t)
    BY <2>1 DEF What
  <2>7. /\ wire' = wire + 1 /\ pending' = Put(pending, wire, r) /\ calls' = calls \cup {c}
        /\ task' = [task EXCEPT ![r] = u]
    BY <1>2 DEF SendAsync
  <2>8. wire \notin DOMAIN pending
    BY <2>0
  <2> HIDE DEF u, c
  <2>9. Opened(r, u)
    BY <2>1, <2>4, <2>6, <2>7, <2>8 DEF Opened, Put
  <2> QED
    BY <2>1, <2>5, <2>7, <2>9 DEF Polled, Becomes
<1> QED
  BY <1>1, <1>2

\* What most steps of a flow leave alone.
Alike(u, t) ==
  /\ u.kind = t.kind /\ u.nested = t.nested /\ u.stage = t.stage /\ u.flow = t.flow
  /\ u.target = t.target /\ u.nav = t.nav
SameCall(u, t) == u.call = t.call /\ u.reply = t.reply /\ u.val = t.val

LEMMA Likes ==
    ASSUME NEW t \in Task
    PROVE  /\ Alike(Settled(t), t) /\ Settled(t).call = 0 /\ Settled(t).reply = "none" /\ Settled(t).outcome = t.outcome
           /\ Alike(Failed(t), t) /\ SameCall(Failed(t), t) /\ Failed(t).outcome = "failed"
           /\ Alike(Done(t), t) /\ SameCall(Done(t), t) /\ Done(t).outcome = "ok"
           /\ Alike(FailOrRetry(t), t) /\ SameCall(FailOrRetry(t), t) /\ FailOrRetry(t).outcome \in {t.outcome, "failed"}
<1>1. Alike(Settled(t), t) /\ Settled(t).call = 0 /\ Settled(t).reply = "none" /\ Settled(t).outcome = t.outcome
  BY DEF Settled, Task, Alike
<1>2. Alike(Failed(t), t) /\ SameCall(Failed(t), t) /\ Failed(t).outcome = "failed"
  BY DEF Failed, Task, Alike, SameCall
<1>3. Alike(Done(t), t) /\ SameCall(Done(t), t) /\ Done(t).outcome = "ok"
  BY DEF Done, Task, Alike, SameCall
<1>4. Alike(FailOrRetry(t), t) /\ SameCall(FailOrRetry(t), t) /\ FailOrRetry(t).outcome \in {t.outcome, "failed"}
  <2>1. CASE t.retry
    BY <2>1 DEF FailOrRetry, Task, Alike, SameCall
  <2>2. CASE ~t.retry
    BY <1>2, <2>2 DEF FailOrRetry
  <2> QED
    BY <2>1, <2>2
<1> QED
  BY <1>1, <1>2, <1>3, <1>4

LEMMA AlikeShaped ==
    ASSUME NEW t \in Task, NEW u \in Task, Alike(u, t), Shaped(t)
    PROVE  /\ u.call = t.call /\ u.reply \in {"none", t.reply} => Shaped(u)
           /\ u.call = 0 /\ u.reply = "none" => Shaped(u)
           /\ What(u) = What(t)
BY DEF Alike, Shaped, What

LEMMA TaskNow ==
    ASSUME Wired, TypeOK, NEW r \in Requests
    PROVE  task[r] \in Task /\ Shaped(task[r]) /\ (task[r].call = 0 => task[r].reply = "none")
BY DEF Wired, TaskShapes, TypeOK, Shaped

\* The three ways in which a flow ends or goes on without a call.
LEMMA StaysAlike ==
    ASSUME Wired, TypeOK, NEW r \in Requests, NEW u \in Task, Stays(r, u), Alike(u, task[r]), SameCall(u, task[r])
    PROVE  Polled(r)
BY TaskNow, AlikeShaped, StaysAsIs DEF Alike, SameCall

LEMMA StaysSettled ==
    ASSUME Wired, TypeOK, NEW r \in Requests, NEW u \in Task, Stays(r, u), u.kind = task[r].kind,
           u.call = 0, u.reply = "none", task[r].reply # "none" \/ task[r].call = 0, Shaped(u)
    PROVE  Polled(r)
BY TaskNow, StaysAlone

LEMMA CancelsAlike ==
    ASSUME Wired, TypeOK, NEW r \in Requests, NEW u \in Task, CancelWireCall(r, u), Alike(u, task[r])
    PROVE  Polled(r)
<1>1. Settled(u) \in Task /\ Alike(Settled(u), u) /\ Settled(u).call = 0 /\ Settled(u).reply = "none"
  BY TaskSets, Likes
<1>2. Alike(Settled(u), task[r])
  BY <1>1 DEF Alike
<1> QED
  BY <1>1, <1>2, TaskNow, AlikeShaped, Cancels DEF Alike

LEMMA PageTypes ==
    ASSUME TypeOK, NEW t \in DOMAIN pages
    PROVE  t \in Targets /\ pages[t] \in Page /\ pages[t].session \in Sessions
BY DEF TypeOK, Page

\* EvalFlow, of an evaluation or a measurement.
LEMMA EvalPolls ==
    ASSUME Wired, Typed, NEW r \in Requests, EvalPoll(r),
           task[r].kind = "eval" \/ (task[r].kind \in {"shot", "clip"} /\ task[r].stage = 1)
    PROVE  Polled(r)
<1> DEFINE t == task[r]
           u == [t EXCEPT !.settle = "none"]
<1>0. TypeOK /\ t \in Task /\ Shaped(t) /\ (t.call = 0 => t.reply = "none")
  BY TaskNow DEF Typed
<1>1. u \in Task /\ Alike(u, t) /\ SameCall(u, t)
  BY <1>0 DEF Task, Alike, SameCall
<1>2. Failed(u) \in Task /\ Alike(Failed(u), t) /\ SameCall(Failed(u), t)
  <2> HIDE DEF u
  <2> QED
    BY <1>1, TaskSets, Likes DEF Alike, SameCall
<1>3. FailOrRetry(t) \in Task /\ Alike(FailOrRetry(t), t) /\ Failed(t) \in Task /\ Alike(Failed(t), t) /\ SameCall(Failed(t), t)
  BY <1>0, TaskSets, Likes
<1>4. Settled(t) \in Task /\ Alike(Settled(t), t) /\ Settled(t).call = 0 /\ Settled(t).reply = "none"
  BY <1>0, TaskSets, Likes
<1>5. ASSUME NEW v \in Task, Alike(v, t), v.call = 0, v.reply = "none", t.reply # "none", Stays(r, v) PROVE Polled(r)
  BY <1>0, <1>5, AlikeShaped, StaysSettled DEF Alike
<1>6. CASE CancelWireCall(r, FailOrRetry(t))
  BY <1>0, <1>3, <1>6, CancelsAlike
<1>7. CASE t.reply = "err" /\ Stays(r, FailOrRetry(Settled(t)))
  <2> DEFINE v == FailOrRetry(Settled(t))
  <2>1. v \in Task /\ Alike(v, Settled(t)) /\ SameCall(v, Settled(t))
    BY <1>4, TaskSets, Likes
  <2> HIDE DEF v
  <2>2. Alike(v, t) /\ v.call = 0 /\ v.reply = "none"
    BY <1>4, <2>1 DEF Alike, SameCall
  <2> QED
    BY <1>5, <1>7, <2>1, <2>2 DEF v
<1>8. CASE t.reply = "ok" /\ \E v \in Evaluated(Settled(t)) : Stays(r, v)
  <2> DEFINE s == Settled(t)
  <2>0. s \in Task /\ Alike(s, t) /\ s.call = 0 /\ s.reply = "none"
    BY <1>4
  <2> HIDE DEF s
  <2>1. PICK v \in Evaluated(s) : Stays(r, v)
    BY <1>8 DEF s
  <2>2. v \in Task
    BY <2>0, TaskSets
  <2>3. v.kind = t.kind /\ v.nested = t.nested /\ v.call = 0 /\ v.reply = "none" /\ v.nav = t.nav
    <3>1. Done(s).kind = s.kind /\ Done(s).nav = s.nav /\ Done(s).nested = s.nested /\ Done(s).call = s.call /\ Done(s).reply = s.reply
      BY <2>0, Likes DEF Alike, SameCall
    <3>2. LET x == [s EXCEPT !.flow = "none", !.stage = 2]
          IN x.kind = s.kind /\ x.nested = s.nested /\ x.nav = s.nav /\ x.call = s.call /\ x.reply = s.reply
      BY <2>0 DEF Task
    <3>3. LET x == [s EXCEPT !.flow = "none"]
          IN x \in Task /\ x.kind = s.kind /\ x.nested = s.nested /\ x.nav = s.nav /\ x.call = s.call /\ x.reply = s.reply
      BY <2>0 DEF Task
    <3>4. LET x == Failed([s EXCEPT !.flow = "none"])
          IN x.kind = s.kind /\ x.nested = s.nested /\ x.nav = s.nav /\ x.call = s.call /\ x.reply = s.reply
      BY <3>3, Likes DEF Alike, SameCall
    <3> QED
      BY <2>0, <2>1, <3>1, <3>2, <3>4 DEF Evaluated, Alike
  <2>4. Shaped(v)
    BY <1>0, <2>3 DEF Shaped, What
  <2> QED
    BY <1>0, <1>8, <2>1, <2>2, <2>3, <2>4, StaysSettled
<1>9. CASE Stays(r, t) \/ Stays(r, Failed(t)) \/ Stays(r, u) \/ Stays(r, Failed(u))
  <2>1. Alike(t, t) /\ SameCall(t, t)
    BY DEF Alike, SameCall
  <2> HIDE DEF u
  <2> QED
    BY <1>0, <1>1, <1>2, <1>3, <1>9, <2>1, StaysAlike
<1>10. CASE /\ t.call = 0 /\ t.target \in DOMAIN pages
            /\ SendAsync(r, u, "eval", pages[t.target].session, Failed(u))
  <2> HIDE DEF u
  <2>1. \A w \in Nat \ {0} : Shaped([u EXCEPT !.call = w, !.reply = "none"])
    <3> SUFFICES ASSUME NEW w \in Nat \ {0} PROVE Shaped([u EXCEPT !.call = w, !.reply = "none"])
      OBVIOUS
    <3>1. LET x == [u EXCEPT !.call = w, !.reply = "none"]
          IN x.kind = u.kind /\ x.nested = u.nested /\ x.nav = u.nav /\ x.stage = u.stage /\ x.reply = "none"
      BY <1>1 DEF Task
    <3> QED
      BY <1>0, <1>1, <3>1 DEF Shaped, Alike, What
  <2>2. Shaped(Failed(u)) /\ What(u) = What(t) /\ What(t) = "other"
    BY <1>0, <1>1, <1>2, <1>10, AlikeShaped DEF SameCall, What, Shaped
  <2>3. pages[t.target].session \in Sessions
    BY <1>0, <1>10, PageTypes
  <2> QED
    BY <1>0, <1>1, <1>2, <1>10, <2>1, <2>2, <2>3, Asks DEF Alike, SameCall
<1> QED
  BY <1>6, <1>7, <1>8, <1>9, <1>10 DEF EvalPoll

----------------------------------------------------------------------------
(* Navigations of a page *)

GoodPages(ps) == DOMAIN ps \subseteq Targets /\ \A t \in DOMAIN ps : ps[t] \in Page
\* From one set of pages to another, nothing but the navigation of one page moves.
LifeMoves(ps, qs, t) ==
  /\ DOMAIN qs = DOMAIN ps
  /\ \A x \in DOMAIN ps : /\ qs[x] \in Page /\ qs[x].session = ps[x].session /\ qs[x].url = ps[x].url
                          /\ x # t => qs[x] = ps[x]
PagesKept == DOMAIN pages' = DOMAIN pages /\ \A t \in DOMAIN pages : pages'[t] \in Page /\ pages'[t].session = pages[t].session
Flags(l) == <<l.started, l.committed>>

LEMMA LifeSteps ==
    ASSUME NEW l \in Life
    PROVE  /\ \A f \in Frames : Begin(l, f) \in Life
           /\ \A n \in Nat \cup {NoNav} : /\ SetNavigationId(l, n) \in Life /\ Flags(SetNavigationId(l, n)) = Flags(l)
                                        /\ SetNavigationId(l, n).state = l.state
           /\ LET d == [l EXCEPT !.state = "done"] IN d \in Life /\ Flags(d) = Flags(l) /\ d.state = "done"
<1>1. \A f \in Frames : Begin(l, f) \in Life
  BY DEF Begin, Life
<1>2. \A n \in Nat \cup {NoNav} : LET k == [l EXCEPT !.nav = n] IN k \in Life /\ Flags(k) = Flags(l) /\ k.state = l.state
  BY DEF Life, Flags
<1>3. LET d == [l EXCEPT !.state = "done"] IN d \in Life /\ Flags(d) = Flags(l) /\ d.state = "done"
  BY DEF Life, Flags
<1> QED
  BY <1>1, <1>2, <1>3 DEF SetNavigationId

LEMMA NewLife ==
    ASSUME NEW p \in Page, NEW l \in Life
    PROVE  LET q == [p EXCEPT !.life = l]
           IN q \in Page /\ q.session = p.session /\ q.url = p.url /\ q.life = l
BY DEF Page

LEMMA LifeGoes ==
    ASSUME NEW ps, GoodPages(ps), NEW t \in DOMAIN ps, NEW l \in Life
    PROVE  LET qs == [ps EXCEPT ![t].life = l] IN LifeMoves(ps, qs, t) /\ qs[t].life = l
<1> DEFINE p == [ps[t] EXCEPT !.life = l]
           qs == [ps EXCEPT ![t] = p]
<1>1. p \in Page /\ p.session = ps[t].session /\ p.url = ps[t].url /\ p.life = l
  BY NewLife DEF GoodPages
<1>2. [ps EXCEPT ![t].life = l] = qs
  OBVIOUS
<1> HIDE DEF p
<1>3. LifeMoves(ps, qs, t) /\ qs[t].life = l
  BY <1>1 DEF LifeMoves, GoodPages
<1> QED
  BY <1>2, <1>3

LEMMA LifeIsDone ==
    ASSUME NEW ps, GoodPages(ps), NEW t \in DOMAIN ps
    PROVE  LET qs == [ps EXCEPT ![t].life.state = "done"]
           IN  LifeMoves(ps, qs, t) /\ qs[t].life.state = "done" /\ Flags(qs[t].life) = Flags(ps[t].life)
<1> DEFINE l == [ps[t].life EXCEPT !.state = "done"]
<1>0. ps[t].life \in Life
  BY DEF GoodPages, Page
<1>1. l \in Life /\ l.state = "done" /\ Flags(l) = Flags(ps[t].life)
  BY <1>0, LifeSteps
<1>2. [ps EXCEPT ![t].life.state = "done"] = [ps EXCEPT ![t].life = l]
  OBVIOUS
<1> HIDE DEF l
<1>3. LET qs == [ps EXCEPT ![t].life = l] IN LifeMoves(ps, qs, t) /\ qs[t].life = l
  BY <1>1, LifeGoes
<1> QED
  BY <1>1, <1>2, <1>3

\* One poll of a navigation: nothing, its beginning, or what the answer or the page's events say.
Likened(u, t) == u.kind = t.kind /\ u.nested = t.nested /\ u.stage = t.stage /\ u.flow = t.flow /\ u.target = t.target
NavRests(t, u) ==
  UNCHANGED pages /\ u.outcome # "ok" /\ (Under(t) => Under(u) \/ u.outcome = "failed") /\ (Under(u) => Under(t))
NavBegins(t, u) ==
  /\ ~Under(t) /\ t.target \in DOMAIN pages
  /\ wire' # wire /\ u.outcome # "ok" /\ (u.call # 0 \/ u.outcome = "failed")
  /\ pages[t.target].life.state # "waiting" =>
       pages'[t.target].life.state = "waiting" /\ Flags(pages'[t.target].life) = <<FALSE, FALSE>>
NavGoesOn(r, t, u) ==
  /\ Under(t) /\ (Under(u) \/ u.outcome = "failed")
  /\ t.target \in DOMAIN pages =>
       /\ Flags(pages'[t.target].life) = Flags(pages[t.target].life)
       /\ pages'[t.target].life.state \in {"done", pages[t.target].life.state}
  /\ u.outcome = "ok" =>
       /\ t.target \in DOMAIN pages /\ pages'[t.target].life.state # "waiting"
       /\ pages[t.target].life.started \/ pages[t.target].life.committed \/ pages[t.target].url = asked[r].url
NavMoves(r) ==
  \E u \in Task :
    /\ task' = [task EXCEPT ![r] = u] /\ Likened(u, task[r])
    /\ LifeMoves(pages, pages', task[r].target)
    /\ wire' # wire => NavBegins(task[r], u)
    /\ NavRests(task[r], u) \/ NavBegins(task[r], u) \/ NavGoesOn(r, task[r], u)

LEMMA PagesGood == ASSUME TypeOK PROVE GoodPages(pages) /\ LifeMoves(pages, pages, None)
BY DEF TypeOK, GoodPages, LifeMoves

LEMMA NoMove == ASSUME TypeOK, NEW t, UNCHANGED pages PROVE LifeMoves(pages, pages', t)
BY DEF TypeOK, LifeMoves

LEMMA MovesKeep == ASSUME NEW t, LifeMoves(pages, pages', t) PROVE PagesKept
BY DEF LifeMoves, PagesKept

LEMMA AndThen ==
    ASSUME NEW ps, NEW qs, NEW zs, NEW t, LifeMoves(ps, qs, t), LifeMoves(qs, zs, t)
    PROVE  LifeMoves(ps, zs, t)
BY DEF LifeMoves

\* The gate: t is the task once the browser's answer is taken.
LEMMA Gates ==
    ASSUME Typed, NEW r \in Requests, NEW t \in Task, NEW ps, GoodPages(ps), Gate(r, t, ps),
           t.nav # Unset, Under(task[r]), Likened(t, task[r]), LifeMoves(pages, ps, task[r].target),
           t.target \in DOMAIN pages => Flags(ps[t.target].life) = Flags(pages[t.target].life)
                                       /\ ps[t.target].life.state = pages[t.target].life.state,
           UNCHANGED wire, t.outcome = "open"
    PROVE  NavMoves(r) /\ \E u \in {t, Failed(t), Done(t)} : Stays(r, u)
<1> DEFINE done == [ps EXCEPT ![t.target].life.state = "done"]
<1>0. /\ t.target = task[r].target /\ DOMAIN ps = DOMAIN pages
      /\ \A x \in DOMAIN ps : ps[x].url = pages[x].url
  BY DEF Likened, LifeMoves
<1>1. /\ \A u \in {Failed(t), Done(t)} : u \in Task /\ Likened(u, task[r]) /\ u.nav = t.nav
      /\ Failed(t).outcome = "failed" /\ Done(t).outcome = "ok"
  BY TaskSets, Likes DEF Likened, Alike
<1>2. CASE Stays(r, Failed(t)) /\ pages' = ps
  <2> DEFINE u == Failed(t)
  <2>1. task' = [task EXCEPT ![r] = u]
    BY <1>2 DEF Stays
  <2>2. u \in Task /\ Likened(u, task[r]) /\ u.nav = t.nav /\ u.outcome = "failed"
    BY <1>1
  <2> HIDE DEF u
  <2>3. NavGoesOn(r, task[r], u)
    BY <1>0, <1>2, <2>2 DEF NavGoesOn, Under
  <2>4. NavMoves(r)
    BY <1>2, <2>1, <2>2, <2>3 DEF NavMoves
  <2> QED
    BY <1>2, <2>4
<1>3. CASE Stays(r, t) /\ pages' = ps
  <2>1. task' = [task EXCEPT ![r] = t]
    BY <1>3 DEF Stays
  <2>2. NavGoesOn(r, task[r], t)
    BY <1>0, <1>3 DEF NavGoesOn, Under
  <2>3. NavMoves(r)
    BY <1>3, <2>1, <2>2 DEF NavMoves
  <2> QED
    BY <1>3, <2>3
<1>4. CASE /\ Stays(r, Done(t)) /\ t.target \in DOMAIN ps
           /\ ps[t.target].life.committed \/ ps[t.target].url = asked[r].url \/ ps[t.target].life.started
           /\ pages' = done \/ (pages' = ps /\ ps[t.target].life.state = "done")
  <2> DEFINE u == Done(t)
  <2>1. task' = [task EXCEPT ![r] = u]
    BY <1>4 DEF Stays
  <2>2. u \in Task /\ Likened(u, task[r]) /\ u.nav = t.nav /\ u.outcome = "ok"
    BY <1>1
  <2> HIDE DEF u
  <2>3. LifeMoves(ps, done, t.target) /\ done[t.target].life.state = "done" /\ Flags(done[t.target].life) = Flags(ps[t.target].life)
    BY <1>4, LifeIsDone
  <2>4. LifeMoves(pages, done, task[r].target)
    <3> HIDE DEF done
    <3> QED
      BY <1>0, <2>3, AndThen
  <2> HIDE DEF done
  <2>5. LifeMoves(pages, pages', task[r].target)
    BY <1>4, <2>4
  <2>6. Flags(pages'[t.target].life) = Flags(pages[t.target].life) /\ pages'[t.target].life.state = "done"
    BY <1>0, <1>4, <2>3
  <2>7. Flags(ps[t.target].life) = Flags(pages[t.target].life) /\ ps[t.target].url = pages[t.target].url
    BY <1>0, <1>4
  <2>8. pages[t.target].life.started \/ pages[t.target].life.committed \/ pages[t.target].url = asked[r].url
    BY <1>4, <2>7 DEF Flags
  <2>9. NavGoesOn(r, task[r], u)
    BY <1>0, <1>4, <2>2, <2>6, <2>8 DEF NavGoesOn, Under
  <2>10. NavMoves(r)
    BY <2>1, <2>2, <2>5, <2>9 DEF NavMoves
  <2> QED
    BY <1>4, <2>10
<1> HIDE DEF done
<1>5. QED
  BY <1>2, <1>3, <1>4 DEF Gate, UrlCommitted, NavigationSatisfied, done

\* A poll that leaves the pages alone.
LEMMA Rests ==
    ASSUME TypeOK, NEW r \in Requests, NEW u \in Task, task' = [task EXCEPT ![r] = u], UNCHANGED <<pages, wire>>,
           Likened(u, task[r]), u.outcome # "ok",
           Under(task[r]) => Under(u) \/ u.outcome = "failed", Under(u) => Under(task[r])
    PROVE  NavMoves(r)
<1>1. LifeMoves(pages, pages', task[r].target)
  BY NoMove
<1>2. NavRests(task[r], u)
  BY DEF NavRests
<1> QED
  BY <1>1, <1>2 DEF NavMoves

\* Polls of a task that navigates.
NavTask(r) == What(task[r]) = "nav" /\ task[r].outcome = "open"

LEMMA ShapedAlike ==
    ASSUME NEW t, NEW u, Shaped(t), Alike(u, t), t.kind \notin {"shot", "clip"}, u.reply = "none"
    PROVE  Shaped(u)
<1>1. u.kind = t.kind /\ u.nested = t.nested /\ u.nav = t.nav /\ What(u) = What(t)
  BY DEF Alike, What
<1> QED
  BY <1>1 DEF Shaped

LEMMA NavStarts1 ==
    ASSUME Wired, Typed, NEW r \in Requests, NavTask(r), NavStart(r), task[r].call = 0, task[r].nav = Unset
    PROVE  NavMoves(r) /\ Polled(r)
<1> DEFINE t == task[r]
           p == pages[t.target]
<1>0. TypeOK /\ t \in Task /\ Shaped(t) /\ t.reply = "none" /\ Alike(t, t) /\ SameCall(t, t) /\ wire \in Nat
  <2>1. TypeOK /\ wire \in Nat
    BY DEF Typed, TypeOK
  <2> QED
    BY <2>1, TaskNow DEF Alike, SameCall
<1>1. Failed(t) \in Task /\ Alike(Failed(t), t) /\ SameCall(Failed(t), t) /\ Failed(t).outcome = "failed"
  BY <1>0, TaskSets, Likes
<1>2. CASE UNCHANGED pages /\ (Stays(r, t) \/ Stays(r, Failed(t)))
  <2>1. PICK u \in {t, Failed(t)} : Stays(r, u)
    BY <1>2
  <2>2. u \in Task /\ Alike(u, t) /\ SameCall(u, t) /\ u.outcome # "ok"
    BY <1>0, <1>1 DEF NavTask
  <2>3. task' = [task EXCEPT ![r] = u] /\ UNCHANGED wire
    BY <2>1 DEF Stays, router
  <2>4. NavMoves(r)
    BY <1>0, <1>2, <2>2, <2>3, Rests DEF Alike, SameCall, Likened, Under
  <2> QED
    BY <1>0, <2>1, <2>2, <2>4, StaysAlike
<1>3. CASE /\ t.target \in DOMAIN pages /\ p.main # NoFrame
           /\ pages' = [pages EXCEPT ![t.target].life = Begin(@, p.main)]
           /\ SendAsync(r, t, "nav", p.session, Failed(t))
  <2>1. p \in Page /\ p.session \in Sessions /\ p.life \in Life /\ p.main \in Frames
    BY <1>0, <1>3, PageTypes DEF Page
  <2>2. Begin(p.life, p.main) \in Life
    BY <2>1, LifeSteps
  <2>3. pages' = [pages EXCEPT ![t.target].life = Begin(p.life, p.main)]
    BY <1>3
  <2>4. GoodPages(pages)
    BY <1>0, PagesGood
  <2>5. LifeMoves(pages, pages', t.target) /\ pages'[t.target].life = Begin(p.life, p.main)
    <3> DEFINE l == Begin(p.life, p.main)
               qs == [pages EXCEPT ![t.target].life = l]
    <3>1. l \in Life /\ pages' = qs
      BY <2>2, <2>3
    <3>2. t.target \in DOMAIN pages
      BY <1>3
    <3> HIDE DEF l, t
    <3>3. LifeMoves(pages, qs, t.target) /\ qs[t.target].life = l
      BY <2>4, <3>1, <3>2, LifeGoes
    <3> QED
      BY <3>1, <3>3 DEF l
  <2>6. wire + 1 # wire /\ wire # 0
    BY <1>0 DEF Wired, WiresPast
  <2>7. p.life.state # "waiting" => LET l == Begin(p.life, p.main) IN l.state = "waiting" /\ Flags(l) = <<FALSE, FALSE>>
    BY DEF Begin, Flags
  <2>8. \A w \in Nat \ {0} : LET u == [t EXCEPT !.call = w, !.reply = "none"] IN u \in Task /\ Alike(u, t) /\ Shaped(u) /\ u.call = w /\ u.outcome = t.outcome
    <3>1. \A w \in Nat \ {0} : LET u == [t EXCEPT !.call = w, !.reply = "none"]
                               IN u \in Task /\ Alike(u, t) /\ u.call = w /\ u.reply = "none" /\ u.outcome = t.outcome
      <4>1. \A w \in Nat \ {0} : w \in Nat /\ [t EXCEPT !.call = w, !.reply = "none"] = Asking(t, w)
        BY DEF Asking
      <4>2. \A w \in Nat \ {0} : /\ Asking(t, w) \in Task /\ Alike(Asking(t, w), t) /\ Asking(t, w).call = w
                                 /\ Asking(t, w).reply = "none" /\ Asking(t, w).outcome = t.outcome
        BY <1>0, Called DEF Alike
      <4> QED
        BY <4>1, <4>2
    <3>2. t.kind \notin {"shot", "clip"}
      BY <1>0 DEF NavTask, What, Shaped
    <3> HIDE DEF t
    <3> QED
      BY <1>0, <3>1, <3>2, ShapedAlike
  <2>9. PICK u \in Task : /\ task' = [task EXCEPT ![r] = u] /\ Alike(u, t) /\ wire' = wire + 1
                          /\ u.outcome # "ok" /\ (u.call # 0 \/ u.outcome = "failed")
    <3>1. wire' = wire + 1
      BY <1>3 DEF SendAsync
    <3>2. CASE browserUp
      <4>1. task' = [task EXCEPT ![r] = [t EXCEPT !.call = wire, !.reply = "none"]]
        BY <1>3, <3>2 DEF SendAsync
      <4> QED
        BY <1>0, <2>6, <2>8, <3>1, <4>1 DEF NavTask
    <3>3. CASE ~browserUp
      <4>1. task' = [task EXCEPT ![r] = Failed(t)]
        BY <1>3, <3>3 DEF SendAsync
      <4> QED
        BY <1>1, <3>1, <4>1
    <3> QED
      BY <3>2, <3>3
  <2>10. NavBegins(t, u)
    BY <1>3, <2>5, <2>6, <2>7, <2>9 DEF NavBegins, Under
  <2>11. NavMoves(r)
    BY <2>5, <2>9, <2>10 DEF NavMoves, Alike, Likened
  <2>12. Shaped(Failed(t)) /\ What(t) = "nav"
    BY <1>0, <1>1, AlikeShaped DEF SameCall, NavTask
  <2>13. Polled(r)
    <3> DEFINE f == Failed(t)
               ss == p.session
    <3>1. SendAsync(r, t, "nav", ss, f) /\ ss \in Sessions
      BY <1>3, <2>1
    <3>2. f \in Task /\ f.kind = t.kind /\ f.call = 0 /\ f.reply = "none" /\ Shaped(f)
      BY <1>0, <1>1, <1>3, <2>12 DEF Alike, SameCall
    <3>3. \A w \in Nat \ {0} : Shaped([t EXCEPT !.call = w, !.reply = "none"])
      BY <2>8
    <3> HIDE DEF f, ss
    <3> QED
      BY <1>0, <2>12, <3>1, <3>2, <3>3, Asks
  <2> QED
    BY <2>11, <2>13
<1> QED
  BY <1>2, <1>3 DEF NavStart

LEMMA NavAnswers ==
    ASSUME Wired, Typed, NEW r \in Requests, NavTask(r), NavAnswered(r), task[r].reply = "ok"
    PROVE  NavMoves(r) /\ Polled(r)
<1> DEFINE s == Settled(task[r])
           t == [s EXCEPT !.nav = task[r].val]
<1>0. TypeOK /\ task[r] \in Task /\ Shaped(task[r]) /\ task[r].call # 0 /\ GoodPages(pages)
  <2>1. TypeOK
    BY DEF Typed
  <2> QED
    BY <2>1, TaskNow, PagesGood
<1>1. s \in Task /\ Alike(s, task[r]) /\ s.call = 0 /\ s.reply = "none" /\ s.outcome = "open"
  BY <1>0, TaskSets, Likes DEF NavTask
<1>2. task[r].val \in Nat
  BY DEF Wired, AnswersSuit, Suits, NavTask
<1> HIDE DEF s
<1>3. /\ t \in Task /\ Likened(t, task[r]) /\ t.call = 0 /\ t.reply = "none" /\ t.outcome = "open"
      /\ t.nav = task[r].val /\ t.nav # Unset
  <2>1. t \in Task /\ Likened(t, s) /\ t.call = 0 /\ t.reply = "none" /\ t.outcome = "open" /\ t.nav = task[r].val
    BY <1>1, <1>2 DEF Task, Likened
  <2>2. t.nav # Unset
    BY <1>2, <2>1 DEF Unset
  <2> QED
    BY <1>1, <2>1, <2>2 DEF Likened, Alike
<1>4. t.target = task[r].target
  BY <1>3 DEF Likened
<1> HIDE DEF t
<1>5. \E ps : /\ Gate(r, t, ps) /\ GoodPages(ps) /\ LifeMoves(pages, ps, t.target)
              /\ t.target \in DOMAIN pages => /\ Flags(ps[t.target].life) = Flags(pages[t.target].life)
                                              /\ ps[t.target].life.state = pages[t.target].life.state
  <2>1. CASE Gate(r, t, pages)
    BY <1>0, <2>1 DEF LifeMoves, GoodPages
  <2>2. CASE /\ t.target \in DOMAIN pages
             /\ \E hit \in BOOLEAN : Gate(r, t, [pages EXCEPT ![t.target].life = IF hit THEN SetNavigationId(@, t.nav) ELSE @])
    <3>1. PICK hit \in BOOLEAN : Gate(r, t, [pages EXCEPT ![t.target].life = IF hit THEN SetNavigationId(@, t.nav) ELSE @])
      BY <2>2
    <3> DEFINE l == IF hit THEN SetNavigationId(pages[t.target].life, t.nav) ELSE pages[t.target].life
               ps == [pages EXCEPT ![t.target].life = l]
    <3>2. Gate(r, t, ps)
      BY <3>1
    <3>3. pages[t.target].life \in Life
      BY <1>0, <2>2 DEF GoodPages, Page
    <3>4. l \in Life /\ Flags(l) = Flags(pages[t.target].life) /\ l.state = pages[t.target].life.state
      BY <1>2, <1>3, <3>3, LifeSteps
    <3> HIDE DEF l
    <3>5. LifeMoves(pages, ps, t.target) /\ ps[t.target].life = l
      BY <1>0, <2>2, <3>4, LifeGoes
    <3> HIDE DEF ps
    <3>6. GoodPages(ps)
      BY <1>0, <3>5 DEF GoodPages, LifeMoves
    <3> QED
      BY <3>2, <3>4, <3>5, <3>6
  <2>3. \/ Gate(r, t, pages)
        \/ /\ t.target \in DOMAIN pages
           /\ \E hit \in SameFrame(pages[t.target].life, pages[t.target].main) :
                Gate(r, t, [pages EXCEPT ![t.target].life = IF hit THEN SetNavigationId(@, t.nav) ELSE @])
    BY DEF NavAnswered, t, s
  <2>4. \A l, f : SameFrame(l, f) \subseteq BOOLEAN
    BY DEF SameFrame
  <2> QED
    BY <2>1, <2>2, <2>3, <2>4
<1>6. PICK ps : /\ Gate(r, t, ps) /\ GoodPages(ps) /\ LifeMoves(pages, ps, t.target)
                /\ t.target \in DOMAIN pages => /\ Flags(ps[t.target].life) = Flags(pages[t.target].life)
                                                /\ ps[t.target].life.state = pages[t.target].life.state
  BY <1>5
<1>7. UNCHANGED wire
  BY <1>6 DEF Gate, Stays, router
<1>8. NavMoves(r) /\ \E u \in {t, Failed(t), Done(t)} : Stays(r, u)
  BY <1>0, <1>3, <1>4, <1>6, <1>7, Gates DEF Under
<1>9. \A u \in {t, Failed(t), Done(t)} : u \in Task /\ u.kind = t.kind /\ u.nested = t.nested /\ u.call = 0 /\ u.reply = "none" /\ u.stage = t.stage /\ u.flow = t.flow
  <2>1. \A u \in {Failed(t), Done(t)} : u \in Task /\ Alike(u, t) /\ SameCall(u, t)
    BY <1>3, TaskSets, Likes
  <2> QED
    BY <1>3, <2>1 DEF Alike, SameCall
<1>10. PICK u \in {t, Failed(t), Done(t)} : Stays(r, u)
  BY <1>8
<1>11. Shaped(u)
  BY <1>0, <1>3, <1>9 DEF Shaped, Likened, What, NavTask
<1>12. u.kind = task[r].kind
  BY <1>3, <1>9 DEF Likened
<1> QED
  BY <1>0, <1>8, <1>9, <1>10, <1>11, <1>12, StaysSettled

LEMMA NavWaits ==
    ASSUME Wired, Typed, NEW r \in Requests, NavTask(r), NavUnanswered(r), task[r].call # 0
    PROVE  NavMoves(r) /\ Polled(r)
<1> DEFINE t == task[r]
           p == pages[t.target]
           g == [t EXCEPT !.grace = IF t.grace = "none" THEN "running" ELSE @]
           h == [g EXCEPT !.nav = p.life.nav]
           d == Done(h)
           e == Settled(d)
<1>0. TypeOK /\ t \in Task /\ Shaped(t) /\ GoodPages(pages) /\ t.outcome = "open" /\ What(t) = "nav"
  <2>1. TypeOK
    BY DEF Typed
  <2> QED
    BY <2>1, TaskNow, PagesGood DEF NavTask
<1>1. g \in Task /\ Alike(g, t) /\ SameCall(g, t) /\ g.outcome = "open"
  BY <1>0 DEF Task, Alike, SameCall
<1>2. Failed(t) \in Task /\ Alike(Failed(t), t) /\ SameCall(Failed(t), t) /\ Failed(t).outcome = "failed"
  BY <1>0, TaskSets, Likes
<1>3. Alike(t, t) /\ SameCall(t, t)
  BY DEF Alike, SameCall
<1>4. CASE UNCHANGED pages /\ \E u \in {t, g, Failed(t)} : Stays(r, u)
  <2> HIDE DEF g
  <2>1. PICK u \in {t, g, Failed(t)} : Stays(r, u)
    BY <1>4
  <2>2. u \in Task /\ Alike(u, t) /\ SameCall(u, t) /\ u.outcome # "ok"
    BY <1>0, <1>1, <1>2, <1>3, <2>1
  <2>3. task' = [task EXCEPT ![r] = u] /\ UNCHANGED wire
    BY <2>1 DEF Stays, router
  <2>4. NavMoves(r)
    BY <1>0, <1>4, <2>2, <2>3, Rests DEF Alike, SameCall, Likened, Under
  <2> QED
    BY <1>0, <2>1, <2>2, <2>4, StaysAlike
<1>5. CASE /\ t.target \in DOMAIN pages /\ p.life.started /\ p.life.nav # NoNav
           /\ CancelWireCall(r, d)
           /\ pages' = [pages EXCEPT ![t.target].life.state = "done"]
  <2>1. p.life.nav \in Nat /\ p.life.nav # Unset
    <3>1. p.life \in Life
      BY <1>0, <1>5 DEF GoodPages, Page
    <3>2. p.life.nav \in Nat \cup {NoNav}
      BY <3>1 DEF Life
    <3> QED
      BY <1>5, <3>2 DEF Unset
  <2> HIDE DEF g
  <2>2. h \in Task /\ Likened(h, g) /\ h.nav = p.life.nav
    <3> HIDE DEF p
    <3> QED
      BY <1>1, <2>1 DEF Task, Likened
  <2> HIDE DEF h
  <2>3. d \in Task /\ Alike(d, h) /\ d.outcome = "ok"
    BY <2>2, TaskSets, Likes
  <2> HIDE DEF d
  <2>4. e \in Task /\ Alike(e, d) /\ e.call = 0 /\ e.reply = "none" /\ e.outcome = "ok"
    BY <2>3, TaskSets, Likes
  <2>5. task' = [task EXCEPT ![r] = e] /\ UNCHANGED wire
    BY <1>5 DEF CancelWireCall
  <2> HIDE DEF e
  <2>6. Likened(e, t) /\ e.nav = p.life.nav
    BY <1>1, <2>2, <2>3, <2>4 DEF Likened, Alike
  <2>7. Shaped(e)
    BY <1>0, <2>4, <2>6 DEF Shaped, Likened, What
  <2>8. Polled(r)
    BY <1>5, <2>3, <2>4, <2>6, <2>7, Cancels DEF e, Likened, Alike
  <2>9. /\ LifeMoves(pages, pages', t.target) /\ pages'[t.target].life.state = "done"
        /\ Flags(pages'[t.target].life) = Flags(p.life)
    <3>1. t.target \in DOMAIN pages /\ pages' = [pages EXCEPT ![t.target].life.state = "done"]
      BY <1>5
    <3> HIDE DEF t
    <3> QED
      BY <1>0, <3>1, LifeIsDone
  <2>10. NavGoesOn(r, t, e)
    BY <1>5, <2>1, <2>4, <2>6, <2>9 DEF NavGoesOn, Under
  <2>11. NavMoves(r)
    BY <2>4, <2>5, <2>6, <2>9, <2>10 DEF NavMoves
  <2> QED
    BY <2>8, <2>11
<1> HIDE DEF d, h, g
<1> QED
  BY <1>4, <1>5 DEF NavUnanswered, d, h, g

LEMMA NavPolls ==
    ASSUME Wired, Typed, NEW r \in Requests, NavTask(r), NavPoll(r)
    PROVE  NavMoves(r) /\ Polled(r)
<1> DEFINE t == task[r]
           s == Settled(t)
<1>0. TypeOK /\ t \in Task /\ Shaped(t) /\ GoodPages(pages) /\ t.outcome = "open" /\ What(t) = "nav" /\ (t.call = 0 => t.reply = "none")
  <2>1. TypeOK
    BY DEF Typed
  <2> QED
    BY <2>1, TaskNow, PagesGood DEF NavTask
<1>1. Failed(t) \in Task /\ Alike(Failed(t), t) /\ SameCall(Failed(t), t) /\ Failed(t).outcome = "failed"
  BY <1>0, TaskSets, Likes
<1>2. CASE t.late /\ Stays(r, Failed(t)) /\ UNCHANGED pages
  <2>1. task' = [task EXCEPT ![r] = Failed(t)] /\ UNCHANGED wire
    BY <1>2 DEF Stays, router
  <2>2. Polled(r)
    BY <1>0, <1>1, <1>2, StaysAlike
  <2>3. NavMoves(r)
    BY <1>0, <1>1, <1>2, <2>1, Rests DEF Alike, SameCall, Likened, Under
  <2> QED
    BY <2>2, <2>3
<1>3. CASE t.reply = "err" /\ Stays(r, Failed(s)) /\ UNCHANGED pages
  <2>1. s \in Task /\ Alike(s, t) /\ s.call = 0 /\ s.reply = "none"
    BY <1>0, TaskSets, Likes
  <2> HIDE DEF s
  <2>2. Failed(s) \in Task /\ Alike(Failed(s), s) /\ SameCall(Failed(s), s) /\ Failed(s).outcome = "failed"
    BY <2>1, TaskSets, Likes
  <2>3. Alike(Failed(s), t) /\ Failed(s).call = 0 /\ Failed(s).reply = "none"
    BY <2>1, <2>2 DEF Alike, SameCall
  <2>4. Shaped(Failed(s))
    BY <1>0, <2>2, <2>3, AlikeShaped
  <2>5. Polled(r)
    BY <1>0, <1>3, <2>2, <2>3, <2>4, StaysSettled DEF Alike
  <2>6. task' = [task EXCEPT ![r] = Failed(s)] /\ UNCHANGED wire
    BY <1>3 DEF Stays, router
  <2>7. t.call # 0
    BY <1>0, <1>3
  <2>8. NavMoves(r)
    BY <1>0, <1>3, <2>2, <2>3, <2>6, <2>7, Rests DEF Alike, Likened, Under
  <2> QED
    BY <2>5, <2>8
<1>4. CASE t.call = 0 /\ t.nav # Unset /\ Gate(r, t, pages)
  <2>1. UNCHANGED wire
    BY <1>4 DEF Gate, Stays, router
  <2>2. NavMoves(r) /\ \E u \in {t, Failed(t), Done(t)} : Stays(r, u)
    <3>1. LifeMoves(pages, pages, t.target) /\ Likened(t, t)
      BY <1>0 DEF LifeMoves, GoodPages, Likened
    <3> QED
      BY <1>0, <1>4, <2>1, <3>1, Gates DEF Under
  <2>3. PICK u \in {t, Failed(t), Done(t)} : Stays(r, u)
    BY <2>2
  <2>4. u \in Task /\ Alike(u, t) /\ SameCall(u, t)
    <3>1. Done(t) \in Task /\ Alike(Done(t), t) /\ SameCall(Done(t), t)
      BY <1>0, TaskSets, Likes
    <3>2. Alike(t, t) /\ SameCall(t, t)
      BY DEF Alike, SameCall
    <3> QED
      BY <1>0, <1>1, <2>3, <3>1, <3>2
  <2> QED
    BY <1>0, <2>2, <2>3, <2>4, StaysAlike
<1>5. CASE t.call # 0 /\ NavUnanswered(r)
  BY <1>5, NavWaits
<1>6. CASE t.reply = "ok" /\ NavAnswered(r)
  BY <1>6, NavAnswers
<1>7. CASE t.call = 0 /\ t.nav = Unset /\ NavStart(r)
  BY <1>7, NavStarts1
<1> HIDE DEF s
<1> QED
  BY <1>2, <1>3, <1>4, <1>5, <1>6, <1>7 DEF NavPoll, s

----------------------------------------------------------------------------
(* Polls of the other tasks *)

\* A task that does not navigate leaves the pages alone; if it goes on to navigate, it has not begun to.
AwayFromNav(r) ==
  /\ UNCHANGED pages
  /\ What(task'[r]) = "nav" => ~Under(task'[r]) /\ task'[r].outcome = "open"
AdvancesWell(r) ==
  /\ Polled(r) /\ PagesKept
  /\ IF What(task[r]) = "nav" THEN NavMoves(r) ELSE AwayFromNav(r)

LEMMA AsBefore == ASSUME TypeOK, UNCHANGED pages PROVE PagesKept
BY DEF TypeOK, PagesKept

LEMMA KindStays ==
    ASSUME TypeOK, NEW r \in Requests, NEW u \in Task, task' = [task EXCEPT ![r] = u]
    PROVE  task'[r] = u
BY DEF TypeOK

LEMMA WhatKept ==
    ASSUME TypeOK, NEW r \in Requests, Polled(r), task[r].kind \notin {"nav", "newTab"}
    PROVE  What(task[r]) # "nav" => What(task'[r]) # "nav"
<1>1. PICK u \in Task : Becomes(r, u)
  BY DEF Polled
<1>2. task'[r] = u /\ u.kind = task[r].kind /\ Shaped(u)
  BY <1>1, KindStays DEF Becomes
<1> QED
  BY <1>2 DEF What, Shaped

LEMMA AttachWaits ==
    ASSUME Wired, TypeOK, NEW r \in Requests, NEW t \in Task, AttachWait(r, t), UNCHANGED pages,
           task[r].kind \in {"newPage", "newTab"}, What(task[r]) # "nav", task[r].outcome = "open",
           t.kind = task[r].kind, t.nested = task[r].nested, t.nav = task[r].nav, t.call = 0, t.reply = "none",
           t.outcome = "open", task[r].reply # "none" \/ task[r].call = 0
    PROVE  Polled(r) /\ AwayFromNav(r)
<1> DEFINE n == [t EXCEPT !.nested = TRUE]
<1>0. task[r] \in Task /\ Shaped(task[r]) /\ task[r].nav = Unset /\ ~t.nested
  <2>1. task[r] \in Task /\ Shaped(task[r])
    BY TaskNow
  <2> QED
    BY <2>1 DEF Shaped, What
<1>1. n \in Task /\ n.kind = t.kind /\ n.nested /\ n.nav = t.nav /\ n.call = 0 /\ n.reply = "none" /\ n.outcome = "open"
  BY DEF Task
<1> HIDE DEF n
<1>2. Failed(t) \in Task /\ Alike(Failed(t), t) /\ SameCall(Failed(t), t) /\ Done(t) \in Task /\ Alike(Done(t), t) /\ SameCall(Done(t), t)
  BY TaskSets, Likes
<1>3. PICK u : Stays(r, u) /\ (u \in {t, Failed(t), Done(t)} \/ (u = n /\ t.kind = "newTab"))
  <2>1. \/ Stays(r, t) \/ Stays(r, Failed(t)) \/ Stays(r, Done(t)) \/ (t.kind = "newTab" /\ Stays(r, n))
    BY DEF AttachWait, n
  <2> QED
    BY <2>1
<1>4. u \in Task /\ u.kind = t.kind /\ u.nav = t.nav /\ u.call = 0 /\ u.reply = "none" /\ (u.nested => u = n /\ t.kind = "newTab")
  BY <1>0, <1>1, <1>2, <1>3 DEF Alike, SameCall
<1>5. Shaped(u)
  BY <1>0, <1>3, <1>4 DEF Shaped, What
<1>6. task'[r] = u
  BY <1>3, <1>4, KindStays DEF Stays
<1>7. Polled(r)
  BY <1>3, <1>4, <1>5, StaysSettled
<1>8. AwayFromNav(r)
  BY <1>0, <1>1, <1>4, <1>6 DEF AwayFromNav, What, Under
<1> QED
  BY <1>7, <1>8

LEMMA NewPagePolls ==
    ASSUME Wired, Typed, NEW r \in Requests, NewPagePoll(r), task[r].kind \in {"newPage", "newTab"},
           task[r].outcome = "open"
    PROVE  AdvancesWell(r)
<1> DEFINE t == task[r]
           s == Settled(t)
           v == [s EXCEPT !.target = t.val]
<1>0. TypeOK /\ t \in Task /\ Shaped(t) /\ (t.call = 0 => t.reply = "none") /\ Alike(t, t) /\ SameCall(t, t)
  <2>1. TypeOK
    BY DEF Typed
  <2> QED
    BY <2>1, TaskNow DEF Alike, SameCall
<1>1. CASE t.nested
  <2>1. NavTask(r) /\ NavPoll(r)
    BY <1>1 DEF NavTask, What, NewPagePoll
  <2>2. NavMoves(r) /\ Polled(r)
    BY <2>1, NavPolls
  <2>3. PagesKept
    BY <2>2, MovesKeep DEF NavMoves
  <2> QED
    BY <2>1, <2>2, <2>3 DEF AdvancesWell, NavTask
<1>2. CASE ~t.nested
  <2>0. What(t) = "newPage" /\ t.nav = Unset /\ UNCHANGED pages
    BY <1>0, <1>2 DEF What, Shaped, NewPagePoll
  <2> SUFFICES Polled(r) /\ AwayFromNav(r)
    BY <1>0, <2>0, AsBefore DEF AdvancesWell
  <2>1. ASSUME NEW u \in Task, task' = [task EXCEPT ![r] = u], u.nested = t.nested, u.kind = t.kind PROVE AwayFromNav(r)
    <3>1. task'[r] = u
      BY <1>0, <2>1, KindStays
    <3> QED
      BY <1>2, <2>0, <2>1, <3>1 DEF AwayFromNav, What
  <2>2. Failed(t) \in Task /\ Alike(Failed(t), t) /\ SameCall(Failed(t), t)
    BY <1>0, TaskSets, Likes
  <2>3. s \in Task /\ Alike(s, t) /\ s.call = 0 /\ s.reply = "none" /\ s.outcome = "open"
    BY <1>0, TaskSets, Likes
  <2>4. CASE \E u \in {t, Failed(t)} : Stays(r, u)
    <3>1. PICK u \in {t, Failed(t)} : Stays(r, u)
      BY <2>4
    <3>2. u \in Task /\ Alike(u, t) /\ SameCall(u, t)
      BY <1>0, <2>2, <3>1
    <3>3. Polled(r)
      BY <1>0, <3>1, <3>2, StaysAlike
    <3> QED
      BY <2>1, <3>1, <3>2, <3>3 DEF Stays, Alike
  <2>5. CASE t.reply = "err" /\ Stays(r, Failed(s))
    <3> HIDE DEF s
    <3>1. Failed(s) \in Task /\ Alike(Failed(s), s) /\ SameCall(Failed(s), s)
      BY <2>3, TaskSets, Likes
    <3>2. Alike(Failed(s), t) /\ Failed(s).call = 0 /\ Failed(s).reply = "none"
      BY <2>3, <3>1 DEF Alike, SameCall
    <3>3. Shaped(Failed(s))
      BY <1>0, <3>1, <3>2, AlikeShaped
    <3>4. Polled(r)
      BY <1>0, <2>5, <3>1, <3>2, <3>3, StaysSettled DEF Alike
    <3> QED
      BY <2>1, <2>5, <3>1, <3>2, <3>4 DEF Stays, Alike
  <2>6. CASE t.reply = "ok" /\ AttachWait(r, v)
    <3>1. t.val \in Targets
      BY <2>0, <2>6 DEF Wired, AnswersSuit, Suits
    <3> HIDE DEF s
    <3>2. v \in Task /\ v.kind = s.kind /\ v.nested = s.nested /\ v.nav = s.nav /\ v.call = 0 /\ v.reply = "none" /\ v.outcome = "open"
      BY <2>3, <3>1 DEF Task
    <3> HIDE DEF v
    <3> QED
      BY <1>0, <2>0, <2>3, <2>6, <3>2, AttachWaits DEF Alike
  <2>7. CASE t.call = 0 /\ AttachWait(r, t)
    BY <1>0, <2>0, <2>7, AttachWaits
  <2>8. CASE t.call = 0 /\ SendAsync(r, t, "newPage", None, Failed(t))
    <3>1. \A w \in Nat \ {0} : LET u == [t EXCEPT !.call = w, !.reply = "none"]
                               IN u \in Task /\ Alike(u, t) /\ u.call = w /\ u.reply = "none"
      BY <1>0 DEF Task, Alike
    <3>2. \A w \in Nat \ {0} : Shaped([t EXCEPT !.call = w, !.reply = "none"])
      BY <1>0, <3>1 DEF Shaped, Alike, What
    <3>3. Failed(t).kind = t.kind /\ Failed(t).call = 0 /\ Failed(t).reply = "none" /\ Shaped(Failed(t)) /\ Failed(t).nested = t.nested
      BY <1>0, <2>2, <2>8, AlikeShaped DEF Alike, SameCall
    <3> HIDE DEF s, v
    <3>4. Polled(r)
      <4> DEFINE f == Failed(t)
      <4>1. SendAsync(r, t, "newPage", None, f) /\ f \in Task /\ f.kind = t.kind /\ f.call = 0 /\ f.reply = "none" /\ Shaped(f)
        BY <2>2, <2>8, <3>3
      <4> HIDE DEF f
      <4> QED
        BY <1>0, <2>0, <2>8, <3>2, <4>1, Asks
    <3>5. PICK u \in Task : task' = [task EXCEPT ![r] = u] /\ u.nested = t.nested /\ u.kind = t.kind
      <4>1. CASE browserUp
        <5>1. task' = [task EXCEPT ![r] = [t EXCEPT !.call = wire, !.reply = "none"]]
          BY <2>8, <4>1 DEF SendAsync
        <5>2. wire \in Nat \ {0}
          <6>1. wire \in Nat /\ DOMAIN pending \subseteq Nat
            BY <1>0 DEF TypeOK
          <6> QED
            BY <6>1, WiresRise DEF Wired
        <5> QED
          BY <3>1, <5>1, <5>2 DEF Alike
      <4>2. CASE ~browserUp
        BY <2>2, <2>8, <3>3, <4>2 DEF SendAsync
      <4> QED
        BY <4>1, <4>2
    <3>6. AwayFromNav(r)
      BY <2>1, <3>5
    <3> QED
      BY <3>4, <3>6
  <2> HIDE DEF s, v
  <2> QED
    BY <1>2, <2>4, <2>5, <2>6, <2>7, <2>8 DEF NewPagePoll, s, v
<1> QED
  BY <1>1, <1>2

LEMMA WirePolls ==
    ASSUME Wired, Typed, NEW r \in Requests, WirePoll(r),
           task[r].kind \in {"call", "page"} \/ (task[r].kind \in {"shot", "clip"} /\ task[r].stage = 2 /\ task[r].flow = "wire")
    PROVE  Polled(r)
<1> DEFINE t == task[r]
           q == [t EXCEPT !.flow = "none"]
           f == Failed(q)
<1>0. TypeOK /\ t \in Task /\ Shaped(t) /\ Alike(t, t) /\ SameCall(t, t)
  <2>1. TypeOK
    BY DEF Typed
  <2> QED
    BY <2>1, TaskNow DEF Alike, SameCall
<1>1. CASE CancelWireCall(r, f)
  <2>1. q \in Task /\ q.kind = t.kind /\ q.nested = t.nested /\ q.nav = t.nav /\ q.stage = t.stage
    BY <1>0 DEF Task
  <2> HIDE DEF q
  <2>2. f \in Task /\ Alike(f, q)
    BY <2>1, TaskSets, Likes
  <2> HIDE DEF f
  <2>3. Settled(f) \in Task /\ Alike(Settled(f), f) /\ Settled(f).call = 0 /\ Settled(f).reply = "none"
    BY <2>2, TaskSets, Likes
  <2>4. Shaped(Settled(f)) /\ f.kind = t.kind
    BY <1>0, <2>1, <2>2, <2>3 DEF Shaped, Alike, What
  <2> QED
    BY <1>1, <2>2, <2>4, Cancels
<1>2. CASE Stays(r, t) \/ Stays(r, Done(t))
  <2>1. Done(t) \in Task /\ Alike(Done(t), t) /\ SameCall(Done(t), t)
    BY <1>0, TaskSets, Likes
  <2> QED
    BY <1>0, <1>2, <2>1, StaysAlike
<1> HIDE DEF q, f
<1> QED
  BY <1>1, <1>2 DEF WirePoll, q, f

LEMMA Measures ==
    ASSUME Wired, Typed, NEW r \in Requests, MeasureStart(r), task[r].kind \in {"shot", "clip"}, task[r].stage = 0
    PROVE  Polled(r)
<1> DEFINE t == task[r]
           a == [t EXCEPT !.stage = 2]
           b == [t EXCEPT !.flow = "eval", !.stage = 1, !.retry = TRUE, !.late = FALSE]
<1>0. TypeOK /\ t \in Task /\ Shaped(t) /\ Alike(t, t) /\ SameCall(t, t) /\ t.call = 0 /\ t.reply = "none"
  <2>1. TypeOK
    BY DEF Typed
  <2> QED
    BY <2>1, TaskNow DEF Alike, SameCall, Shaped
<1>1. CASE Stays(r, t) \/ Stays(r, Failed(t))
  <2>1. Failed(t) \in Task /\ Alike(Failed(t), t) /\ SameCall(Failed(t), t)
    BY <1>0, TaskSets, Likes
  <2> QED
    BY <1>0, <1>1, <2>1, StaysAlike
<1>2. ASSUME NEW u \in Task, Stays(r, u), u.kind = t.kind, u.nested = t.nested, u.nav = t.nav,
             u.call = t.call, u.reply = t.reply PROVE Polled(r)
  <2>1. Shaped(u)
    BY <1>0, <1>2 DEF Shaped, What
  <2> QED
    BY <1>0, <1>2, <2>1, StaysSettled
<1>3. CASE Stays(r, a)
  <2>0. 2 \in 0..2
    OBVIOUS
  <2>1. a \in Task /\ a.kind = t.kind /\ a.nested = t.nested /\ a.nav = t.nav /\ a.call = t.call /\ a.reply = t.reply
    BY <1>0, <2>0 DEF Task
  <2> HIDE DEF a
  <2> QED
    BY <1>2, <1>3, <2>1
<1>4. CASE Stays(r, b)
  <2> DEFINE x == [t EXCEPT !.flow = "eval"]
             y == [x EXCEPT !.stage = 1]
             z == [y EXCEPT !.retry = TRUE]
             Like(u, v) == /\ u \in Task /\ u.kind = v.kind /\ u.nested = v.nested /\ u.nav = v.nav
                           /\ u.call = v.call /\ u.reply = v.reply
  <2>1. Like(x, t)
    BY <1>0 DEF Task
  <2> HIDE DEF x
  <2>2. Like(y, x)
    <3>1. 1 \in 0..2
      OBVIOUS
    <3> QED
      BY <2>1, <3>1 DEF Task
  <2> HIDE DEF y
  <2>3. Like(z, y)
    BY <2>2 DEF Task
  <2> HIDE DEF z
  <2>4. Like([z EXCEPT !.late = FALSE], z)
    BY <2>3 DEF Task
  <2>5. b = [z EXCEPT !.late = FALSE]
    BY DEF x, y, z
  <2>6. Like(b, t)
    BY <2>1, <2>2, <2>3, <2>4, <2>5
  <2> HIDE DEF b
  <2> QED
    BY <1>2, <1>4, <2>6
<1> HIDE DEF a, b
<1> QED
  BY <1>1, <1>3, <1>4 DEF MeasureStart, a, b

LEMMA Shoots ==
    ASSUME Wired, Typed, NEW r \in Requests, Shoot(r), task[r].kind \in {"shot", "clip"}, task[r].stage = 2,
           task[r].flow = "none"
    PROVE  Polled(r)
<1> DEFINE o == task[r]
           t == [o EXCEPT !.flow = "wire", !.late = FALSE]
           f == Failed(o)
<1>0. TypeOK /\ o \in Task /\ Shaped(o) /\ o.call = 0 /\ o.reply = "none"
  <2>1. TypeOK
    BY DEF Typed
  <2> QED
    BY <2>1, TaskNow DEF Shaped
<1>1. f \in Task /\ Alike(f, o) /\ SameCall(f, o)
  BY <1>0, TaskSets, Likes
<1>2. t \in Task /\ t.kind = o.kind /\ t.nested = o.nested /\ t.nav = o.nav /\ t.flow = "wire" /\ t.stage = o.stage
  BY <1>0 DEF Task
<1>3. CASE Stays(r, f)
  BY <1>0, <1>1, <1>3, StaysAlike
<1>4. CASE o.session \in DOMAIN bySession /\ SendAsync(r, t, "shot", o.session, f)
  <2> HIDE DEF t, f
  <2>1. ASSUME NEW w \in Nat \ {0} PROVE Shaped([t EXCEPT !.call = w, !.reply = "none"])
    <3>1. LET x == [t EXCEPT !.call = w, !.reply = "none"]
          IN x.kind = t.kind /\ x.nested = t.nested /\ x.nav = t.nav /\ x.stage = t.stage /\ x.flow = t.flow /\ x.reply = "none"
      BY <1>2 DEF Task
    <3> QED
      BY <1>0, <1>2, <3>1 DEF Shaped, What
  <2>2. o.session \in Sessions /\ What(t) = "other"
    BY <1>0, <1>2, <1>4 DEF TypeOK, What, Shaped
  <2>3. Shaped(f) /\ f.kind = o.kind /\ f.call = 0 /\ f.reply = "none"
    BY <1>0, <1>1, AlikeShaped DEF Alike, SameCall
  <2> QED
    BY <1>0, <1>1, <1>2, <1>4, <2>1, <2>2, <2>3, Asks
<1> HIDE DEF t, f
<1> QED
  BY <1>3, <1>4 DEF Shoot, t, f

LEMMA TaskAdvances ==
    ASSUME Wired, Typed, NEW r \in Requests, AdvanceTask(r), task[r].outcome = "open"
    PROVE  AdvancesWell(r)
<1>0. TypeOK /\ Shaped(task[r])
  <2>1. TypeOK
    BY DEF Typed
  <2> QED
    BY <2>1, TaskNow
<1>1. CASE task[r].kind = "nav" /\ NavPoll(r)
  <2>1. NavTask(r)
    BY <1>1 DEF NavTask, What
  <2>2. NavMoves(r) /\ Polled(r)
    BY <1>1, <2>1, NavPolls
  <2>3. PagesKept
    BY <2>2, MovesKeep DEF NavMoves
  <2> QED
    BY <2>1, <2>2, <2>3 DEF AdvancesWell, NavTask
<1>2. CASE task[r].kind \in {"newPage", "newTab"} /\ NewPagePoll(r)
  BY <1>2, NewPagePolls
<1>3. ASSUME Polled(r), UNCHANGED pages, task[r].kind \notin {"nav", "newPage", "newTab"} PROVE AdvancesWell(r)
  <2>1. What(task[r]) # "nav"
    BY <1>0, <1>3 DEF What, Shaped
  <2> QED
    BY <1>0, <1>3, <2>1, WhatKept, AsBefore DEF AdvancesWell, AwayFromNav
<1>4. CASE task[r].kind \in {"call", "page"} /\ WirePoll(r)
  <2>1. UNCHANGED pages
    BY <1>4 DEF WirePoll
  <2> QED
    BY <1>3, <1>4, <2>1, WirePolls
<1>5. CASE task[r].kind = "eval" /\ EvalPoll(r)
  <2>1. UNCHANGED pages
    BY <1>5 DEF EvalPoll
  <2> QED
    BY <1>3, <1>5, <2>1, EvalPolls
<1>6. CASE task[r].kind \in {"shot", "clip"} /\ AdvanceScreenshot(r)
  <2>1. CASE task[r].stage = 0 /\ MeasureStart(r)
    BY <1>3, <1>6, <2>1, Measures DEF MeasureStart
  <2>2. CASE task[r].stage = 1 /\ EvalPoll(r)
    <3>1. UNCHANGED pages
      BY <2>2 DEF EvalPoll
    <3> QED
      BY <1>3, <1>6, <2>2, <3>1, EvalPolls
  <2>3. CASE task[r].stage = 2 /\ task[r].flow = "none" /\ Shoot(r)
    <3>1. UNCHANGED pages
      BY <2>3 DEF Shoot
    <3> QED
      BY <1>3, <1>6, <2>3, <3>1, Shoots
  <2>4. CASE task[r].stage = 2 /\ task[r].flow = "wire" /\ WirePoll(r)
    <3>1. UNCHANGED pages
      BY <2>4 DEF WirePoll
    <3> QED
      BY <1>3, <1>6, <2>4, <3>1, WirePolls
  <2> QED
    BY <1>6, <2>1, <2>2, <2>3, <2>4 DEF AdvanceScreenshot
<1> QED
  BY <1>1, <1>2, <1>4, <1>5, <1>6 DEF AdvanceTask

----------------------------------------------------------------------------
(* The calls of the tasks, whatever moves *)

Outcomes == \A q \in Requests : task[q].outcome # "open" => phase = "finish" /\ inflight[index] = q

LEMMA OpenElsewhere ==
    ASSUME Wired, phase # "finish" PROVE \A q \in Requests : task[q].outcome = "open"
BY DEF Wired, TaskShapes

LEMMA PendingTasks ==
    ASSUME Wired, TypeOK, NEW w \in DOMAIN pending
    PROVE  /\ w \in Nat /\ 0 < w /\ w < wire /\ pending[w] \in Requests /\ InFlight(pending[w])
           /\ task[pending[w]].call = w /\ task[pending[w]].reply = "none"
<1>1. w \in Nat /\ 0 < w /\ w < wire /\ pending[w] \in Requests /\ task[pending[w]].call = w /\ task[pending[w]].reply = "none"
  BY DEF Wired, TypeOK, WiresPast, Owned
<1>2. NoTask.call = 0
  BY DEF NoTask
<1>3. InFlight(pending[w])
  BY <1>1, <1>2 DEF Wired, TaskShapes
<1> QED
  BY <1>1, <1>3

\* Requests, clocks and messages of the browser: the tasks and the router are left alone.
FromCall(m, c) == m.wire = c.wire /\ (c.what = "nav" => m.val \in Nat) /\ (c.what = "newPage" => m.val \in Targets)
OldOrNew(m) ==
  \/ \E i \in DOMAIN pipe : m = pipe[i]
  \/ m.type # "reply" /\ m.wire = 0
  \/ \E c \in calls : FromCall(m, c)
LEMMA WiredSame ==
    ASSUME Wired, TypeOK, UNCHANGED <<task, pending, wire, inflight>>, Outcomes',
           \A q \in Requests : InFlight(q) => asked'[q].kind = asked[q].kind,
           \A d \in calls' : \E c \in calls : d.wire = c.wire /\ d.what = c.what,
           \A j \in DOMAIN pipe' : OldOrNew(pipe'[j])
    PROVE  Wired'
<1>1. WiresPast'
  <2>1. \A c \in calls : c.wire < wire
    BY DEF Wired, WiresPast
  <2>2. \A d \in calls' : d.wire < wire
    BY <2>1
  <2>3. wire >= 1 /\ \A i \in DOMAIN pipe : pipe[i].wire < wire
    BY DEF Wired, WiresPast
  <2>4. wire \in Nat
    BY DEF TypeOK
  <2>5. \A j \in DOMAIN pipe' : pipe'[j].wire < wire
    BY <2>1, <2>3, <2>4 DEF OldOrNew, FromCall
  <2> QED
    BY <2>2, <2>3, <2>5 DEF Wired, WiresPast
<1>2. AnswersSuit'
  <2>1. \A w \in DOMAIN pending, d \in calls' :
          d.wire = w /\ What(task[pending[w]]) # "other" => d.what = What(task[pending[w]])
    BY DEF Wired, AnswersSuit
  <2>2. ASSUME NEW w \in DOMAIN pending, NEW j \in DOMAIN pipe', pipe'[j].type = "reply", pipe'[j].wire = w
        PROVE  Suits(task[pending[w]], pipe'[j].val)
    <3>1. CASE \E i \in DOMAIN pipe : pipe'[j] = pipe[i]
      BY <2>2, <3>1 DEF Wired, AnswersSuit
    <3>2. CASE \E c \in calls : FromCall(pipe'[j], c)
      BY <2>2, <3>2 DEF Wired, AnswersSuit, FromCall, Suits
    <3> QED
      BY <2>2, <3>1, <3>2 DEF OldOrNew
  <2> QED
    BY <2>1, <2>2 DEF Wired, AnswersSuit
<1>3. TaskShapes'
  BY DEF Wired, TaskShapes, Outcomes, InFlight
<1>4. Owned'
  BY DEF Wired, Owned, WaitsFor
<1> QED
  BY <1>1, <1>2, <1>3, <1>4 DEF Wired

\* One task and its call move.
LEMMA WiredAfter ==
    ASSUME Wired, Typed, NEW r \in Requests, NEW u \in Task, task' = [task EXCEPT ![r] = u], Shaped(u),
           Keeps(r, u) \/ Forgets(r, u) \/ Refused(r, u) \/ Opened(r, u),
           UNCHANGED <<pipe, asked>>, Outcomes',
           \A q \in Requests \ {r} : InFlight(q)' <=> InFlight(q),
           IF InFlight(r)' THEN u.kind = asked[r].kind ELSE u = NoTask
    PROVE  Wired'
<1> TypeOK
  BY DEF Typed
<1>n. (\A c \in calls : c.wire \in Nat) /\ \A i \in DOMAIN pipe : pipe[i].wire \in Nat
  <2>1. \A i \in DOMAIN pipe : pipe[i] \in Msg
    BY DEF Typed, BrowserTypes
  <2>2. \A c \in calls : c \in Call
    BY DEF Typed, BrowserTypes
  <2> QED
    BY <2>1, <2>2 DEF Msg, Call
<1>0. /\ task'[r] = u /\ \A q \in Requests : q # r => task'[q] = task[q]
      /\ wire \in Nat /\ wire # 0 /\ wire \notin DOMAIN pending /\ wire + 1 \in Nat /\ task \in [Requests -> Task]
  <2>1. wire \in Nat /\ DOMAIN pending \subseteq Nat /\ task \in [Requests -> Task]
    BY DEF TypeOK
  <2> QED
    BY <2>1, WiresRise DEF Wired
<1>1. /\ \A w \in DOMAIN pending : w # task[r].call => pending[w] # r
      /\ \A q \in Requests : task[q].call \in Nat /\ task[q].call < wire
      /\ 0 \notin DOMAIN pending
  <2>1. \A q \in Requests : task[q].call \in Nat
    BY <1>0 DEF Task
  <2> QED
    BY <2>1, PendingTasks DEF Wired, TaskShapes
<1>2. WiresPast'
  <2>1. CASE UNCHANGED <<wire, calls>> /\ DOMAIN pending' \subseteq DOMAIN pending
    BY <2>1 DEF Wired, WiresPast
  <2>2. CASE Refused(r, u)
    <3>1. \A k \in Nat : k < wire => k < wire + 1
      BY <1>0
    <3>2. \A w \in DOMAIN pending : w \in Nat
      BY PendingTasks
    <3> QED
      BY <1>0, <1>n, <2>2, <3>1, <3>2 DEF Wired, WiresPast, Refused
  <2>3. CASE Opened(r, u)
    <3>1. \A w \in DOMAIN pending' : 0 < w /\ w < wire + 1
      BY <1>0, <2>3, PendingTasks DEF Opened
    <3>2. \A c \in calls : c.wire < wire + 1
      BY <1>0, <1>n DEF Wired, WiresPast
    <3>3. \A i \in DOMAIN pipe : pipe[i].wire < wire + 1
      BY <1>0, <1>n DEF Wired, WiresPast
    <3>4. \A c \in calls' : c.wire < wire + 1
      BY <1>0, <2>3, <3>2 DEF Opened
    <3> QED
      BY <1>0, <2>3, <3>1, <3>3, <3>4 DEF Opened, WiresPast
  <2> QED
    BY <2>1, <2>2, <2>3 DEF Keeps, Forgets, router
<1>3. TaskShapes'
  <2>1. u.call < wire'
    BY <1>0, <1>1 DEF Keeps, Forgets, Refused, Opened, router
  <2>2. wire' >= wire /\ wire' \in Nat
    BY <1>0 DEF Keeps, Forgets, Refused, Opened, router
  <2>3. \A q \in Requests \ {r} : task[q].call < wire'
    BY <1>0, <1>1, <2>2
  <2> QED
    BY <1>0, <2>1, <2>3 DEF Wired, TaskShapes, Outcomes, Shaped
<1>4. Owned'
  <2>1. \A w \in DOMAIN pending' : task'[pending'[w]].call = w /\ task'[pending'[w]].reply = "none"
    <3>1. CASE Keeps(r, u)
      BY <1>0, <3>1, PendingTasks DEF Keeps, router
    <3>2. CASE Forgets(r, u)
      <4>1. \A w \in DOMAIN pending' : w \in DOMAIN pending /\ pending'[w] = pending[w] /\ pending[w] # r
        BY <1>1, <3>2 DEF Forgets
      <4> QED
        BY <1>0, <4>1, PendingTasks
    <3>3. CASE Refused(r, u)
      <4>1. \A w \in DOMAIN pending' : w \in DOMAIN pending /\ pending'[w] = pending[w] /\ pending[w] # r
        BY <1>1, <3>3 DEF Refused
      <4> QED
        BY <1>0, <4>1, PendingTasks
    <3>4. CASE Opened(r, u)
      <4>1. \A w \in DOMAIN pending : pending'[w] = pending[w] /\ pending[w] # r
        BY <1>1, <3>4 DEF Opened
      <4> QED
        BY <1>0, <3>4, <4>1, PendingTasks DEF Opened
    <3> QED
      BY <3>1, <3>2, <3>3, <3>4
  <2>2. ASSUME NEW q \in Requests, WaitsFor(q)' PROVE task'[q].call \in DOMAIN pending' /\ pending'[task'[q].call] = q
    <3>1. CASE q # r
      <4>1. WaitsFor(q) /\ task'[q] = task[q] /\ task[q].call \in DOMAIN pending /\ pending[task[q].call] = q
        BY <1>0, <2>2, <3>1 DEF WaitsFor, Wired, Owned
      <4>2. task[q].call # task[r].call
        BY <3>1, <4>1 DEF Wired, Owned, WaitsFor
      <4> QED
        BY <4>1, <4>2 DEF Keeps, Forgets, Refused, Opened, router
    <3>2. CASE q = r
      <4>1. u.call # 0 /\ u.reply = "none"
        BY <1>0, <2>2, <3>2 DEF WaitsFor
      <4>2. CASE Keeps(r, u)
        BY <1>0, <3>2, <4>1, <4>2 DEF Keeps, router, Wired, Owned, WaitsFor
      <4>3. CASE Opened(r, u)
        BY <1>0, <3>2, <4>3 DEF Opened
      <4> QED
        BY <4>1, <4>2, <4>3 DEF Forgets, Refused
    <3> QED
      BY <3>1, <3>2
  <2>3. ASSUME NEW q \in Requests, q # r PROVE ~(u.call = task[q].call /\ u.call # 0)
    <3>1. CASE Keeps(r, u)
      BY <2>3, <3>1 DEF Keeps, Wired, Owned
    <3>2. CASE Opened(r, u)
      BY <1>0, <1>1, <3>2 DEF Opened
    <3> QED
      BY <3>1, <3>2 DEF Forgets, Refused
  <2>4. \A q, x \in Requests : task'[q].call = task'[x].call /\ task'[q].call # 0 => q = x
    BY <1>0, <2>3 DEF Wired, Owned
  <2> QED
    BY <2>1, <2>2, <2>4 DEF Owned
<1>5. AnswersSuit'
  <2>1. \A q \in Requests : task'[q].reply = "ok" => Suits(task'[q], task'[q].val)
    <3>1. u.reply = "ok" => Suits(u, u.val)
      BY DEF Keeps, Forgets, Refused, Opened, Suits, Wired, AnswersSuit
    <3> QED
      BY <1>0, <3>1 DEF Wired, AnswersSuit
  <2>2. ASSUME NEW w \in DOMAIN pending'
        PROVE  \/ w \in DOMAIN pending /\ pending'[w] = pending[w] /\ What(task'[pending'[w]]) = What(task[pending[w]])
               \/ Opened(r, u) /\ w = wire /\ pending'[w] = r
    <3>1. CASE Keeps(r, u)
      <4>1. pending' = pending /\ What(u) = What(task[r])
        BY <3>1 DEF Keeps, router
      <4> QED
        BY <1>0, <4>1, PendingTasks
    <3>2. CASE w \in DOMAIN pending /\ pending'[w] = pending[w] /\ w # task[r].call
      BY <1>0, <1>1, <3>2, PendingTasks
    <3>3. CASE Opened(r, u)
      BY <1>1, <2>2, <3>2, <3>3 DEF Opened
    <3> QED
      BY <1>1, <2>2, <3>1, <3>2, <3>3 DEF Forgets, Refused
  <2>3. ASSUME NEW w \in DOMAIN pending', NEW c \in calls', c.wire = w, What(task'[pending'[w]]) # "other"
        PROVE  c.what = What(task'[pending'[w]])
    <3>1. CASE c \in calls
      <4>1. c.wire # wire
        BY <1>0, <3>1 DEF Wired, WiresPast
      <4> QED
        BY <2>2, <2>3, <3>1, <4>1 DEF Wired, AnswersSuit
    <3>2. CASE c \notin calls
      <4>1. Opened(r, u) /\ c.wire = wire /\ (What(u) # "other" => c.what = What(u))
        BY <3>2 DEF Opened, Keeps, Forgets, Refused, router
      <4>2. w \notin DOMAIN pending
        BY <1>0, <2>3, <4>1
      <4>3. task'[pending'[w]] = u
        BY <1>0, <2>2, <4>2
      <4> QED
        BY <2>3, <4>1, <4>3
    <3> QED
      BY <3>1, <3>2
  <2>4. ASSUME NEW w \in DOMAIN pending', NEW i \in DOMAIN pipe, pipe[i].type = "reply", pipe[i].wire = w
        PROVE  Suits(task'[pending'[w]], pipe[i].val)
    <3>1. w # wire
      BY <1>0, <2>4 DEF Wired, WiresPast
    <3>2. w \in DOMAIN pending /\ What(task'[pending'[w]]) = What(task[pending[w]])
      BY <2>2, <3>1
    <3>3. Suits(task[pending[w]], pipe[i].val)
      BY <2>4, <3>2 DEF Wired, AnswersSuit
    <3> QED
      BY <3>2, <3>3 DEF Suits
  <2> QED
    BY <2>1, <2>3, <2>4 DEF AnswersSuit
<1> QED
  BY <1>2, <1>3, <1>4, <1>5 DEF Wired

----------------------------------------------------------------------------
(* The browser *)

SiteTypes == site \in [Targets -> Site] /\ \A t \in Targets : site[t].stage = "live" => site[t].attached > 0
PipeTypes == pipe \in Seq(Msg) /\ \A i \in DOMAIN pipe : GoodMessage(pipe[i])
CallTypes == calls \subseteq Call /\ \A c \in calls : c.what = "nav" => c.target \in Targets

\* One step of the browser: what it has under way stays in order, and nobody else moves.
BrowserWell ==
  /\ phase = "poll" /\ UNCHANGED <<loop, driver, router, tasks, client>> /\ browserUp' \in BOOLEAN
  /\ SiteTypes' /\ PipeTypes' /\ CallTypes'
  /\ \A d \in calls' : \E c \in calls : d.wire = c.wire /\ d.what = c.what
  /\ \A j \in DOMAIN pipe' : OldOrNew(pipe'[j])

LEMMA PipeSame ==
    ASSUME BrowserTypes, UNCHANGED pipe
    PROVE  PipeTypes' /\ \A j \in DOMAIN pipe' : OldOrNew(pipe'[j])
BY DEF BrowserTypes, PipeTypes, OldOrNew

LEMMA CallsSame ==
    ASSUME BrowserTypes, calls' \subseteq calls
    PROVE  CallTypes' /\ \A d \in calls' : \E c \in calls : d.wire = c.wire /\ d.what = c.what
BY DEF BrowserTypes, CallTypes

LEMMA SiteSame == ASSUME BrowserTypes, UNCHANGED site PROVE SiteTypes'
BY DEF BrowserTypes, SiteTypes

LEMMA PipeGrows ==
    ASSUME BrowserTypes, NEW m \in Msg, GoodMessage(m), Sends(m),
           (m.type # "reply" /\ m.wire = 0) \/ \E c \in calls : FromCall(m, c)
    PROVE  PipeTypes' /\ \A j \in DOMAIN pipe' : OldOrNew(pipe'[j])
<1>1. pipe \in Seq(Msg) /\ pipe' = Append(pipe, m) /\ \A i \in DOMAIN pipe : GoodMessage(pipe[i])
  BY DEF BrowserTypes, Sends
<1>2. pipe' \in Seq(Msg)
  BY <1>1
<1>3. \A j \in DOMAIN pipe' : pipe'[j] = m \/ (j \in DOMAIN pipe /\ pipe'[j] = pipe[j])
  BY <1>1
<1>4. \A j \in DOMAIN pipe' : GoodMessage(pipe'[j])
  BY <1>1, <1>3
<1>5. \A j \in DOMAIN pipe' : OldOrNew(pipe'[j])
  BY <1>3 DEF OldOrNew
<1> QED
  BY <1>2, <1>4, <1>5 DEF PipeTypes

LEMMA CallMoves ==
    ASSUME BrowserTypes, NEW c \in calls, NEW d \in Call, d.wire = c.wire, d.what = c.what,
           d.what = "nav" => d.target \in Targets, calls' \subseteq (calls \ {c}) \cup {d}
    PROVE  CallTypes' /\ \A x \in calls' : \E y \in calls : x.wire = y.wire /\ x.what = y.what
BY DEF BrowserTypes, CallTypes

LEMMA SiteMoves ==
    ASSUME BrowserTypes, NEW t \in Targets, NEW s \in Site, s.stage = "live" => s.attached > 0,
           site' = [site EXCEPT ![t] = s]
    PROVE  SiteTypes'
BY DEF BrowserTypes, SiteTypes

LEMMA LiveSite ==
    ASSUME BrowserTypes, NEW t \in Targets
    PROVE  /\ site[t] \in Site
           /\ site[t].stage = "live" => site[t].attached \in 1..MaxAttach /\ SessionOf(t) \in Sessions
           /\ \A type \in PageEvents \cup {"attached", "detached"} :
                LET m == Message(type, t) IN m.type = type /\ m.wire = 0 /\ m.session = SessionOf(t)
<1>1. site[t] \in Site /\ site[t].attached \in 0..MaxAttach
  BY DEF BrowserTypes, Site
<1>2. site[t].stage = "live" => site[t].attached \in 1..MaxAttach
  BY <1>1, BoundAssumption DEF BrowserTypes
<1> QED
  BY <1>1, <1>2 DEF SessionOf, Sessions, Message

\* A message of a page that is attached.
Says(m, type, t, session, frame, nav, url) ==
  m = [type |-> type, session |-> session, frame |-> frame, nav |-> nav,
       url |-> url, wire |-> 0, result |-> "none", val |-> None]

LEMMA Saying ==
    ASSUME NEW m, NEW type \in PageEvents \cup {"attached", "detached"}, NEW t, NEW session \in Sessions,
           NEW frame \in Frames \cup {NoFrame}, NEW nav \in Nat \cup {NoNav}, NEW url \in Urls \cup {NoUrl},
           Says(m, type, t, session, frame, nav, url)
    PROVE  m \in Msg /\ GoodMessage(m) /\ m.type # "reply" /\ m.wire = 0
<1>1. type # "reply"
  BY DEF PageEvents
<1> QED
  BY <1>1 DEF Says, Msg, GoodMessage

LEMMA Speaks ==
    ASSUME BrowserTypes, NEW m, NEW type \in PageEvents \cup {"attached", "detached"}, NEW t, NEW session \in Sessions,
           NEW frame \in Frames \cup {NoFrame}, NEW nav \in Nat \cup {NoNav}, NEW url \in Urls \cup {NoUrl},
           Says(m, type, t, session, frame, nav, url), Sends(m)
    PROVE  PipeTypes' /\ \A j \in DOMAIN pipe' : OldOrNew(pipe'[j])
<1>1. m \in Msg /\ GoodMessage(m) /\ m.type # "reply" /\ m.wire = 0
  BY Saying
<1> QED
  BY <1>1, PipeGrows

LEMMA SaidBy ==
    ASSUME NEW type, NEW t, NEW frame, NEW nav, NEW url, NEW session
    PROVE  /\ Says(Message(type, t), type, t, SessionOf(t), site[t].frame, NoNav, NoUrl)
           /\ Says([Message(type, t) EXCEPT !.session = session], type, t, session, site[t].frame, NoNav, NoUrl)
           /\ Says([Message(type, t) EXCEPT !.frame = frame], type, t, SessionOf(t), frame, NoNav, NoUrl)
           /\ Says([Message(type, t) EXCEPT !.nav = nav, !.url = url], type, t, SessionOf(t), site[t].frame, nav, url)
<1> DEFINE x == SessionOf(t)
           f == site[t].frame
<1> HIDE DEF x, f
<1>1. Says(Message(type, t), type, t, x, f, NoNav, NoUrl)
  BY DEF Says, Message, x, f
<1>2. Says([Message(type, t) EXCEPT !.session = session], type, t, session, f, NoNav, NoUrl)
  BY DEF Says, Message, x, f
<1>3. Says([Message(type, t) EXCEPT !.frame = frame], type, t, x, frame, NoNav, NoUrl)
  BY DEF Says, Message, x, f
<1>4. Says([Message(type, t) EXCEPT !.nav = nav, !.url = url], type, t, x, f, nav, url)
  <2> DEFINE n == [Message(type, t) EXCEPT !.nav = nav]
  <2>1. Says(n, type, t, x, f, nav, NoUrl)
    BY DEF Says, Message, x, f
  <2>2. [Message(type, t) EXCEPT !.nav = nav, !.url = url] = [n EXCEPT !.url = url]
    OBVIOUS
  <2> HIDE DEF n
  <2>3. Says([n EXCEPT !.url = url], type, t, x, f, nav, url)
    BY <2>1 DEF Says
  <2> QED
    BY <2>2, <2>3
<1> QED
  BY <1>1, <1>2, <1>3, <1>4 DEF x, f

LEMMA SiteTurns ==
    ASSUME NEW s \in Site
    PROVE  /\ [s EXCEPT !.stage = "created"] \in Site
           /\ [s EXCEPT !.stage = "created"].stage = "created"
           /\ [s EXCEPT !.stage = "gone"] \in Site
           /\ [s EXCEPT !.stage = "gone"].stage = "gone"
           /\ \A f \in Frames \cup {NoFrame} : [s EXCEPT !.frame = f] \in Site
           /\ \A b \in BOOLEAN : [s EXCEPT !.context = b] \in Site
           /\ [s EXCEPT !.detached = @ + 1] \in Site
<1>1. /\ [s EXCEPT !.stage = "created"] \in Site
      /\ [s EXCEPT !.stage = "created"].stage = "created"
  BY DEF Site
<1>2. /\ [s EXCEPT !.stage = "gone"] \in Site
      /\ [s EXCEPT !.stage = "gone"].stage = "gone"
  BY DEF Site
<1>3. \A f \in Frames \cup {NoFrame} : [s EXCEPT !.frame = f] \in Site
  BY DEF Site
<1>4. \A b \in BOOLEAN : [s EXCEPT !.context = b] \in Site
  BY DEF Site
<1>5. [s EXCEPT !.detached = @ + 1] \in Site
  BY DEF Site
<1> QED
  BY <1>1, <1>2, <1>3, <1>4, <1>5

LEMMA SiteKeeps ==
    ASSUME NEW s \in Site
    PROVE  /\ \A f \in Frames \cup {NoFrame} : LET n == [s EXCEPT !.frame = f] IN n.stage = s.stage /\ n.attached = s.attached
           /\ \A b \in BOOLEAN : LET n == [s EXCEPT !.context = b] IN n.stage = s.stage /\ n.attached = s.attached
           /\ LET n == [s EXCEPT !.detached = @ + 1] IN n.stage = s.stage /\ n.attached = s.attached
<1>1. \A f \in Frames \cup {NoFrame} : LET n == [s EXCEPT !.frame = f] IN n.stage = s.stage /\ n.attached = s.attached
  BY DEF Site
<1>2. \A b \in BOOLEAN : LET n == [s EXCEPT !.context = b] IN n.stage = s.stage /\ n.attached = s.attached
  BY DEF Site
<1>3. LET n == [s EXCEPT !.detached = @ + 1] IN n.stage = s.stage /\ n.attached = s.attached
  BY DEF Site
<1> QED
  BY <1>1, <1>2, <1>3

\* A session more, of a target that has room for it.
LEMMA SiteAttaches ==
    ASSUME NEW s \in Site, s.attached + 1 <= MaxAttach
    PROVE  /\ [s EXCEPT !.attached = @ + 1] \in Site /\ [s EXCEPT !.attached = @ + 1].attached > 0
           /\ [s EXCEPT !.stage = "live", !.attached = 1] \in Site /\ [s EXCEPT !.stage = "live", !.attached = 1].attached = 1
<1>0. MaxAttach \in Nat \ {0} /\ 1 \in 0..MaxAttach /\ s.attached + 1 \in 0..MaxAttach /\ s.attached + 1 > 0
  BY BoundAssumption DEF Site
<1>1. /\ [s EXCEPT !.attached = @ + 1] \in Site
      /\ [s EXCEPT !.attached = @ + 1].attached > 0
  BY <1>0 DEF Site
<1>2. /\ [s EXCEPT !.stage = "live", !.attached = 1] \in Site
      /\ [s EXCEPT !.stage = "live", !.attached = 1].attached = 1
  BY <1>0 DEF Site
<1> QED
  BY <1>1, <1>2

LEMMA CallTurns ==
    ASSUME NEW c \in Call
    PROVE  /\ \A t \in Targets : LET d == [c EXCEPT !.target = t] IN d \in Call /\ d.wire = c.wire /\ d.what = c.what /\ d.target = t
           /\ LET d == [c EXCEPT !.replied = TRUE] IN d \in Call /\ d.wire = c.wire /\ d.what = c.what /\ d.target = c.target
           /\ \A n \in {"started", "over"} :
                LET d == [c EXCEPT !.stage = n] IN d \in Call /\ d.wire = c.wire /\ d.what = c.what /\ d.target = c.target
<1>1. \A t \in Targets : LET d == [c EXCEPT !.target = t] IN d \in Call /\ d.wire = c.wire /\ d.what = c.what /\ d.target = t
  BY DEF Call
<1>2. LET d == [c EXCEPT !.replied = TRUE] IN d \in Call /\ d.wire = c.wire /\ d.what = c.what /\ d.target = c.target
  BY DEF Call
<1>3. \A n \in {"started", "over"} :
        LET d == [c EXCEPT !.stage = n] IN d \in Call /\ d.wire = c.wire /\ d.what = c.what /\ d.target = c.target
  BY DEF Call
<1> QED
  BY <1>1, <1>2, <1>3

LEMMA BrowserMakes ==
    ASSUME BrowserTypes, TypeOK, NEW t \in Targets, Opens(t) \/ Attaches(t) \/ \E c \in calls : CreatesPage(c, t)
    PROVE  BrowserWell
<1> DEFINE s == site[t]
<1>0. phase = "poll" /\ UNCHANGED <<loop, driver, router, tasks, client>> /\ browserUp' \in BOOLEAN
  BY DEF Opens, Attaches, CreatesPage, Acts, Between, TypeOK
<1>1. s \in Site
  BY LiveSite
<1>2. CASE site' = [site EXCEPT ![t].stage = "created"] /\ UNCHANGED pipe
  <2>1. SiteTypes'
    <3> DEFINE n == [s EXCEPT !.stage = "created"]
    <3>1. n \in Site /\ n.stage = "created"
      BY <1>1, SiteTurns
    <3>2. site' = [site EXCEPT ![t] = n]
      BY <1>2
    <3> HIDE DEF n
    <3> QED
      BY <3>1, <3>2, SiteMoves
  <2>2. PipeTypes' /\ \A j \in DOMAIN pipe' : OldOrNew(pipe'[j])
    BY <1>2, PipeSame
  <2>3. CallTypes' /\ \A d \in calls' : \E c \in calls : d.wire = c.wire /\ d.what = c.what
    <3>1. CASE Opens(t)
      BY <3>1, CallsSame DEF Opens
    <3>2. ASSUME NEW c \in calls, CreatesPage(c, t) PROVE <2>3
      <4> DEFINE d == [c EXCEPT !.target = t]
      <4>1. c \in Call
        BY DEF BrowserTypes
      <4>2. d \in Call /\ d.wire = c.wire /\ d.what = c.what /\ d.target = t
        BY <4>1, CallTurns
      <4>3. calls' = (calls \ {c}) \cup {d}
        BY <3>2 DEF CreatesPage
      <4> HIDE DEF d
      <4> QED
        BY <4>2, <4>3, CallMoves
    <3>3. CASE Attaches(t)
      BY <3>3, CallsSame DEF Attaches
    <3> QED
      BY <3>1, <3>2, <3>3
  <2> QED
    BY <1>0, <2>1, <2>2, <2>3 DEF BrowserWell
<1>3. CASE Attaches(t)
  <2> DEFINE n == [s EXCEPT !.stage = "live", !.attached = 1]
  <2>1. site' = [site EXCEPT ![t] = n] /\ 1 \in 1..MaxAttach
    BY <1>3, BoundAssumption DEF Attaches
  <2>2. 1 \in 0..MaxAttach
    BY BoundAssumption
  <2>3. n \in Site /\ n.attached = 1
    <3> HIDE DEF s
    <3>1. n \in Site
      BY <1>1, <2>2 DEF Site
    <3>2. n.attached = 1
      BY <1>1 DEF Site
    <3> QED
      BY <3>1, <3>2
  <2> HIDE DEF n
  <2>4. SiteTypes'
    <3>1. n.attached > 0
      BY <2>3
    <3> QED
      BY <2>1, <2>3, <3>1, SiteMoves
  <2>5. <<t, 1>> \in Sessions
    BY <2>1 DEF Sessions
  <2>6. site[t].frame \in Frames \cup {NoFrame}
    BY <1>1 DEF Site
  <2>7. PipeTypes' /\ \A j \in DOMAIN pipe' : OldOrNew(pipe'[j])
    BY <1>3, <2>5, <2>6, SaidBy, Speaks DEF Attaches
  <2>8. CallTypes' /\ \A d \in calls' : \E c \in calls : d.wire = c.wire /\ d.what = c.what
    BY <1>3, CallsSame DEF Attaches
  <2> QED
    BY <1>0, <2>4, <2>7, <2>8 DEF BrowserWell
<1> QED
  BY <1>2, <1>3 DEF Opens, CreatesPage

\* What a page that is attached says of itself.
LEMMA PageSpeaks ==
    ASSUME BrowserTypes, TypeOK, NEW t \in Targets,
           \/ \E f \in Frames : ShowsFrame(t, f)
           \/ MakesContext(t) \/ Loads(t) \/ SwapsFrame(t) \/ LosesContext(t) \/ Reattaches(t) \/ DetachesOld(t) \/ Detaches(t)
           \/ \E u \in Urls : OwnNavigation(t, "started", NoUrl) \/ OwnNavigation(t, "committed", u) \/ OwnNavigation(t, "sameDocument", u)
    PROVE  BrowserWell
<1> DEFINE s == site[t]
<1>0. /\ phase = "poll" /\ UNCHANGED <<loop, driver, router, tasks, client>> /\ browserUp' \in BOOLEAN
      /\ s.stage = "live" /\ UNCHANGED calls
  BY DEF ShowsFrame, MakesContext, Loads, SwapsFrame, LosesContext, Reattaches, DetachesOld, Detaches, OwnNavigation,
         ActsAlone, Acts, Between, TypeOK
<1>1. /\ s \in Site /\ s.attached \in 1..MaxAttach /\ SessionOf(t) \in Sessions
      /\ s.frame \in Frames \cup {NoFrame} /\ s.detached \in Nat /\ s.attached > 0
  <2>1. s \in Site /\ s.attached \in 1..MaxAttach /\ SessionOf(t) \in Sessions
    BY <1>0, LiveSite
  <2>2. s.attached > 0
    BY <2>1, BoundAssumption
  <2> QED
    BY <2>1, <2>2 DEF Site
<1>2. CallTypes' /\ \A d \in calls' : \E c \in calls : d.wire = c.wire /\ d.what = c.what
  BY <1>0, CallsSame
<1>3. ASSUME PipeTypes' /\ (\A j \in DOMAIN pipe' : OldOrNew(pipe'[j])), SiteTypes' PROVE BrowserWell
  BY <1>0, <1>2, <1>3 DEF BrowserWell
<1>4. OwnNav \in Nat
  BY DEF OwnNav
<1>5. ASSUME NEW f \in Frames, ShowsFrame(t, f) PROVE BrowserWell
  <2>1. site' = [site EXCEPT ![t] = [s EXCEPT !.frame = f]] /\ Sends([Message("frameAttached", t) EXCEPT !.frame = f])
    BY <1>5 DEF ShowsFrame
  <2>2. SiteTypes'
    <3> DEFINE n == [s EXCEPT !.frame = f]
    <3>1. n \in Site /\ n.stage = s.stage /\ n.attached = s.attached
      BY <1>1, SiteTurns, SiteKeeps
    <3>2. site' = [site EXCEPT ![t] = n]
      BY <2>1
    <3> HIDE DEF n
    <3> QED
      BY <1>1, <3>1, <3>2, SiteMoves
  <2>3. PipeTypes' /\ (\A j \in DOMAIN pipe' : OldOrNew(pipe'[j]))
    BY <1>1, <2>1, SaidBy, Speaks DEF PageEvents
  <2> QED
    BY <1>3, <2>2, <2>3
<1>6. ASSUME NEW b \in BOOLEAN, NEW e \in PageEvents, site' = [site EXCEPT ![t].context = b], Sends(Message(e, t)) PROVE BrowserWell
  <2>1. site' = [site EXCEPT ![t] = [s EXCEPT !.context = b]]
    BY <1>6
  <2>2. SiteTypes'
    <3> DEFINE n == [s EXCEPT !.context = b]
    <3>1. n \in Site /\ n.stage = s.stage /\ n.attached = s.attached
      BY <1>1, SiteTurns, SiteKeeps
    <3>2. site' = [site EXCEPT ![t] = n]
      BY <2>1
    <3> HIDE DEF n
    <3> QED
      BY <1>1, <3>1, <3>2, SiteMoves
  <2>3. PipeTypes' /\ (\A j \in DOMAIN pipe' : OldOrNew(pipe'[j]))
    BY <1>1, <1>6, SaidBy, Speaks
  <2> QED
    BY <1>3, <2>2, <2>3
<1>7. CASE MakesContext(t) \/ LosesContext(t)
  BY <1>6, <1>7 DEF MakesContext, LosesContext, PageEvents
<1>8. CASE Loads(t)
  <2>1. Sends(Message("load", t)) /\ UNCHANGED site
    BY <1>8 DEF Loads
  <2>2. SiteTypes'
    BY <2>1, SiteSame
  <2>3. PipeTypes' /\ (\A j \in DOMAIN pipe' : OldOrNew(pipe'[j]))
    BY <1>1, <2>1, SaidBy, Speaks DEF PageEvents
  <2> QED
    BY <1>3, <2>2, <2>3
<1>9. CASE SwapsFrame(t)
  <2>1. site' = [site EXCEPT ![t] = [s EXCEPT !.frame = NoFrame]] /\ Sends(Message("frameDetached", t))
    BY <1>9 DEF SwapsFrame
  <2>2. SiteTypes'
    <3> DEFINE n == [s EXCEPT !.frame = NoFrame]
    <3>1. n \in Site /\ n.stage = s.stage /\ n.attached = s.attached
      BY <1>1, SiteTurns, SiteKeeps
    <3>2. site' = [site EXCEPT ![t] = n]
      BY <2>1
    <3> HIDE DEF n
    <3> QED
      BY <1>1, <3>1, <3>2, SiteMoves
  <2>3. PipeTypes' /\ (\A j \in DOMAIN pipe' : OldOrNew(pipe'[j]))
    BY <1>1, <2>1, SaidBy, Speaks DEF PageEvents
  <2> QED
    BY <1>3, <2>2, <2>3
<1>10. CASE Reattaches(t)
  <2>1. /\ site' = [site EXCEPT ![t] = [s EXCEPT !.attached = @ + 1]] /\ s.attached + 1 \in 1..MaxAttach
        /\ Sends([Message("attached", t) EXCEPT !.session = <<t, s.attached + 1>>])
    BY <1>1, <1>10, BoundAssumption DEF Reattaches
  <2>2. SiteTypes'
    <3>1. s.attached + 1 <= MaxAttach
      BY <2>1, BoundAssumption
    <3> DEFINE n == [s EXCEPT !.attached = @ + 1]
    <3>2. n \in Site /\ n.attached > 0
      BY <1>1, <3>1, SiteAttaches
    <3>3. site' = [site EXCEPT ![t] = n]
      BY <2>1
    <3> HIDE DEF n
    <3> QED
      BY <3>2, <3>3, SiteMoves
  <2>3. <<t, s.attached + 1>> \in Sessions
    BY <2>1 DEF Sessions
  <2>4. PipeTypes' /\ (\A j \in DOMAIN pipe' : OldOrNew(pipe'[j]))
    BY <1>1, <2>1, <2>3, SaidBy, Speaks
  <2> QED
    BY <1>3, <2>2, <2>4
<1>11. CASE DetachesOld(t)
  <2>1. /\ site' = [site EXCEPT ![t] = [s EXCEPT !.detached = @ + 1]] /\ s.detached + 1 \in 1..MaxAttach
        /\ Sends([Message("detached", t) EXCEPT !.session = <<t, s.detached + 1>>])
    BY <1>1, <1>11, BoundAssumption DEF DetachesOld
  <2>2. SiteTypes'
    <3> DEFINE n == [s EXCEPT !.detached = @ + 1]
    <3>1. n \in Site /\ n.stage = s.stage /\ n.attached = s.attached
      BY <1>1, SiteTurns, SiteKeeps
    <3>2. site' = [site EXCEPT ![t] = n]
      BY <2>1
    <3> HIDE DEF n
    <3> QED
      BY <1>1, <3>1, <3>2, SiteMoves
  <2>3. <<t, s.detached + 1>> \in Sessions
    BY <2>1 DEF Sessions
  <2>4. PipeTypes' /\ (\A j \in DOMAIN pipe' : OldOrNew(pipe'[j]))
    BY <1>1, <2>1, <2>3, SaidBy, Speaks
  <2> QED
    BY <1>3, <2>2, <2>4
<1>12. CASE Detaches(t)
  <2>1. site' = [site EXCEPT ![t] = [s EXCEPT !.stage = "gone"]] /\ Sends(Message("detached", t))
    BY <1>12 DEF Detaches
  <2>2. SiteTypes'
    <3> DEFINE n == [s EXCEPT !.stage = "gone"]
    <3>1. n \in Site /\ n.stage = "gone"
      BY <1>1, SiteTurns
    <3>2. site' = [site EXCEPT ![t] = n]
      BY <2>1
    <3> HIDE DEF n
    <3> QED
      BY <3>1, <3>2, SiteMoves
  <2>3. PipeTypes' /\ (\A j \in DOMAIN pipe' : OldOrNew(pipe'[j]))
    BY <1>1, <2>1, SaidBy, Speaks
  <2> QED
    BY <1>3, <2>2, <2>3
<1>13. ASSUME NEW e \in PageEvents, NEW u \in Urls \cup {NoUrl}, OwnNavigation(t, e, u) PROVE BrowserWell
  <2>1. Sends([Message(e, t) EXCEPT !.nav = OwnNav, !.url = u]) /\ UNCHANGED site
    BY <1>13 DEF OwnNavigation
  <2>2. SiteTypes'
    BY <2>1, SiteSame
  <2>3. PipeTypes' /\ (\A j \in DOMAIN pipe' : OldOrNew(pipe'[j]))
    BY <1>1, <1>4, <2>1, SaidBy, Speaks
  <2> QED
    BY <1>3, <2>2, <2>3
<1>14. {"started", "committed", "sameDocument"} \subseteq PageEvents
  BY DEF PageEvents
<1> QED
  BY <1>5, <1>7, <1>8, <1>9, <1>10, <1>11, <1>12, <1>13, <1>14

\* The answer to a call, and the course of a navigation.
LEMMA BrowserAnswers ==
    ASSUME BrowserTypes, TypeOK, NEW c \in calls, Replies(c) \/ NavStarts(c) \/ NavCommits(c) \/ NavAborts(c)
    PROVE  BrowserWell
<1>0. phase = "poll" /\ UNCHANGED <<loop, driver, router, tasks, client>> /\ browserUp' \in BOOLEAN /\ UNCHANGED site
  BY DEF Replies, NavStarts, NavCommits, NavAborts, NavStep, Acts, Between, TypeOK
<1>1. c \in Call /\ c.wire \in Nat /\ (c.what = "nav" => c.target \in Targets) /\ c.target \in Targets \cup {None}
  <2>1. c \in Call /\ (c.what = "nav" => c.target \in Targets)
    BY DEF BrowserTypes
  <2> QED
    BY <2>1 DEF Call
<1>2. SiteTypes'
  BY <1>0, SiteSame
<1>3. ASSUME PipeTypes' /\ (\A j \in DOMAIN pipe' : OldOrNew(pipe'[j])),
             CallTypes' /\ \A d \in calls' : \E e \in calls : d.wire = e.wire /\ d.what = e.what
      PROVE  BrowserWell
  BY <1>0, <1>2, <1>3 DEF BrowserWell
<1>4. CASE Replies(c)
  <2> DEFINE v == IF c.what = "nav" THEN c.wire ELSE IF c.what = "newPage" THEN c.target ELSE None
             d == [c EXCEPT !.replied = TRUE]
  <2>1. PICK result \in {"ok", "err"} :
          Sends([type |-> "reply", wire |-> c.wire, result |-> result, session |-> None, frame |-> NoFrame,
                 nav |-> NoNav, url |-> NoUrl, val |-> v])
    BY <1>4 DEF Replies
  <2> DEFINE m == [type |-> "reply", wire |-> c.wire, result |-> result, session |-> None, frame |-> NoFrame,
                   nav |-> NoNav, url |-> NoUrl, val |-> v]
  <2>2. v \in Nat \cup Targets \cup {None} /\ (c.what = "nav" => v \in Nat) /\ (c.what = "newPage" => v \in Targets)
    BY <1>1, <1>4 DEF Replies
  <2> HIDE DEF v
  <2>3. m \in Msg /\ GoodMessage(m) /\ FromCall(m, c)
    BY <1>1, <2>2 DEF Msg, GoodMessage, FromCall
  <2>4. Sends(m)
    BY <2>1
  <2> HIDE DEF m
  <2>5. PipeTypes' /\ (\A j \in DOMAIN pipe' : OldOrNew(pipe'[j]))
    BY <2>3, <2>4, PipeGrows
  <2>6. d \in Call /\ d.wire = c.wire /\ d.what = c.what /\ d.target = c.target
    BY <1>1, CallTurns
  <2>7. calls' \subseteq (calls \ {c}) \cup {d}
    BY <1>4 DEF Replies
  <2> HIDE DEF d
  <2>8. CallTypes' /\ \A x \in calls' : \E e \in calls : x.wire = e.wire /\ x.what = e.what
    BY <1>1, <2>6, <2>7, CallMoves
  <2> QED
    BY <1>3, <2>5, <2>8
<1>5. ASSUME NEW from, NEW to \in {"started", "over"}, NEW e \in PageEvents, NEW url \in Urls \cup {NoUrl},
             NavStep(c, from, to, e, url)
      PROVE  BrowserWell
  <2> DEFINE d == [c EXCEPT !.stage = to]
             t == c.target
  <2>1. t \in Targets /\ site[t].stage = "live"
    BY <1>1, <1>5 DEF NavStep
  <2>2. SessionOf(t) \in Sessions /\ site[t].frame \in Frames \cup {NoFrame}
    BY <2>1, LiveSite DEF Site
  <2>3. Sends([Message(e, t) EXCEPT !.nav = c.wire, !.url = url])
    BY <1>5 DEF NavStep
  <2> DEFINE m == [Message(e, t) EXCEPT !.nav = c.wire, !.url = url]
             w == c.wire
  <2> HIDE DEF m, w
  <2>4. PipeTypes' /\ (\A j \in DOMAIN pipe' : OldOrNew(pipe'[j]))
    <3>1. Says(m, e, t, SessionOf(t), site[t].frame, w, url)
      BY SaidBy DEF m, w
    <3>2. w \in Nat \cup {NoNav} /\ e \in PageEvents \cup {"attached", "detached"}
      BY <1>1 DEF w
    <3>3. Sends(m)
      BY <2>3 DEF m
    <3> QED
      BY <2>2, <3>1, <3>2, <3>3, Speaks
  <2>5. d \in Call /\ d.wire = c.wire /\ d.what = c.what /\ d.target = c.target
    BY <1>1, CallTurns
  <2>6. calls' \subseteq (calls \ {c}) \cup {d}
    BY <1>5 DEF NavStep
  <2> HIDE DEF d
  <2>7. CallTypes' /\ \A x \in calls' : \E y \in calls : x.wire = y.wire /\ x.what = y.what
    BY <1>1, <2>5, <2>6, CallMoves
  <2> QED
    BY <1>3, <2>4, <2>7
<1>6. {"started", "committed", "aborted"} \subseteq PageEvents
  BY DEF PageEvents
<1> QED
  BY <1>4, <1>5, <1>6 DEF NavStarts, NavCommits, NavAborts

LEMMA BrowserSteps ==
    ASSUME BrowserTypes, TypeOK, Browser
    PROVE  BrowserWell
<1>1. CASE Crashes
  <2>1. phase = "poll" /\ UNCHANGED <<loop, driver, router, tasks, client>> /\ browserUp' \in BOOLEAN
    BY <1>1 DEF Crashes, Between
  <2>2. SiteTypes'
    BY <1>1, SiteSame DEF Crashes
  <2>3. PipeTypes' /\ (\A j \in DOMAIN pipe' : OldOrNew(pipe'[j]))
    BY <1>1, PipeSame DEF Crashes
  <2>4. CallTypes' /\ \A x \in calls' : \E y \in calls : x.wire = y.wire /\ x.what = y.what
    BY <1>1, CallsSame DEF Crashes
  <2> QED
    BY <2>1, <2>2, <2>3, <2>4 DEF BrowserWell
<1> QED
  BY <1>1, BrowserMakes, PageSpeaks, BrowserAnswers DEF Browser

----------------------------------------------------------------------------
(* What happens between turns *)

Balanced == Books /\ CurrentTargetLives

LEMMA BrowserKeeps ==
    ASSUME Balanced, Browser
    PROVE  Balanced'
<1>0. Typed /\ Wired /\ TypeOK /\ BrowserTypes
  BY DEF Balanced, Books, Typed
<1>1. BrowserWell
  BY <1>0, BrowserSteps
<1>2. phase = "poll" /\ UNCHANGED <<loop, driver, router, tasks, client>>
  BY <1>1 DEF BrowserWell
<1>3. TypeOK'
  <2>1. browserUp' \in BOOLEAN
    BY <1>1 DEF BrowserWell
  <2> QED
    BY <1>0, <1>2, <2>1 DEF TypeOK, loop, driver, router, tasks, client
<1>4. BrowserTypes'
  BY <1>1 DEF BrowserWell, BrowserTypes, SiteTypes, PipeTypes, CallTypes
<1>5. LoopTypes'
  BY <1>0, <1>2 DEF LoopTypes, Typed, loop, client
<1>6. Wired'
  <2>1. Outcomes'
    BY <1>0, <1>2, OpenElsewhere DEF Outcomes, tasks
  <2>2. UNCHANGED <<task, pending, wire, inflight, asked>>
    BY <1>2 DEF tasks, router, client
  <2>3. /\ \A d \in calls' : \E c \in calls : d.wire = c.wire /\ d.what = c.what
        /\ \A j \in DOMAIN pipe' : OldOrNew(pipe'[j])
    BY <1>1 DEF BrowserWell
  <2> QED
    BY <1>0, <2>1, <2>2, <2>3, WiredSame
<1>7. Ledger' /\ Sessioned' /\ CurrentTargetLives'
  <2>1. Ledger /\ Sessioned /\ CurrentTargetLives
    BY DEF Balanced, Books
  <2>2. Ledger'
    BY <1>2, <2>1 DEF loop, tasks, client, Ledger, Holds, Once, InFlight, Unread, Closed
  <2>3. Sessioned' /\ CurrentTargetLives'
    BY <1>2, <2>1 DEF loop, driver, Sessioned, SessionIndex, CurrentTargetLives
  <2> QED
    BY <2>2, <2>3
<1> QED
  BY <1>3, <1>4, <1>5, <1>6, <1>7 DEF Balanced, Books, Typed

\* A request more in the stdin pipe.
LEMMA AppendHolds ==
    ASSUME NEW s \in Seq(Requests), NEW r \in Requests
    PROVE  /\ \A q \in Requests : Holds(Append(s, r), q) <=> Holds(s, q) \/ q = r
           /\ Append(s, r) \in Seq(Requests)
           /\ Once(s) /\ ~Holds(s, r) => Once(Append(s, r))
<1> DEFINE z == Append(s, r)
<1>1. /\ z \in Seq(Requests) /\ DOMAIN z = DOMAIN s \cup {Len(s) + 1} /\ Len(s) + 1 \notin DOMAIN s
      /\ z[Len(s) + 1] = r /\ \A i \in DOMAIN s : z[i] = s[i]
  OBVIOUS
<1> HIDE DEF z
<1> QED
  BY <1>1 DEF Holds, Once, z

LEMMA HoldsInFlight == ASSUME NEW r PROVE InFlight(r) <=> Holds(inflight, r)
BY DEF InFlight, Holds

LEMMA UnreadIf == ASSUME NEW r PROVE Unread(r) <=> asked[r].kind = "none" \/ Holds(fd, r) \/ Holds(lineBuf, r)
BY DEF Unread, Holds

LEMMA AskingKeeps ==
    ASSUME Balanced, NEW r \in Requests, ClientAsks(r)
    PROVE  Balanced'
<1>0. Typed /\ Wired /\ TypeOK /\ BrowserTypes /\ LoopTypes /\ Ledger /\ Sessioned /\ CurrentTargetLives
  BY DEF Balanced, Books, Typed
<1>1. /\ phase = "poll" /\ asked[r].kind = "none" /\ fd' = Append(fd, r)
      /\ UNCHANGED <<loop, driver, router, tasks, lineBuf, clientUp, plan, browser>>
  BY DEF ClientAsks, Between
<1>2. PICK k \in plan.script[r], u \in Urls, s \in {None} \cup Sessions :
        asked' = [asked EXCEPT ![r] = [kind |-> k, session |-> s, url |-> u]]
  BY DEF ClientAsks
<1>3. k \in AllKinds /\ asked \in [Requests -> Asked] /\ fd \in Seq(Requests) /\ lineBuf \in Seq(Requests)
  BY <1>0, PlanAssumption DEF LoopTypes, TypeOK
<1> DEFINE a == [kind |-> k, session |-> s, url |-> u]
<1>4. a \in Asked /\ a.kind = k /\ k # "none"
  BY <1>3 DEF Asked, AllKinds
<1>5. asked' = [asked EXCEPT ![r] = a]
  BY <1>2
<1> HIDE DEF a
<1>6. asked' \in [Requests -> Asked] /\ asked'[r].kind = k /\ \A q \in Requests \ {r} : asked'[q] = asked[q]
  BY <1>3, <1>4, <1>5
<1>7. ~Holds(fd, r) /\ ~Holds(lineBuf, r) /\ ~InFlight(r)
  BY <1>0, <1>1 DEF Ledger
<1>8. fd' \in Seq(Requests) /\ Once(fd') /\ \A q \in Requests : Holds(fd', q) <=> Holds(fd, q) \/ q = r
  BY <1>0, <1>1, <1>3, <1>7, AppendHolds DEF Ledger
<1>9. UNCHANGED <<phase, ready, chunk, index, progressed, running, stdinEof, pages, bySession, current, pending, wire,
                  inflight, task, answer, answers, news, lineBuf, clientUp, plan, pipe, calls, site, browserUp>>
  BY <1>1 DEF loop, driver, router, tasks, browser
<1>10. Typed'
  <2>1. TypeOK'
    BY <1>0, <1>8, <1>9 DEF TypeOK
  <2>2. BrowserTypes'
    BY <1>0, <1>9 DEF BrowserTypes
  <2>3. LoopTypes'
    BY <1>0, <1>1, <1>6, <1>9 DEF LoopTypes
  <2> QED
    BY <2>1, <2>2, <2>3 DEF Typed
<1>11. Wired'
  <2>1. Outcomes'
    BY <1>0, <1>1, <1>9, OpenElsewhere DEF Outcomes
  <2>2. \A q \in Requests : InFlight(q) => asked'[q].kind = asked[q].kind
    BY <1>6, <1>7
  <2>3. \A j \in DOMAIN pipe' : OldOrNew(pipe'[j])
    BY <1>9 DEF OldOrNew
  <2> QED
    BY <1>0, <1>9, <2>1, <2>2, <2>3, WiredSame
<1>12. Ledger'
  <2>1. \A q \in Requests : InFlight(q)' <=> InFlight(q)
    BY <1>9 DEF InFlight
  <2>2. \A q \in Requests : Unread(q)' <=> Unread(q)
    <3>1. \A q \in Requests : Unread(q)' <=> asked'[q].kind = "none" \/ Holds(fd', q) \/ Holds(lineBuf', q)
      BY DEF Unread, Holds
    <3> QED
      BY <1>1, <1>6, <1>8, <1>9, <3>1, UnreadIf
  <2>3. Closed => Closed'
    <3>1. answers[r] = 0
      BY <1>0, <1>1 DEF Ledger, Unread
    <3>2. \A q \in Requests \ {r} : asked'[q].kind = asked[q].kind
      BY <1>6
    <3> QED
      BY <1>9, <3>1, <3>2 DEF Closed
  <2>4. \A q \in Requests : Holds(fd', q) \/ Holds(lineBuf', q) \/ InFlight(q)' => asked'[q].kind # "none"
    BY <1>0, <1>4, <1>6, <1>8, <1>9, <2>1 DEF Ledger
  <2>5. \A q \in Requests : ~(Holds(fd', q) /\ Holds(lineBuf', q)) /\ ~(Holds(fd', q) /\ InFlight(q)') /\ ~(Holds(lineBuf', q) /\ InFlight(q)')
    BY <1>0, <1>7, <1>8, <1>9, <2>1 DEF Ledger
  <2>6. \A q \in Requests : answers'[q] = (IF Unread(q)' \/ InFlight(q)' THEN 0 ELSE 1) /\ (answer'[q] = "none" <=> answers'[q] = 0)
    BY <1>0, <1>9, <2>1, <2>2 DEF Ledger
  <2>7. (~running' => Closed' \/ (inflight' = <<>> /\ phase' \in {"flush", "exited"})) /\ (phase' = "exited" /\ inflight' # <<>> => Closed')
    BY <1>0, <1>9, <2>3 DEF Ledger
  <2> QED
    BY <1>0, <1>8, <1>9, <2>4, <2>5, <2>6, <2>7 DEF Ledger
<1>13. Sessioned' /\ CurrentTargetLives'
  BY <1>0, <1>9 DEF Sessioned, SessionIndex, CurrentTargetLives
<1> QED
  BY <1>10, <1>11, <1>12, <1>13 DEF Balanced, Books

LEMMA ClosingKeeps ==
    ASSUME Balanced, ClientCloses
    PROVE  Balanced'
<1>0. Typed /\ Wired /\ TypeOK /\ BrowserTypes /\ LoopTypes /\ Ledger /\ Sessioned /\ CurrentTargetLives
  BY DEF Balanced, Books, Typed
<1>1. /\ phase = "poll" /\ clientUp' = FALSE
      /\ UNCHANGED <<phase, ready, chunk, index, progressed, running, stdinEof, pages, bySession, current, pending, wire,
                  inflight, task, answer, answers, news, fd, lineBuf, asked, plan, pipe, calls, site, browserUp>>
  BY DEF ClientCloses, Between, loop, driver, router, tasks, browser
<1>2. TypeOK' /\ BrowserTypes' /\ LoopTypes'
  <2>1. TypeOK'
    BY <1>0, <1>1 DEF TypeOK
  <2> QED
    BY <1>0, <1>1, <2>1 DEF BrowserTypes, LoopTypes
<1>3. Wired'
  <2>1. Outcomes'
    BY <1>0, <1>1, OpenElsewhere DEF Outcomes
  <2>2. \A j \in DOMAIN pipe' : OldOrNew(pipe'[j])
    BY <1>1 DEF OldOrNew
  <2> QED
    BY <1>0, <1>1, <2>1, <2>2, WiredSame
<1>4. Ledger' /\ Sessioned' /\ CurrentTargetLives'
  <2>1. Ledger'
    BY <1>0, <1>1 DEF Ledger, Holds, Once, InFlight, Unread, Closed
  <2> QED
    BY <1>0, <1>1, <2>1 DEF Sessioned, SessionIndex, CurrentTargetLives
<1> QED
  BY <1>2, <1>3, <1>4 DEF Balanced, Books, Typed

\* What the clock does to a task.
Clocked(r, u) ==
  /\ u \in Task /\ Shaped(u) /\ Alike(u, task[r]) /\ SameCall(u, task[r]) /\ u.outcome = task[r].outcome

LEMMA ClockSteps ==
    ASSUME Wired, TypeOK, Clock
    PROVE  \E r \in Requests, u \in Task : Passes(r, u) /\ Clocked(r, u)
<1>1. PICK r \in Requests : DeadlineComes(r) \/ SettleEnds(r) \/ GraceEnds(r)
  BY DEF Clock
<1>2. task[r] \in Task /\ Shaped(task[r])
  BY TaskNow
<1> DEFINE t == task[r]
<1>3. ASSUME NEW u \in Task, Alike(u, t), SameCall(u, t), u.outcome = t.outcome, Passes(r, u)
      PROVE  \E q \in Requests, v \in Task : Passes(q, v) /\ Clocked(q, v)
  BY <1>2, <1>3, AlikeShaped DEF Clocked, SameCall
<1>4. CASE DeadlineComes(r)
  <2> DEFINE u == [t EXCEPT !.late = TRUE]
  <2>1. u \in Task /\ Alike(u, t) /\ SameCall(u, t) /\ u.outcome = t.outcome
    BY <1>2 DEF Task, Alike, SameCall
  <2> QED
    BY <1>3, <1>4, <2>1 DEF DeadlineComes
<1>5. CASE SettleEnds(r)
  <2> DEFINE u == [t EXCEPT !.settle = "over"]
  <2>1. u \in Task /\ Alike(u, t) /\ SameCall(u, t) /\ u.outcome = t.outcome
    BY <1>2 DEF Task, Alike, SameCall
  <2> QED
    BY <1>3, <1>5, <2>1 DEF SettleEnds
<1>6. CASE GraceEnds(r)
  <2> DEFINE u == [t EXCEPT !.grace = "over"]
  <2>1. u \in Task /\ Alike(u, t) /\ SameCall(u, t) /\ u.outcome = t.outcome
    BY <1>2 DEF Task, Alike, SameCall
  <2> QED
    BY <1>3, <1>6, <2>1 DEF GraceEnds
<1> QED
  BY <1>1, <1>4, <1>5, <1>6

LEMMA ClockKeeps ==
    ASSUME Balanced, Clock
    PROVE  Balanced'
<1>0. Typed /\ Wired /\ TypeOK /\ BrowserTypes /\ LoopTypes /\ Ledger /\ Sessioned /\ CurrentTargetLives
  BY DEF Balanced, Books, Typed
<1>1. PICK r \in Requests, u \in Task : Passes(r, u) /\ Clocked(r, u)
  BY <1>0, ClockSteps
<1>2. /\ phase = "poll" /\ InFlight(r) /\ task' = [task EXCEPT ![r] = u]
      /\ UNCHANGED <<phase, ready, chunk, index, progressed, running, stdinEof, pages, bySession, current, pending, wire,
                  inflight, answer, answers, news, fd, lineBuf, asked, clientUp, plan, pipe, calls, site, browserUp>>
  BY <1>1 DEF Passes, Between, loop, driver, router, client, browser
<1>3. task \in [Requests -> Task] /\ task' \in [Requests -> Task] /\ task'[r] = u /\ \A q \in Requests \ {r} : task'[q] = task[q]
  BY <1>0, <1>2 DEF TypeOK
<1>4. TypeOK' /\ BrowserTypes' /\ LoopTypes'
  <2>1. TypeOK'
    BY <1>0, <1>2, <1>3 DEF TypeOK
  <2> QED
    BY <1>0, <1>2, <2>1 DEF BrowserTypes, LoopTypes
<1>5. Wired'
  <2>1. Outcomes'
    BY <1>0, <1>1, <1>2, <1>3, OpenElsewhere DEF Outcomes, Clocked
  <2>2. Keeps(r, u) /\ Shaped(u) /\ u.kind = asked[r].kind
    <3>1. What(u) = What(task[r])
      BY <1>1 DEF Clocked, Alike, What
    <3>2. task[r].kind = asked[r].kind
      BY <1>0, <1>2 DEF Wired, TaskShapes
    <3> QED
      BY <1>1, <1>2, <3>1, <3>2 DEF Clocked, Keeps, Alike, SameCall, router
  <2>3. \A q \in Requests : InFlight(q)' <=> InFlight(q)
    BY <1>2 DEF InFlight
  <2> QED
    BY <1>0, <1>2, <2>1, <2>2, <2>3, WiredAfter
<1>6. Ledger' /\ Sessioned' /\ CurrentTargetLives'
  <2>1. Ledger'
    BY <1>0, <1>2 DEF Ledger, Holds, Once, InFlight, Unread, Closed
  <2> QED
    BY <1>0, <1>2, <2>1 DEF Sessioned, SessionIndex, CurrentTargetLives
<1> QED
  BY <1>4, <1>5, <1>6 DEF Balanced, Books, Typed

----------------------------------------------------------------------------
(* Turns of the loop that touch no request *)

Still == UNCHANGED <<task, pending, wire, inflight, answer, answers, news, asked, plan, pipe, calls, site,
                     pages, bySession, browserUp, clientUp, running>>
Phases == {"poll", "browser", "stdin", "advance", "finish", "flush", "exited"}

LEMMA StillKeeps ==
    ASSUME Balanced, Still, UNCHANGED <<fd, lineBuf>>, phase # "finish",
           phase' \in Phases, phase' # "finish", ready' \subseteq {"browser", "hup", "stdin"}, chunk' \in Nat,
           index' \in Nat, index' >= 1, progressed' \in BOOLEAN, stdinEof' \in BOOLEAN, current' \in Targets \cup {None},
           phase' = "browser" => chunk' > 0 /\ chunk' <= Len(pipe),
           phase' = "poll" /\ current' # None => current' \in DOMAIN pages,
           phase' = "exited" => Closed \/ inflight = <<>>,
           phase \in {"flush", "exited"} => phase' \in {"poll", "exited"}, phase' = "poll" => running \/ phase = "poll"
    PROVE  Balanced'
<1>0. Typed /\ Wired /\ TypeOK /\ BrowserTypes /\ LoopTypes /\ Ledger /\ Sessioned
  BY DEF Balanced, Books, Typed
<1>1. UNCHANGED <<task, pending, wire, inflight, answer, answers, news, asked, plan, pipe, calls, site, pages, bySession,
                  browserUp, clientUp, fd, lineBuf, running>>
  BY DEF Still
<1>2. TypeOK'
  BY <1>0, <1>1 DEF TypeOK, Phases
<1>3. BrowserTypes' /\ LoopTypes'
  BY <1>0, <1>1 DEF BrowserTypes, LoopTypes
<1>4. Wired'
  <2>1. Outcomes'
    BY <1>0, <1>1, OpenElsewhere DEF Outcomes
  <2>2. \A j \in DOMAIN pipe' : OldOrNew(pipe'[j])
    BY <1>1 DEF OldOrNew
  <2> QED
    BY <1>0, <1>1, <2>1, <2>2, WiredSame
<1>5. Ledger'
  <2>1. Closed' <=> Closed
    BY <1>1 DEF Closed
  <2>2. \A q \in Requests : (InFlight(q)' <=> InFlight(q)) /\ (Unread(q)' <=> Unread(q))
    BY <1>1 DEF InFlight, Unread
  <2>3. (~running' => Closed' \/ (inflight' = <<>> /\ phase' \in {"flush", "exited"})) /\ (phase' = "exited" /\ inflight' # <<>> => Closed')
    BY <1>0, <1>1, <2>1 DEF Ledger
  <2> QED
    BY <1>0, <1>1, <2>2, <2>3 DEF Ledger, Holds
<1>6. Sessioned' /\ CurrentTargetLives'
  <2>1. Sessioned'
    BY <1>0, <1>1 DEF Sessioned, SessionIndex
  <2> QED
    BY <1>1, <2>1 DEF CurrentTargetLives
<1> QED
  BY <1>2, <1>3, <1>4, <1>5, <1>6 DEF Balanced, Books, Typed

LEMMA Readiness ==
    /\ Readable \subseteq {"browser", "hup", "stdin"}
    /\ \A rdy : AfterBrowser(rdy) \in {"stdin", "advance"}
BY DEF Readable, AfterBrowser

LEMMA TurningKeeps ==
    ASSUME Balanced, Turn, UNCHANGED plan
    PROVE  Balanced'
<1>1. TypeOK /\ LoopTypes /\ pipe \in Seq(Msg)
  BY DEF Balanced, Books, Typed, BrowserTypes
<1>2. /\ phase = "poll" /\ ready' = Readable /\ phase' = IF chunk' > 0 THEN "browser" ELSE AfterBrowser(Readable)
      /\ UNCHANGED <<index, progressed, running, stdinEof, driver, router, tasks, client, browser>>
  BY DEF Turn
<1>3. Still /\ UNCHANGED <<fd, lineBuf, index, progressed, running, stdinEof, current>>
  BY <1>2 DEF Still, driver, router, tasks, client, browser
<1>4. chunk' \in Nat /\ chunk' <= Len(pipe)
  <2>1. Len(pipe) \in Nat
    BY <1>1
  <2> QED
    BY <2>1 DEF Turn
<1>5. /\ phase' \in {"browser", "stdin", "advance"} /\ ready' \subseteq {"browser", "hup", "stdin"}
      /\ phase' = "browser" => chunk' > 0
  BY <1>2, Readiness
<1>6. index \in Nat /\ index >= 1 /\ progressed \in BOOLEAN /\ stdinEof \in BOOLEAN /\ current \in Targets \cup {None}
  BY <1>1 DEF TypeOK, LoopTypes
<1>7. UNCHANGED <<index, progressed, stdinEof, current>>
  BY <1>3
<1>8. phase' \in Phases /\ phase' \notin {"finish", "poll", "exited"} /\ phase \notin {"finish", "flush", "exited"}
  BY <1>2, <1>5 DEF Phases
<1>9. index' \in Nat /\ index' >= 1 /\ progressed' \in BOOLEAN /\ stdinEof' \in BOOLEAN /\ current' \in Targets \cup {None}
  BY <1>6, <1>7
<1>10. Still /\ UNCHANGED <<fd, lineBuf>> /\ (phase' = "browser" => chunk' > 0 /\ chunk' <= Len(pipe)) /\ chunk' \in Nat
  BY <1>3, <1>4, <1>5
<1>11. ready' \subseteq {"browser", "hup", "stdin"}
  BY <1>5
<1> QED
  BY <1>8, <1>9, <1>10, <1>11, StillKeeps

LEMMA PassingKeeps ==
    ASSUME Balanced, NextPass, UNCHANGED plan
    PROVE  Balanced'
<1>1. TypeOK /\ LoopTypes
  BY DEF Balanced, Books, Typed
<1>2. /\ phase = "advance" /\ index' = 1 /\ progressed' = FALSE
      /\ UNCHANGED <<phase, ready, chunk, running, stdinEof, driver, router, tasks, client, browser>>
  BY DEF NextPass, PassOver
<1>3. Still /\ UNCHANGED <<fd, lineBuf, phase, ready, chunk, stdinEof, current>>
  BY <1>2 DEF Still, driver, router, tasks, client, browser
<1>4. ready \subseteq {"browser", "hup", "stdin"} /\ chunk \in Nat /\ stdinEof \in BOOLEAN /\ current \in Targets \cup {None}
  BY <1>1 DEF TypeOK
<1>5. phase' = "advance" /\ "advance" \in Phases
  BY <1>2 DEF Phases
<1>6. /\ ready' \subseteq {"browser", "hup", "stdin"} /\ chunk' \in Nat /\ stdinEof' \in BOOLEAN
      /\ current' \in Targets \cup {None} /\ index' \in Nat /\ index' >= 1 /\ progressed' \in BOOLEAN
  <2>1. ready' = ready /\ chunk' = chunk /\ stdinEof' = stdinEof /\ current' = current
    BY <1>3
  <2>2. index' \in Nat /\ index' >= 1
    BY <1>2
  <2>3. progressed' \in BOOLEAN
    BY <1>2
  <2>4. ready' \subseteq {"browser", "hup", "stdin"} /\ chunk' \in Nat
    BY <1>4, <2>1
  <2>5. stdinEof' \in BOOLEAN /\ current' \in Targets \cup {None}
    BY <1>4, <2>1
  <2> QED
    BY <2>2, <2>3, <2>4, <2>5
<1>7. Still /\ UNCHANGED <<fd, lineBuf>>
  BY <1>3
<1> QED
  BY <1>2, <1>5, <1>6, <1>7, StillKeeps

LEMMA FlushKeeps ==
    ASSUME Balanced, Flush, UNCHANGED plan
    PROVE  Balanced'
<1>1. TypeOK /\ LoopTypes /\ Ledger
  BY DEF Balanced, Books, Typed
<1>2. /\ phase \in {"flush", "advance"} /\ current' = CurrentPage /\ index' = 1 /\ ready' = {}
      /\ phase' = IF running /\ ~(stdinEof /\ inflight = <<>>) THEN "poll" ELSE "exited"
      /\ UNCHANGED <<chunk, progressed, running, stdinEof, pages, bySession, router, tasks, client, browser>>
  BY DEF Flush, PassOver, RefreshedTarget
<1>3. Still /\ UNCHANGED <<fd, lineBuf, chunk, progressed, stdinEof>>
  BY <1>2 DEF Still, router, tasks, client, browser
<1>4. chunk \in Nat /\ progressed \in BOOLEAN /\ stdinEof \in BOOLEAN
  BY <1>1 DEF TypeOK
<1>5. current' \in Targets \cup {None} /\ (current' # None => current' \in DOMAIN pages)
  BY <1>1, <1>2 DEF CurrentPage, TypeOK
<1>6. phase' = "exited" => Closed \/ inflight = <<>>
  BY <1>1, <1>2 DEF Ledger
<1>7. phase' \in {"poll", "exited"} /\ phase' \in Phases /\ (phase' = "poll" => running)
  BY <1>2 DEF Phases
<1> QED
  BY <1>2, <1>3, <1>4, <1>5, <1>6, <1>7, StillKeeps

LEMMA ReadingKeeps ==
    ASSUME Balanced, ReadStdin, UNCHANGED plan
    PROVE  Balanced'
<1>0. Typed /\ Wired /\ TypeOK /\ BrowserTypes /\ LoopTypes /\ Ledger /\ Sessioned
  BY DEF Balanced, Books, Typed
<1>1. /\ phase = "stdin" /\ lineBuf = <<>>
      /\ UNCHANGED <<ready, chunk, index, progressed, running, driver, router, tasks, asked, clientUp, browser>>
  BY DEF ReadStdin
<1>2. Still /\ UNCHANGED <<ready, chunk, index, progressed, current>>
  BY <1>1 DEF Still, driver, router, tasks, browser
<1>3. /\ ready \subseteq {"browser", "hup", "stdin"} /\ chunk \in Nat /\ index \in Nat /\ index >= 1 /\ progressed \in BOOLEAN
      /\ stdinEof \in BOOLEAN /\ current \in Targets \cup {None} /\ clientUp \in BOOLEAN
  BY <1>0 DEF TypeOK, LoopTypes
<1>4. CASE fd = <<>>
  <2>1. phase' = "advance" /\ stdinEof' = ~clientUp /\ UNCHANGED <<fd, lineBuf>>
    BY <1>4 DEF ReadStdin
  <2>2. "advance" \in Phases
    BY DEF Phases
  <2> QED
    BY <1>1, <1>2, <1>3, <2>1, <2>2, StillKeeps
<1>5. CASE fd # <<>>
  <2>1. lineBuf' = fd /\ fd' = <<>> /\ UNCHANGED <<phase, stdinEof>>
    BY <1>5 DEF ReadStdin
  <2>2. UNCHANGED <<task, pending, wire, inflight, answer, answers, news, asked, plan, pipe, calls, site, pages, bySession,
                  browserUp, clientUp, running>>
    BY <1>2 DEF Still
  <2>3. <<>> \in Seq(Requests)
    OBVIOUS
  <2>4. TypeOK'
    BY <1>0, <1>2, <2>1, <2>2, <2>3 DEF TypeOK
  <2>5. BrowserTypes' /\ LoopTypes'
    BY <1>0, <1>1, <1>2, <2>1, <2>2 DEF BrowserTypes, LoopTypes
  <2>6. Wired'
    <3>1. Outcomes'
      BY <1>0, <1>1, <2>1, <2>2, OpenElsewhere DEF Outcomes
    <3>2. \A j \in DOMAIN pipe' : OldOrNew(pipe'[j])
      BY <2>2 DEF OldOrNew
    <3> QED
      BY <1>0, <2>2, <3>1, <3>2, WiredSame
  <2>7. Ledger'
    <3> \A q : ~Holds(<<>>, q)
      BY DEF Holds
    <3>1. \A q \in Requests : /\ InFlight(q)' <=> InFlight(q)
                              /\ Holds(fd', q) \/ Holds(lineBuf', q) <=> Holds(fd, q) \/ Holds(lineBuf, q)
                              /\ ~Holds(fd', q) /\ (Holds(lineBuf', q) <=> Holds(fd, q))
      BY <1>1, <2>1, <2>2 DEF InFlight
    <3>2. \A q \in Requests : Unread(q)' <=> Unread(q)
      <4>1. \A q \in Requests : Unread(q)' <=> asked'[q].kind = "none" \/ Holds(fd', q) \/ Holds(lineBuf', q)
        BY DEF Unread, Holds
      <4> QED
        BY <2>2, <3>1, <4>1, UnreadIf
    <3>3. Closed' <=> Closed
      BY <2>2 DEF Closed
    <3>4. Once(fd') /\ Once(lineBuf') /\ Once(inflight')
      BY <1>0, <1>1, <2>1, <2>2 DEF Ledger, Once
    <3>5. \A q \in Requests : Holds(fd', q) \/ Holds(lineBuf', q) \/ InFlight(q)' => asked'[q].kind # "none"
      BY <1>0, <2>2, <3>1 DEF Ledger
    <3>6. \A q \in Requests : ~(Holds(fd', q) /\ Holds(lineBuf', q)) /\ ~(Holds(fd', q) /\ InFlight(q)') /\ ~(Holds(lineBuf', q) /\ InFlight(q)')
      BY <1>0, <3>1 DEF Ledger
    <3>7. \A q \in Requests : answers'[q] = (IF Unread(q)' \/ InFlight(q)' THEN 0 ELSE 1) /\ (answer'[q] = "none" <=> answers'[q] = 0)
      BY <1>0, <2>2, <3>1, <3>2 DEF Ledger
    <3>8. (~running' => Closed' \/ (inflight' = <<>> /\ phase' \in {"flush", "exited"})) /\ (phase' = "exited" /\ inflight' # <<>> => Closed')
      BY <1>0, <2>1, <2>2, <3>3 DEF Ledger
    <3> QED
      BY <3>4, <3>5, <3>6, <3>7, <3>8 DEF Ledger
  <2>8. Sessioned' /\ CurrentTargetLives'
    <3>1. Sessioned'
      BY <1>0, <2>2 DEF Sessioned, SessionIndex
    <3> QED
      BY <1>1, <2>1, <3>1 DEF CurrentTargetLives
  <2> QED
    BY <2>4, <2>5, <2>6, <2>7, <2>8 DEF Balanced, Books, Typed
<1> QED
  BY <1>4, <1>5

----------------------------------------------------------------------------
(* Starting a request *)

\* A task that has just begun.
Begun(u, k) ==
  /\ u \in Task /\ u.kind = k /\ ~u.nested /\ u.stage = 0 /\ u.call = 0 /\ u.reply = "none" /\ u.nav = Unset
  /\ u.outcome = "open"

LEMMA NothingBegun == NoTask \in Task /\ Begun(NoTask, "none")
<1>1. NoTask \in Task
  <2>1. 0 \in 0..2
    OBVIOUS
  <2> QED
    BY <2>1 DEF NoTask, Task
<1> QED
  BY <1>1 DEF NoTask, Begun

LEMMA FreshTask ==
    ASSUME TypeOK, LoopTypes, NEW r \in Requests, NEW f \in {"none", "wire", "eval", "nav", "page"},
           NEW t \in Targets \cup {None}, NEW s \in Sessions \cup {None}, NEW b \in BOOLEAN
    PROVE  /\ Begun([Fresh(r) EXCEPT !.flow = f], asked[r].kind)
           /\ Begun([Fresh(r) EXCEPT !.flow = f, !.target = t, !.session = s, !.retry = b], asked[r].kind)
<1>1. asked[r].kind \in AllKinds \cup {"none"}
  BY DEF LoopTypes, Asked
<1>2. Begun(Fresh(r), asked[r].kind)
  <2> DEFINE k == asked[r].kind
  <2> HIDE DEF k
  <2>1. Begun([NoTask EXCEPT !.kind = k], k)
    BY <1>1, NothingBegun DEF Begun, Task, k
  <2> QED
    BY <2>1 DEF Fresh, k
<1> DEFINE o == Fresh(r)
           k == asked[r].kind
           p == [o EXCEPT !.flow = f]
           q == [p EXCEPT !.target = t]
           v == [q EXCEPT !.session = s]
           w == [v EXCEPT !.retry = b]
<1> HIDE DEF o, k
<1>3. Begun(p, k)
  BY <1>2 DEF Begun, Task, o, k
<1> HIDE DEF p
<1>4. Begun(q, k)
  BY <1>3 DEF Begun, Task
<1> HIDE DEF q
<1>5. Begun(v, k)
  BY <1>4 DEF Begun, Task
<1> HIDE DEF v
<1>6. Begun(w, k)
  BY <1>5 DEF Begun, Task
<1>7. w = [o EXCEPT !.flow = f, !.target = t, !.session = s, !.retry = b]
  BY DEF v, q, p
<1> QED
  BY <1>3, <1>6, <1>7 DEF o, k, p

\* What a request becomes when its line is read.
BeginsAs(r, u) ==
  /\ task' = [task EXCEPT ![r] = u] /\ u \in Task /\ Shaped(u) /\ u.outcome = "open"
  /\ Forgets(r, u) \/ Refused(r, u) \/ Opened(r, u)
Begins(r) ==
  \/ inflight' = Append(inflight, r) /\ UNCHANGED <<answer, answers>>
       /\ \E u \in Task : BeginsAs(r, u) /\ u.kind = asked[r].kind /\ ~u.nested /\ u.call < wire'
                       /\ (u.kind = "nav" => u.call = 0) /\ u.nav = Unset
  \/ UNCHANGED <<inflight, task>> /\ BeginsAs(r, NoTask) /\ \E what \in Results \ {"none"} : Answers(r, what)

LEMMA Unstarted ==
    ASSUME Balanced, NEW r \in Requests, ~InFlight(r)
    PROVE  /\ task[r] = NoTask /\ task[r].call = 0 /\ task[r] \in Task /\ wire # 0 /\ wire \in Nat /\ wire \notin DOMAIN pending
           /\ UNCHANGED <<task, router, calls>> => BeginsAs(r, NoTask)
           /\ UNCHANGED <<task, pending, calls>> /\ wire' = wire + 1 => BeginsAs(r, NoTask)
           /\ \A u : UNCHANGED <<router, calls>> /\ task' = [task EXCEPT ![r] = u] /\ Begun(u, asked[r].kind) => BeginsAs(r, u)
<1>1. Wired /\ TypeOK
  BY DEF Balanced, Books, Typed
<1>2. task[r] = NoTask /\ NoTask \in Task /\ Begun(NoTask, "none") /\ task \in [Requests -> Task]
  BY <1>1, NothingBegun DEF Wired, TaskShapes, TypeOK
<1>3. NoTask.call = 0 /\ NoTask.reply = "none" /\ Shaped(NoTask) /\ NoTask.outcome = "open"
  BY <1>2 DEF Begun, Shaped, NoTask
<1>4. wire # 0 /\ wire \in Nat /\ wire \notin DOMAIN pending /\ 0 \notin DOMAIN pending
  BY <1>1, WiresRise DEF TypeOK, Wired
<1>5. UNCHANGED task => task' = [task EXCEPT ![r] = NoTask]
  BY <1>2
<1> HIDE DEF NoTask
<1>6. UNCHANGED <<task, router, calls>> => BeginsAs(r, NoTask)
  BY <1>2, <1>3, <1>4, <1>5 DEF BeginsAs, Forgets, router
<1>7. UNCHANGED <<task, pending, calls>> /\ wire' = wire + 1 => BeginsAs(r, NoTask)
  BY <1>2, <1>3, <1>4, <1>5 DEF BeginsAs, Refused
<1>8. ASSUME NEW u, UNCHANGED <<router, calls>>, task' = [task EXCEPT ![r] = u], Begun(u, asked[r].kind) PROVE BeginsAs(r, u)
  <2>1. u \in Task /\ u.call = 0 /\ u.reply = "none" /\ u.outcome = "open" /\ u.stage = 0 /\ ~u.nested /\ u.nav = Unset
    BY <1>8 DEF Begun
  <2>2. Shaped(u)
    BY <2>1 DEF Shaped
  <2> QED
    BY <1>2, <1>3, <1>4, <1>8, <2>1, <2>2 DEF BeginsAs, Forgets, router
<1> QED
  BY <1>2, <1>3, <1>4, <1>6, <1>7, <1>8

LEMMA PassthroughBegins ==
    ASSUME Balanced, NEW r \in Requests, ~InFlight(r), browserUp, asked[r].kind \in {"call", "page"},
           NEW session \in Sessions \cup {None},
           SendAsync(r, [Fresh(r) EXCEPT !.flow = "wire"], "call", session, NoTask)
    PROVE  \E u \in Task : /\ BeginsAs(r, u) /\ u.kind = asked[r].kind /\ ~u.nested /\ u.call < wire'
                           /\ (u.kind = "nav" => u.call = 0) /\ u.nav = Unset
<1> DEFINE t == [Fresh(r) EXCEPT !.flow = "wire"]
           u == [t EXCEPT !.call = wire, !.reply = "none"]
           c == [wire |-> wire, what |-> "call", url |-> asked[r].url, stage |-> "new",
                 target |-> IF session = None THEN None ELSE session[1], replied |-> FALSE]
<1>0. TypeOK /\ LoopTypes
  BY DEF Balanced, Books, Typed
<1>1. Begun(t, asked[r].kind)
  BY <1>0, FreshTask
<1>2. wire # 0 /\ wire \in Nat /\ wire \notin DOMAIN pending /\ task[r].call = 0
  BY Unstarted
<1>3. wire' = wire + 1 /\ pending' = Put(pending, wire, r) /\ calls' = calls \cup {c} /\ task' = [task EXCEPT ![r] = u]
  BY DEF SendAsync
<1> HIDE DEF t
<1>4. /\ u \in Task /\ u.call = wire /\ u.reply = "none" /\ u.kind = asked[r].kind /\ ~u.nested /\ u.outcome = "open"
      /\ u.nav = Unset
  <2>1. t \in Task /\ t.kind = asked[r].kind /\ ~t.nested /\ t.outcome = "open" /\ t.nav = Unset
    BY <1>1 DEF Begun
  <2>2. wire \in Nat /\ u = Asking(t, wire)
    BY <1>2 DEF Asking
  <2> HIDE DEF u
  <2>3. /\ u \in Task /\ u.call = wire /\ u.reply = "none" /\ u.kind = t.kind /\ u.nested = t.nested
        /\ u.outcome = t.outcome /\ u.nav = t.nav
    BY <2>1, <2>2, Called
  <2> QED
    BY <2>1, <2>2, <2>3
<1> HIDE DEF u
<1>5. c \in Call /\ c.wire = wire /\ c.what = "call"
  <2>1. asked[r].url \in Urls \cup {NoUrl}
    BY <1>0 DEF LoopTypes, Asked
  <2>2. session # None => session[1] \in Targets
    BY DEF Sessions
  <2> QED
    BY <1>2, <2>1, <2>2 DEF Call
<1> HIDE DEF c
<1>6. Opened(r, u)
  <2>1. What(u) = "other"
    BY <1>4 DEF What
  <2> QED
    BY <1>2, <1>3, <1>4, <1>5, <2>1 DEF Opened, Put
<1>7. Shaped(u)
  BY <1>2, <1>4 DEF Shaped
<1>8. u.call < wire' /\ u.kind # "nav"
  BY <1>2, <1>3, <1>4
<1>9. BeginsAs(r, u)
  BY <1>3, <1>4, <1>6, <1>7 DEF BeginsAs
<1> QED
  BY <1>4, <1>8, <1>9

LEMMA PagesFound ==
    ASSUME TypeOK, Sessioned, NEW r \in Requests
    PROVE  /\ CurrentPage # None => CurrentPage \in DOMAIN pages /\ pages[CurrentPage].session \in Sessions
           /\ LET t == ResolvePageFor(r) IN t \in Targets \cup {None} /\ (t # None => t \in DOMAIN pages /\ pages[t].session \in Sessions)
<1>1. \A t \in DOMAIN pages : t \in Targets /\ pages[t].session \in Sessions
  BY PageTypes
<1>2. CurrentPage # None => CurrentPage \in DOMAIN pages
  BY DEF CurrentPage
<1>3. \A s \in DOMAIN bySession : bySession[s] \in DOMAIN pages
  BY DEF Sessioned, SessionIndex
<1> QED
  BY <1>1, <1>2, <1>3 DEF ResolvePageFor

LEMMA Starting ==
    ASSUME Balanced, StartTask, NEW r \in Requests, r = Head(lineBuf), ~InFlight(r)
    PROVE  Begins(r) /\ (running' = running \/ (asked[r].kind = "close" /\ answers' = [answers EXCEPT ![r] = @ + 1]))
<1>0. TypeOK /\ LoopTypes /\ Sessioned
  BY DEF Balanced, Books, Typed
<1> DEFINE kind == asked[r].kind
<1>1. \A k \in {"ok", "failed", "rejected"} : k \in Results \ {"none"}
  BY DEF Results
<1>2. CASE kind \in {"call", "page"} /\ StartPassthrough(r) /\ UNCHANGED running
  <2> DEFINE session == IF asked[r].kind = "call" THEN None
                 ELSE IF asked[r].session # None THEN asked[r].session
                 ELSE IF CurrentPage # None THEN pages[CurrentPage].session ELSE None
  <2>1. session \in Sessions \cup {None}
    <3>1. asked[r].session \in Sessions \cup {None}
      BY <1>0 DEF LoopTypes, Asked
    <3> QED
      BY <1>0, <3>1, PagesFound
  <2>2. CASE asked[r].kind = "page" /\ session = None
    <3>1. Answers(r, "rejected") /\ UNCHANGED <<inflight, task, router, calls>>
      BY <1>2, <2>2 DEF StartPassthrough, router
    <3>2. BeginsAs(r, NoTask)
      BY <3>1, Unstarted DEF router
    <3> QED
      BY <1>1, <1>2, <3>1, <3>2 DEF Begins
  <2>3. CASE ~(asked[r].kind = "page" /\ session = None) /\ browserUp
    <3>1. Enlist(r) /\ SendAsync(r, [Fresh(r) EXCEPT !.flow = "wire"], "call", session, NoTask)
      BY <1>2, <2>3 DEF StartPassthrough
    <3> HIDE DEF session
    <3> QED
      BY <1>2, <2>1, <2>3, <3>1, PassthroughBegins DEF Begins, Enlist
  <2>4. CASE ~(asked[r].kind = "page" /\ session = None) /\ ~browserUp
    <3>1. Answers(r, "failed") /\ wire' = wire + 1 /\ UNCHANGED <<inflight, task, pending, calls>>
      BY <1>2, <2>4 DEF StartPassthrough
    <3>2. BeginsAs(r, NoTask)
      BY <3>1, Unstarted
    <3> QED
      BY <1>1, <1>2, <3>1, <3>2 DEF Begins
  <2> QED
    BY <2>2, <2>3, <2>4
<1>3. ASSUME NEW u, Begun(u, kind), task' = [task EXCEPT ![r] = u], UNCHANGED <<router, calls, running>>, Enlist(r)
      PROVE  Begins(r) /\ running' = running
  <2>1. BeginsAs(r, u)
    BY <1>3, Unstarted
  <2>2. u \in Task /\ u.kind = kind /\ ~u.nested /\ u.call = 0 /\ u.nav = Unset
    BY <1>3 DEF Begun
  <2>3. wire' = wire /\ 0 < wire
    BY <1>0, <1>3, Unstarted DEF router
  <2> QED
    BY <1>3, <2>1, <2>2, <2>3 DEF Begins, Enlist
<1>4. CASE kind \in {"eval", "nav", "shot", "clip"} /\ StartOnPage(r) /\ UNCHANGED <<router, calls, running>>
  <2> DEFINE target == ResolvePageFor(r)
             flow == CASE asked[r].kind = "eval" -> "eval" [] asked[r].kind = "nav" -> "nav" [] OTHER -> "none"
  <2>1. CASE target = None
    <3>1. Answers(r, "rejected") /\ UNCHANGED <<inflight, task>>
      BY <1>4, <2>1 DEF StartOnPage
    <3>2. BeginsAs(r, NoTask)
      BY <1>4, <3>1, Unstarted
    <3> QED
      BY <1>1, <1>4, <3>1, <3>2 DEF Begins
  <2>2. CASE target # None
    <3>1. target \in Targets /\ pages[target].session \in Sessions
      BY <1>0, <2>2, PagesFound
    <3>2. flow \in {"none", "wire", "eval", "nav", "page"} /\ (flow = "eval") \in BOOLEAN
      BY <1>4
    <3> DEFINE b == (flow = "eval")
               s == pages[target].session
               u == [Fresh(r) EXCEPT !.flow = flow, !.target = target, !.session = s, !.retry = b]
    <3>3. Enlist(r) /\ task' = [task EXCEPT ![r] = u]
      BY <1>4, <2>2 DEF StartOnPage
    <3> HIDE DEF flow, target, b, s
    <3>4. Begun(u, kind)
      BY <1>0, <3>1, <3>2, FreshTask DEF b, s
    <3> HIDE DEF u
    <3> QED
      BY <1>3, <1>4, <3>3, <3>4
  <2> QED
    BY <2>1, <2>2
<1>5. CASE kind \in {"newPage", "newTab"} /\ Enlist(r) /\ task' = [task EXCEPT ![r] = [Fresh(r) EXCEPT !.flow = "page"]]
           /\ UNCHANGED <<router, calls, running>>
  <2>1. Begun([Fresh(r) EXCEPT !.flow = "page"], kind)
    BY <1>0, FreshTask
  <2> QED
    BY <1>3, <1>5, <2>1
<1>6. CASE kind = "health" /\ Answers(r, "ok") /\ UNCHANGED <<inflight, task, router, calls, running>>
  <2>1. BeginsAs(r, NoTask)
    BY <1>6, Unstarted DEF router
  <2> QED
    BY <1>1, <1>6, <2>1 DEF Begins
<1>7. CASE kind = "close" /\ Answers(r, IF browserUp THEN "ok" ELSE "failed") /\ wire' = wire + 1
           /\ UNCHANGED <<inflight, task, pending, calls>>
  <2>1. BeginsAs(r, NoTask)
    BY <1>7, Unstarted
  <2> QED
    BY <1>1, <1>7, <2>1 DEF Begins, Answers
<1> QED
  BY <1>2, <1>4, <1>5, <1>6, <1>7 DEF StartTask

LEMMA TailHolds ==
    ASSUME NEW s \in Seq(Requests), s # <<>>
    PROVE  /\ Head(s) \in Requests /\ Holds(s, Head(s)) /\ Tail(s) \in Seq(Requests)
           /\ Once(s) => /\ Once(Tail(s))
                         /\ \A q \in Requests : Holds(Tail(s), q) <=> Holds(s, q) /\ q # Head(s)
<1> DEFINE z == Tail(s)
<1>1. /\ z \in Seq(Requests) /\ Len(s) \in Nat /\ Len(s) >= 1 /\ DOMAIN s = 1..Len(s) /\ DOMAIN z = 1..(Len(s) - 1)
      /\ \A i \in 1..(Len(s) - 1) : z[i] = s[i + 1]
      /\ Head(s) = s[1] /\ s[1] \in Requests
  OBVIOUS
<1> HIDE DEF z
<1>2. Holds(s, Head(s))
  BY <1>1 DEF Holds
<1>3. ASSUME Once(s) PROVE Once(z) /\ \A q \in Requests : Holds(z, q) <=> Holds(s, q) /\ q # Head(s)
  <2>1. \A i \in DOMAIN z : i \in Nat /\ i + 1 \in DOMAIN s /\ z[i] = s[i + 1] /\ i + 1 # 1
    BY <1>1
  <2>2. Once(z)
    <3> SUFFICES ASSUME NEW i \in DOMAIN z, NEW j \in DOMAIN z, z[i] = z[j] PROVE i = j
      BY DEF Once
    <3>1. i + 1 = j + 1
      BY <1>3, <2>1 DEF Once
    <3> QED
      BY <2>1, <3>1
  <2>3. ASSUME NEW q \in Requests, Holds(z, q) PROVE Holds(s, q) /\ q # Head(s)
    <3>1. PICK i \in DOMAIN z : z[i] = q
      BY <2>3 DEF Holds
    <3>2. s[i + 1] = q /\ i + 1 \in DOMAIN s /\ i + 1 # 1 /\ 1 \in DOMAIN s
      BY <1>1, <2>1, <3>1
    <3> QED
      BY <1>1, <1>3, <3>2 DEF Holds, Once
  <2>4. ASSUME NEW q \in Requests, Holds(s, q), q # Head(s) PROVE Holds(z, q)
    <3>1. PICK i \in DOMAIN s : s[i] = q
      BY <2>4 DEF Holds
    <3>2. i # 1 /\ i \in Nat /\ i - 1 \in 1..(Len(s) - 1)
      BY <1>1, <2>4, <3>1
    <3>3. z[i - 1] = s[(i - 1) + 1] /\ (i - 1) + 1 = i
      BY <1>1, <3>2
    <3> QED
      BY <1>1, <3>1, <3>2, <3>3 DEF Holds
  <2> QED
    BY <2>2, <2>3, <2>4
<1> QED
  BY <1>1, <1>2, <1>3 DEF z

\* Ledger is untouched where nothing it counts moves: the clauses that change, changed.
LEMMA LedgerStarts ==
    ASSUME Balanced, StartTask, NEW r \in Requests, r = Head(lineBuf)
    PROVE  ~InFlight(r) /\ Ledger'
<1>0. TypeOK /\ LoopTypes /\ Ledger /\ lineBuf \in Seq(Requests) /\ inflight \in Seq(Requests)
  BY DEF Balanced, Books, Typed, TypeOK
<1>1. lineBuf # <<>> /\ lineBuf' = Tail(lineBuf) /\ UNCHANGED <<fd, asked>> /\ phase = "stdin"
  BY DEF StartTask
<1>2. /\ Holds(lineBuf, r) /\ Once(lineBuf')
      /\ \A q \in Requests : Holds(lineBuf', q) <=> Holds(lineBuf, q) /\ q # r
  BY <1>0, <1>1, TailHolds DEF Ledger
<1>3. ~InFlight(r) /\ ~Holds(fd, r) /\ answers[r] = 0 /\ answer[r] = "none" /\ asked[r].kind # "none"
  BY <1>0, <1>2, UnreadIf DEF Ledger
<1>4. Begins(r) /\ (running' = running \/ (asked[r].kind = "close" /\ answers' = [answers EXCEPT ![r] = @ + 1]))
  BY <1>3, Starting
<1>5. phase' \in {"stdin", "advance"} /\ (~running => Closed)
  BY <1>0, <1>1 DEF StartTask, Ledger
<1>6. \A q \in Requests \ {r} : Unread(q)' <=> Unread(q)
  <2>1. \A q \in Requests : Unread(q)' <=> asked'[q].kind = "none" \/ Holds(fd', q) \/ Holds(lineBuf', q)
    BY DEF Unread, Holds
  <2> QED
    BY <1>1, <1>2, <2>1, UnreadIf
<1>7. ~Unread(r)'
  <2>1. Unread(r)' <=> asked'[r].kind = "none" \/ Holds(fd', r) \/ Holds(lineBuf', r)
    BY DEF Unread, Holds
  <2> QED
    BY <1>1, <1>2, <1>3, <2>1
<1>8. answer \in [Requests -> Results] /\ answers \in [Requests -> Nat]
  BY <1>0 DEF TypeOK
<1>9. CASE inflight' = Append(inflight, r) /\ UNCHANGED <<answer, answers>>
  <2>1. Once(inflight') /\ \A q \in Requests : InFlight(q)' <=> InFlight(q) \/ q = r
    <3>1. \A q \in Requests : (InFlight(q)' <=> Holds(inflight', q)) /\ (InFlight(q) <=> Holds(inflight, q))
      BY DEF InFlight, Holds
    <3>2. ~Holds(inflight, r) /\ Once(inflight)
      BY <1>0, <1>3, <3>1 DEF Ledger
    <3> QED
      BY <1>0, <1>9, <3>1, <3>2, AppendHolds
  <2>2. Closed' <=> Closed
    BY <1>1, <1>9 DEF Closed
  <2>3. running' = running
    BY <1>3, <1>4, <1>8, <1>9
  <2>4. \A q \in Requests : answers'[q] = (IF Unread(q)' \/ InFlight(q)' THEN 0 ELSE 1) /\ (answer'[q] = "none" <=> answers'[q] = 0)
    BY <1>0, <1>3, <1>6, <1>9, <2>1 DEF Ledger
  <2>5. \A q \in Requests : Holds(fd', q) \/ Holds(lineBuf', q) \/ InFlight(q)' => asked'[q].kind # "none"
    BY <1>0, <1>1, <1>2, <1>3, <2>1 DEF Ledger
  <2>6. \A q \in Requests : ~(Holds(fd', q) /\ Holds(lineBuf', q)) /\ ~(Holds(fd', q) /\ InFlight(q)') /\ ~(Holds(lineBuf', q) /\ InFlight(q)')
    BY <1>0, <1>1, <1>2, <1>3, <2>1 DEF Ledger
  <2>7. (~running' => Closed') /\ phase' # "exited" /\ Once(fd')
    BY <1>0, <1>1, <1>5, <2>2, <2>3 DEF Ledger
  <2> QED
    BY <1>2, <1>3, <2>1, <2>4, <2>5, <2>6, <2>7 DEF Ledger
<1>10. ASSUME UNCHANGED inflight, NEW what \in Results \ {"none"}, Answers(r, what) PROVE Ledger'
  <2>1. Once(inflight') /\ \A q \in Requests : InFlight(q)' <=> InFlight(q)
    BY <1>0, <1>10 DEF InFlight, Ledger
  <2>2. /\ answers'[r] = 1 /\ answer'[r] # "none"
        /\ \A q \in Requests \ {r} : answers'[q] = answers[q] /\ answer'[q] = answer[q]
    BY <1>3, <1>8, <1>10 DEF Answers
  <2>3. Closed => Closed'
    BY <1>1, <1>3, <2>2 DEF Closed
  <2>4. \A q \in Requests : answers'[q] = (IF Unread(q)' \/ InFlight(q)' THEN 0 ELSE 1) /\ (answer'[q] = "none" <=> answers'[q] = 0)
    BY <1>0, <1>3, <1>6, <1>7, <2>1, <2>2 DEF Ledger
  <2>5. \A q \in Requests : Holds(fd', q) \/ Holds(lineBuf', q) \/ InFlight(q)' => asked'[q].kind # "none"
    BY <1>0, <1>1, <1>2, <2>1 DEF Ledger
  <2>6. \A q \in Requests : ~(Holds(fd', q) /\ Holds(lineBuf', q)) /\ ~(Holds(fd', q) /\ InFlight(q)') /\ ~(Holds(lineBuf', q) /\ InFlight(q)')
    BY <1>0, <1>1, <1>2, <2>1 DEF Ledger
  <2>7. ~running' => Closed'
    <3>1. asked[r].kind = "close" => Closed'
      BY <1>1, <2>2 DEF Closed
    <3> QED
      BY <1>4, <1>5, <2>3, <3>1
  <2>8. phase' # "exited" /\ Once(fd')
    BY <1>0, <1>1, <1>5 DEF Ledger
  <2> QED
    BY <1>2, <2>1, <2>4, <2>5, <2>6, <2>7, <2>8 DEF Ledger
<1> QED
  BY <1>3, <1>4, <1>9, <1>10 DEF Begins

LEMMA TypedAfter ==
    ASSUME Wired, Typed, NEW r \in Requests, NEW u \in Task, task' = [task EXCEPT ![r] = u],
           Keeps(r, u) \/ Forgets(r, u) \/ Refused(r, u) \/ Opened(r, u)
    PROVE  /\ task' \in [Requests -> Task] /\ task'[r] = u /\ \A q \in Requests \ {r} : task'[q] = task[q]
           /\ wire' \in Nat /\ DOMAIN pending' \subseteq Nat /\ \A w \in DOMAIN pending' : pending'[w] \in Requests
           /\ CallTypes'
<1>1. /\ task \in [Requests -> Task] /\ wire \in Nat /\ DOMAIN pending \subseteq Nat
      /\ \A w \in DOMAIN pending : pending[w] \in Requests
  BY DEF Typed, TypeOK
<1>2. calls \subseteq Call /\ \A c \in calls : c.what = "nav" => c.target \in Targets
  BY DEF Typed, BrowserTypes
<1>3. CASE Opened(r, u)
  <2>1. wire' \in Nat /\ DOMAIN pending' \subseteq Nat /\ \A w \in DOMAIN pending' : pending'[w] \in Requests
    BY <1>1, <1>3 DEF Opened
  <2>2. CallTypes'
    BY <1>2, <1>3 DEF Opened, CallTypes
  <2> QED
    BY <1>1, <2>1, <2>2
<1>4. CASE Keeps(r, u) \/ Forgets(r, u) \/ Refused(r, u)
  <2>1. UNCHANGED calls
    BY <1>4 DEF Keeps, Forgets, Refused
  <2>2. CallTypes'
    BY <1>2, <2>1 DEF CallTypes
  <2>3. wire' \in Nat /\ DOMAIN pending' \subseteq Nat /\ \A w \in DOMAIN pending' : pending'[w] \in Requests
    BY <1>1, <1>4 DEF Keeps, Forgets, Refused, router
  <2> QED
    BY <1>1, <2>2, <2>3
<1> QED
  BY <1>3, <1>4

LEMMA StartingKeeps ==
    ASSUME Balanced, StartTask, UNCHANGED plan
    PROVE  Balanced'
<1>0. Typed /\ Wired /\ TypeOK /\ BrowserTypes /\ LoopTypes /\ Ledger /\ Sessioned /\ lineBuf \in Seq(Requests) /\ fd \in Seq(Requests)
  BY DEF Balanced, Books, Typed, TypeOK
<1>1. /\ phase = "stdin" /\ lineBuf # <<>> /\ lineBuf' = Tail(lineBuf) /\ phase' \in {"stdin", "advance"}
      /\ UNCHANGED <<ready, chunk, index, progressed, stdinEof, driver, news, fd, asked, clientUp, pipe, site, browserUp, budget>>
  BY DEF StartTask
<1>r. PICK r \in Requests : r = Head(lineBuf)
  BY <1>0, <1>1, TailHolds
<1>2. r \in Requests /\ lineBuf' \in Seq(Requests)
  BY <1>0, <1>1, TailHolds
<1>3. ~InFlight(r) /\ Ledger'
  BY <1>2, <1>r, LedgerStarts
<1>4. Begins(r) /\ (running' = running \/ (asked[r].kind = "close" /\ answers' = [answers EXCEPT ![r] = @ + 1]))
  BY <1>2, <1>3, <1>r, Starting
<1>5. running' \in BOOLEAN
  BY <1>0 DEF StartTask, TypeOK
<1>6. UNCHANGED <<pages, bySession, current>>
  BY <1>1 DEF driver
<1>7. answer \in [Requests -> Results] /\ answers \in [Requests -> Nat] /\ inflight \in Seq(Requests)
  BY <1>0 DEF TypeOK
<1>8. \A q \in Requests : task[q].outcome = "open"
  BY <1>0, <1>1, OpenElsewhere
<1>9. PICK u \in Task : /\ BeginsAs(r, u)
                        /\ \/ /\ inflight' = Append(inflight, r) /\ UNCHANGED <<answer, answers>> /\ u.kind = asked[r].kind
                           \/ UNCHANGED inflight /\ u = NoTask /\ \E what \in Results \ {"none"} : Answers(r, what)
  BY <1>4, NothingBegun DEF Begins
<1>10. /\ task' = [task EXCEPT ![r] = u] /\ Shaped(u) /\ u.outcome = "open"
       /\ Forgets(r, u) \/ Refused(r, u) \/ Opened(r, u)
  BY <1>9 DEF BeginsAs
<1>11. /\ task' \in [Requests -> Task] /\ task'[r] = u /\ \A q \in Requests \ {r} : task'[q] = task[q]
       /\ wire' \in Nat /\ DOMAIN pending' \subseteq Nat /\ \A w \in DOMAIN pending' : pending'[w] \in Requests
       /\ CallTypes'
  BY <1>0, <1>2, <1>10, TypedAfter
<1>12. /\ inflight' \in Seq(Requests) /\ \A q \in Requests \ {r} : InFlight(q)' <=> InFlight(q)
       /\ IF inflight' = Append(inflight, r) THEN InFlight(r)' ELSE ~InFlight(r)'
  <2>1. \A q \in Requests : (InFlight(q)' <=> Holds(inflight', q)) /\ (InFlight(q) <=> Holds(inflight, q))
    BY DEF InFlight, Holds
  <2>2. inflight' = Append(inflight, r) \/ inflight' = inflight
    BY <1>9
  <2> DEFINE z == Append(inflight, r)
  <2>3. z \in Seq(Requests) /\ \A q \in Requests : Holds(z, q) <=> Holds(inflight, q) \/ q = r
    BY <1>2, <1>7, AppendHolds
  <2> HIDE DEF z
  <2>4. CASE inflight' = z
    <3>1. \A q \in Requests : InFlight(q)' <=> InFlight(q) \/ q = r
      BY <2>1, <2>3, <2>4
    <3> QED
      BY <1>2, <2>3, <2>4, <3>1 DEF z
  <2>5. CASE inflight' = inflight
    <3>1. inflight' # z
      BY <1>2, <1>3, <2>1, <2>3, <2>5
    <3>2. \A q \in Requests : InFlight(q)' <=> InFlight(q)
      BY <2>1, <2>5
    <3> QED
      BY <1>2, <1>3, <1>7, <2>5, <3>1, <3>2 DEF z
  <2> QED
    BY <2>2, <2>4, <2>5 DEF z
<1>13. TypeOK'
  <2>1. answer' \in [Requests -> Results] /\ answers' \in [Requests -> Nat]
    <3>1. CASE UNCHANGED <<answer, answers>>
      BY <1>7, <3>1
    <3>2. ASSUME NEW what \in Results \ {"none"}, Answers(r, what) PROVE <2>1
      <4>1. answer' = [answer EXCEPT ![r] = what] /\ answers' = [answers EXCEPT ![r] = answers[r] + 1] /\ answers[r] \in Nat
        BY <1>2, <1>7, <3>2 DEF Answers
      <4> QED
        BY <1>2, <1>7, <4>1
    <3> QED
      BY <1>9, <3>1, <3>2
  <2> QED
    BY <1>0, <1>1, <1>2, <1>5, <1>6, <1>11, <1>12, <2>1 DEF TypeOK
<1>14. BrowserTypes' /\ LoopTypes'
  <2>1. BrowserTypes'
    BY <1>0, <1>1, <1>11 DEF BrowserTypes, CallTypes
  <2> QED
    BY <1>0, <1>1, <2>1 DEF LoopTypes
<1>15. Wired'
  <2>1. Outcomes'
    BY <1>8, <1>10, <1>11 DEF Outcomes
  <2>2. IF InFlight(r)' THEN u.kind = asked[r].kind ELSE u = NoTask
    <3>1. inflight # Append(inflight, r)
      BY <1>2, <1>3, <1>7, AppendHolds, HoldsInFlight
    <3> QED
      BY <1>9, <1>12, <3>1
  <2>3. UNCHANGED <<pipe, asked>>
    BY <1>1
  <2> QED
    BY <1>0, <1>2, <1>10, <1>12, <2>1, <2>2, <2>3, WiredAfter
<1>16. Sessioned' /\ CurrentTargetLives'
  <2>1. Sessioned'
    BY <1>0, <1>6 DEF Sessioned, SessionIndex
  <2> QED
    BY <1>1, <2>1 DEF CurrentTargetLives
<1> QED
  BY <1>3, <1>13, <1>14, <1>15, <1>16 DEF Balanced, Books, Typed

----------------------------------------------------------------------------
(* Polling, finishing and giving up tasks *)

LEMMA AdvancingKeeps ==
    ASSUME Balanced, Advance, UNCHANGED plan
    PROVE  Balanced' /\ \E r \in Requests : r = inflight[index] /\ InFlight(r) /\ AdvancesWell(r)
<1>0. Typed /\ Wired /\ TypeOK /\ BrowserTypes /\ LoopTypes /\ Ledger /\ Sessioned /\ inflight \in Seq(Requests)
  BY DEF Balanced, Books, Typed, TypeOK
<1>1. /\ phase = "advance" /\ index <= Len(inflight) /\ AdvanceTask(inflight[index])
      /\ IF task'[inflight[index]].outcome = "open"
         THEN index' = index + 1 /\ progressed' = (progressed \/ Fingerprint(task'[inflight[index]]) # Fingerprint(task[inflight[index]]))
              /\ UNCHANGED phase
         ELSE phase' = "finish" /\ UNCHANGED <<index, progressed>>
      /\ UNCHANGED <<ready, chunk, running, stdinEof, bySession, current,
                     inflight, answer, answers, client, pipe, site, browserUp, budget>>
      /\ news' = IF wire' # wire /\ Navigating(inflight[index]) THEN news \ {inflight[index]} ELSE news
  BY DEF Advance
<1>2. index \in Nat /\ index >= 1 /\ index \in DOMAIN inflight /\ inflight[index] \in Requests
  <2>1. index \in Nat /\ index >= 1
    BY <1>0 DEF TypeOK, LoopTypes
  <2> QED
    BY <1>0, <1>1, <2>1
<1>3. PICK r \in Requests : r = inflight[index]
  BY <1>2
<1>4. InFlight(r) /\ task[r].outcome = "open" /\ AdvanceTask(r)
  BY <1>0, <1>1, <1>2, <1>3, OpenElsewhere DEF InFlight
<1>5. AdvancesWell(r)
  BY <1>0, <1>4, TaskAdvances
<1>6. PICK u \in Task : Becomes(r, u)
  BY <1>5 DEF AdvancesWell, Polled
<1>7. /\ task' = [task EXCEPT ![r] = u] /\ u.kind = task[r].kind /\ Shaped(u)
      /\ Keeps(r, u) \/ Forgets(r, u) \/ Refused(r, u) \/ Opened(r, u)
  BY <1>6 DEF Becomes
<1>8. /\ task' \in [Requests -> Task] /\ task'[r] = u /\ \A q \in Requests \ {r} : task'[q] = task[q]
      /\ wire' \in Nat /\ DOMAIN pending' \subseteq Nat /\ \A w \in DOMAIN pending' : pending'[w] \in Requests
      /\ CallTypes'
  BY <1>0, <1>7, TypedAfter
<1>9. UNCHANGED <<ready, chunk, running, stdinEof, bySession, current, inflight, answer, answers, fd, lineBuf, asked,
                  clientUp, plan, pipe, site, browserUp>>
  BY <1>1 DEF client
<1>10. /\ phase' \in {"advance", "finish"} /\ index' \in Nat /\ index' >= 1
       /\ phase' = "finish" => index' = index
       /\ u.outcome # "open" <=> phase' = "finish"
  BY <1>1, <1>2, <1>3, <1>8
<1>11. progressed' \in BOOLEAN
  <2>1. progressed \in BOOLEAN
    BY <1>0 DEF TypeOK
  <2> QED
    BY <1>1, <2>1
<1>12. \A q \in Requests : InFlight(q)' <=> InFlight(q)
  BY <1>9 DEF InFlight
<1>13. TypeOK'
  <2>1. DOMAIN pages' \subseteq Targets /\ \A t \in DOMAIN pages' : pages'[t] \in Page
    BY <1>0, <1>5 DEF AdvancesWell, PagesKept, TypeOK
  <2>2. news' \subseteq Requests
    BY <1>0, <1>1 DEF TypeOK
  <2> QED
    BY <1>0, <1>8, <1>9, <1>10, <1>11, <2>1, <2>2 DEF TypeOK
<1>14. BrowserTypes' /\ LoopTypes'
  <2>1. BrowserTypes'
    BY <1>0, <1>8, <1>9 DEF BrowserTypes, CallTypes
  <2>2. phase' = "finish" => index' <= Len(inflight') /\ task'[inflight'[index']].outcome # "open"
    BY <1>1, <1>3, <1>8, <1>9, <1>10
  <2> QED
    BY <1>0, <1>9, <1>10, <2>1, <2>2 DEF LoopTypes
<1>15. Wired'
  <2>1. Outcomes'
    BY <1>0, <1>1, <1>3, <1>8, <1>9, <1>10, OpenElsewhere DEF Outcomes
  <2>2. u.kind = asked[r].kind /\ InFlight(r)'
    BY <1>0, <1>4, <1>7, <1>12 DEF Wired, TaskShapes
  <2>3. UNCHANGED <<pipe, asked>>
    BY <1>9
  <2> QED
    BY <1>0, <1>7, <1>12, <2>1, <2>2, <2>3, WiredAfter
<1>16. Ledger'
  <2>1. Closed' <=> Closed
    BY <1>9 DEF Closed
  <2>2. \A q \in Requests : Unread(q)' <=> Unread(q)
    BY <1>9 DEF Unread
  <2>3. (~running' => Closed' \/ (inflight' = <<>> /\ phase' \in {"flush", "exited"})) /\ (phase' = "exited" /\ inflight' # <<>> => Closed')
    BY <1>0, <1>1, <1>9, <1>10, <2>1 DEF Ledger
  <2> QED
    BY <1>0, <1>9, <1>12, <2>2, <2>3 DEF Ledger, Holds
<1>17. Sessioned' /\ CurrentTargetLives'
  <2>1. Sessioned'
    BY <1>0, <1>5, <1>9 DEF AdvancesWell, PagesKept, Sessioned, SessionIndex
  <2> QED
    BY <1>10, <2>1 DEF CurrentTargetLives
<1> QED
  BY <1>3, <1>4, <1>5, <1>13, <1>14, <1>15, <1>16, <1>17 DEF Balanced, Books, Typed

LEMMA SwapRemoves ==
    ASSUME NEW s \in Seq(Requests), NEW i \in DOMAIN s, Once(s)
    PROVE  LET z == SwapRemove(s, i)
           IN z \in Seq(Requests) /\ Once(z) /\ \A q \in Requests : Holds(z, q) <=> Holds(s, q) /\ q # s[i]
<1> DEFINE n == Len(s)
           z == SwapRemove(s, i)
<1>1. /\ n \in Nat /\ DOMAIN s = 1..n /\ n >= 1 /\ i \in 1..n /\ n - 1 \in Nat
      /\ \A j \in 1..n : s[j] \in Requests
  OBVIOUS
<1>2. DOMAIN z = 1..(n - 1) /\ \A j \in 1..(n - 1) : z[j] = IF j = i THEN s[n] ELSE s[j]
  BY DEF SwapRemove
<1>3. z = [j \in 1..(n - 1) |-> IF j = i THEN s[n] ELSE s[j]]
  BY DEF SwapRemove
<1> HIDE DEF z, n
<1>4. \A j \in 1..(n - 1) : j \in 1..n /\ j # n /\ n \in 1..n
  BY <1>1
<1>5. z \in Seq(Requests)
  <2>1. \A j \in 1..(n - 1) : (IF j = i THEN s[n] ELSE s[j]) \in Requests
    BY <1>1, <1>4
  <2> QED
    BY <1>1, <1>3, <2>1
<1>6. Once(z)
  <2> SUFFICES ASSUME NEW a \in 1..(n - 1), NEW b \in 1..(n - 1), z[a] = z[b] PROVE a = b
    BY <1>2 DEF Once
  <2> QED
    BY <1>1, <1>2, <1>4 DEF Once
<1>7. ASSUME NEW q \in Requests, Holds(z, q) PROVE Holds(s, q) /\ q # s[i]
  BY <1>1, <1>2, <1>4, <1>7 DEF Holds, Once
<1>8. ASSUME NEW q \in Requests, Holds(s, q), q # s[i] PROVE Holds(z, q)
  <2>1. PICK j \in 1..n : s[j] = q
    BY <1>1, <1>8 DEF Holds
  <2>2. CASE j # n
    <3>1. j \in 1..(n - 1) /\ j # i
      BY <1>1, <1>8, <2>1, <2>2
    <3> QED
      BY <1>2, <2>1, <3>1 DEF Holds
  <2>3. CASE j = n
    <3>1. i \in 1..(n - 1)
      BY <1>1, <1>8, <2>1, <2>3
    <3> QED
      BY <1>2, <2>1, <2>3, <3>1 DEF Holds
  <2> QED
    BY <2>2, <2>3
<1> QED
  BY <1>5, <1>6, <1>7, <1>8 DEF z

LEMMA FinishingKeeps ==
    ASSUME Balanced, Finish, UNCHANGED plan
    PROVE  Balanced' /\ \E r \in Requests : r = inflight[index] /\ InFlight(r) /\ task[r].outcome # "open"
<1>0. Typed /\ Wired /\ TypeOK /\ BrowserTypes /\ LoopTypes /\ Ledger /\ Sessioned /\ inflight \in Seq(Requests)
  BY DEF Balanced, Books, Typed, TypeOK
<1>1. index \in Nat /\ index >= 1 /\ phase = "finish" /\ index <= Len(inflight) /\ task[inflight[index]].outcome # "open"
  BY <1>0 DEF Finish, TypeOK, LoopTypes
<1>2. index \in DOMAIN inflight /\ inflight[index] \in Requests
  BY <1>0, <1>1
<1>3. PICK r \in Requests : r = inflight[index]
  BY <1>2
<1>4. /\ phase' = "advance" /\ Answers(r, task[r].outcome)
      /\ current' = IF task[r].outcome = "ok" /\ task[r].kind \in {"newPage", "newTab"} THEN task[r].target ELSE current
      /\ pending' = Drop(pending, task[r].call) /\ task' = [task EXCEPT ![r] = NoTask]
      /\ inflight' = SwapRemove(inflight, index) /\ progressed' = TRUE
      /\ UNCHANGED <<ready, chunk, index, running, stdinEof, pages, bySession, wire, news, client, browser>>
  BY <1>3 DEF Finish
<1>5. UNCHANGED <<ready, chunk, index, running, stdinEof, pages, bySession, wire, news, fd, lineBuf, asked,
                  clientUp, plan, pipe, calls, site, browserUp>>
  BY <1>4 DEF client, browser
<1>6. InFlight(r) /\ task[r] \in Task /\ task[r].outcome \in {"ok", "failed"}
  <2>1. InFlight(r) /\ task[r] \in Task
    BY <1>0, <1>2, <1>3 DEF InFlight, TypeOK
  <2> QED
    BY <1>1, <1>3, <2>1 DEF Task
<1>7. /\ inflight' \in Seq(Requests) /\ Once(inflight')
      /\ \A q \in Requests : InFlight(q)' <=> InFlight(q) /\ q # r
  <2>1. \A q \in Requests : (InFlight(q)' <=> Holds(inflight', q)) /\ (InFlight(q) <=> Holds(inflight, q))
    BY DEF InFlight, Holds
  <2>2. Once(inflight)
    BY <1>0 DEF Ledger
  <2> QED
    BY <1>0, <1>2, <1>3, <1>4, <2>1, <2>2, SwapRemoves
<1>8. NoTask \in Task /\ Begun(NoTask, "none")
  BY NothingBegun
<1>9. Forgets(r, NoTask) /\ Shaped(NoTask) /\ NoTask.outcome = "open"
  BY <1>4, <1>5, <1>8 DEF Forgets, Drop, Begun, Shaped
<1> HIDE DEF NoTask
<1>10. /\ task' \in [Requests -> Task] /\ task'[r] = NoTask /\ \A q \in Requests \ {r} : task'[q] = task[q]
       /\ wire' \in Nat /\ DOMAIN pending' \subseteq Nat /\ \A w \in DOMAIN pending' : pending'[w] \in Requests
       /\ CallTypes'
  BY <1>0, <1>4, <1>8, <1>9, TypedAfter
<1>11. answer \in [Requests -> Results] /\ answers \in [Requests -> Nat] /\ answers[r] = 0
  BY <1>0, <1>6 DEF TypeOK, Ledger
<1>12. /\ answer' \in [Requests -> Results] /\ answers' \in [Requests -> Nat] /\ answers'[r] = 1 /\ answer'[r] # "none"
       /\ \A q \in Requests \ {r} : answers'[q] = answers[q] /\ answer'[q] = answer[q]
  <2>1. task[r].outcome \in Results /\ task[r].outcome # "none"
    BY <1>6 DEF Results
  <2>2. answer' = [answer EXCEPT ![r] = task[r].outcome] /\ answers' = [answers EXCEPT ![r] = answers[r] + 1]
    BY <1>4 DEF Answers
  <2> QED
    BY <1>11, <2>1, <2>2
<1>13. TypeOK'
  <2>1. current' \in Targets \cup {None}
    <3>1. task[r].target \in Targets \cup {None}
      BY <1>6 DEF Task
    <3> QED
      BY <1>0, <1>4, <3>1 DEF TypeOK
  <2>2. progressed' \in BOOLEAN
    BY <1>4
  <2> QED
    BY <1>0, <1>4, <1>5, <1>7, <1>10, <1>12, <2>1, <2>2 DEF TypeOK
<1>14. BrowserTypes' /\ LoopTypes'
  <2>1. BrowserTypes'
    BY <1>0, <1>5, <1>10 DEF BrowserTypes, CallTypes
  <2> QED
    BY <1>0, <1>4, <1>5, <2>1 DEF LoopTypes
<1>15. Wired'
  <2>1. Outcomes'
    <3>1. \A q \in Requests \ {r} : task[q].outcome = "open"
      BY <1>0, <1>3 DEF Wired, TaskShapes
    <3> QED
      BY <1>9, <1>10, <3>1 DEF Outcomes
  <2>2. ~InFlight(r)'
    BY <1>7
  <2>3. UNCHANGED <<pipe, asked>>
    BY <1>5
  <2> QED
    BY <1>0, <1>4, <1>7, <1>8, <1>9, <2>1, <2>2, <2>3, WiredAfter
<1>16. Ledger'
  <2>1. Closed => Closed'
    BY <1>5, <1>11, <1>12 DEF Closed
  <2>2. \A q \in Requests : Unread(q)' <=> Unread(q)
    BY <1>5 DEF Unread
  <2>3. (~running' => Closed' \/ (inflight' = <<>> /\ phase' \in {"flush", "exited"})) /\ (phase' = "exited" /\ inflight' # <<>> => Closed')
    BY <1>0, <1>1, <1>4, <1>5, <2>1 DEF Ledger
  <2>4. ~Unread(r)
    BY <1>0, <1>6, UnreadIf DEF Ledger
  <2>5. \A q \in Requests : answers'[q] = (IF Unread(q)' \/ InFlight(q)' THEN 0 ELSE 1) /\ (answer'[q] = "none" <=> answers'[q] = 0)
    <3>1. \A q \in Requests \ {r} : /\ (Unread(q)' <=> Unread(q)) /\ (InFlight(q)' <=> InFlight(q))
                                    /\ answers'[q] = answers[q] /\ answer'[q] = answer[q]
      BY <1>7, <1>12, <2>2
    <3>2. \A q \in Requests \ {r} : answers[q] = (IF Unread(q) \/ InFlight(q) THEN 0 ELSE 1) /\ (answer[q] = "none" <=> answers[q] = 0)
      BY <1>0 DEF Ledger
    <3>3. answers'[r] = (IF Unread(r)' \/ InFlight(r)' THEN 0 ELSE 1) /\ (answer'[r] = "none" <=> answers'[r] = 0)
      BY <1>7, <1>12, <2>2, <2>4
    <3> QED
      BY <3>1, <3>2, <3>3
  <2>6. \A q \in Requests : /\ Holds(fd', q) \/ Holds(lineBuf', q) \/ InFlight(q)' => asked'[q].kind # "none"
                            /\ ~(Holds(fd', q) /\ Holds(lineBuf', q)) /\ ~(Holds(fd', q) /\ InFlight(q)') /\ ~(Holds(lineBuf', q) /\ InFlight(q)')
    BY <1>0, <1>5, <1>7 DEF Ledger
  <2>7. Once(fd') /\ Once(lineBuf')
    BY <1>0, <1>5 DEF Ledger
  <2> QED
    BY <1>7, <2>3, <2>5, <2>6, <2>7 DEF Ledger
<1>17. Sessioned' /\ CurrentTargetLives'
  <2>1. Sessioned'
    BY <1>0, <1>5 DEF Sessioned, SessionIndex
  <2> QED
    BY <1>4, <2>1 DEF CurrentTargetLives
<1> QED
  BY <1>1, <1>3, <1>6, <1>13, <1>14, <1>15, <1>16, <1>17 DEF Balanced, Books, Typed

\* When the browser is gone the router waits for nothing: each of its calls was a task's.
LEMMA GoneKeeps ==
    ASSUME Balanced, BrowserGone, UNCHANGED plan
    PROVE  Balanced' /\ \A q \in Requests : ~InFlight(q)'
<1>0. Typed /\ Wired /\ TypeOK /\ BrowserTypes /\ LoopTypes /\ Ledger /\ Sessioned
  BY DEF Balanced, Books, Typed
<1>1. /\ phase = "advance" /\ inflight' = <<>> /\ running' = FALSE /\ phase' = "flush"
      /\ answer' = [q \in Requests |-> IF InFlight(q) THEN "failed" ELSE answer[q]]
      /\ answers' = [q \in Requests |-> IF InFlight(q) THEN answers[q] + 1 ELSE answers[q]]
      /\ pending' = [w \in {v \in DOMAIN pending : \A i \in DOMAIN inflight : task[inflight[i]].call # v} |-> pending[w]]
      /\ task' = [q \in Requests |-> NoTask]
      /\ UNCHANGED <<ready, chunk, index, progressed, stdinEof, driver, wire, news, client, browser>>
  BY DEF BrowserGone
<1>2. UNCHANGED <<ready, chunk, index, progressed, stdinEof, pages, bySession, current, wire, news, fd, lineBuf, asked,
                  clientUp, plan, pipe, calls, site, browserUp>>
  BY <1>1 DEF driver, client, browser
<1>3. DOMAIN pending' = {}
  <2>1. ASSUME NEW w \in DOMAIN pending PROVE \E i \in DOMAIN inflight : task[inflight[i]].call = w
    BY <1>0, PendingTasks DEF InFlight
  <2> QED
    BY <1>1, <2>1
<1>4. NoTask \in Task /\ NoTask.call = 0 /\ NoTask.reply = "none" /\ NoTask.outcome = "open" /\ Shaped(NoTask)
  BY NothingBegun DEF Begun, Shaped
<1>5. \A q \in Requests : ~InFlight(q)' /\ task'[q] = NoTask
  BY <1>1 DEF InFlight
<1> HIDE DEF NoTask
<1>6. answer \in [Requests -> Results] /\ answers \in [Requests -> Nat] /\ "failed" \in Results \ {"none"}
  BY <1>0 DEF TypeOK, Results
<1>7. TypeOK'
  <2>1. answer' \in [Requests -> Results] /\ answers' \in [Requests -> Nat]
    BY <1>1, <1>6
  <2>2. inflight' \in Seq(Requests)
    BY <1>1
  <2>3. task' \in [Requests -> Task]
    BY <1>1, <1>4
  <2>4. running' \in BOOLEAN
    BY <1>1
  <2> QED
    BY <1>0, <1>1, <1>2, <1>3, <2>1, <2>2, <2>3, <2>4 DEF TypeOK
<1>8. BrowserTypes' /\ LoopTypes'
  BY <1>0, <1>1, <1>2 DEF BrowserTypes, LoopTypes
<1>9. Wired'
  <2>1. WiresPast'
    BY <1>0, <1>2, <1>3 DEF Wired, WiresPast
  <2>2. AnswersSuit'
    BY <1>3, <1>4, <1>5 DEF AnswersSuit
  <2>3. TaskShapes'
    <3>1. 0 < wire
      BY <1>0, WiresRise DEF Wired, WiresPast, TypeOK
    <3> QED
      BY <1>2, <1>4, <1>5, <3>1 DEF TaskShapes, Shaped
  <2>4. Owned'
    BY <1>3, <1>4, <1>5 DEF Owned, WaitsFor
  <2> QED
    BY <2>1, <2>2, <2>3, <2>4 DEF Wired
<1>10. Ledger'
  <2>1. \A q \in Requests : Unread(q)' <=> Unread(q)
    BY <1>2 DEF Unread
  <2>2. \A q \in Requests : answers'[q] = (IF Unread(q)' \/ InFlight(q)' THEN 0 ELSE 1) /\ (answer'[q] = "none" <=> answers'[q] = 0)
    <3> SUFFICES ASSUME NEW q \in Requests
                 PROVE  answers'[q] = (IF Unread(q)' \/ InFlight(q)' THEN 0 ELSE 1) /\ (answer'[q] = "none" <=> answers'[q] = 0)
      OBVIOUS
    <3>1. CASE InFlight(q)
      <4>1. ~Unread(q) /\ answers[q] = 0
        BY <1>0, <3>1, UnreadIf DEF Ledger
      <4> QED
        BY <1>1, <1>5, <2>1, <3>1, <4>1
    <3>2. CASE ~InFlight(q)
      BY <1>0, <1>1, <1>5, <2>1, <3>2 DEF Ledger
    <3> QED
      BY <3>1, <3>2
  <2>3. \A q \in Requests : /\ Holds(fd', q) \/ Holds(lineBuf', q) \/ InFlight(q)' => asked'[q].kind # "none"
                            /\ ~(Holds(fd', q) /\ Holds(lineBuf', q)) /\ ~(Holds(fd', q) /\ InFlight(q)') /\ ~(Holds(lineBuf', q) /\ InFlight(q)')
    BY <1>0, <1>2, <1>5 DEF Ledger
  <2>4. Once(fd') /\ Once(lineBuf') /\ Once(inflight')
    BY <1>0, <1>1, <1>2 DEF Ledger, Once
  <2> QED
    BY <1>1, <2>2, <2>3, <2>4 DEF Ledger
<1>11. Sessioned' /\ CurrentTargetLives'
  BY <1>0, <1>1, <1>2 DEF Sessioned, SessionIndex, CurrentTargetLives
<1> QED
  BY <1>5, <1>7, <1>8, <1>9, <1>10, <1>11 DEF Balanced, Books, Typed

----------------------------------------------------------------------------
(* Messages of the browser *)

LEMMA HeadMessage ==
    ASSUME BrowserTypes, pipe # <<>>, pipe' = Tail(pipe)
    PROVE  /\ Head(pipe) \in Msg /\ GoodMessage(Head(pipe)) /\ \E i \in DOMAIN pipe : pipe[i] = Head(pipe)
           /\ PipeTypes' /\ Len(pipe') = Len(pipe) - 1
           /\ \A j \in DOMAIN pipe' : \E i \in DOMAIN pipe : pipe'[j] = pipe[i]
<1>1. pipe \in Seq(Msg) /\ \A i \in DOMAIN pipe : GoodMessage(pipe[i])
  BY DEF BrowserTypes
<1>2. 1 \in DOMAIN pipe /\ Head(pipe) = pipe[1] /\ pipe' \in Seq(Msg) /\ Len(pipe') = Len(pipe) - 1
  BY <1>1
<1>3. \A j \in DOMAIN pipe' : j + 1 \in DOMAIN pipe /\ pipe'[j] = pipe[j + 1]
  BY <1>1
<1>4. Head(pipe) \in Msg
  BY <1>1, <1>2
<1>5. \A j \in DOMAIN pipe' : GoodMessage(pipe'[j])
  BY <1>1, <1>3
<1> QED
  BY <1>1, <1>2, <1>3, <1>4, <1>5 DEF PipeTypes

\* A reply wakes the task that waits for it, and is the answer to its call.
LEMMA ReplyWires ==
    ASSUME Wired, Typed, NEW m \in Msg, m.type = "reply", m.result \in {"ok", "err"}, m.wire \in DOMAIN pending,
           \E i \in DOMAIN pipe : pipe[i] = m,
           task' = [task EXCEPT ![pending[m.wire]] = [@ EXCEPT !.reply = m.result, !.val = m.val]],
           pending' = Drop(pending, m.wire), UNCHANGED <<wire, calls, inflight, asked>>, phase # "finish",
           \A j \in DOMAIN pipe' : \E i \in DOMAIN pipe : pipe'[j] = pipe[i]
    PROVE  /\ Wired' /\ task' \in [Requests -> Task]
           /\ \A q \in Requests : /\ What(task'[q]) = What(task[q]) /\ task'[q].outcome = task[q].outcome
                                  /\ task'[q].call = task[q].call /\ Alike(task'[q], task[q])
<1> DEFINE t == task[pending[m.wire]]
           u == [t EXCEPT !.reply = m.result, !.val = m.val]
<1>0. TypeOK /\ task \in [Requests -> Task]
  BY DEF Typed, TypeOK
<1>1. PICK q \in Requests : q = pending[m.wire]
  BY <1>0, PendingTasks
<1>2. task[q].call = m.wire /\ m.wire # 0 /\ task[q].reply = "none" /\ task[q] \in Task
  BY <1>0, <1>1, PendingTasks
<1>3. m.val \in Nat \cup Targets \cup {None}
  BY DEF Msg
<1> DEFINE v == [task[q] EXCEPT !.reply = m.result, !.val = m.val]
<1>4. v \in Task /\ Alike(v, task[q]) /\ v.reply = m.result /\ v.val = m.val /\ v.call = m.wire /\ v.outcome = task[q].outcome
  <2> DEFINE w == [task[q] EXCEPT !.reply = m.result]
  <2>1. w \in Task /\ Alike(w, task[q]) /\ w.reply = m.result /\ w.call = m.wire /\ w.outcome = task[q].outcome
    BY <1>2 DEF Task, Alike
  <2>2. v = [w EXCEPT !.val = m.val]
    OBVIOUS
  <2> HIDE DEF w, v
  <2>3. v \in Task /\ v.val = m.val /\ v.reply = w.reply /\ v.call = w.call /\ v.outcome = w.outcome
    BY <1>3, <2>1, <2>2 DEF Task
  <2>4. Alike(v, w)
    BY <2>1, <2>2 DEF Task, Alike
  <2> QED
    BY <2>1, <2>3, <2>4 DEF Alike
<1>5. task' = [task EXCEPT ![q] = v]
  BY <1>1
<1> HIDE DEF v
<1>6. task'[q] = v /\ task' \in [Requests -> Task] /\ \A x \in Requests \ {q} : task'[x] = task[x]
  BY <1>0, <1>4, <1>5
<1>7. \A x \in Requests : Alike(task'[x], task[x]) /\ What(task'[x]) = What(task[x]) /\ task'[x].call = task[x].call
                          /\ task'[x].outcome = task[x].outcome /\ task'[x].kind = task[x].kind
  BY <1>2, <1>4, <1>6 DEF Alike, What
<1>8. \A w \in DOMAIN pending' : w \in DOMAIN pending /\ pending'[w] = pending[w] /\ w # m.wire
  BY DEF Drop
<1>9. WiresPast'
  BY <1>8 DEF Wired, WiresPast
<1>10. AnswersSuit'
  <2>1. Suits(task[q], m.val)
    BY <1>1 DEF Wired, AnswersSuit
  <2>2. \A x \in Requests : task'[x].reply = "ok" => Suits(task'[x], task'[x].val)
    BY <1>4, <1>6, <1>7, <2>1 DEF Wired, AnswersSuit, Suits
  <2>3. \A w \in DOMAIN pending' : pending'[w] \in Requests
    BY <1>0, <1>8, PendingTasks
  <2>4. \A w \in DOMAIN pending', c \in calls :
          c.wire = w /\ What(task'[pending'[w]]) # "other" => c.what = What(task'[pending'[w]])
    BY <1>7, <1>8, <2>3 DEF Wired, AnswersSuit
  <2>5. \A w \in DOMAIN pending', i \in DOMAIN pipe :
          pipe[i].type = "reply" /\ pipe[i].wire = w => Suits(task'[pending'[w]], pipe[i].val)
    BY <1>7, <1>8, <2>3 DEF Wired, AnswersSuit, Suits
  <2> QED
    BY <2>2, <2>4, <2>5 DEF AnswersSuit
<1>11. TaskShapes'
  <2>1. \A x \in Requests : InFlight(x)' <=> InFlight(x)
    BY DEF InFlight
  <2>2. InFlight(q)
    BY <1>0, <1>1, PendingTasks
  <2>3. \A x \in Requests : task[x].outcome = "open"
    BY OpenElsewhere
  <2> QED
    BY <1>2, <1>4, <1>6, <1>7, <2>1, <2>2, <2>3 DEF Wired, TaskShapes, Alike
<1>12. Owned'
  <2>1. \A w \in DOMAIN pending' : pending[w] # q
    BY <1>2, <1>8 DEF Wired, Owned
  <2>2. \A w \in DOMAIN pending' : task'[pending'[w]].call = w /\ task'[pending'[w]].reply = "none"
    BY <1>0, <1>6, <1>8, <2>1, PendingTasks
  <2>3. ASSUME NEW x \in Requests, WaitsFor(x)' PROVE task'[x].call \in DOMAIN pending' /\ pending'[task'[x].call] = x
    <3>1. x # q
      BY <1>4, <1>6, <2>3 DEF WaitsFor
    <3>2. WaitsFor(x) /\ task[x].call \in DOMAIN pending /\ pending[task[x].call] = x /\ task[x].call # m.wire
      BY <1>1, <1>6, <2>3, <3>1 DEF WaitsFor, Wired, Owned
    <3> QED
      BY <1>6, <3>1, <3>2 DEF Drop
  <2>4. \A x, y \in Requests : task'[x].call = task'[y].call /\ task'[x].call # 0 => x = y
    BY <1>7 DEF Wired, Owned
  <2> QED
    BY <2>2, <2>3, <2>4 DEF Owned
<1> QED
  BY <1>6, <1>7, <1>9, <1>10, <1>11, <1>12 DEF Wired

\* A session of a page that is known, or of a new one: the two indexes go on agreeing.
LEMMA AttachedIndex ==
    ASSUME TypeOK, Sessioned, NEW m \in Msg, m.session \in Sessions, Attached(m)
    PROVE  /\ Sessioned' /\ GoodPages(pages') /\ m.session[1] \in Targets
           /\ DOMAIN bySession' \subseteq Sessions /\ \A s \in DOMAIN bySession' : bySession'[s] \in Targets
           /\ DOMAIN pages \subseteq DOMAIN pages'
           /\ \A t \in DOMAIN pages' : IF t \in DOMAIN pages
                THEN pages'[t].life = pages[t].life ELSE pages'[t].life = Idle
<1> DEFINE s == m.session
           t == s[1]
           freed == IF t \in DOMAIN pages THEN Drop(bySession, pages[t].session) ELSE bySession
<1>1. t \in Targets
  BY DEF Sessions
<1>2. /\ \A x \in DOMAIN pages : x \in Targets /\ pages[x] \in Page /\ pages[x].session \in Sessions
      /\ \A x \in DOMAIN pages : pages[x].session \in DOMAIN bySession /\ bySession[pages[x].session] = x
      /\ \A y \in DOMAIN bySession : /\ y \in Sessions /\ bySession[y] \in DOMAIN pages
                                    /\ pages[bySession[y]].session = y /\ bySession[y] = y[1]
  BY PageTypes DEF Sessioned, SessionIndex, TypeOK
<1>3. /\ pages' = IF t \in DOMAIN pages THEN [pages EXCEPT ![t].session = s] ELSE Put(pages, t, NewPage(s))
      /\ bySession' = Put(freed, s, t)
  BY DEF Attached
<1> HIDE DEF s, t
<1>4. /\ DOMAIN pages' = DOMAIN pages \cup {t} /\ pages'[t].session = s /\ pages'[t] \in Page
      /\ \A x \in DOMAIN pages \ {t} : pages'[x] = pages[x]
      /\ IF t \in DOMAIN pages THEN pages'[t].life = pages[t].life ELSE pages'[t].life = Idle
  <2>1. CASE t \in DOMAIN pages
    <3> DEFINE p == [pages[t] EXCEPT !.session = s]
    <3>1. p \in Page /\ p.session = s /\ p.life = pages[t].life
      BY <1>2, <2>1 DEF Page, s
    <3>2. pages' = [pages EXCEPT ![t] = p]
      BY <1>3, <2>1
    <3> HIDE DEF p
    <3> QED
      BY <2>1, <3>1, <3>2
  <2>2. CASE t \notin DOMAIN pages
    <3> DEFINE p == NewPage(s)
    <3>1. Idle \in Life
      BY DEF Idle, Life
    <3>2. p \in Page /\ p.session = s /\ p.life = Idle
      BY <3>1 DEF NewPage, Page, s
    <3>3. pages' = Put(pages, t, p)
      BY <1>3, <2>2
    <3> HIDE DEF p
    <3> QED
      BY <2>2, <3>2, <3>3 DEF Put
  <2> QED
    BY <2>1, <2>2
<1>5. /\ DOMAIN freed = {y \in DOMAIN bySession : bySession[y] # t}
      /\ \A y \in DOMAIN freed : freed[y] = bySession[y]
  <2>1. CASE t \in DOMAIN pages
    <3>1. freed = Drop(bySession, pages[t].session)
      BY <2>1
    <3>2. \A y \in DOMAIN bySession : bySession[y] = t <=> y = pages[t].session
      BY <1>2, <2>1
    <3> QED
      BY <3>1, <3>2 DEF Drop
  <2>2. CASE t \notin DOMAIN pages
    BY <1>2, <2>2
  <2> QED
    BY <2>1, <2>2
<1> HIDE DEF freed
<1>6. /\ DOMAIN bySession' = DOMAIN freed \cup {s} /\ bySession'[s] = t
      /\ \A y \in DOMAIN freed : y # s => bySession'[y] = bySession[y]
  BY <1>3, <1>5 DEF Put
<1>7. SessionIndex'
  <2>1. ASSUME NEW x \in DOMAIN pages' PROVE pages'[x].session \in DOMAIN bySession' /\ bySession'[pages'[x].session] = x
    <3>1. CASE x = t
      BY <1>4, <1>6, <3>1
    <3>2. CASE x # t
      <4>1. pages'[x].session = pages[x].session /\ bySession[pages[x].session] = x /\ pages[x].session \in DOMAIN bySession
        BY <1>2, <1>4, <2>1, <3>2
      <4>2. pages[x].session # s
        BY <1>2, <3>2, <4>1 DEF t
      <4> QED
        BY <1>5, <1>6, <3>2, <4>1, <4>2
    <3> QED
      BY <3>1, <3>2
  <2>2. ASSUME NEW y \in DOMAIN bySession' PROVE bySession'[y] \in DOMAIN pages' /\ pages'[bySession'[y]].session = y
    <3>1. CASE y = s
      BY <1>4, <1>6, <3>1
    <3>2. CASE y # s
      BY <1>2, <1>4, <1>5, <1>6, <2>2, <3>2
    <3> QED
      BY <3>1, <3>2
  <2> QED
    BY <2>1, <2>2 DEF SessionIndex
<1>8. \A y \in DOMAIN bySession' : bySession'[y] = y[1] /\ y \in Sessions /\ bySession'[y] \in Targets
  <2>1. s[1] = t /\ s \in Sessions
    BY DEF s, t
  <2> QED
    BY <1>1, <1>2, <1>5, <1>6, <2>1 DEF t
<1>9. GoodPages(pages')
  BY <1>1, <1>2, <1>4 DEF GoodPages, t
<1> QED
  BY <1>1, <1>4, <1>7, <1>8, <1>9 DEF Sessioned, t, s

LEMMA DetachedIndex ==
    ASSUME TypeOK, Sessioned, NEW m \in Msg, m.session \in Sessions, Detached(m)
    PROVE  /\ Sessioned' /\ GoodPages(pages')
           /\ DOMAIN bySession' \subseteq Sessions /\ \A s \in DOMAIN bySession' : bySession'[s] \in Targets
           /\ DOMAIN pages' \subseteq DOMAIN pages /\ \A t \in DOMAIN pages' : pages'[t] = pages[t]
<1> DEFINE s == m.session
           t == s[1]
<1>2. /\ \A x \in DOMAIN pages : x \in Targets /\ pages[x] \in Page
      /\ \A x \in DOMAIN pages : pages[x].session \in DOMAIN bySession /\ bySession[pages[x].session] = x
      /\ \A y \in DOMAIN bySession : /\ y \in Sessions /\ bySession[y] \in DOMAIN pages /\ bySession[y] \in Targets
                                    /\ pages[bySession[y]].session = y /\ bySession[y] = y[1]
  BY DEF Sessioned, SessionIndex, TypeOK
<1>3. CASE t \in DOMAIN pages /\ pages[t].session = s
  <2>1. pages' = Drop(pages, t) /\ bySession' = Drop(bySession, s)
    BY <1>3 DEF Detached
  <2> HIDE DEF s, t
  <2>2. /\ DOMAIN pages' = DOMAIN pages \ {t} /\ \A x \in DOMAIN pages' : pages'[x] = pages[x]
        /\ DOMAIN bySession' = DOMAIN bySession \ {s} /\ \A y \in DOMAIN bySession' : bySession'[y] = bySession[y]
    BY <2>1 DEF Drop
  <2>3. \A y \in DOMAIN bySession : bySession[y] = t <=> y = s
    BY <1>2, <1>3 DEF s, t
  <2>4. SessionIndex'
    BY <1>2, <2>2, <2>3 DEF SessionIndex
  <2> QED
    BY <1>2, <2>2, <2>4 DEF Sessioned, GoodPages
<1>4. CASE ~(t \in DOMAIN pages /\ pages[t].session = s)
  <2>1. UNCHANGED <<pages, bySession>>
    BY <1>4 DEF Detached
  <2> HIDE DEF s, t
  <2> QED
    BY <1>2, <2>1 DEF Sessioned, SessionIndex, GoodPages
<1> QED
  BY <1>3, <1>4

\* An event of a page: it never begins a navigation, and only events of one move its flags.
LEMMA PageGoesOn ==
    ASSUME NEW p \in Page, NEW m \in Msg, NEW own \in BOOLEAN, m.type \in PageEvents
    PROVE  LET q == PageAfter(p, m, own)
           IN /\ q \in Page /\ q.session = p.session
              /\ q.life.state = "waiting" => p.life.state = "waiting"
              /\ m.type \notin Navigates => Flags(q.life) = Flags(p.life)
<1> DEFINE Onward(q) == /\ q \in Page /\ q.session = p.session
                        /\ q.life.state = "waiting" => p.life.state = "waiting"
                        /\ m.type \notin Navigates => Flags(q.life) = Flags(p.life)
<1>0. /\ p.life \in Life /\ m.nav \in Nat \cup {NoNav} /\ m.frame \in Frames \cup {NoFrame} /\ m.url \in Urls \cup {NoUrl}
      /\ p.main \in Frames \cup {NoFrame}
  BY DEF Page, Msg
<1>1. ASSUME NEW x \in Page, x.session = p.session, x.life = p.life, NEW l \in Life,
             l.state = "waiting" => p.life.state = "waiting", m.type \notin Navigates => Flags(l) = Flags(p.life)
      PROVE  Onward([x EXCEPT !.life = l])
  <2> DEFINE y == [x EXCEPT !.life = l]
  <2>1. y \in Page /\ y.session = x.session /\ y.life = l
    BY <1>1, NewLife
  <2> HIDE DEF y
  <2>2. Onward(y)
    BY <1>1, <2>1
  <2> QED
    BY <2>2 DEF y
<1>2. Onward(p)
  OBVIOUS
<1>3. LET x == [p EXCEPT !.url = m.url] IN x \in Page /\ x.session = p.session /\ x.life = p.life
  BY <1>0 DEF Page
<1>4. LET l == [p.life EXCEPT !.frame = Freed] IN l \in Life /\ Flags(l) = Flags(p.life) /\ l.state = p.life.state
  BY <1>0 DEF Life, Flags
<1>5. Onward(FreesMain(p))
  <2>1. FreesMain(p) = p \/ FreesMain(p) = [p EXCEPT !.life = [p.life EXCEPT !.frame = Freed]]
    BY DEF FreesMain
  <2> DEFINE l == [p.life EXCEPT !.frame = Freed]
  <2>2. l \in Life /\ Flags(l) = Flags(p.life) /\ l.state = p.life.state
    BY <1>4
  <2> HIDE DEF l
  <2>3. Onward([p EXCEPT !.life = l])
    BY <1>1, <2>2
  <2> QED
    BY <1>2, <2>1, <2>3 DEF l
<1>6. ASSUME NEW x, Onward(x), NEW f \in Frames \cup {NoFrame} PROVE Onward([x EXCEPT !.main = f])
  <2> DEFINE y == [x EXCEPT !.main = f]
  <2>1. y \in Page /\ y.session = x.session /\ y.life = x.life
    BY <1>6 DEF Page
  <2> HIDE DEF y
  <2>2. Onward(y)
    BY <1>6, <2>1
  <2> QED
    BY <2>2 DEF y
<1>7. CASE m.type \in {"frameAttached", "frameDetached"}
  <2>1. CASE m.type = "frameAttached"
    <3> DEFINE x == IF p.main = NoFrame THEN p ELSE FreesMain(p)
    <3>1. Onward(x)
      BY <1>2, <1>5
    <3> HIDE DEF x
    <3>2. Onward([x EXCEPT !.main = m.frame])
      BY <1>0, <1>6, <3>1
    <3>3. PageAfter(p, m, own) = IF p.main = m.frame THEN p ELSE [x EXCEPT !.main = m.frame]
      BY <2>1 DEF PageAfter, OnFrameAttached, x
    <3> QED
      BY <1>2, <3>2, <3>3
  <2>2. CASE m.type = "frameDetached"
    <3>1. PageAfter(p, m, own) = IF p.main = m.frame THEN [FreesMain(p) EXCEPT !.main = NoFrame] ELSE p
      BY <2>2 DEF PageAfter, OnFrameDetached
    <3>2. Onward([FreesMain(p) EXCEPT !.main = NoFrame])
      BY <1>5, <1>6
    <3> QED
      BY <1>2, <3>1, <3>2
  <2> QED
    BY <1>7, <2>1, <2>2
<1>8. CASE m.type \in {"context", "noContext"}
  <2>1. \A b \in BOOLEAN : LET x == [p EXCEPT !.context = b] IN x \in Page /\ x.session = p.session /\ x.life = p.life
    BY DEF Page
  <2>2. \A b \in BOOLEAN : Onward([p EXCEPT !.context = b])
    BY <2>1
  <2>3. \E b \in BOOLEAN : PageAfter(p, m, own) = [p EXCEPT !.context = b]
    BY <1>8 DEF PageAfter
  <2> QED
    BY <2>2, <2>3
<1>9. CASE m.type \in Navigates
  <2>1. ASSUME NEW n \in Nat \cup {NoNav}
        PROVE  /\ \A l \in {OnLoad(p.life), OnSameDocument(p.life), OnAbort(p.life, n), OnNavigationStarted(p.life, n), OnCommitted(p.life, n)} :
                    l \in Life /\ (l.state = "waiting" => p.life.state = "waiting")
    <3>1. OnLoad(p.life) \in Life /\ (OnLoad(p.life).state = "waiting" => p.life.state = "waiting")
      BY <1>0 DEF OnLoad, Life
    <3>2. OnAbort(p.life, n) \in Life /\ (OnAbort(p.life, n).state = "waiting" => p.life.state = "waiting")
      BY <1>0 DEF OnAbort, Life
    <3>3. OnNavigationStarted(p.life, n) \in Life /\ (OnNavigationStarted(p.life, n).state = "waiting" => p.life.state = "waiting")
      <4>1. LET l == [p.life EXCEPT !.nav = n, !.started = TRUE] IN l \in Life /\ l.state = p.life.state
        BY <1>0 DEF Life
      <4>2. LET l == [p.life EXCEPT !.started = (p.life.nav = n)] IN l \in Life /\ l.state = p.life.state
        BY <1>0 DEF Life
      <4> QED
        BY <1>0, <4>1, <4>2 DEF OnNavigationStarted
    <3>4. OnCommitted(p.life, n) \in Life /\ (OnCommitted(p.life, n).state = "waiting" => p.life.state = "waiting")
      BY <1>0 DEF OnCommitted, Life
    <3> QED
      BY <3>1, <3>2, <3>3, <3>4 DEF OnSameDocument
  <2>2. ASSUME NEW x \in {p, [p EXCEPT !.url = m.url]},
               NEW l \in {OnLoad(p.life), OnSameDocument(p.life), OnAbort(p.life, m.nav), OnNavigationStarted(p.life, m.nav), OnCommitted(p.life, m.nav)}
        PROVE  Onward([x EXCEPT !.life = l])
    <3>1. x \in Page /\ x.session = p.session /\ x.life = p.life
      BY <1>3, <2>2
    <3>2. l \in Life /\ (l.state = "waiting" => p.life.state = "waiting")
      BY <1>0, <2>1, <2>2
    <3> QED
      BY <1>1, <1>9, <3>1, <3>2
  <2>3. Onward([p EXCEPT !.url = m.url])
    <3> DEFINE x == [p EXCEPT !.url = m.url]
    <3>1. x \in Page /\ x.session = p.session /\ x.life = p.life
      BY <1>3
    <3> HIDE DEF x
    <3>2. Onward(x)
      BY <3>1
    <3> QED
      BY <3>2 DEF x
  <2> DEFINE x == [p EXCEPT !.url = m.url]
  <2>4. x.life = p.life
    BY <1>3
  <2>5. CASE m.type = "load"
    BY <1>2, <2>2, <2>5 DEF PageAfter
  <2>6. CASE m.type = "started"
    BY <1>2, <2>2, <2>6 DEF PageAfter
  <2>7. CASE m.type = "aborted"
    BY <1>2, <2>2, <2>7 DEF PageAfter
  <2> DEFINE main == p.main # NoFrame /\ p.main = m.frame
             shows == IF main THEN x ELSE p
  <2>8. Onward(shows) /\ shows \in {p, x} /\ shows.life = p.life
    BY <1>2, <2>3, <2>4
  <2>9. CASE m.type = "committed"
    <3>1. PageAfter(p, m, own) = IF main /\ own THEN [shows EXCEPT !.life = OnCommitted(@, m.nav)] ELSE shows
      BY <2>9 DEF PageAfter
    <3> HIDE DEF shows, main, x
    <3>2. [shows EXCEPT !.life = OnCommitted(@, m.nav)] = [shows EXCEPT !.life = OnCommitted(p.life, m.nav)]
      BY <2>8
    <3>3. Onward([shows EXCEPT !.life = OnCommitted(p.life, m.nav)])
      BY <2>2, <2>8 DEF x
    <3> HIDE DEF Onward
    <3>4. Onward(PageAfter(p, m, own))
      BY <2>8, <3>1, <3>2, <3>3
    <3> QED
      BY <3>4 DEF Onward
  <2>10. CASE m.type = "sameDocument"
    <3>1. PageAfter(p, m, own) = IF main /\ own THEN [shows EXCEPT !.life = OnSameDocument(@)] ELSE shows
      BY <2>10 DEF PageAfter
    <3> HIDE DEF shows, main, x
    <3>2. [shows EXCEPT !.life = OnSameDocument(@)] = [shows EXCEPT !.life = OnSameDocument(p.life)]
      BY <2>8
    <3>3. Onward([shows EXCEPT !.life = OnSameDocument(p.life)])
      BY <2>2, <2>8 DEF x
    <3> HIDE DEF Onward
    <3>4. Onward(PageAfter(p, m, own))
      BY <2>8, <3>1, <3>2, <3>3
    <3> QED
      BY <3>4 DEF Onward
  <2> QED
    BY <1>9, <2>5, <2>6, <2>7, <2>9, <2>10 DEF Navigates
<1> QED
  BY <1>7, <1>8, <1>9 DEF PageEvents, Navigates

\* One message, whatever it is.
LEMMA DispatchKeeps ==
    ASSUME Balanced, DispatchRaw, UNCHANGED plan
    PROVE  Balanced'
<1> DEFINE rest == <<ready, index, progressed, running, stdinEof, wire, inflight, answer, answers, fd, lineBuf, asked,
                     clientUp, plan, calls, site, browserUp>>
<1>0. Typed /\ Wired /\ TypeOK /\ BrowserTypes /\ LoopTypes /\ Ledger /\ Sessioned
  BY DEF Balanced, Books, Typed
<1>1. /\ phase = "browser" /\ chunk > 0 /\ chunk' = chunk - 1 /\ pipe' = Tail(pipe)
      /\ phase' = IF chunk > 1 THEN phase ELSE AfterBrowser(ready)
      /\ Reply(Head(pipe)) \/ Attached(Head(pipe)) \/ Detached(Head(pipe)) \/ PageEvent(Head(pipe))
      /\ UNCHANGED <<ready, index, progressed, running, stdinEof, wire,
                     inflight, answer, answers, client, calls, site, browserUp, budget>>
  BY DEF DispatchRaw
<1>2. UNCHANGED rest
  BY <1>1 DEF client
<1>3. pipe # <<>> /\ pipe \in Seq(Msg) /\ chunk <= Len(pipe) /\ chunk \in Nat /\ Len(pipe) \in Nat
  <2>1. chunk <= Len(pipe) /\ pipe \in Seq(Msg) /\ chunk \in Nat
    BY <1>0, <1>1 DEF LoopTypes, BrowserTypes, TypeOK
  <2> QED
    BY <1>1, <2>1
<1>4. PICK m \in Msg : m = Head(pipe) /\ GoodMessage(m) /\ \E i \in DOMAIN pipe : pipe[i] = m
  BY <1>0, <1>1, <1>3, HeadMessage
<1>5. PipeTypes' /\ Len(pipe') = Len(pipe) - 1 /\ \A j \in DOMAIN pipe' : \E i \in DOMAIN pipe : pipe'[j] = pipe[i]
  BY <1>0, <1>1, <1>3, HeadMessage
<1>6. phase' \in {"browser", "stdin", "advance"} /\ chunk' \in Nat /\ (phase' = "browser" => chunk' > 0 /\ chunk' <= Len(pipe'))
  <2>1. AfterBrowser(ready) \in {"stdin", "advance"}
    BY Readiness
  <2>2. chunk - 1 \in Nat /\ chunk - 1 <= Len(pipe) - 1 /\ (chunk > 1 => chunk - 1 > 0)
    BY <1>1, <1>3
  <2> QED
    BY <1>1, <1>5, <2>1, <2>2
<1>7. BrowserTypes'
  BY <1>0, <1>2, <1>5 DEF BrowserTypes, PipeTypes
<1>8. LoopTypes'
  BY <1>0, <1>2, <1>6 DEF LoopTypes
<1>9. /\ Sessioned' /\ GoodPages(pages')
      /\ DOMAIN bySession' \subseteq Sessions /\ \A s \in DOMAIN bySession' : bySession'[s] \in Targets
  <2>1. CASE Reply(m)
    <3>1. UNCHANGED <<pages, bySession>>
      BY <2>1 DEF Reply, driver
    <3> QED
      BY <1>0, <3>1 DEF Sessioned, SessionIndex, GoodPages, TypeOK
  <2>2. CASE Attached(m) \/ Detached(m)
    <3>1. m.session \in Sessions
      BY <1>4, <2>2 DEF GoodMessage, Attached, Detached
    <3> QED
      BY <1>0, <2>2, <3>1, AttachedIndex, DetachedIndex
  <2>3. CASE PageEvent(m)
    <3>1. CASE m.session \notin DOMAIN bySession
      <4>1. UNCHANGED <<pages, bySession>>
        BY <2>3, <3>1 DEF PageEvent
      <4> QED
        BY <1>0, <4>1 DEF Sessioned, SessionIndex, GoodPages, TypeOK
    <3>2. CASE m.session \in DOMAIN bySession
      <4> DEFINE t == bySession[m.session]
      <4>1. t \in DOMAIN pages /\ pages[t] \in Page /\ UNCHANGED bySession
        BY <1>0, <2>3, <3>2 DEF Sessioned, SessionIndex, TypeOK, PageEvent
      <4>2. PICK own \in BOOLEAN : pages' = [pages EXCEPT ![t] = PageAfter(@, m, own)]
        BY <2>3, <3>2 DEF PageEvent, SameFrame
      <4>3. PageAfter(pages[t], m, own) \in Page /\ PageAfter(pages[t], m, own).session = pages[t].session
        BY <2>3, <4>1, PageGoesOn DEF PageEvent
      <4> DEFINE q == PageAfter(pages[t], m, own)
      <4> HIDE DEF q, t
      <4>4. pages' = [pages EXCEPT ![t] = q]
        BY <4>2 DEF q
      <4>5. q \in Page /\ q.session = pages[t].session
        BY <4>3 DEF q
      <4>6. /\ DOMAIN pages' = DOMAIN pages
            /\ \A x \in DOMAIN pages : pages'[x] \in Page /\ pages'[x].session = pages[x].session
        BY <1>0, <4>1, <4>4, <4>5 DEF TypeOK
      <4> QED
        BY <1>0, <4>1, <4>6 DEF Sessioned, SessionIndex, GoodPages, TypeOK
    <3> QED
      BY <3>1, <3>2
  <2> QED
    BY <1>1, <1>4, <2>1, <2>2, <2>3
<1>10. Wired' /\ task' \in [Requests -> Task] /\ DOMAIN pending' \subseteq DOMAIN pending
       /\ \A w \in DOMAIN pending' : pending'[w] = pending[w]
  <2>1. CASE Reply(m) /\ m.wire \in DOMAIN pending
    <3>1. m.type = "reply" /\ m.result \in {"ok", "err"}
      BY <1>4, <2>1 DEF Reply, GoodMessage
    <3>2. /\ task' = [task EXCEPT ![pending[m.wire]] = [@ EXCEPT !.reply = m.result, !.val = m.val]]
          /\ pending' = Drop(pending, m.wire)
      BY <2>1 DEF Reply
    <3>3. UNCHANGED <<wire, calls, inflight, asked>>
      BY <1>2
    <3>4. phase # "finish"
      BY <1>1
    <3>5. Wired' /\ task' \in [Requests -> Task]
      BY <1>0, <1>4, <1>5, <2>1, <3>1, <3>2, <3>3, <3>4, ReplyWires
    <3> QED
      BY <3>2, <3>5 DEF Drop
  <2>2. CASE UNCHANGED <<task, pending>>
    <3>1. Outcomes'
      BY <1>0, <1>1, <1>2, <2>2, OpenElsewhere DEF Outcomes
    <3>2. UNCHANGED <<task, pending, wire, inflight>>
      BY <1>2, <2>2
    <3>3. \A q \in Requests : asked'[q].kind = asked[q].kind
      BY <1>2
    <3>4. \A d \in calls' : \E c \in calls : d.wire = c.wire /\ d.what = c.what
      BY <1>2
    <3>5. \A j \in DOMAIN pipe' : OldOrNew(pipe'[j])
      BY <1>5 DEF OldOrNew
    <3>6. Wired'
      BY <1>0, <3>1, <3>2, <3>3, <3>4, <3>5, WiredSame
    <3> QED
      BY <1>0, <2>2, <3>6 DEF TypeOK
  <2> QED
    BY <1>1, <1>4, <2>1, <2>2 DEF Reply, Attached, Detached, PageEvent
<1>11. TypeOK'
  <2>1. DOMAIN pending' \subseteq Nat /\ \A w \in DOMAIN pending' : pending'[w] \in Requests
    BY <1>0, <1>10 DEF TypeOK
  <2>2. news' \subseteq Requests
    <3>1. news \subseteq Requests
      BY <1>0 DEF TypeOK
    <3> QED
      BY <1>1, <3>1 DEF Reply, Attached, Detached, PageEvent
  <2>3. current' = current
    BY <1>1 DEF Reply, Attached, Detached, PageEvent, driver
  <2>4. phase' \in {"poll", "browser", "stdin", "advance", "finish", "flush", "exited"}
    BY <1>6
  <2>5. DOMAIN pages' \subseteq Targets /\ \A t \in DOMAIN pages' : pages'[t] \in Page
    BY <1>9 DEF GoodPages
  <2> QED
    BY <1>0, <1>2, <1>6, <1>9, <1>10, <2>1, <2>2, <2>3, <2>4, <2>5 DEF TypeOK
<1>12. Ledger'
  <2>1. Closed' <=> Closed
    BY <1>2 DEF Closed
  <2>2. \A q \in Requests : (Unread(q)' <=> Unread(q)) /\ (InFlight(q)' <=> InFlight(q))
    BY <1>2 DEF Unread, InFlight
  <2>3. (~running' => Closed' \/ (inflight' = <<>> /\ phase' \in {"flush", "exited"})) /\ (phase' = "exited" /\ inflight' # <<>> => Closed')
    BY <1>0, <1>1, <1>2, <1>6, <2>1 DEF Ledger
  <2> QED
    BY <1>0, <1>2, <2>2, <2>3 DEF Ledger, Holds
<1>13. CurrentTargetLives'
  BY <1>6 DEF CurrentTargetLives
<1> QED
  BY <1>7, <1>8, <1>9, <1>10, <1>11, <1>12, <1>13 DEF Balanced, Books, Typed

----------------------------------------------------------------------------
(* The theorems *)

LEMMA InitBalanced == Init => Balanced
<1> SUFFICES ASSUME Init PROVE Balanced
  OBVIOUS
<1>1. NoTask \in Task /\ Begun(NoTask, "none")
  BY NothingBegun
<1>2. /\ \A q \in Requests : task[q] = NoTask /\ ~InFlight(q) /\ answers[q] = 0 /\ answer[q] = "none" /\ asked[q].kind = "none"
      /\ pending = <<>> /\ DOMAIN pending = {} /\ pipe = <<>> /\ calls = {} /\ wire = 1
      /\ DOMAIN pages = {} /\ DOMAIN bySession = {} /\ DOMAIN fd = {} /\ DOMAIN lineBuf = {} /\ DOMAIN inflight = {} /\ DOMAIN pipe = {}
  BY DEF Init, InFlight
<1> HIDE DEF NoTask
<1>3. TypeOK
  <2>1. /\ inflight \in Seq(Requests) /\ fd \in Seq(Requests) /\ lineBuf \in Seq(Requests)
    BY DEF Init
  <2>2. task \in [Requests -> Task]
    BY <1>1 DEF Init
  <2>3. answer \in [Requests -> Results] /\ answers \in [Requests -> Nat] /\ news \subseteq Requests
    BY DEF Init, Results
  <2>4. phase = "poll" /\ ready = {} /\ chunk \in Nat /\ index \in Nat /\ wire \in Nat /\ current = None
    BY DEF Init
  <2>5. progressed \in BOOLEAN /\ running \in BOOLEAN /\ stdinEof \in BOOLEAN /\ clientUp \in BOOLEAN /\ browserUp \in BOOLEAN
    BY DEF Init
  <2> QED
    BY <1>2, <2>1, <2>2, <2>3, <2>4, <2>5 DEF TypeOK
<1>4. BrowserTypes
  <2>1. site \in [Targets -> Site] /\ \A t \in Targets : site[t].stage = "absent"
    <3> DEFINE s == [stage |-> "absent", attached |-> 0, detached |-> 0, frame |-> NoFrame, context |-> FALSE]
    <3>1. s \in Site /\ s.stage = "absent"
      BY BoundAssumption DEF Site
    <3>2. site = [t \in Targets |-> s]
      BY DEF Init
    <3> HIDE DEF s
    <3> QED
      BY <3>1, <3>2
  <2>2. pipe \in Seq(Msg)
    BY <1>2
  <2> QED
    BY <1>2, <2>1, <2>2 DEF BrowserTypes
<1>5. LoopTypes
  <2>1. asked \in [Requests -> Asked]
    <3>1. [kind |-> "none", session |-> None, url |-> NoUrl] \in Asked
      BY DEF Asked
    <3> QED
      BY <3>1 DEF Init
  <2> QED
    BY <2>1 DEF Init, LoopTypes
<1>6. Wired
  <2>1. AnswersSuit /\ WiresPast /\ Owned
    BY <1>1, <1>2 DEF AnswersSuit, WiresPast, Owned, WaitsFor, Begun
  <2>2. TaskShapes
    BY <1>1, <1>2 DEF TaskShapes, Begun
  <2> QED
    BY <2>1, <2>2 DEF Wired
<1>7. Ledger
  <2>1. \A q \in Requests : Unread(q) /\ ~Holds(fd, q) /\ ~Holds(lineBuf, q)
    BY <1>2 DEF Unread, Holds
  <2>2. running /\ phase = "poll"
    BY DEF Init
  <2> QED
    BY <1>2, <2>1, <2>2 DEF Ledger, Once
<1>8. Sessioned /\ CurrentTargetLives
  BY <1>2 DEF Sessioned, SessionIndex, CurrentTargetLives, Init
<1> QED
  BY <1>3, <1>4, <1>5, <1>6, <1>7, <1>8 DEF Balanced, Books, Typed

LEMMA StutterKeeps == ASSUME Balanced, UNCHANGED vars PROVE Balanced'
<1>0. Typed /\ Wired /\ TypeOK /\ BrowserTypes /\ LoopTypes /\ Ledger /\ Sessioned /\ CurrentTargetLives
  BY DEF Balanced, Books, Typed
<1>1. UNCHANGED <<loop, driver, router, tasks, client, browser>>
  BY DEF vars
<1>2. TypeOK' /\ BrowserTypes' /\ LoopTypes'
  BY <1>0, <1>1 DEF loop, driver, router, tasks, client, browser, TypeOK, BrowserTypes, LoopTypes
<1>3. Wired'
  BY <1>0, <1>1 DEF loop, router, tasks, client, browser, Wired, AnswersSuit, WiresPast, TaskShapes, Owned, WaitsFor, InFlight
<1>4. Ledger'
  BY <1>0, <1>1 DEF loop, tasks, client, Ledger, Holds, Once, InFlight, Unread, Closed
<1>5. Sessioned' /\ CurrentTargetLives'
  BY <1>0, <1>1 DEF loop, driver, Sessioned, SessionIndex, CurrentTargetLives
<1> QED
  BY <1>2, <1>3, <1>4, <1>5 DEF Balanced, Books, Typed

LEMMA BalancedStays == Balanced /\ [Next]_vars => Balanced'
<1> SUFFICES ASSUME Balanced, [Next]_vars PROVE Balanced'
  OBVIOUS
<1>1. CASE Loop
  BY <1>1, TurningKeeps, DispatchKeeps, ReadingKeeps, StartingKeeps, GoneKeeps, AdvancingKeeps, FinishingKeeps, PassingKeeps,
     FlushKeeps DEF Loop
<1>2. CASE (\E r \in Requests : ClientAsks(r)) \/ ClientCloses \/ Clock \/ Browser
  BY <1>2, AskingKeeps, ClosingKeeps, ClockKeeps, BrowserKeeps
<1>3. CASE UNCHANGED vars
  BY <1>3, StutterKeeps
<1> QED
  BY <1>1, <1>2, <1>3 DEF Next

LEMMA AlwaysBalanced == Spec => []Balanced
<1>1. Init => Balanced
  BY InitBalanced
<1>2. Balanced /\ [Next]_vars => Balanced'
  BY BalancedStays
<1> QED
  BY <1>1, <1>2, PTL DEF Spec

\* The state of the sidecar keeps its shape: the records of the tasks and the
\* pages, the router's table and the lists of requests.
THEOREM SidecarTypes == Spec => []TypeOK
<1>1. Balanced => TypeOK
  BY DEF Balanced, Books, Typed
<1> QED
  BY <1>1, AlwaysBalanced, PTL

\* The ledgers of the sidecar agree, for any client, any number of requests and any
\* browser: every request that was read is in flight or was answered exactly once, the
\* router waits for exactly the calls the tasks in flight wait for, the two indexes of
\* the pages are each other's inverse, and between turns the current target exists.
THEOREM BooksAlwaysBalance == Spec => []BooksBalance
<1>1. Balanced => BooksBalance
  <2> SUFFICES ASSUME Balanced PROVE BooksBalance
    OBVIOUS
  <2>0. Wired /\ TypeOK /\ Ledger /\ Sessioned /\ CurrentTargetLives
    BY DEF Balanced, Books, Typed
  <2>1. RequestsAccountedFor
    <3>1. ASSUME NEW r \in Requests, InFlight(r) PROVE ~Unread(r) /\ inflight # <<>>
      BY <2>0, <3>1, UnreadIf DEF Ledger, InFlight
    <3> QED
      BY <2>0, <3>1 DEF Ledger, RequestsAccountedFor
  <2>2. CallsOwned
    BY <2>0, PendingTasks DEF Wired, Owned, WaitsFor, CallsOwned
  <2> QED
    BY <2>0, <2>1, <2>2 DEF BooksBalance, Sessioned
<1> QED
  BY <1>1, AlwaysBalanced, PTL

----------------------------------------------------------------------------
(* Navigations and the news of them *)

\* The navigations that are under way, and what they wait for, are the same after a step.
SameNav(q) ==
  /\ InNav(q)' <=> InNav(q)
  /\ InNav(q) => /\ task'[q].target = task[q].target /\ (task'[q].outcome = "ok" => task[q].outcome = "ok")
                 /\ Under(task'[q]) => Under(task[q])

LEMMA NavsOnward ==
    ASSUME NavBooks, \A q \in Requests : SameNav(q), NoneFailed' => NoneFailed, news \subseteq news',
           \A x \in DOMAIN pages' :
             /\ pages'[x].life.state = "waiting" => Waiting(x)
             /\ pages'[x].life.started \/ pages'[x].life.committed =>
                  \/ x \in DOMAIN pages /\ Flags(pages'[x].life) = Flags(pages[x].life)
                  \/ \A r \in Requests : InNav(r) /\ task[r].target = x => r \in news'
    PROVE  NavBooks'
<1> SUFFICES ASSUME NoneFailed' PROVE NavBooks'
  BY DEF NavBooks
<1>1. NoneFailed
  OBVIOUS
<1>2. ASSUME NEW t \in Targets, Waiting(t)' PROVE \E r \in Requests : InNav(r)' /\ task'[r].target = t
  <2>1. Waiting(t)
    BY <1>2 DEF Waiting
  <2>2. PICK r \in Requests : InNav(r) /\ task[r].target = t
    BY <1>1, <2>1 DEF NavBooks
  <2> QED
    BY <2>2 DEF SameNav
<1>3. ASSUME NEW r \in Requests, InNav(r)', NEW x \in DOMAIN pages', task'[r].target = x
      PROVE  /\ task'[r].outcome = "ok" => ~(pages'[x].life.state = "waiting")
             /\ Under(task'[r]) /\ r \notin news' => ~pages'[x].life.started /\ ~pages'[x].life.committed
  <2>1. InNav(r) /\ task[r].target = x /\ (Under(task'[r]) => Under(task[r])) /\ (task'[r].outcome = "ok" => task[r].outcome = "ok")
    BY <1>3 DEF SameNav
  <2>2. x \in DOMAIN pages =>
          /\ task[r].outcome = "ok" => ~(pages[x].life.state = "waiting")
          /\ Under(task[r]) /\ r \notin news => ~pages[x].life.started /\ ~pages[x].life.committed
    BY <1>1, <2>1 DEF NavBooks, Waiting
  <2>3. task'[r].outcome = "ok" => ~(pages'[x].life.state = "waiting")
    BY <2>1, <2>2 DEF Waiting
  <2>4. ASSUME Under(task'[r]), r \notin news', pages'[x].life.started \/ pages'[x].life.committed PROVE FALSE
    <3>1. x \in DOMAIN pages /\ Flags(pages'[x].life) = Flags(pages[x].life)
      BY <2>1, <2>4
    <3>2. pages'[x].life.started = pages[x].life.started /\ pages'[x].life.committed = pages[x].life.committed
      BY <3>1 DEF Flags
    <3> QED
      BY <2>1, <2>2, <2>4, <3>1, <3>2
  <2> QED
    BY <2>3, <2>4
<1> QED
  BY <1>2, <1>3 DEF NavBooks, Under, Waiting

LEMMA NavsAlike ==
    ASSUME NavBooks, UNCHANGED <<pages, news>>, \A q \in Requests : SameNav(q), NoneFailed' => NoneFailed
    PROVE  NavBooks'
BY NavsOnward DEF Waiting

LEMMA SameTask ==
    ASSUME NEW q \in Requests, InFlight(q)' <=> InFlight(q), task'[q] = task[q]
    PROVE  SameNav(q)
BY DEF SameNav, InNav, Navigating, Sent, Under

LEMMA AlikeTask ==
    ASSUME NEW q \in Requests, InFlight(q)' <=> InFlight(q), Alike(task'[q], task[q]),
           task'[q].call = task[q].call, task'[q].outcome = task[q].outcome
    PROVE  SameNav(q)
BY DEF SameNav, InNav, Navigating, Sent, Under, Alike

LEMMA NavigatingIs ==
    ASSUME Wired, NEW r \in Requests, InFlight(r)
    PROVE  /\ Navigating(r) => IsNav(r)
           /\ Navigating(r) <=> What(task[r]) = "nav"
BY DEF Wired, TaskShapes, Navigating, IsNav, What

LEMMA NavsOfTurn ==
    ASSUME NavBooks, UNCHANGED <<pages, news, inflight, task, asked, answer>>
    PROVE  NavBooks'
<1>1. \A q \in Requests : InFlight(q)' <=> InFlight(q)
  BY DEF InFlight
<1>2. \A q \in Requests : SameNav(q)
  BY <1>1, SameTask
<1>3. NoneFailed' => NoneFailed
  BY DEF NoneFailed, IsNav
<1> QED
  BY <1>2, <1>3, NavsAlike

LEMMA NavsBetween ==
    ASSUME Balanced, NavBooks, (\E r \in Requests : ClientAsks(r)) \/ ClientCloses \/ Clock \/ Browser
    PROVE  NavBooks' /\ phase' = "poll"
<1>0. Typed /\ Wired /\ TypeOK /\ BrowserTypes /\ LoopTypes /\ Ledger
  BY DEF Balanced, Books, Typed
<1>1. CASE Browser
  <2>1. BrowserWell
    BY <1>0, <1>1, BrowserSteps
  <2> QED
    BY <2>1, NavsOfTurn DEF BrowserWell, loop, driver, tasks, client
<1>2. CASE ClientCloses
  <2>1. UNCHANGED <<pages, news, inflight, task, asked, answer, phase>> /\ phase = "poll"
    BY <1>2 DEF ClientCloses, loop, driver, tasks, Between
  <2> QED
    BY <2>1, NavsOfTurn
<1>3. CASE Clock
  <2>1. PICK r \in Requests, u \in Task : Passes(r, u) /\ Clocked(r, u)
    BY <1>0, <1>3, ClockSteps
  <2>2. task' = [task EXCEPT ![r] = u] /\ UNCHANGED <<pages, news, inflight, asked, answer, phase>> /\ phase = "poll"
    BY <2>1 DEF Passes, loop, driver, client, Between
  <2>3. task'[r] = u /\ \A q \in Requests \ {r} : task'[q] = task[q]
    BY <1>0, <2>2 DEF TypeOK
  <2>4. \A q \in Requests : InFlight(q)' <=> InFlight(q)
    BY <2>2 DEF InFlight
  <2>5. SameNav(r)
    BY <2>1, <2>3, <2>4, AlikeTask DEF Clocked, SameCall
  <2>6. \A q \in Requests : SameNav(q)
    BY <2>3, <2>4, <2>5, SameTask
  <2>7. NoneFailed' => NoneFailed
    BY <2>2 DEF NoneFailed, IsNav
  <2> QED
    BY <2>2, <2>6, <2>7, NavsAlike
<1>4. ASSUME NEW r \in Requests, ClientAsks(r) PROVE NavBooks' /\ phase' = "poll"
  <2>1. UNCHANGED <<pages, news, inflight, task, answer, phase>> /\ phase = "poll"
    BY <1>4 DEF ClientAsks, loop, driver, tasks, Between
  <2>2. \A q \in Requests : InFlight(q)' <=> InFlight(q)
    BY <2>1 DEF InFlight
  <2>3. \A q \in Requests : SameNav(q)
    BY <2>1, <2>2, SameTask
  <2>4. asked[r].kind = "none" /\ \A q \in Requests \ {r} : asked'[q] = asked[q]
    BY <1>0, <1>4 DEF ClientAsks, LoopTypes
  <2>5. NoneFailed' => NoneFailed
    BY <2>1, <2>4 DEF NoneFailed, IsNav
  <2> QED
    BY <2>1, <2>3, <2>5, NavsAlike
<1> QED
  BY <1>1, <1>2, <1>3, <1>4

LEMMA NavsStart ==
    ASSUME Balanced, NavBooks, StartTask
    PROVE  NavBooks' /\ phase' # "finish"
<1>0. Typed /\ Wired /\ TypeOK /\ LoopTypes /\ Ledger /\ lineBuf \in Seq(Requests)
  BY DEF Balanced, Books, Typed, TypeOK
<1>1. lineBuf # <<>> /\ UNCHANGED <<pages, news, asked>> /\ phase' \in {"stdin", "advance"}
  BY DEF StartTask, driver
<1>2. PICK r \in Requests : r = Head(lineBuf)
  BY <1>0, <1>1, TailHolds
<1>3. ~InFlight(r)
  BY <1>2, LedgerStarts
<1>4. Begins(r)
  BY <1>2, <1>3, Starting
<1>5. answer[r] = "none" /\ answer \in [Requests -> Results] /\ task \in [Requests -> Task] /\ inflight \in Seq(Requests)
  <2>1. Unread(r) /\ answers[r] = 0
    BY <1>0, <1>1, <1>2, TailHolds, UnreadIf DEF Ledger
  <2> QED
    BY <1>0, <2>1 DEF TypeOK, Ledger
<1>6. \A q \in Requests \ {r} : task'[q] = task[q] /\ (InFlight(q)' <=> InFlight(q)) /\ answer'[q] = answer[q]
  <2>1. \A q \in Requests : (InFlight(q)' <=> Holds(inflight', q)) /\ (InFlight(q) <=> Holds(inflight, q))
    BY DEF InFlight, Holds
  <2>2. CASE inflight' = Append(inflight, r) /\ UNCHANGED <<answer, answers>> /\ \E u \in Task : BeginsAs(r, u)
    <3>1. \A q \in Requests \ {r} : task'[q] = task[q]
      BY <1>5, <2>2 DEF BeginsAs
    <3>2. \A q \in Requests \ {r} : InFlight(q)' <=> InFlight(q)
      BY <1>5, <2>1, <2>2, AppendHolds
    <3> QED
      BY <2>2, <3>1, <3>2
  <2>3. CASE UNCHANGED <<inflight, task>> /\ \E what \in Results \ {"none"} : Answers(r, what)
    BY <1>5, <2>1, <2>3 DEF Answers
  <2> QED
    BY <1>4, <2>2, <2>3 DEF Begins
<1>7. ~InNav(r) /\ ~InNav(r)'
  <2>1. ~InNav(r)
    BY <1>3 DEF InNav
  <2>2. CASE UNCHANGED inflight
    BY <1>3, <2>2 DEF InNav, InFlight
  <2>3. CASE \E u \in Task : BeginsAs(r, u) /\ ~u.nested /\ (u.kind = "nav" => u.call = 0) /\ u.nav = Unset
    <3>1. PICK u \in Task : BeginsAs(r, u) /\ ~u.nested /\ (u.kind = "nav" => u.call = 0) /\ u.nav = Unset
      BY <2>3
    <3>2. task'[r] = u /\ u.outcome = "open"
      BY <1>5, <3>1 DEF BeginsAs, Begun
    <3>3. ASSUME task'[r].kind = "nav" \/ task'[r].nested PROVE ~Under(task'[r]) /\ task'[r].outcome # "failed"
      BY <3>1, <3>2, <3>3 DEF Under
    <3> QED
      BY <2>1, <3>3 DEF InNav, Navigating, Sent, Under
  <2> QED
    BY <1>4, <2>1, <2>2, <2>3 DEF Begins
<1>8. \A q \in Requests : SameNav(q)
  BY <1>6, <1>7, SameTask DEF SameNav
<1>9. NoneFailed' => NoneFailed
  BY <1>1, <1>5, <1>6 DEF NoneFailed, IsNav
<1> QED
  BY <1>1, <1>8, <1>9, NavsAlike

LEMMA NavsGone ==
    ASSUME Balanced, NavBooks, BrowserGone
    PROVE  NavBooks' /\ phase' # "finish"
<1>0. Wired /\ TypeOK
  BY DEF Balanced, Books, Typed
<1>1. /\ inflight' = <<>> /\ phase' = "flush" /\ UNCHANGED <<pages, news, asked>>
      /\ answer' = [q \in Requests |-> IF InFlight(q) THEN "failed" ELSE answer[q]]
  BY DEF BrowserGone, driver, client
<1>2. \A q \in Requests : ~InNav(q)'
  BY <1>1 DEF InNav, InFlight
<1>3. ASSUME NoneFailed' PROVE NoneFailed /\ \A q \in Requests : ~InNav(q)
  <2>1. \A q \in Requests : IsNav(q) => ~InFlight(q) /\ answer[q] # "failed"
    BY <1>1, <1>3 DEF NoneFailed, IsNav
  <2> QED
    BY <1>0, <2>1, NavigatingIs DEF NoneFailed, InNav
<1>4. NoneFailed' => \A t \in Targets : ~Waiting(t)'
  BY <1>1, <1>3 DEF NavBooks, Waiting
<1> QED
  BY <1>1, <1>2, <1>4 DEF NavBooks

LEMMA NavsFinish ==
    ASSUME Balanced, NavBooks, Finish
    PROVE  NavBooks' /\ phase' # "finish"
<1>0. Wired /\ TypeOK /\ LoopTypes /\ Ledger /\ inflight \in Seq(Requests) /\ Once(inflight) /\ index \in Nat /\ index >= 1
  BY DEF Balanced, Books, Typed, TypeOK, Ledger, LoopTypes
<1>1. phase = "finish" /\ phase' = "advance" /\ index <= Len(inflight) /\ UNCHANGED <<pages, news, asked>>
  BY <1>0 DEF Finish, LoopTypes, client
<1>2. index \in DOMAIN inflight /\ inflight[index] \in Requests
  BY <1>0, <1>1
<1>3. PICK r \in Requests : r = inflight[index]
  BY <1>2
<1>4. /\ Answers(r, task[r].outcome) /\ task' = [task EXCEPT ![r] = NoTask] /\ inflight' = SwapRemove(inflight, index)
  BY <1>3 DEF Finish
<1>5. InFlight(r) /\ task \in [Requests -> Task] /\ answer \in [Requests -> Results] /\ answer[r] = "none"
      /\ task[r].outcome \in {"ok", "failed"}
  <2>1. InFlight(r) /\ task[r] \in Task /\ answers[r] = 0
    BY <1>0, <1>2, <1>3 DEF InFlight, TypeOK, Ledger
  <2>2. task[r].outcome # "open"
    BY <1>0, <1>1, <1>3 DEF LoopTypes
  <2> QED
    BY <1>0, <2>1, <2>2 DEF Task, TypeOK, Ledger
<1>6. \A q \in Requests : InFlight(q)' <=> InFlight(q) /\ q # r
  <2>1. \A q \in Requests : (InFlight(q)' <=> Holds(inflight', q)) /\ (InFlight(q) <=> Holds(inflight, q))
    BY DEF InFlight, Holds
  <2> QED
    BY <1>0, <1>2, <1>3, <1>4, <2>1, SwapRemoves
<1>7. answer'[r] = task[r].outcome /\ \A q \in Requests \ {r} : answer'[q] = answer[q] /\ task'[q] = task[q]
  BY <1>4, <1>5 DEF Answers
<1>8. ASSUME NoneFailed'
      PROVE  NoneFailed /\ \A t \in Targets : ~(InNav(r) /\ task[r].target = t /\ Waiting(t))
  <2>1. NoneFailed
    BY <1>1, <1>5, <1>7, <1>8 DEF NoneFailed, IsNav
  <2>2. ASSUME InNav(r) PROVE task[r].outcome = "ok"
    <3>1. IsNav(r)
      BY <1>0, <1>5, <2>2, NavigatingIs DEF InNav
    <3>2. answer'[r] # "failed"
      BY <1>1, <1>8, <3>1 DEF NoneFailed, IsNav
    <3> QED
      BY <1>5, <1>7, <3>2
  <2> QED
    BY <2>1, <2>2 DEF NavBooks, Waiting
<1>9. ~InNav(r)' /\ \A q \in Requests \ {r} : SameNav(q)
  BY <1>6, <1>7, SameTask DEF InNav
<1>10. ASSUME NoneFailed', NEW t \in Targets, Waiting(t)' PROVE \E q \in Requests : InNav(q)' /\ task'[q].target = t
  <2>1. Waiting(t)
    BY <1>1, <1>10 DEF Waiting
  <2>2. PICK q \in Requests : InNav(q) /\ task[q].target = t
    BY <1>8, <1>10, <2>1 DEF NavBooks
  <2>3. q # r
    BY <1>8, <1>10, <2>1, <2>2
  <2> QED
    BY <1>9, <2>2, <2>3 DEF SameNav
<1>11. ASSUME NoneFailed', NEW q \in Requests, InNav(q)', task'[q].target \in DOMAIN pages'
       PROVE  /\ task'[q].outcome = "ok" => ~(pages'[task'[q].target].life.state = "waiting")
              /\ Under(task'[q]) /\ q \notin news' =>
                   ~pages'[task'[q].target].life.started /\ ~pages'[task'[q].target].life.committed
  <2>1. q # r
    BY <1>9, <1>11
  <2>2. InNav(q) /\ task'[q] = task[q]
    BY <1>7, <1>9, <1>11, <2>1 DEF SameNav
  <2>3. NoneFailed
    BY <1>8, <1>11
  <2> QED
    BY <1>1, <1>11, <2>2, <2>3 DEF NavBooks, Waiting
<1> QED
  BY <1>1, <1>10, <1>11 DEF NavBooks, Under, Waiting

LEMMA NavsAdvance ==
    ASSUME Balanced, NavBooks, OneNavAtATime, Advance, UNCHANGED plan
    PROVE  NavBooks' /\ NavNeedsNews'
<1>0. Wired /\ TypeOK /\ Ledger /\ phase = "advance" /\ task \in [Requests -> Task]
  BY DEF Balanced, Books, Typed, TypeOK, Advance
<1>1. PICK r \in Requests : r = inflight[index] /\ InFlight(r) /\ AdvancesWell(r)
  BY AdvancingKeeps
<1>2. UNCHANGED <<inflight, answer, asked, fd, lineBuf>>
      /\ news' = IF wire' # wire /\ Navigating(r) THEN news \ {r} ELSE news
  BY <1>1 DEF Advance, client
<1>3. PICK u \in Task : task' = [task EXCEPT ![r] = u]
  BY <1>1 DEF AdvancesWell, Polled, Becomes
<1>4. task'[r] = u /\ \A q \in Requests \ {r} : task'[q] = task[q]
  BY <1>0, <1>3
<1>5. \A q \in Requests : task[q].outcome = "open"
  BY <1>0 DEF Wired, TaskShapes
<1>6. \A q \in Requests : InFlight(q)' <=> InFlight(q)
  BY <1>2 DEF InFlight
<1>7. NoneFailed' <=> NoneFailed
  BY <1>2 DEF NoneFailed, IsNav
<1>8. Navigating(r) <=> What(task[r]) = "nav"
  BY <1>0, <1>1, NavigatingIs
<1>9. Navigating(r)' <=> What(u) = "nav"
  BY <1>4 DEF Navigating, What
<1>10. CASE What(task[r]) # "nav"
  <2>1. UNCHANGED pages /\ (What(u) = "nav" => ~Under(u) /\ u.outcome = "open")
    BY <1>1, <1>4, <1>10 DEF AdvancesWell, AwayFromNav
  <2>2. UNCHANGED news
    BY <1>2, <1>8, <1>10
  <2>3. ~InNav(r)
    BY <1>8, <1>10 DEF InNav
  <2>4. ~InNav(r)'
    BY <1>4, <1>9, <2>1 DEF InNav, Sent, Under
  <2>5. \A q \in Requests : SameNav(q)
    BY <1>4, <1>6, <2>3, <2>4, SameTask DEF SameNav
  <2>6. NavBooks'
    BY <1>7, <2>1, <2>2, <2>5, NavsAlike
  <2>7. \A q \in Requests : Navigating(q)' => task'[q].outcome # "ok"
    BY <1>4, <1>5, <1>9, <2>1
  <2> QED
    BY <2>6, <2>7 DEF NavNeedsNews, Navigating
<1>11. CASE What(task[r]) = "nav"
  <2> DEFINE x == task[r].target
  <2>1. PICK v \in Task : /\ task' = [task EXCEPT ![r] = v] /\ Likened(v, task[r])
                          /\ LifeMoves(pages, pages', task[r].target)
                          /\ wire' # wire => NavBegins(task[r], v)
                          /\ NavRests(task[r], v) \/ NavBegins(task[r], v) \/ NavGoesOn(r, task[r], v)
    BY <1>1, <1>11 DEF AdvancesWell, NavMoves
  <2>2. v = u
    BY <1>0, <1>4, <2>1
  <2>3. /\ u.target = x /\ What(u) = "nav" /\ DOMAIN pages' = DOMAIN pages
        /\ \A y \in DOMAIN pages : pages'[y].url = pages[y].url /\ (y # x => pages'[y] = pages[y])
    BY <1>11, <2>1, <2>2 DEF Likened, LifeMoves, What
  <2>4. (wire' # wire => NavBegins(task[r], u)) /\ (NavRests(task[r], u) \/ NavBegins(task[r], u) \/ NavGoesOn(r, task[r], u))
    BY <2>1, <2>2
  <2>5. InNav(r) <=> Under(task[r])
    BY <1>1, <1>5, <1>8, <1>11 DEF InNav, Sent
  <2>6. InNav(r)' <=> Under(u) \/ u.outcome = "failed"
    BY <1>1, <1>4, <1>6, <1>9, <2>3 DEF InNav, Sent, Under
  <2>7. \A q \in Requests \ {r} : ~InNav(q) /\ ~InNav(q)'
    <3>1. ASSUME NEW q \in Requests \ {r} PROVE ~InNav(q)
      <4>1. IsNav(r)
        BY <1>0, <1>1, <1>8, <1>11, NavigatingIs
      <4>2. InNav(q) => InFlight(q) /\ IsNav(q)
        BY <1>0, NavigatingIs DEF InNav
      <4> QED
        BY <1>1, <4>1, <4>2 DEF OneNavAtATime
    <3> QED
      BY <1>4, <1>6, <3>1, SameTask DEF SameNav
  <2>8. Under(task[r]) => UNCHANGED news
    BY <1>2, <2>4 DEF NavBegins
  <2> HIDE DEF x
  <2>9. ASSUME NoneFailed, NEW y \in Targets, Waiting(y)' PROVE \E q \in Requests : InNav(q)' /\ task'[q].target = y
    <3>1. CASE y # x
      <4>1. Waiting(y)
        BY <2>3, <2>9, <3>1 DEF Waiting
      <4>2. PICK q \in Requests : InNav(q) /\ task[q].target = y
        BY <2>9, <4>1 DEF NavBooks
      <4> QED
        BY <2>7, <3>1, <4>2 DEF x
    <3>2. CASE y = x
      <4>1. CASE NavRests(task[r], u)
        <5>1. Waiting(y)
          BY <2>9, <4>1 DEF NavRests, Waiting
        <5>2. InNav(r)
          BY <2>7, <2>9, <5>1 DEF NavBooks
        <5> QED
          BY <1>4, <2>3, <2>5, <2>6, <3>2, <4>1, <5>2 DEF NavRests
      <4>2. CASE NavBegins(task[r], u)
        BY <1>4, <2>3, <2>6, <3>2, <4>2 DEF NavBegins, Under
      <4>3. CASE NavGoesOn(r, task[r], u)
        BY <1>4, <2>3, <2>6, <3>2, <4>3 DEF NavGoesOn
      <4> QED
        BY <2>4, <4>1, <4>2, <4>3
    <3> QED
      BY <3>1, <3>2
  <2>10. ASSUME NoneFailed, InNav(r)', x \in DOMAIN pages
         PROVE  /\ u.outcome = "ok" => ~(pages'[x].life.state = "waiting")
                /\ Under(u) /\ r \notin news' => ~pages'[x].life.started /\ ~pages'[x].life.committed
    <3>1. x = task[r].target
      BY DEF x
    <3>2. Under(task[r]) /\ r \notin news => ~pages[x].life.started /\ ~pages[x].life.committed
      BY <2>5, <2>10, <3>1 DEF NavBooks
    <3>3. CASE NavRests(task[r], u)
      BY <2>8, <3>2, <3>3 DEF NavRests
    <3>4. CASE NavBegins(task[r], u)
      <4>1. x \in Targets
        BY <1>0, <2>10 DEF TypeOK
      <4>2. ~Waiting(x)
        BY <2>5, <2>7, <2>10, <3>4, <4>1 DEF NavBooks, NavBegins
      <4>3. Flags(pages'[x].life) = <<FALSE, FALSE>> /\ u.outcome # "ok"
        BY <2>10, <3>1, <3>4, <4>2 DEF NavBegins, Waiting
      <4> QED
        BY <4>3 DEF Flags
    <3>5. CASE NavGoesOn(r, task[r], u)
      <4>1. Flags(pages'[x].life) = Flags(pages[x].life) /\ (u.outcome = "ok" => pages'[x].life.state # "waiting") /\ UNCHANGED news
        BY <2>8, <2>10, <3>1, <3>5 DEF NavGoesOn
      <4>2. pages'[x].life.started = pages[x].life.started /\ pages'[x].life.committed = pages[x].life.committed
        BY <4>1 DEF Flags
      <4>3. Under(task[r])
        BY <3>5 DEF NavGoesOn
      <4> QED
        BY <3>2, <4>1, <4>2, <4>3
    <3> QED
      BY <2>4, <3>3, <3>4, <3>5
  <2>11. NavBooks'
    <3>1. ASSUME NoneFailed', NEW q \in Requests, InNav(q)', task'[q].target \in DOMAIN pages'
          PROVE  /\ task'[q].outcome = "ok" => ~(pages'[task'[q].target].life.state = "waiting")
                 /\ Under(task'[q]) /\ q \notin news' =>
                      ~pages'[task'[q].target].life.started /\ ~pages'[task'[q].target].life.committed
      <4>1. q = r
        BY <2>7, <3>1
      <4>2. task'[q] = u /\ task'[q].target = x /\ x \in DOMAIN pages /\ NoneFailed
        BY <1>4, <1>7, <2>3, <3>1, <4>1
      <4>3. InNav(r)'
        BY <3>1, <4>1
      <4> QED
        BY <2>10, <4>1, <4>2, <4>3
    <3> QED
      BY <1>7, <2>9, <3>1 DEF NavBooks, Under, Waiting
  <2>12. NavNeedsNews'
    <3>1. ASSUME NEW q \in Requests, Navigating(q)', task'[q].outcome = "ok"
          PROVE  q = r
      BY <1>4, <1>5, <3>1
    <3>2. ASSUME u.outcome = "ok", \A q \in Requests \ {r} : asked[q].kind \in {"nav", "newTab"} => Unread(q) \/ answer[q] \in {"ok", "rejected"}
          PROVE  r \in news' \/ (u.target \in DOMAIN pages' /\ pages'[u.target].url = asked'[r].url)
      <4>1. NoneFailed
        <5>1. \A q \in Requests : Unread(q) \/ InFlight(q) => answer[q] = "none"
          BY <1>0 DEF Ledger
        <5>2. answer[r] = "none"
          BY <1>1, <5>1
        <5> QED
          BY <3>2, <5>1, <5>2 DEF NoneFailed, IsNav
      <4>2. NavGoesOn(r, task[r], u)
        BY <2>4, <3>2 DEF NavRests, NavBegins
      <4>3. Under(u) /\ x = task[r].target
        BY <3>2, <4>2 DEF NavGoesOn, x
      <4>4. /\ x \in DOMAIN pages /\ Flags(pages'[x].life) = Flags(pages[x].life)
            /\ pages[x].life.started \/ pages[x].life.committed \/ pages[x].url = asked[r].url
        BY <3>2, <4>2, <4>3 DEF NavGoesOn
      <4>5. r \notin news' => ~pages'[x].life.started /\ ~pages'[x].life.committed
        BY <2>6, <2>10, <4>1, <4>3, <4>4
      <4>6. r \notin news' => pages[x].url = asked[r].url
        BY <4>4, <4>5 DEF Flags
      <4> QED
        BY <1>2, <2>3, <4>4, <4>6
    <3>3. \A q \in Requests : Unread(q)' <=> Unread(q)
      BY <1>2 DEF Unread
    <3>4. ASSUME NEW q \in Requests, InFlight(q)', Navigating(q)', task'[q].outcome = "ok",
                 \A p \in Requests \ {q} : asked'[p].kind \in {"nav", "newTab"} => Unread(p)' \/ answer'[p] \in {"ok", "rejected"}
          PROVE  q \in news' \/ (task'[q].target \in DOMAIN pages' /\ pages'[task'[q].target].url = asked'[q].url)
      <4>1. q = r
        BY <3>1, <3>4
      <4>2. u.outcome = "ok" /\ task'[q] = u
        BY <1>4, <3>4, <4>1
      <4>3. \A p \in Requests \ {r} : asked[p].kind \in {"nav", "newTab"} => Unread(p) \/ answer[p] \in {"ok", "rejected"}
        BY <1>2, <3>3, <3>4, <4>1
      <4> QED
        BY <3>2, <4>1, <4>2, <4>3
    <3> QED
      BY <3>4 DEF NavNeedsNews
  <2> QED
    BY <2>11, <2>12
<1> QED
  BY <1>10, <1>11

LEMMA NavsDispatch ==
    ASSUME Balanced, NavBooks, DispatchRaw, UNCHANGED plan
    PROVE  NavBooks' /\ phase' # "finish"
<1>0. Typed /\ Wired /\ TypeOK /\ BrowserTypes /\ LoopTypes /\ Sessioned
  BY DEF Balanced, Books, Typed
<1>1. /\ phase = "browser" /\ pipe' = Tail(pipe)
      /\ phase' \in {"browser", "stdin", "advance"}
      /\ Reply(Head(pipe)) \/ Attached(Head(pipe)) \/ Detached(Head(pipe)) \/ PageEvent(Head(pipe))
      /\ UNCHANGED <<wire, inflight, answer, asked, calls>>
  BY Readiness DEF DispatchRaw, client
<1>2. pipe # <<>>
  <2>1. chunk > 0 /\ chunk <= Len(pipe) /\ pipe \in Seq(Msg) /\ chunk \in Nat
    BY <1>0, <1>1 DEF LoopTypes, BrowserTypes, TypeOK
  <2> QED
    BY <2>1
<1>3. PICK m \in Msg : m = Head(pipe) /\ GoodMessage(m) /\ \E i \in DOMAIN pipe : pipe[i] = m
  BY <1>0, <1>1, <1>2, HeadMessage
<1>4. \A j \in DOMAIN pipe' : \E i \in DOMAIN pipe : pipe'[j] = pipe[i]
  BY <1>0, <1>1, <1>2, HeadMessage
<1>5. (\A q \in Requests : InFlight(q)' <=> InFlight(q)) /\ (NoneFailed' => NoneFailed)
  BY <1>1 DEF InFlight, NoneFailed, IsNav
<1>6. CASE Reply(m)
  <2>1. UNCHANGED <<pages, news>>
    BY <1>6 DEF Reply, driver
  <2>2. CASE m.wire \notin DOMAIN pending
    <3>1. \A q \in Requests : task'[q] = task[q]
      BY <1>6, <2>2 DEF Reply
    <3> QED
      BY <1>1, <1>5, <2>1, <3>1, SameTask, NavsAlike
  <2>3. CASE m.wire \in DOMAIN pending
    <3>1. m.type = "reply" /\ m.result \in {"ok", "err"}
          /\ task' = [task EXCEPT ![pending[m.wire]] = [@ EXCEPT !.reply = m.result, !.val = m.val]]
          /\ pending' = Drop(pending, m.wire)
      BY <1>3, <1>6, <2>3 DEF Reply, GoodMessage
    <3>2. UNCHANGED <<wire, calls, inflight, asked>> /\ phase # "finish"
      BY <1>1
    <3>3. \A q \in Requests : task'[q].outcome = task[q].outcome /\ task'[q].call = task[q].call /\ Alike(task'[q], task[q])
      BY <1>0, <1>3, <1>4, <2>3, <3>1, <3>2, ReplyWires
    <3> QED
      BY <1>1, <1>5, <2>1, <3>3, AlikeTask, NavsAlike
  <2> QED
    BY <2>2, <2>3
<1>7. CASE Attached(m) \/ Detached(m) \/ PageEvent(m)
  <2>1. UNCHANGED task
    BY <1>7 DEF Attached, Detached, PageEvent
  <2>2. \A q \in Requests : SameNav(q)
    BY <1>5, <2>1, SameTask
  <2>3. CASE Attached(m) \/ Detached(m)
    <3>1. m.session \in Sessions /\ UNCHANGED news
      BY <1>3, <2>3 DEF GoodMessage, Attached, Detached
    <3>2. \A x \in DOMAIN pages' : IF x \in DOMAIN pages THEN pages'[x].life = pages[x].life ELSE pages'[x].life = Idle
      BY <1>0, <2>3, <3>1, AttachedIndex, DetachedIndex
    <3>3. Idle.state = "idle" /\ ~Idle.started /\ ~Idle.committed
      BY DEF Idle
    <3> HIDE DEF Idle
    <3> QED
      BY <1>1, <1>5, <2>2, <3>1, <3>2, <3>3, NavsOnward DEF Waiting
  <2>4. CASE PageEvent(m) /\ m.session \notin DOMAIN bySession
    <3>1. UNCHANGED <<pages, news>>
      BY <2>4 DEF PageEvent
    <3> QED
      BY <1>1, <1>5, <2>2, <3>1, NavsAlike
  <2>5. CASE PageEvent(m) /\ m.session \in DOMAIN bySession
    <3> DEFINE t == bySession[m.session]
    <3>1. t \in DOMAIN pages /\ pages[t] \in Page /\ m.type \in PageEvents
      BY <1>0, <2>5 DEF Sessioned, SessionIndex, TypeOK, PageEvent
    <3>2. PICK own \in BOOLEAN : pages' = [pages EXCEPT ![t] = PageAfter(@, m, own)]
      BY <2>5 DEF PageEvent, SameFrame
    <3>3. news' = IF m.type \in Navigates THEN news \cup {r \in Requests : Navigating(r) /\ task[r].target = t} ELSE news
      BY <2>5 DEF PageEvent
    <3> DEFINE q == PageAfter(pages[t], m, own)
    <3>4. /\ q.life.state = "waiting" => pages[t].life.state = "waiting"
          /\ m.type \notin Navigates => Flags(q.life) = Flags(pages[t].life)
      BY <3>1, PageGoesOn
    <3>5. pages' = [pages EXCEPT ![t] = q]
      BY <3>2
    <3> HIDE DEF q, t
    <3>6. DOMAIN pages' = DOMAIN pages /\ pages'[t] = q /\ \A x \in DOMAIN pages \ {t} : pages'[x] = pages[x]
      BY <3>1, <3>5
    <3>7. m.type \in Navigates => \A r \in Requests : InNav(r) /\ task[r].target = t => r \in news'
      BY <3>3 DEF InNav
    <3>8. news \subseteq news'
      BY <3>3
    <3>9. ASSUME NEW x \in DOMAIN pages'
          PROVE  /\ pages'[x].life.state = "waiting" => Waiting(x)
                 /\ pages'[x].life.started \/ pages'[x].life.committed =>
                      \/ x \in DOMAIN pages /\ Flags(pages'[x].life) = Flags(pages[x].life)
                      \/ \A r \in Requests : InNav(r) /\ task[r].target = x => r \in news'
      <4>1. CASE x = t
        BY <3>1, <3>4, <3>6, <3>7, <4>1 DEF Waiting
      <4>2. CASE x # t
        <5>1. x \in DOMAIN pages /\ pages'[x] = pages[x]
          BY <3>6, <3>9, <4>2
        <5> QED
          BY <5>1 DEF Waiting
      <4> QED
        BY <4>1, <4>2
    <3> QED
      BY <1>1, <1>5, <2>2, <3>8, <3>9, NavsOnward
  <2> QED
    BY <1>7, <2>3, <2>4, <2>5
<1> QED
  BY <1>1, <1>3, <1>6, <1>7

\* Nothing is reported done outside the end of a poll.
LEMMA NoneDone ==
    ASSUME Balanced', phase' # "finish"
    PROVE  NavNeedsNews'
<1>1. TaskShapes'
  BY DEF Balanced, Books, Wired
<1>2. \A r \in Requests : task'[r].outcome = "open"
  BY <1>1 DEF TaskShapes
<1> QED
  BY <1>2 DEF NavNeedsNews

NavInv == Balanced /\ NavBooks /\ NavNeedsNews

LEMMA InitNavs == Init => NavInv
<1> SUFFICES ASSUME Init PROVE NavInv
  OBVIOUS
<1>1. Balanced
  BY InitBalanced
<1>2. inflight = <<>> /\ pages = <<>>
  BY DEF Init
<1>3. (\A r \in Requests : ~InFlight(r)) /\ \A t \in Targets : ~Waiting(t)
  BY <1>2 DEF InFlight, Waiting
<1> QED
  BY <1>1, <1>3 DEF NavInv, NavBooks, NavNeedsNews, InNav

LEMMA NavsStay == NavInv /\ OneNavAtATime /\ [Next]_vars => NavInv'
<1> SUFFICES ASSUME NavInv, OneNavAtATime, [Next]_vars PROVE NavInv'
  OBVIOUS
<1>0. Balanced /\ NavBooks /\ NavNeedsNews /\ Balanced'
  BY BalancedStays DEF NavInv
<1>1. CASE UNCHANGED vars
  <2>1. UNCHANGED <<pages, news, inflight, task, asked, answer, fd, lineBuf>>
    BY <1>1 DEF vars, driver, tasks, client
  <2>2. NavBooks'
    BY <1>0, <2>1, NavsOfTurn
  <2>3. NavNeedsNews'
    BY <1>0, <2>1 DEF NavNeedsNews, InFlight, Navigating, Unread
  <2> QED
    BY <1>0, <2>2, <2>3 DEF NavInv
<1>2. CASE (\E r \in Requests : ClientAsks(r)) \/ ClientCloses \/ Clock \/ Browser
  <2>1. NavBooks' /\ phase' # "finish"
    BY <1>0, <1>2, NavsBetween
  <2> QED
    BY <1>0, <2>1, NoneDone DEF NavInv
<1>3. CASE Loop
  <2>1. UNCHANGED plan
    BY <1>3 DEF Loop
  <2>2. CASE Turn \/ ReadStdin \/ NextPass \/ Flush
    <3>1. UNCHANGED <<pages, news, inflight, task, asked, answer>>
      BY <2>2 DEF Turn, ReadStdin, NextPass, Flush, driver, tasks, client
    <3>2. phase' # "finish"
      <4>1. AfterBrowser(Readable) \in {"stdin", "advance"}
        BY Readiness
      <4> QED
        BY <2>2, <4>1 DEF Turn, ReadStdin, NextPass, Flush, PassOver
    <3> QED
      BY <1>0, <3>1, <3>2, NavsOfTurn, NoneDone DEF NavInv
  <2>3. CASE DispatchRaw
    BY <1>0, <2>1, <2>3, NavsDispatch, NoneDone DEF NavInv
  <2>4. CASE StartTask
    BY <1>0, <2>4, NavsStart, NoneDone DEF NavInv
  <2>5. CASE BrowserGone
    BY <1>0, <2>5, NavsGone, NoneDone DEF NavInv
  <2>6. CASE Finish
    BY <1>0, <2>6, NavsFinish, NoneDone DEF NavInv
  <2>7. CASE Advance
    BY <1>0, <2>1, <2>7, NavsAdvance DEF NavInv
  <2> QED
    BY <1>3, <2>2, <2>3, <2>4, <2>5, <2>6, <2>7 DEF Loop
<1> QED
  BY <1>1, <1>2, <1>3 DEF Next

\* For a client that has at most one navigation in flight at a time: a navigation that
\* follows only finished ones is not reported done before its page has navigated at all
\* since it was sent, unless the page shows the URL.
THEOREM NavigationsNeedNews == Spec /\ []OneNavAtATime => []NavNeedsNews
<1>1. Init => NavInv
  BY InitNavs
<1>2. NavInv /\ OneNavAtATime /\ [Next]_vars => NavInv'
  BY NavsStay
<1>3. NavInv => NavNeedsNews
  BY DEF NavInv
<1> QED
  BY <1>1, <1>2, <1>3, PTL DEF Spec

\* A client that waits for its answers has one navigation in flight at a time.
Waits == ~plan.overlap => \A q, r \in Requests : q < r /\ asked[r].kind # "none" => answer[q] # "none"

LEMMA AnswersLast ==
    ASSUME Balanced, [Next]_vars
    PROVE  /\ UNCHANGED plan
           /\ \A q \in Requests : answer[q] # "none" => answer'[q] # "none"
           /\ \A q \in Requests : asked'[q].kind # "none" => asked[q].kind # "none" \/ ClientAsks(q)
<1>0. /\ Typed /\ Wired /\ TypeOK /\ LoopTypes /\ Ledger
      /\ answer \in [Requests -> Results] /\ task \in [Requests -> Task] /\ inflight \in Seq(Requests)
      /\ lineBuf \in Seq(Requests)
  BY DEF Balanced, Books, Typed, TypeOK
<1>1. CASE UNCHANGED <<plan, answer, asked>>
  BY <1>1
<1>2. ASSUME NEW r \in Requests, NEW what \in Results \ {"none"}, Answers(r, what)
      PROVE  \A q \in Requests : answer[q] # "none" => answer'[q] # "none"
  BY <1>0, <1>2 DEF Answers
<1>3. CASE UNCHANGED vars \/ ClientCloses
  BY <1>1, <1>3 DEF vars, tasks, client, ClientCloses
<1>4. CASE Browser
  <2>1. BrowserWell
    BY <1>0, <1>4, BrowserSteps DEF Typed
  <2> QED
    BY <1>1, <2>1 DEF BrowserWell, tasks, client
<1>5. CASE Clock
  BY <1>1, <1>5 DEF Clock, DeadlineComes, SettleEnds, GraceEnds, Passes, client
<1>6. ASSUME NEW r \in Requests, ClientAsks(r)
      PROVE  UNCHANGED <<plan, answer>> /\ \A q \in Requests \ {r} : asked'[q] = asked[q]
  BY <1>0, <1>6 DEF ClientAsks, tasks, LoopTypes
<1>7. CASE Loop
  <2>1. UNCHANGED plan
    BY <1>7 DEF Loop
  <2>2. UNCHANGED asked
    BY <1>7 DEF Loop, Turn, DispatchRaw, ReadStdin, StartTask, BrowserGone, Advance, Finish, NextPass, Flush, client
  <2>3. CASE Turn \/ DispatchRaw \/ ReadStdin \/ Advance \/ NextPass \/ Flush
    <3>1. UNCHANGED answer
      BY <2>3 DEF Turn, DispatchRaw, ReadStdin, Advance, NextPass, Flush, tasks
    <3> QED
      BY <2>1, <2>2, <3>1
  <2>4. CASE StartTask
    <3>1. lineBuf # <<>>
      BY <2>4 DEF StartTask
    <3>2. PICK r \in Requests : r = Head(lineBuf)
      BY <1>0, <3>1, TailHolds
    <3>3. ~InFlight(r)
      BY <1>0, <2>4, <3>1, <3>2, LedgerStarts
    <3>4. Begins(r)
      BY <1>0, <2>4, <3>2, <3>3, Starting
    <3>5. UNCHANGED answer \/ \E what \in Results \ {"none"} : Answers(r, what)
      BY <3>4 DEF Begins
    <3> QED
      BY <1>2, <2>1, <2>2, <3>5
  <2>5. CASE BrowserGone
    <3>1. \A q \in Requests : answer'[q] = IF InFlight(q) THEN "failed" ELSE answer[q]
      BY <2>5 DEF BrowserGone
    <3> QED
      BY <2>1, <2>2, <3>1
  <2>6. CASE Finish
    <3>1. PICK r \in Requests : r = inflight[index]
      BY <2>1, <2>6, FinishingKeeps
    <3>2. Answers(r, task[r].outcome) /\ task[r].outcome # "open"
      BY <1>0, <2>6, <3>1 DEF Finish, LoopTypes
    <3>3. task[r].outcome \in Results \ {"none"}
      BY <1>0, <3>2 DEF Task, Results
    <3> QED
      BY <1>2, <2>1, <2>2, <3>2, <3>3
  <2> QED
    BY <1>7, <2>3, <2>4, <2>5, <2>6 DEF Loop
<1>8. CASE \E r \in Requests : ClientAsks(r)
  BY <1>6, <1>8
<1> QED
  BY <1>3, <1>4, <1>5, <1>7, <1>8 DEF Next

LEMMA WaitsStays == ASSUME Balanced, Waits, [Next]_vars PROVE Waits'
<1>1. /\ UNCHANGED plan
      /\ \A q \in Requests : answer[q] # "none" => answer'[q] # "none"
      /\ \A q \in Requests : asked'[q].kind # "none" => asked[q].kind # "none" \/ ClientAsks(q)
  BY AnswersLast
<1>2. ASSUME ~plan.overlap, NEW q \in Requests, NEW r \in Requests, q < r, asked'[r].kind # "none"
      PROVE  answer'[q] # "none"
  <2>1. CASE asked[r].kind # "none"
    BY <1>1, <1>2, <2>1 DEF Waits
  <2>2. CASE ClientAsks(r)
    <3>1. q \in 1..(r - 1)
      BY <1>2 DEF Requests
    <3>2. answer[q] # "none"
      BY <1>2, <2>2, <3>1 DEF ClientAsks
    <3> QED
      BY <1>1, <3>2
  <2> QED
    BY <1>1, <1>2, <2>1, <2>2
<1> QED
  BY <1>1, <1>2 DEF Waits

LEMMA WaitersGoInTurn == ASSUME Balanced, Waits, ~plan.overlap PROVE OneNavAtATime
<1>1. \A r \in Requests : InFlight(r) => asked[r].kind # "none" /\ answer[r] = "none"
  BY DEF Balanced, Books, Ledger
<1>2. ASSUME NEW r \in Requests, NEW q \in Requests, InFlight(r), InFlight(q) PROVE r = q
  <2>1. ~(q < r) /\ ~(r < q)
    BY <1>1, <1>2 DEF Waits
  <2> QED
    BY <2>1 DEF Requests
<1> QED
  BY <1>2 DEF OneNavAtATime

\* The Python client that waits for each answer before it asks again is such a client:
\* NavNeedsNews holds in every behaviour in which it does.
THEOREM WaitingClients == Spec => [](plan.overlap \/ NavNeedsNews)
<1> DEFINE Inv == Balanced /\ Waits /\ (plan.overlap \/ NavInv)
<1>1. Init => Inv
  <2>1. Init => Waits
    BY DEF Init, Waits
  <2> QED
    BY <2>1, InitNavs DEF NavInv
<1>2. Inv /\ [Next]_vars => Inv'
  <2> SUFFICES ASSUME Inv, [Next]_vars PROVE Inv'
    OBVIOUS
  <2>1. Balanced' /\ Waits'
    BY BalancedStays, WaitsStays
  <2>2. UNCHANGED plan
    BY AnswersLast
  <2>3. ASSUME ~plan.overlap PROVE NavInv'
    BY <2>3, WaitersGoInTurn, NavsStay
  <2> QED
    BY <2>1, <2>2, <2>3
<1>3. Inv => plan.overlap \/ NavNeedsNews
  BY DEF NavInv
<1> HIDE DEF Inv
<1> QED
  BY <1>1, <1>2, <1>3, PTL DEF Spec

=============================================================================
