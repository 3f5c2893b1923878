-------------------------- MODULE Capture_proofs ---------------------------
(***************************************************************************)
(* Requests, frames and file choosers reach the tools that wait for them,  *)
(* for every number of callers and tabs, every length of the queues and    *)
(* every plan.                                                             *)
(*                                                                         *)
(* A step is the turn of one caller, an answer of the browser, an event of *)
(* a page, the reader's, or the end of the engine.  What the turn of a     *)
(* caller may touch follows from the kind of tool it runs, so that for     *)
(* each property only the tools of one kind are looked at.                 *)
(***************************************************************************)
EXTENDS Capture, FiniteSetTheorems, WellFoundedInduction, TLAPS

----------------------------------------------------------------------------
(* Finite sets of numbers *)

\* The least of a set of numbers: the one with nothing below it.
LEMMA MinOfNaturals ==
    ASSUME NEW S \in SUBSET Nat, S # {}
    PROVE  Min(S) \in S /\ \A y \in S : Min(S) <= y
<1> DEFINE below(i) == {k \in S : k < i}
           T == {below(i) : i \in S}
<1>1. \A i \in S : below(i) \in SUBSET Nat /\ IsFiniteSet(below(i))
  <2>1. ASSUME NEW i \in S PROVE IsFiniteSet(below(i))
    <3>1. i \in Nat /\ \A k \in S : k < i => k <= i
      OBVIOUS
    <3>2. below(i) \in SUBSET Nat /\ \A k \in below(i) : k <= i
      BY <3>1
    <3> QED
      BY <3>1, <3>2, FS_BoundedSetOfNaturals
  <2> QED
    BY <2>1
<1>2. PICK t \in T : \A u \in T : <<u, t>> \notin StrictSubsetOrdering(Nat)
  <2>1. T \subseteq FiniteSubsetsOf(Nat) /\ T # {}
    BY <1>1 DEF FiniteSubsetsOf
  <2>2. IsWellFoundedOn(StrictSubsetOrdering(Nat), FiniteSubsetsOf(Nat))
    BY FS_StrictSubsetOrderingWellFounded
  <2> HIDE DEF T
  <2> QED
    BY <2>1, <2>2, WFMin
<1>3. PICK x \in S : t = below(x)
  OBVIOUS
<1>4. ASSUME NEW y \in S, y < x PROVE FALSE
  <2>1. y \in below(x) /\ y \notin below(y)
    BY <1>4
  <2>2. \A k \in S : k < y => k < x
    BY <1>4
  <2>3. below(y) \subseteq below(x) /\ below(y) \in T
    BY <2>2
  <2> HIDE DEF below, T
  <2> QED
    BY <1>1, <1>2, <1>3, <1>4, <2>1, <2>3 DEF StrictSubsetOrdering
<1>5. \A y \in S : x <= y
  BY <1>4
<1> QED
  BY <1>5 DEF Min

RouteNames == {"route", "intercept", "unintercept", "continue"}
CastNames == {"start", "stop", "frame", "fresh"}
UploadNames == {"mode", "upload"}
UploadCalls == {"setfiles", "mode"}

Tool == [name : {"none"} \cup RouteNames \cup CastNames \cup UploadNames,
         at : {"none", "wait", "lock", "drain", "look", "sleep", "enable", "decide", "disable", "switch",
               "stopping", "starting", "discard", "ack", "feed"},
         tab : Tabs \cup {None}, sid : Nat, gen : Nat, item : Nat, left : Nat, since : Nat, woken : BOOLEAN]
Call == [does : {"none"} \cup NetCalls \cup CastCalls \cup UploadCalls,
         tab : Tabs \cup {None}, arg : Nat \cup Ids, is : {"none", "sent", "served", "ok", "error"}]

AnyLine ==
    [kind : {"request"}, n : Nat, paused : BOOLEAN]
    \cup [kind : {"reply"}, to : Callers, how : {"ok", "error"}]
    \cup [kind : {"frame"}, tab : Tabs, of : Nat]
    \cup [kind : {"chooser"}, n : Nat]
    \cup [kind : {"cleared"}, tab : Tabs]
    \cup [kind : {"context"}, tab : Tabs, doc : Nat]

-----------------------------------------------------------------------------
(* Tools and their calls.                                                  *)

\* Where a tool is says what it has asked the browser for.
Fits(t, k) ==
    \/ k = NoCall /\ \/ t.name = "none" /\ t.at = "none"
                     \/ t.name = "route" /\ t.at = "wait" /\ t.tab \in Tabs
                     \/ t.name = "start" /\ t.at = "lock"
                     \/ t.name = "fresh" /\ t.at = "drain"
                     \/ t.name \in {"frame", "fresh", "upload"} /\ t.at \in {"look", "sleep"}
    \/ t.name = "route" /\ t.tab \in Tabs /\ \/ t.at = "enable" /\ k.does = "pause" /\ k.tab = t.tab
                                             \/ t.at = "decide" /\ k.does = "decide"
                                             \/ t.at = "disable" /\ k.does = "unpause" /\ k.tab = t.tab
    \/ t.name = "intercept" /\ t.at = "switch" /\ k.does = "pause"
    \/ t.name = "unintercept" /\ t.at = "switch" /\ k.does = "unpause"
    \/ t.name = "continue" /\ t.at = "switch" /\ k.does = "decide"
    \/ t.name = "start" /\ t.at = "starting" /\ k.does = "startcast" /\ k.tab = t.tab /\ t.tab \in Tabs
    \/ t.name \in {"start", "stop"} /\ t.at = "stopping" /\ k.does = "stopcast"
    \/ t.name \in {"frame", "fresh"} /\ t.at \in {"discard", "ack"} /\ k.does = "ack" /\ k.arg = t.sid
    \/ t.name = "mode" /\ t.at = "switch" /\ k.does = "mode" /\ k.arg = 0
    \/ t.name = "upload" /\ t.at = "feed" /\ k.does = "setfiles" /\ k.arg = t.item

\* A cancelled route leaves its call behind, and its caller runs no other tool.
LeftBehind(t, k, runs) == t = Idle /\ runs = <<>> /\ k.does \in NetCalls

\* A call that was made is under way, or answered.
Whole(k) == (k.does = "none" <=> k.is = "none") /\ (k.is = "none" => k = NoCall)

CallerOK(t, k, runs) == t \in Tool /\ k \in Call /\ Whole(k) /\ (Fits(t, k) \/ LeftBehind(t, k, runs))

Lines(kind) == {i \in DOMAIN wire : wire[i].kind = kind}

\* Each call that the browser has served has one reply at most, and no other has one.
OneReply ==
    /\ \A i \in Lines("reply") : wire[i].to \in Callers /\ call[wire[i].to].is = "served"
    /\ \A i, j \in Lines("reply") : wire[i].to = wire[j].to => i = j

WireOK ==
    /\ DOMAIN todo = Callers /\ tool \in [Callers -> Tool] /\ call \in [Callers -> Call]
    /\ \A c \in Callers : CallerOK(tool[c], call[c], todo[c])
    /\ wire \in Seq(AnyLine) /\ OneReply
    /\ current \in Tabs /\ alive \in BOOLEAN

\* What the others' tools are after a step: as before, or woken.
Awake(t, u) == u = t \/ (t.at = "sleep" /\ t.name \in {"frame", "fresh", "upload"} /\ u = [t EXCEPT !.woken = TRUE])

\* The turn of caller c: its tool becomes r and its call k.
Turn(c, r, k) ==
    /\ tool' = [d \in Callers |-> tool'[d]] /\ Awake(r, tool'[c])
    /\ \A d \in Callers \ {c} : Awake(tool[d], tool'[d])
    /\ call' = [call EXCEPT ![c] = k]
    /\ DOMAIN todo' = Callers /\ \A d \in Callers \ {c} : todo'[d] = todo[d]
    /\ CallerOK(r, k, todo'[c])
    /\ k = call[c] \/ (call[c].is # "served" /\ k.is # "served")
    /\ wire' = wire /\ current' = current /\ alive' = alive

\* Waking a tool leaves it at its tab.
LEMMA AwakeTab == ASSUME NEW t \in Tool, NEW u, Awake(t, u) PROVE u.tab = t.tab
BY DEF Awake, Tool

\* A tool that is woken still fits its call.
LEMMA AwakeFits == ASSUME NEW t, NEW u, NEW k, NEW runs, Awake(t, u), CallerOK(t, k, runs) PROVE CallerOK(u, k, runs)
<1>1. CASE u = t
  BY <1>1
<1>2. CASE t.at = "sleep" /\ t.name \in {"frame", "fresh", "upload"} /\ u = [t EXCEPT !.woken = TRUE]
  <2>1. t \in Tool
    BY DEF CallerOK
  <2>2. u \in Tool /\ u.at = t.at /\ u.name = t.name /\ u.tab = t.tab /\ u.sid = t.sid /\ u.item = t.item
    BY <1>2, <2>1 DEF Tool
  <2>3. ~LeftBehind(t, k, runs)
    BY <1>2 DEF LeftBehind, Idle
  <2>4. Fits(u, k)
    BY <1>2, <2>2, <2>3 DEF CallerOK, Fits
  <2> QED
    BY <2>2, <2>4 DEF CallerOK
<1> QED
  BY <1>1, <1>2 DEF Awake

LEMMA TurnKeeps == ASSUME WireOK, NEW c \in Callers, NEW r, NEW k, Turn(c, r, k) PROVE WireOK'
<1>1. DOMAIN call' = Callers /\ call'[c] = k /\ \A d \in Callers \ {c} : call'[d] = call[d]
  BY DEF WireOK, Turn
<1>2. ASSUME NEW d \in Callers PROVE CallerOK(tool'[d], call'[d], todo'[d])
  <2>1. CASE d = c
    BY <1>1, <2>1, AwakeFits DEF Turn
  <2>2. CASE d # c
    <3>1. CallerOK(tool[d], call[d], todo[d]) /\ Awake(tool[d], tool'[d]) /\ todo'[d] = todo[d] /\ call'[d] = call[d]
      BY <1>1, <2>2 DEF Turn, WireOK
    <3> QED
      BY <3>1, AwakeFits
  <2> QED
    BY <2>1, <2>2
<1>4. tool' \in [Callers -> Tool] /\ call' \in [Callers -> Call]
  <2>1. \A d \in Callers : tool'[d] \in Tool
    BY <1>2 DEF CallerOK
  <2>2. k \in Call
    BY DEF Turn, CallerOK
  <2> QED
    BY <2>1, <2>2 DEF Turn, WireOK
<1>3. OneReply'
  <2>1. wire' = wire /\ (k = call[c] \/ (call[c].is # "served" /\ k.is # "served"))
    BY DEF Turn
  <2>2. \A d \in Callers : call[d].is = "served" => call'[d].is = "served"
    BY <1>1, <2>1
  <2> QED
    BY <2>1, <2>2 DEF WireOK, OneReply, Lines
<1> QED
  BY <1>1, <1>2, <1>3, <1>4 DEF WireOK, Turn

-----------------------------------------------------------------------------
(* What a tool may do in its turn, by its kind.                            *)

TurnAmong(c, names, calls) ==
    /\ tool[c].name \in names \cup {"none"} /\ call[c].does \in calls \cup {"none"}
    /\ \E r, k : Turn(c, r, k) /\ r.name \in names \cup {"none"} /\ k.does \in calls \cup {"none"}

Sent(does, t, arg) == [does |-> does, tab |-> t, arg |-> arg, is |-> IF alive THEN "sent" ELSE "error"]

LEMMA SentOK ==
    ASSUME NEW does \in NetCalls \cup CastCalls \cup UploadCalls, NEW t \in Tabs \cup {None}, NEW arg \in Nat \cup Ids
    PROVE  /\ Sent(does, t, arg) \in Call /\ Whole(Sent(does, t, arg)) /\ Sent(does, t, arg).is # "served"
           /\ Sent(does, t, arg).does = does /\ Sent(does, t, arg).tab = t /\ Sent(does, t, arg).arg = arg
BY DEF Sent, Call, Whole, NetCalls, CastCalls, UploadCalls

LEMMA NoneOK == NoCall \in Call /\ Whole(NoCall) /\ NoCall.does = "none" /\ NoCall.is = "none" /\ Idle \in Tool
                /\ Idle.name = "none" /\ Idle.at = "none" /\ Fits(Idle, NoCall)
BY DEF NoCall, Call, Whole, Idle, Tool, Fits

\* What is known of a caller.
LEMMA Caller ==
    ASSUME WireOK, NEW c \in Callers
    PROVE  /\ tool[c] \in Tool /\ call[c] \in Call /\ Whole(call[c])
           /\ Fits(tool[c], call[c]) \/ LeftBehind(tool[c], call[c], todo[c])
           /\ tool \in [Callers -> Tool] /\ call \in [Callers -> Call] /\ DOMAIN todo = Callers /\ current \in Tabs
           /\ tool[c].at # "none" => Fits(tool[c], call[c])
BY DEF WireOK, CallerOK, LeftBehind, Idle

\* Woken(ts) and Roused as they are seen by a caller.
LEMMA WokenTurns ==
    ASSUME WireOK, NEW c \in Callers, NEW r,
           \/ tool' = [tool EXCEPT ![c] = r]
           \/ tool' = Woken([tool EXCEPT ![c] = r])
    PROVE  /\ tool' = [d \in Callers |-> tool'[d]] /\ Awake(r, tool'[c])
           /\ \A d \in Callers \ {c} : Awake(tool[d], tool'[d])
<1>0. DOMAIN tool = Callers /\ tool \in [Callers -> Tool]
  BY DEF WireOK
<1>1. CASE tool' = [tool EXCEPT ![c] = r]
  BY <1>0, <1>1 DEF Awake
<1>2. CASE tool' = Woken([tool EXCEPT ![c] = r])
  <2> DEFINE ts == [tool EXCEPT ![c] = r]
  <2>1. ts[c] = r /\ \A d \in Callers \ {c} : ts[d] = tool[d]
    BY <1>0
  <2> HIDE DEF ts
  <2>2. tool' = Woken(ts)
    BY <1>2 DEF ts
  <2>3. \A d \in Callers : Awake(ts[d], tool'[d])
    BY <2>2 DEF Woken, Awake
  <2> QED
    BY <2>1, <2>2, <2>3 DEF Woken
<1> QED
  BY <1>1, <1>2

\* A tool goes on, with the call it has or another.
LEMMA GoesOn ==
    ASSUME WireOK, NEW c \in Callers, NEW r \in Tool, NEW k \in Call,
           \/ tool' = [tool EXCEPT ![c] = r]
           \/ tool' = Woken([tool EXCEPT ![c] = r]),
           call' = [call EXCEPT ![c] = k],
           UNCHANGED <<todo, wire, current, alive>>,
           Whole(k), Fits(r, k), k = call[c] \/ (call[c].is # "served" /\ k.is # "served")
    PROVE  Turn(c, r, k)
<1>1. DOMAIN todo = Callers /\ CallerOK(r, k, todo'[c])
  BY DEF WireOK, CallerOK
<1> QED
  BY <1>1, WokenTurns DEF Turn

\* A tool begins.
LEMMA BeginsTurn ==
    ASSUME WireOK, NEW c \in Callers, NEW r \in Tool, NEW k \in Call, NEW name, Begins(c, name, r),
           call' = [call EXCEPT ![c] = k], UNCHANGED <<wire, current, alive>>,
           Whole(k), Fits(r, k), k.is # "served"
    PROVE  Turn(c, r, k) /\ tool[c].name = "none" /\ call[c] = NoCall /\ alive
<1>1. /\ tool[c].at = "none" /\ todo[c] # <<>> /\ alive
      /\ todo' = [todo EXCEPT ![c] = Tail(@)] /\ tool' = [tool EXCEPT ![c] = r]
  BY DEF Begins
<1>2. call[c] = NoCall /\ tool[c].name = "none"
  BY <1>1, Caller DEF LeftBehind, Fits
<1>3. CallerOK(r, k, todo'[c])
  BY DEF CallerOK
<1>4. DOMAIN todo' = Callers /\ \A d \in Callers \ {c} : todo'[d] = todo[d]
  BY <1>1, Caller
<1>5. tool' = [d \in Callers |-> tool'[d]] /\ Awake(r, tool'[c]) /\ \A d \in Callers \ {c} : Awake(tool[d], tool'[d])
  BY <1>1, WokenTurns
<1> QED
  BY <1>1, <1>2, <1>3, <1>4, <1>5, NoneOK DEF Turn

\* A call that stays as it is.
LEMMA CallStays == ASSUME WireOK, NEW c \in Callers, call' = call PROVE call' = [call EXCEPT ![c] = call[c]]
BY Caller

\* A tool ends.
LEMMA EndsTurn ==
    ASSUME WireOK, NEW c \in Callers, tool' = [tool EXCEPT ![c] = Idle] \/ tool' = Woken([tool EXCEPT ![c] = Idle]),
           Quiet(c) \/ (call' = call /\ call[c] = NoCall),
           UNCHANGED <<todo, wire, current, alive>>, call[c].is # "served"
    PROVE  Turn(c, Idle, NoCall)
<1>1. call' = [call EXCEPT ![c] = NoCall]
  BY CallStays DEF Quiet
<1> QED
  BY <1>1, GoesOn, NoneOK

Frame == [gen : Nat, of : Nat]

\* The tools of the screencast.
LEMMA CastTurns ==
    ASSUME WireOK, CastTypeOK, NEW c \in Callers, CastStep(c), ~CastServes(c)
    PROVE  TurnAmong(c, CastNames, CastCalls)
<1>0. /\ tool[c] \in Tool /\ call[c] \in Call /\ Whole(call[c])
      /\ tool[c].at # "none" => Fits(tool[c], call[c])
      /\ current \in Tabs /\ castTab \in Tabs \cup {None} /\ castId \in Nat /\ generation \in Nat /\ 0 \in Nat \cup Ids
  BY Caller DEF CastTypeOK
<1>s. ASSUME NEW does \in CastCalls, NEW t \in Tabs \cup {None}, NEW arg \in Nat
      PROVE  /\ Sent(does, t, arg) \in Call /\ Whole(Sent(does, t, arg)) /\ Sent(does, t, arg).is # "served"
             /\ Sent(does, t, arg).does = does /\ Sent(does, t, arg).tab = t /\ Sent(does, t, arg).arg = arg
  BY SentOK
<1>f. frames \in Seq(Frame) /\ DOMAIN frames = 1..Len(frames)
  BY DEF CastTypeOK, Frame
<1>1. CASE StartCast(c)
  <2> DEFINE r == [Idle EXCEPT !.name = "start", !.at = "lock"]
  <2>1. r \in Tool /\ r.name = "start" /\ Fits(r, NoCall)
    BY DEF Tool, Idle, Fits, CastNames
  <2>2. Begins(c, "start", r) /\ call' = call /\ UNCHANGED <<wire, current, alive>>
    BY <1>1 DEF StartCast
  <2> HIDE DEF r
  <2>3. call[c] = NoCall
    BY <2>2, Caller DEF Begins, LeftBehind, Fits
  <2>4. Turn(c, r, NoCall) /\ tool[c].name = "none"
    BY <2>1, <2>2, <2>3, BeginsTurn, CallStays, NoneOK
  <2> QED
    BY <2>1, <2>3, <2>4, NoneOK DEF TurnAmong, CastNames
<1>2. CASE Locked(c)
  <2>0. tool[c].name = "start" /\ tool[c].at = "lock" /\ call[c] = NoCall /\ UNCHANGED <<todo, wire, current, alive>>
    BY <1>0, <1>2 DEF Locked, Runs, At, Fits
  <2>1. CASE castId # 0
    <3> DEFINE r == [tool[c] EXCEPT !.at = "stopping"]
               k == Sent("stopcast", castTab, 0)
    <3>1. tool' = [tool EXCEPT ![c] = r] /\ call' = [call EXCEPT ![c] = k]
      BY <1>2, <2>1 DEF Locked, Goes, Sends, Sent
    <3>2. r \in Tool /\ r.name = "start" /\ r.at = "stopping"
      BY <1>0, <2>0 DEF Tool
    <3>3. k \in Call /\ Whole(k) /\ k.is # "served" /\ k.does = "stopcast"
      BY <1>0, <1>s DEF CastCalls
    <3> HIDE DEF r, k
    <3>4. Fits(r, k)
      BY <3>2, <3>3 DEF Fits
    <3> QED
      BY <2>0, <3>1, <3>2, <3>3, <3>4, GoesOn, NoneOK DEF TurnAmong, CastNames, CastCalls
  <2>2. CASE ~(castId # 0)
    <3> DEFINE r == [tool[c] EXCEPT !.at = "starting", !.tab = current]
               k == Sent("startcast", current, 0)
    <3>1. tool' = [tool EXCEPT ![c] = r] /\ call' = [call EXCEPT ![c] = k]
      BY <1>2, <2>2 DEF Locked, SendStart, ClearCast, Sends, Sent
    <3>2. r \in Tool /\ r.name = "start" /\ r.at = "starting" /\ r.tab = current
      BY <1>0, <2>0 DEF Tool
    <3>3. k \in Call /\ Whole(k) /\ k.is # "served" /\ k.does = "startcast" /\ k.tab = current
      BY <1>0, <1>s DEF CastCalls
    <3> HIDE DEF r, k
    <3>4. Fits(r, k)
      BY <1>0, <3>2, <3>3 DEF Fits
    <3> QED
      BY <2>0, <3>1, <3>2, <3>3, <3>4, GoesOn, NoneOK DEF TurnAmong, CastNames, CastCalls
  <2> QED
    BY <2>1, <2>2
<1>3. ASSUME tool[c].name \in CastNames, call[c].does \in CastCalls \cup {"none"},
             tool' = [tool EXCEPT ![c] = Idle] \/ tool' = Woken([tool EXCEPT ![c] = Idle]),
             Quiet(c) \/ (call' = call /\ call[c] = NoCall),
             UNCHANGED <<todo, wire, current, alive>>, call[c].is # "served"
      PROVE  TurnAmong(c, CastNames, CastCalls)
  BY <1>3, EndsTurn, NoneOK DEF TurnAmong
<1>4. CASE CastFails(c) \/ Stopped(c)
  <2>1. /\ tool[c].name \in CastNames /\ call[c].does \in CastCalls \cup {"none"} /\ call[c].is # "served"
    BY <1>0, <1>4 DEF CastFails, Stopped, Runs, At, Fits, CastNames, CastCalls, Answered
  <2>2. UNCHANGED <<todo, wire, current, alive>> /\ Quiet(c)
    BY <1>4 DEF CastFails, Stopped
  <2>3. tool' = Woken([tool EXCEPT ![c] = Idle])
    BY <1>4 DEF CastFails, Stopped, ClearCast
  <2> QED
    BY <1>3, <2>1, <2>2, <2>3
<1>5. CASE Restarts(c)
  <2> DEFINE r == [tool[c] EXCEPT !.at = "starting", !.tab = current]
             k == Sent("startcast", current, 0)
  <2>0. /\ tool[c].name = "start" /\ call[c].does = "stopcast" /\ call[c].is # "served"
        /\ UNCHANGED <<todo, wire, current, alive>>
    BY <1>0, <1>5 DEF Restarts, Runs, At, Fits, Answered
  <2>1. tool' = Woken([tool EXCEPT ![c] = r]) /\ call' = [call EXCEPT ![c] = k]
    BY <1>5 DEF Restarts, Sends, Sent
  <2>2. r \in Tool /\ r.name = "start" /\ r.at = "starting" /\ r.tab = current
    BY <1>0, <2>0 DEF Tool
  <2>3. k \in Call /\ Whole(k) /\ k.is # "served" /\ k.does = "startcast" /\ k.tab = current
    BY <1>0, <1>s DEF CastCalls
  <2> HIDE DEF r, k
  <2>4. Fits(r, k)
    BY <1>0, <2>2, <2>3 DEF Fits
  <2> QED
    BY <2>0, <2>1, <2>2, <2>3, <2>4, GoesOn DEF TurnAmong, CastNames, CastCalls
<1>6. CASE Started(c) \/ Acked(c)
  <2>1. /\ tool[c].name \in CastNames /\ call[c].does \in CastCalls \cup {"none"} /\ call[c].is # "served"
    BY <1>0, <1>6 DEF Started, Acked, Runs, At, Fits, CastNames, CastCalls, Answered
  <2>2. UNCHANGED <<todo, wire, current, alive>> /\ Quiet(c) /\ tool' = [tool EXCEPT ![c] = Idle]
    BY <1>6 DEF Started, Acked, Ends
  <2> QED
    BY <1>3, <2>1, <2>2
<1>7. CASE StopCast(c)
  <2> DEFINE r == [Idle EXCEPT !.name = "stop", !.at = "stopping"]
             t == IF castTab # None THEN castTab ELSE current
             k == Sent("stopcast", t, 0)
  <2>1. r \in Tool /\ r.name = "stop" /\ r.at = "stopping"
    BY DEF Tool, Idle, CastNames
  <2>2. k \in Call /\ Whole(k) /\ k.is # "served" /\ k.does = "stopcast"
    <3>1. t \in Tabs \cup {None}
      BY <1>0
    <3> HIDE DEF t
    <3> QED
      BY <1>s, <3>1 DEF CastCalls
  <2>3. Begins(c, "stop", r) /\ call' = [call EXCEPT ![c] = k] /\ UNCHANGED <<wire, current, alive>>
    BY <1>7 DEF StopCast, Sends, Sent
  <2> HIDE DEF r, k
  <2>4. Fits(r, k)
    BY <2>1, <2>2 DEF Fits
  <2>5. Turn(c, r, k) /\ tool[c].name = "none" /\ call[c] = NoCall
    BY <2>1, <2>2, <2>3, <2>4, BeginsTurn
  <2> QED
    BY <2>1, <2>2, <2>5, NoneOK DEF TurnAmong, CastNames, CastCalls
<1>8. CASE FrameBegins(c)
  <2>1. PICK name \in {"frame", "fresh"} :
           LET r == [Idle EXCEPT !.name = name, !.at = IF name = "fresh" THEN "drain" ELSE "look",
                                 !.sid = castId, !.tab = castTab, !.gen = generation]
           IN  Begins(c, name, IF castId = 0 /\ frames # <<>> THEN Idle ELSE r)
    BY <1>8 DEF FrameBegins
  <2> DEFINE r == [Idle EXCEPT !.name = name, !.at = IF name = "fresh" THEN "drain" ELSE "look",
                               !.sid = castId, !.tab = castTab, !.gen = generation]
  <2>2. r \in Tool /\ r.name = name /\ Fits(r, NoCall)
    BY <1>0, ZenonT(60) DEF Tool, Idle, CastNames, Fits
  <2>3. call' = call /\ UNCHANGED <<wire, current, alive>>
    BY <1>8 DEF FrameBegins
  <2>4. PICK q \in {r, Idle} : Begins(c, name, q)
    BY <2>1
  <2>5. call[c] = NoCall
    BY <2>4, Caller DEF Begins, LeftBehind, Fits
  <2> HIDE DEF r
  <2>6. q \in Tool /\ Fits(q, NoCall) /\ q.name \in CastNames \cup {"none"}
    BY <2>2, <2>4, NoneOK DEF CastNames
  <2>7. Turn(c, q, NoCall) /\ tool[c].name = "none"
    BY <2>3, <2>4, <2>5, <2>6, BeginsTurn, CallStays, NoneOK
  <2> QED
    BY <2>5, <2>6, <2>7, NoneOK DEF TurnAmong
<1> DEFINE ack == Sent("ack", tool[c].tab, tool[c].sid)
<1>9. /\ ack \in Call /\ Whole(ack) /\ ack.is # "served" /\ ack.does = "ack" /\ ack.arg = tool[c].sid
  <2>1. tool[c].tab \in Tabs \cup {None} /\ tool[c].sid \in Nat
    BY <1>0 DEF Tool
  <2> QED
    BY <1>s, <2>1 DEF CastCalls
<1> HIDE DEF ack
<1>10. ASSUME NEW r \in Tool, r.name = tool[c].name, r.sid = tool[c].sid, r.name \in {"frame", "fresh"},
              call[c].does \in CastCalls \cup {"none"}, call[c].is # "served",
              tool' = [tool EXCEPT ![c] = r], UNCHANGED <<todo, wire, current, alive>>,
              \/ r.at \in {"discard", "ack"} /\ call' = [call EXCEPT ![c] = ack]
              \/ r.at \in {"look", "sleep"} /\ (Quiet(c) \/ (call' = call /\ call[c] = NoCall))
       PROVE  TurnAmong(c, CastNames, CastCalls)
  <2>1. CASE r.at \in {"discard", "ack"} /\ call' = [call EXCEPT ![c] = ack]
    <3>1. Fits(r, ack)
      BY <1>9, <1>10, <2>1 DEF Fits
    <3> QED
      BY <1>9, <1>10, <2>1, <3>1, GoesOn DEF TurnAmong, CastNames, CastCalls
  <2>2. CASE r.at \in {"look", "sleep"} /\ (Quiet(c) \/ (call' = call /\ call[c] = NoCall))
    <3>1. call' = [call EXCEPT ![c] = NoCall]
      BY <2>2, CallStays DEF Quiet
    <3>2. Fits(r, NoCall)
      BY <1>10, <2>2 DEF Fits
    <3> QED
      BY <1>10, <3>1, <3>2, GoesOn, NoneOK DEF TurnAmong, CastNames
  <2> QED
    BY <1>10, <2>1, <2>2
<1>11. CASE Drain(c)
  <2>1. /\ tool[c].name = "fresh" /\ call[c] = NoCall /\ call[c].is = "none" /\ call[c].does = "none"
        /\ UNCHANGED <<todo, wire, current, alive>>
    BY <1>0, <1>11, NoneOK DEF Drain, At, Fits
  <2>2. CASE Goes(c, [tool[c] EXCEPT !.at = "look"]) /\ call' = call
    <3> DEFINE r == [tool[c] EXCEPT !.at = "look"]
    <3>1. r \in Tool /\ r.name = tool[c].name /\ r.sid = tool[c].sid /\ r.at = "look" /\ tool' = [tool EXCEPT ![c] = r]
      BY <1>0, <2>2 DEF Tool, Goes
    <3> HIDE DEF r
    <3> QED
      BY <1>10, <2>1, <2>2, <3>1
  <2>3. CASE Ends(c) /\ call' = call
    BY <1>3, <2>1, <2>3 DEF Ends, CastNames
  <2>4. CASE Goes(c, [tool[c] EXCEPT !.at = "discard", !.left = Len(frames)]) /\ Sends(c, "ack", tool[c].tab, tool[c].sid)
    <3> DEFINE r == [tool[c] EXCEPT !.at = "discard", !.left = Len(frames)]
    <3>0. Len(frames) \in Nat
      BY DEF CastTypeOK
    <3>1. r \in Tool /\ r.name = tool[c].name /\ r.sid = tool[c].sid /\ r.at = "discard" /\ tool' = [tool EXCEPT ![c] = r]
      BY <1>0, <2>4, <3>0 DEF Tool, Goes
    <3>2. call' = [call EXCEPT ![c] = ack]
      BY <2>4 DEF Sends, Sent, ack
    <3> HIDE DEF r
    <3> QED
      BY <1>10, <2>1, <3>1, <3>2
  <2> QED
    BY <1>11, <2>2, <2>3, <2>4 DEF Drain
<1>12. CASE Discarded(c)
  <2>1. /\ tool[c].name \in {"frame", "fresh"} /\ call[c].is # "served" /\ call[c].does = "ack"
        /\ UNCHANGED <<todo, wire, current, alive>>
    BY <1>0, <1>12 DEF Discarded, At, Fits, Answered
  <2>2. CASE Ends(c) /\ Quiet(c)
    BY <1>3, <2>1, <2>2 DEF Ends, CastNames, CastCalls
  <2>3. CASE tool[c].left > 1 /\ Goes(c, [tool[c] EXCEPT !.left = @ - 1]) /\ Sends(c, "ack", tool[c].tab, tool[c].sid)
    <3> DEFINE r == [tool[c] EXCEPT !.left = @ - 1]
    <3>0. tool[c].left \in Nat /\ tool[c].left - 1 \in Nat /\ tool[c].at = "discard"
      BY <1>0, <1>12, <2>3 DEF Tool, Discarded, At
    <3>1. r \in Tool /\ r.name = tool[c].name /\ r.sid = tool[c].sid /\ r.at = "discard" /\ tool' = [tool EXCEPT ![c] = r]
      BY <1>0, <2>3, <3>0 DEF Tool, Goes
    <3>2. call' = [call EXCEPT ![c] = ack]
      BY <2>3 DEF Sends, Sent, ack
    <3> HIDE DEF r
    <3> QED
      BY <1>10, <2>1, <3>1, <3>2 DEF CastCalls
  <2>4. CASE Goes(c, [tool[c] EXCEPT !.at = "look"]) /\ Quiet(c)
    <3> DEFINE r == [tool[c] EXCEPT !.at = "look"]
    <3>1. r \in Tool /\ r.name = tool[c].name /\ r.sid = tool[c].sid /\ r.at = "look" /\ tool' = [tool EXCEPT ![c] = r]
      BY <1>0, <2>4 DEF Tool, Goes
    <3> HIDE DEF r
    <3> QED
      BY <1>10, <2>1, <2>4, <3>1 DEF CastCalls
  <2> QED
    BY <1>12, <2>2, <2>3, <2>4 DEF Discarded
<1>13. ASSUME Looking(c) \/ Sleeping(c)
       PROVE  tool[c].name \in {"frame", "fresh"} /\ call[c] = NoCall /\ call[c].is = "none" /\ call[c].does = "none"
  BY <1>0, <1>13, NoneOK DEF Looking, Sleeping, At, Runs, Fits
<1>14. CASE Takes(c)
  <2>1. /\ tool[c].name \in {"frame", "fresh"} /\ call[c] = NoCall /\ call[c].is = "none" /\ call[c].does = "none"
        /\ UNCHANGED <<todo, wire, current, alive>>
    BY <1>13, <1>14 DEF Takes
  <2>2. CASE Ends(c) /\ call' = call
    BY <1>3, <2>1, <2>2 DEF Ends, CastNames
  <2>3. ASSUME NEW i \in Mine(c),
               /\ Goes(c, [tool[c] EXCEPT !.at = "ack", !.item = frames[i].of, !.woken = FALSE])
               /\ Sends(c, "ack", tool[c].tab, tool[c].sid)
        PROVE  TurnAmong(c, CastNames, CastCalls)
    <3> DEFINE r == [tool[c] EXCEPT !.at = "ack", !.item = frames[i].of, !.woken = FALSE]
    <3>0. frames[i].of \in Nat
      <4>1. frames[i] \in Frame
        BY <1>f DEF Mine
      <4> QED
        BY <4>1 DEF Frame
    <3>1. r \in Tool /\ r.name = tool[c].name /\ r.sid = tool[c].sid /\ r.at = "ack" /\ tool' = [tool EXCEPT ![c] = r]
      BY <1>0, <2>3, <3>0 DEF Tool, Goes
    <3>2. call' = [call EXCEPT ![c] = ack]
      BY <2>3 DEF Sends, Sent, ack
    <3> HIDE DEF r
    <3> QED
      BY <1>10, <2>1, <3>1, <3>2
  <2>4. PICK i \in Mine(c) : i = CHOOSE j \in Mine(c) : \A k \in Mine(c) : j <= k
    <3>1. Mine(c) \in SUBSET Nat /\ Mine(c) # {}
      BY <1>f, <1>14 DEF Takes, Mine
    <3>2. \E j \in Mine(c) : \A k \in Mine(c) : j <= k
      BY <3>1, MinOfNaturals
    <3> QED
      BY <3>2
  <2> QED
    BY <1>14, <2>2, <2>3, <2>4 DEF Takes
<1>15. CASE Misses(c) \/ Wakes(c) \/ FrameTimesOut(c)
  <2>1. /\ tool[c].name \in {"frame", "fresh"} /\ call[c] = NoCall /\ call[c].is = "none" /\ call[c].does = "none"
        /\ UNCHANGED <<todo, wire, current, alive, call>>
    BY <1>13, <1>15 DEF Misses, Wakes, FrameTimesOut
  <2>2. CASE Ends(c)
    BY <1>3, <2>1, <2>2 DEF Ends, CastNames
  <2>3. ASSUME NEW at \in {"sleep"}, Goes(c, [tool[c] EXCEPT !.at = at, !.woken = FALSE])
        PROVE  TurnAmong(c, CastNames, CastCalls)
    <3> DEFINE r == [tool[c] EXCEPT !.at = at, !.woken = FALSE]
    <3>1. r \in Tool /\ r.name = tool[c].name /\ r.sid = tool[c].sid /\ r.at = "sleep" /\ tool' = [tool EXCEPT ![c] = r]
      BY <1>0, <2>3 DEF Tool, Goes
    <3> HIDE DEF r
    <3> QED
      BY <1>10, <2>1, <3>1
  <2>4. CASE Wakes(c) /\ Goes(c, [tool[c] EXCEPT !.woken = FALSE])
    <3>1. [tool[c] EXCEPT !.woken = FALSE] = [tool[c] EXCEPT !.at = "sleep", !.woken = FALSE]
      BY <1>0, <2>4 DEF Wakes, Sleeping, At, Tool
    <3> QED
      BY <2>3, <2>4, <3>1
  <2> QED
    BY <1>15, <2>2, <2>3, <2>4 DEF Misses, Wakes, FrameTimesOut
<1>16. CASE AckFails(c)
  <2>1. /\ tool[c].name \in {"frame", "fresh"} /\ call[c].is # "served" /\ call[c].does = "ack" /\ Quiet(c)
        /\ UNCHANGED <<todo, wire, current, alive>>
    BY <1>0, <1>16 DEF AckFails, At, Fits, Answered
  <2>2. tool' = [tool EXCEPT ![c] = Idle] \/ tool' = Woken([tool EXCEPT ![c] = Idle])
    BY <1>16 DEF AckFails, PutsBack, Ends
  <2> QED
    BY <1>3, <2>1, <2>2 DEF CastNames, CastCalls
<1> QED
  BY <1>1, <1>2, <1>4, <1>5, <1>6, <1>7, <1>8, <1>11, <1>12, <1>14, <1>15, <1>16 DEF CastStep

Chooser == [tab : Tabs, doc : Nat, fed : Nat, by : Tabs \cup {None}]

\* The tools of uploads.
LEMMA UploadTurns ==
    ASSUME WireOK, UploadsTypeOK, NEW c \in Callers, UploadStep(c), ~UploadServes(c)
    PROVE  TurnAmong(c, UploadNames, UploadCalls)
<1>0. /\ tool[c] \in Tool /\ call[c] \in Call /\ Whole(call[c])
      /\ tool[c].at # "none" => Fits(tool[c], call[c])
      /\ tool[c].name # "none" => Fits(tool[c], call[c])
      /\ current \in Tabs
  BY Caller DEF LeftBehind, Idle
<1>e. ASSUME tool[c].name \in UploadNames, call[c].does \in UploadCalls \cup {"none"},
             tool' = [tool EXCEPT ![c] = Idle],
             Quiet(c) \/ (call' = call /\ call[c] = NoCall),
             UNCHANGED <<todo, wire, current, alive>>, call[c].is # "served"
      PROVE  TurnAmong(c, UploadNames, UploadCalls)
  BY <1>e, EndsTurn, NoneOK DEF TurnAmong
<1>u. /\ opened \in Seq(Chooser) /\ choosers \in Seq(DOMAIN opened)
      /\ DOMAIN opened = 1..Len(opened) /\ DOMAIN choosers = 1..Len(choosers)
  BY DEF UploadsTypeOK, Chooser
<1>1. CASE SetsMode(c)
  <2> DEFINE r == [Idle EXCEPT !.name = "mode", !.at = "switch"]
             k == Sent("mode", current, 0)
  <2>1. r \in Tool /\ r.name = "mode" /\ r.at = "switch"
    BY DEF Tool, Idle, UploadNames
  <2>2. k \in Call /\ Whole(k) /\ k.is # "served" /\ k.does = "mode" /\ k.arg = 0
    <3>1. 0 \in Nat \cup Ids /\ "mode" \in NetCalls \cup CastCalls \cup UploadCalls /\ current \in Tabs \cup {None}
      BY <1>0 DEF UploadCalls
    <3> QED
      BY <3>1, SentOK
  <2>3. Begins(c, "mode", r) /\ call' = [call EXCEPT ![c] = k] /\ UNCHANGED <<wire, current, alive>>
    BY <1>1 DEF SetsMode, Sends, Sent
  <2> HIDE DEF r, k
  <2>4. Fits(r, k)
    BY <2>1, <2>2 DEF Fits
  <2>5. Turn(c, r, k) /\ tool[c].name = "none" /\ call[c] = NoCall
    BY <2>1, <2>2, <2>3, <2>4, BeginsTurn
  <2> QED
    BY <2>1, <2>2, <2>5, NoneOK DEF TurnAmong, UploadNames, UploadCalls
<1>2. CASE ModeSet(c) \/ Fed(c)
  <2>1. /\ tool[c].name \in UploadNames /\ call[c].does \in UploadCalls \cup {"none"} /\ call[c].is # "served"
    BY <1>0, <1>2 DEF ModeSet, Fed, Runs, At, Fits, UploadNames, UploadCalls, Answered
  <2>2. UNCHANGED <<todo, wire, current, alive>> /\ Quiet(c) /\ tool' = [tool EXCEPT ![c] = Idle]
    BY <1>2 DEF ModeSet, Fed, Ends
  <2> QED
    BY <1>e, <2>1, <2>2
<1>3. CASE UploadBegins(c)
  <2> DEFINE r == [Idle EXCEPT !.name = "upload", !.at = "look", !.tab = current]
  <2>1. r \in Tool /\ r.name = "upload" /\ Fits(r, NoCall)
    BY <1>0 DEF Tool, Idle, Fits, UploadNames
  <2>2. Begins(c, "upload", r) /\ call' = call /\ UNCHANGED <<wire, current, alive>>
    BY <1>3 DEF UploadBegins
  <2> HIDE DEF r
  <2>3. call[c] = NoCall
    BY <2>2, Caller DEF Begins, LeftBehind, Fits
  <2>4. Turn(c, r, NoCall) /\ tool[c].name = "none"
    BY <2>1, <2>2, <2>3, BeginsTurn, CallStays, NoneOK
  <2> QED
    BY <2>1, <2>3, <2>4, NoneOK DEF TurnAmong, UploadNames
<1>4. ASSUME Scans(c) \/ Waits(c)
      PROVE  tool[c].name = "upload" /\ call[c] = NoCall /\ call[c].is = "none" /\ call[c].does = "none"
  BY <1>0, <1>4, NoneOK DEF Scans, Waits, Runs, At, Fits
<1>5. CASE Feeds(c)
  <2>1. /\ tool[c].name = "upload" /\ call[c] = NoCall /\ call[c].is = "none" /\ call[c].does = "none"
        /\ UNCHANGED <<todo, wire, current, alive>>
    BY <1>4, <1>5 DEF Feeds
  <2>2. CASE Ends(c) /\ call' = call
    BY <1>e, <2>1, <2>2 DEF Ends, UploadNames
  <2>3. ASSUME NEW n \in DOMAIN opened,
               /\ Goes(c, [tool[c] EXCEPT !.at = "feed", !.item = n, !.woken = FALSE])
               /\ Sends(c, "setfiles", opened[n].tab, n)
        PROVE  TurnAmong(c, UploadNames, UploadCalls)
    <3> DEFINE r == [tool[c] EXCEPT !.at = "feed", !.item = n, !.woken = FALSE]
               k == Sent("setfiles", opened[n].tab, n)
    <3>0. n \in Nat /\ opened[n].tab \in Tabs
      <4>1. opened[n] \in Chooser /\ n \in Nat
        BY <1>u
      <4> QED
        BY <4>1 DEF Chooser
    <3>1. r \in Tool /\ r.name = "upload" /\ r.at = "feed" /\ r.item = n /\ tool' = [tool EXCEPT ![c] = r]
      BY <1>0, <2>1, <2>3, <3>0 DEF Tool, Goes
    <3>2. call' = [call EXCEPT ![c] = k]
      BY <2>3 DEF Sends, Sent
    <3>3. k \in Call /\ Whole(k) /\ k.is # "served" /\ k.does = "setfiles" /\ k.arg = n
      <4>1. n \in Nat \cup Ids /\ "setfiles" \in NetCalls \cup CastCalls \cup UploadCalls /\ opened[n].tab \in Tabs \cup {None}
        BY <3>0 DEF UploadCalls
      <4> QED
        BY <4>1, SentOK
    <3> HIDE DEF r, k
    <3>4. Fits(r, k)
      BY <3>1, <3>3 DEF Fits
    <3> QED
      BY <2>1, <3>1, <3>2, <3>3, <3>4, GoesOn, NoneOK DEF TurnAmong, UploadNames, UploadCalls
  <2>4. PICK i \in OwnChoosers(c) : i = CHOOSE j \in OwnChoosers(c) : \A k \in OwnChoosers(c) : j <= k
    <3>1. OwnChoosers(c) \in SUBSET Nat /\ OwnChoosers(c) # {}
      <4>1. OwnChoosers(c) \subseteq DOMAIN choosers /\ DOMAIN choosers \subseteq Nat
        BY <1>u DEF OwnChoosers
      <4>2. OwnChoosers(c) # {}
        BY <1>5 DEF Feeds
      <4> QED
        BY <4>1, <4>2
    <3>2. \E j \in OwnChoosers(c) : \A k \in OwnChoosers(c) : j <= k
      BY <3>1, MinOfNaturals
    <3> QED
      BY <3>2
  <2>5. choosers[i] \in DOMAIN opened
    BY <1>u DEF OwnChoosers
  <2> QED
    BY <1>5, <2>2, <2>3, <2>4, <2>5 DEF Feeds
<1>6. CASE Sleeps(c)
  <2>1. /\ tool[c].name = "upload" /\ call[c] = NoCall /\ call[c].is = "none" /\ call[c].does = "none"
        /\ UNCHANGED <<todo, wire, current, alive, call>>
    BY <1>4, <1>6 DEF Sleeps
  <2> DEFINE r == [tool[c] EXCEPT !.at = "sleep", !.woken = FALSE]
  <2>2. r \in Tool /\ r.name = "upload" /\ Fits(r, NoCall) /\ tool' = [tool EXCEPT ![c] = r]
    BY <1>0, <1>6, <2>1 DEF Tool, Fits, Sleeps, Goes
  <2> HIDE DEF r
  <2> QED
    BY <2>1, <2>2, GoesOn, CallStays, NoneOK DEF TurnAmong, UploadNames
<1>7. CASE UploadTimesOut(c)
  <2>1. /\ tool[c].name = "upload" /\ call[c] = NoCall /\ call[c].is = "none" /\ call[c].does = "none"
        /\ UNCHANGED <<todo, wire, current, alive, call>> /\ tool' = [tool EXCEPT ![c] = Idle]
    BY <1>4, <1>7 DEF UploadTimesOut, Ends
  <2> QED
    BY <1>e, <2>1 DEF UploadNames
<1> QED
  BY <1>1, <1>2, <1>3, <1>5, <1>6, <1>7 DEF UploadStep

Request == [tab : Tabs, id : Ids, claims : Nat, is : {"paused", "free", "decided"}]
Seen == [n : Nat, paused : BOOLEAN, at : Nat]

\* What is known of the requests, one by one.
LEMMA Requests ==
    ASSUME RoutesTypeOK
    PROVE  /\ reqs \in Seq(Request) /\ DOMAIN reqs = 1..Len(reqs) /\ Len(reqs) \in Nat
           /\ \A n \in DOMAIN reqs : n \in Nat /\ reqs[n] \in Request
           /\ window \in Seq(Seen) /\ DOMAIN window = 1..Len(window) /\ Len(window) \in Nat
           /\ \A i \in DOMAIN window : i \in Nat /\ window[i] \in Seen /\ window[i].n \in DOMAIN reqs
<1>1. reqs \in Seq(Request) /\ DOMAIN reqs = 1..Len(reqs) /\ Len(reqs) \in Nat
  BY DEF RoutesTypeOK, Request
<1>2. \A n \in DOMAIN reqs : n \in Nat /\ reqs[n] \in Request
  BY <1>1
<1> DEFINE S == [n : DOMAIN reqs, paused : BOOLEAN, at : Nat]
<1>3. window \in Seq(S)
  BY DEF RoutesTypeOK
<1>4. \A x \in S : x \in Seen /\ x.n \in DOMAIN reqs
  BY <1>1 DEF Seen
<1> HIDE DEF S
<1>5. DOMAIN window = 1..Len(window) /\ Len(window) \in Nat /\ \A i \in DOMAIN window : i \in Nat /\ window[i] \in S
  BY <1>3
<1>6. window \in Seq(Seen)
  BY <1>3, <1>4, <1>5
<1> QED
  BY <1>1, <1>2, <1>4, <1>5, <1>6

\* The tools of routes and of interception; a mode call may end here as well.
OnPage == RouteNames \cup {"mode"}
OnWire == NetCalls \cup {"mode"}

LEMMA RouteTurns ==
    ASSUME WireOK, RoutesTypeOK, NEW c \in Callers, RouteStep(c), ~NetServes(c)
    PROVE  TurnAmong(c, OnPage, OnWire)
<1>0. /\ tool[c] \in Tool /\ call[c] \in Call /\ Whole(call[c])
      /\ tool[c].at # "none" => Fits(tool[c], call[c])
      /\ tool[c].name # "none" => Fits(tool[c], call[c])
      /\ current \in Tabs /\ clock \in Nat
  BY Caller DEF LeftBehind, Idle, RoutesTypeOK
<1>n. \A n \in DOMAIN reqs : n \in Nat /\ reqs[n].id \in Ids /\ reqs[n].tab \in Tabs
  BY Requests DEF Request
<1>s. ASSUME NEW does \in NetCalls, NEW t \in Tabs, NEW arg \in Nat \cup Ids
      PROVE  /\ Sent(does, t, arg) \in Call /\ Whole(Sent(does, t, arg)) /\ Sent(does, t, arg).is # "served"
             /\ Sent(does, t, arg).does = does /\ Sent(does, t, arg).tab = t /\ Sent(does, t, arg).arg = arg
  BY SentOK
<1>e. ASSUME tool[c].name \in OnPage, call[c].does \in OnWire \cup {"none"},
             tool' = [tool EXCEPT ![c] = Idle], Quiet(c),
             UNCHANGED <<todo, wire, current, alive>>, call[c].is # "served"
      PROVE  TurnAmong(c, OnPage, OnWire)
  BY <1>e, EndsTurn, NoneOK DEF TurnAmong
<1>b. ASSUME NEW name \in RouteNames, NEW r \in Tool, NEW does \in NetCalls, NEW t \in Tabs, NEW arg \in Nat \cup Ids,
             r.name = name, Begins(c, name, r), Sends(c, does, t, arg),
             UNCHANGED <<wire, current, alive>>, Fits(r, Sent(does, t, arg))
      PROVE  TurnAmong(c, OnPage, OnWire)
  <2> DEFINE k == Sent(does, t, arg)
  <2>1. k \in Call /\ Whole(k) /\ k.is # "served" /\ k.does = does
    BY <1>s
  <2>2. call' = [call EXCEPT ![c] = k] /\ Fits(r, k)
    BY <1>b DEF Sends, Sent
  <2> HIDE DEF k
  <2>3. Turn(c, r, k) /\ tool[c].name = "none" /\ call[c] = NoCall
    BY <1>b, <2>1, <2>2, BeginsTurn
  <2> QED
    BY <1>b, <2>1, <2>3, NoneOK DEF TurnAmong, OnPage, OnWire
<1>g. ASSUME NEW r \in Tool, NEW does \in NetCalls, NEW t \in Tabs, NEW arg \in Nat \cup Ids,
             r.name = "route", tool[c].name = "route", tool' = [tool EXCEPT ![c] = r], Sends(c, does, t, arg),
             UNCHANGED <<todo, wire, current, alive>>, Fits(r, Sent(does, t, arg)),
             call[c].is # "served", call[c].does \in NetCalls \cup {"none"}
      PROVE  TurnAmong(c, OnPage, OnWire)
  <2> DEFINE k == Sent(does, t, arg)
  <2>1. k \in Call /\ Whole(k) /\ k.is # "served" /\ k.does = does
    BY <1>s
  <2>2. call' = [call EXCEPT ![c] = k] /\ Fits(r, k)
    BY <1>g DEF Sends, Sent
  <2> HIDE DEF k
  <2> QED
    BY <1>g, <2>1, <2>2, GoesOn DEF TurnAmong, OnPage, OnWire, RouteNames
<1>1. CASE RouteBegins(c)
  <2> DEFINE r == [Idle EXCEPT !.name = "route", !.at = "enable", !.tab = current, !.since = clock]
  <2>1. r \in Tool /\ r.name = "route" /\ r.at = "enable" /\ r.tab = current
    BY <1>0 DEF Tool, Idle, RouteNames
  <2>2. Begins(c, "route", r) /\ Sends(c, "pause", current, 0) /\ UNCHANGED <<wire, current, alive>>
    BY <1>1 DEF RouteBegins
  <2> HIDE DEF r
  <2>3. Fits(r, Sent("pause", current, 0)) /\ "pause" \in NetCalls /\ "route" \in RouteNames /\ 0 \in Nat \cup Ids
    BY <1>0, <2>1 DEF Fits, Sent, NetCalls, RouteNames
  <2> QED
    BY <1>0, <1>b, <2>1, <2>2, <2>3
<1>2. CASE RouteEnabled(c) \/ RouteEnds(c) \/ Switched(c)
  <2>1. /\ tool[c].name \in OnPage /\ call[c].does \in OnWire /\ call[c].is # "served" /\ Quiet(c)
        /\ UNCHANGED <<todo, wire, current, alive>>
    BY <1>0, <1>2 DEF RouteEnabled, RouteEnds, Switched, Runs, At, Fits, Answered, OnPage, OnWire, NetCalls, RouteNames
  <2>2. CASE Ends(c)
    BY <1>e, <2>1, <2>2 DEF Ends
  <2>3. CASE RouteEnabled(c) /\ Goes(c, [tool[c] EXCEPT !.at = "wait"])
    <3> DEFINE r == [tool[c] EXCEPT !.at = "wait"]
    <3>0. tool[c].name = "route" /\ tool[c].tab \in Tabs
      BY <1>0, <2>3 DEF RouteEnabled, Runs, Fits
    <3>1. r \in Tool /\ r.name = "route" /\ r.tab \in Tabs /\ r.at = "wait" /\ tool' = [tool EXCEPT ![c] = r]
      BY <1>0, <2>3, <3>0 DEF Tool, Goes
    <3> HIDE DEF r
    <3>2. Fits(r, NoCall) /\ call' = [call EXCEPT ![c] = NoCall]
      BY <2>1, <3>1 DEF Fits, Quiet
    <3> QED
      BY <2>1, <3>1, <3>2, GoesOn, NoneOK DEF TurnAmong, OnPage, OnWire, RouteNames
  <2> QED
    BY <1>2, <2>2, <2>3 DEF RouteEnabled, RouteEnds, Switched
<1>3. CASE RouteClaims(c)
  <2>0. tool[c].name = "route" /\ tool[c].tab \in Tabs /\ call[c] = NoCall /\ UNCHANGED <<todo, wire, current, alive>>
    BY <1>0, <1>3 DEF RouteClaims, Runs, At, Fits
  <2>1. PICK n \in DOMAIN reqs : /\ Goes(c, [tool[c] EXCEPT !.at = "decide", !.item = n])
                                 /\ Sends(c, "decide", tool[c].tab, reqs[n].id)
    <3>1. Fresh(c) \in SUBSET Nat /\ Fresh(c) # {}
      BY <1>3, Requests DEF RouteClaims, Fresh
    <3>2. Min(Fresh(c)) \in Fresh(c)
      BY <3>1, MinOfNaturals
    <3>3. window[Min(Fresh(c))].n \in DOMAIN reqs
      BY <3>2, Requests DEF Fresh
    <3> QED
      BY <1>3, <3>3 DEF RouteClaims
  <2> DEFINE r == [tool[c] EXCEPT !.at = "decide", !.item = n]
  <2>2. r \in Tool /\ r.name = "route" /\ r.tab \in Tabs /\ r.at = "decide" /\ tool' = [tool EXCEPT ![c] = r]
    BY <1>0, <1>n, <2>0, <2>1 DEF Tool, Goes
  <2> HIDE DEF r
  <2>3. Fits(r, Sent("decide", tool[c].tab, reqs[n].id)) /\ "decide" \in NetCalls
    BY <2>2 DEF Fits, Sent, NetCalls
  <2> QED
    BY <1>n, <1>g, <2>0, <2>1, <2>2, <2>3, NoneOK
<1>4. CASE RouteTimesOut(c) \/ RouteDecided(c)
  <2>0. /\ tool[c].name = "route" /\ tool[c].tab \in Tabs /\ call[c].is # "served"
        /\ call[c].does \in NetCalls \cup {"none"} /\ Disables(c) /\ UNCHANGED <<todo, wire, current, alive>>
    BY <1>0, <1>4, NoneOK DEF RouteTimesOut, RouteDecided, Runs, At, Fits, Answered, NetCalls
  <2> DEFINE r == [tool[c] EXCEPT !.at = "disable"]
  <2>2. /\ r \in Tool /\ r.name = "route" /\ r.tab = tool[c].tab /\ r.at = "disable" /\ tool' = [tool EXCEPT ![c] = r]
        /\ Sends(c, "unpause", tool[c].tab, 0)
    BY <1>0, <2>0 DEF Tool, Goes, Disables
  <2> HIDE DEF r
  <2>3. Fits(r, Sent("unpause", tool[c].tab, 0)) /\ "unpause" \in NetCalls /\ 0 \in Nat \cup Ids
    BY <2>0, <2>2 DEF Fits, Sent, NetCalls
  <2> QED
    BY <1>g, <2>0, <2>2, <2>3
<1>5. CASE RouteCancelled(c)
  <2>0. /\ tool[c].name = "route" /\ call[c].does \in NetCalls \cup {"none"} /\ UNCHANGED <<call, wire, current, alive>>
        /\ tool' = [tool EXCEPT ![c] = Idle] /\ todo' = [todo EXCEPT ![c] = <<>>]
    BY <1>0, <1>5, NoneOK DEF RouteCancelled, Runs, Fits, Ends, NetCalls
  <2>1. todo'[c] = <<>> /\ DOMAIN todo' = Callers /\ \A d \in Callers \ {c} : todo'[d] = todo[d]
    BY <2>0, Caller
  <2>2. call[c] = NoCall \/ call[c].does \in NetCalls
    BY <1>0, <2>0, NoneOK DEF Whole
  <2>3. CallerOK(Idle, call[c], todo'[c])
    BY <1>0, <2>1, <2>2, NoneOK DEF CallerOK, LeftBehind
  <2>4. Turn(c, Idle, call[c])
    BY <2>0, <2>1, <2>3, WokenTurns, CallStays DEF Turn
  <2> QED
    BY <2>0, <2>4, NoneOK DEF TurnAmong, OnPage, OnWire, RouteNames
<1>6. CASE Intercepts(c)
  <2> DEFINE r(name) == [Idle EXCEPT !.name = name, !.at = "switch", !.tab = current]
  <2>1. \A name \in {"intercept", "unintercept"} : r(name) \in Tool /\ r(name).name = name /\ r(name).at = "switch"
    BY <1>0 DEF Tool, Idle, RouteNames
  <2>2. /\ UNCHANGED <<wire, current, alive>>
        /\ \/ Begins(c, "intercept", r("intercept")) /\ Sends(c, "pause", current, 0)
           \/ Begins(c, "unintercept", r("unintercept")) /\ Sends(c, "unpause", current, 0)
    BY <1>6 DEF Intercepts
  <2> HIDE DEF r
  <2>3. /\ Fits(r("intercept"), Sent("pause", current, 0)) /\ "pause" \in NetCalls /\ "intercept" \in RouteNames
        /\ Fits(r("unintercept"), Sent("unpause", current, 0)) /\ "unpause" \in NetCalls /\ "unintercept" \in RouteNames
        /\ 0 \in Nat \cup Ids
    BY <2>1 DEF Fits, Sent, NetCalls, RouteNames
  <2> QED
    BY <1>0, <1>b, <2>1, <2>2, <2>3
<1>7. CASE DecideBegins(c)
  <2>1. PICK n \in listed :
           LET t == Owner(reqs[n].id)
               r == [Idle EXCEPT !.name = "continue", !.at = "switch", !.tab = t, !.item = n]
           IN  IF t = None THEN Begins(c, "continue", Idle) /\ UNCHANGED call
               ELSE Begins(c, "continue", r) /\ Sends(c, "decide", t, reqs[n].id)
    BY <1>7 DEF DecideBegins
  <2> DEFINE t == Owner(reqs[n].id)
             r == [Idle EXCEPT !.name = "continue", !.at = "switch", !.tab = t, !.item = n]
  <2>0. UNCHANGED <<wire, current, alive>>
    BY <1>7 DEF DecideBegins
  <2>2. n \in DOMAIN reqs /\ n \in Nat /\ reqs[n].id \in Ids
    BY <1>n DEF RoutesTypeOK
  <2>3. CASE t = None
    <3>1. Begins(c, "continue", Idle) /\ call' = call
      BY <2>1, <2>3
    <3>2. call[c] = NoCall
      BY <3>1, Caller DEF Begins, LeftBehind, Fits
    <3>3. Turn(c, Idle, NoCall) /\ tool[c].name = "none"
      BY <2>0, <3>1, <3>2, BeginsTurn, CallStays, NoneOK
    <3> QED
      BY <3>2, <3>3, NoneOK DEF TurnAmong
  <2>4. CASE t # None
    <3>1. t \in Tabs
      <4>1. Owners(reqs[n].id) \subseteq Tabs
        BY <1>n DEF Owners, RoutesTypeOK
      <4>2. Cardinality(Owners(reqs[n].id)) = 1 => Owners(reqs[n].id) # {}
        BY FS_EmptySet
      <4>3. Cardinality(Owners(reqs[n].id)) = 1 => (CHOOSE u \in Owners(reqs[n].id) : TRUE) \in Owners(reqs[n].id)
        BY <4>2
      <4> QED
        BY <1>0, <2>4, <4>1, <4>3 DEF Owner
    <3>2. r \in Tool /\ r.name = "continue" /\ r.at = "switch"
      <4> HIDE DEF t
      <4> QED
        BY <2>2, <3>1 DEF Tool, Idle, RouteNames
    <3>3. Begins(c, "continue", r) /\ Sends(c, "decide", t, reqs[n].id)
      BY <2>1, <2>4
    <3> HIDE DEF r, t
    <3>4. Fits(r, Sent("decide", t, reqs[n].id)) /\ "decide" \in NetCalls /\ "continue" \in RouteNames
      BY <3>2 DEF Fits, Sent, NetCalls, RouteNames
    <3> QED
      BY <1>b, <2>0, <2>2, <3>1, <3>2, <3>3, <3>4
  <2> QED
    BY <2>3, <2>4
<1> QED
  BY <1>1, <1>2, <1>3, <1>4, <1>5, <1>6, <1>7 DEF RouteStep

-----------------------------------------------------------------------------
(* The wire.                                                               *)

LEMMA LineKinds ==
    ASSUME NEW x \in AnyLine
    PROVE  /\ x.kind \in {"request", "reply", "frame", "chooser", "cleared", "context"}
           /\ x.kind = "request" => x.n \in Nat /\ x.paused \in BOOLEAN
           /\ x.kind = "reply" => x.to \in Callers /\ x.how \in {"ok", "error"}
           /\ x.kind = "frame" => x.tab \in Tabs /\ x.of \in Nat
           /\ x.kind = "chooser" => x.n \in Nat
           /\ x.kind = "cleared" => x.tab \in Tabs
           /\ x.kind = "context" => x.tab \in Tabs /\ x.doc \in Nat
BY DEF AnyLine

\* Lines are added at the end of the wire.
LEMMA WireGrows ==
    ASSUME WireOK, NEW lines \in Seq(AnyLine), Adds(lines)
    PROVE  /\ wire' \in Seq(AnyLine)
           /\ \A i \in DOMAIN wire : i \in DOMAIN wire' /\ wire'[i] = wire[i]
           /\ \A i \in DOMAIN wire' : \/ i \in DOMAIN wire
                                     \/ \E j \in DOMAIN lines : i = Len(wire) + j /\ wire'[i] = lines[j]
<1>1. wire \in Seq(AnyLine) /\ wire' = wire \o lines
  BY DEF WireOK, Adds
<1>2. /\ Len(wire) \in Nat /\ Len(lines) \in Nat /\ DOMAIN wire = 1..Len(wire) /\ DOMAIN lines = 1..Len(lines)
      /\ wire' \in Seq(AnyLine) /\ DOMAIN wire' = 1..(Len(wire) + Len(lines))
  BY <1>1
<1>3. \A i \in DOMAIN wire : i \in DOMAIN wire' /\ wire'[i] = wire[i]
  BY <1>1, <1>2
<1>4. ASSUME NEW i \in DOMAIN wire', i \notin DOMAIN wire
      PROVE  \E j \in DOMAIN lines : i = Len(wire) + j /\ wire'[i] = lines[j]
  <2>1. i - Len(wire) \in DOMAIN lines /\ i = Len(wire) + (i - Len(wire))
    BY <1>2, <1>4
  <2>2. wire'[i] = lines[i - Len(wire)]
    BY <1>1, <1>2, <1>4
  <2> QED
    BY <2>1, <2>2
<1> QED
  BY <1>2, <1>3, <1>4

\* The reader has taken the first line.
LEMMA WireShrinks ==
    ASSUME WireOK, wire # <<>>, wire' = Tail(wire)
    PROVE  /\ wire' \in Seq(AnyLine) /\ Head(wire) = wire[1] /\ 1 \in DOMAIN wire /\ wire[1] \in AnyLine
           /\ \A i \in DOMAIN wire' : i + 1 \in DOMAIN wire /\ i + 1 # 1 /\ wire'[i] = wire[i + 1] /\ i \in Nat
           /\ \A i \in DOMAIN wire \ {1} : i - 1 \in DOMAIN wire' /\ wire'[i - 1] = wire[i]
<1>1. wire \in Seq(AnyLine)
  BY DEF WireOK
<1>2. /\ Len(wire) \in Nat /\ Len(wire) >= 1 /\ DOMAIN wire = 1..Len(wire)
      /\ wire' \in Seq(AnyLine) /\ DOMAIN wire' = 1..(Len(wire) - 1) /\ Head(wire) = wire[1]
  BY <1>1
<1>3. \A i \in DOMAIN wire' : wire'[i] = wire[i + 1]
  BY <1>1, <1>2
<1>4. \A i \in DOMAIN wire' : i + 1 \in DOMAIN wire /\ i + 1 # 1 /\ i \in Nat
  BY <1>2
<1>5. 1 \in DOMAIN wire /\ wire[1] \in AnyLine
  BY <1>1, <1>2
<1>6. \A i \in DOMAIN wire \ {1} : i - 1 \in DOMAIN wire' /\ i = (i - 1) + 1
  BY <1>2
<1>7. \A i \in DOMAIN wire \ {1} : wire'[i - 1] = wire[i]
  BY <1>3, <1>6
<1> QED
  BY <1>2, <1>3, <1>4, <1>5, <1>6, <1>7

\* The browser answers the call of caller c.
Answers(c, how) ==
    /\ call[c].is = "sent" /\ Replies(c, how, <<>>)
    /\ UNCHANGED <<todo, tool, current, alive>>

\* The page tells of something.
Tells(lines) ==
    /\ Adds(lines) /\ \A i \in DOMAIN lines : lines[i].kind # "reply"
    /\ UNCHANGED <<todo, tool, call, current, alive>>

Reply(c, how) == [kind |-> "reply", to |-> c, how |-> how]

LEMMA AnswersSay ==
    ASSUME WireOK, NEW c \in Callers, NEW how \in {"ok", "error"}, Answers(c, how)
    PROVE  /\ wire' \in Seq(AnyLine)
           /\ \A i \in DOMAIN wire : i \in DOMAIN wire' /\ wire'[i] = wire[i]
           /\ \A i \in DOMAIN wire' : i \in DOMAIN wire \/ (i = Len(wire) + 1 /\ wire'[i] = Reply(c, how))
           /\ Len(wire) + 1 \in DOMAIN wire' /\ wire'[Len(wire) + 1] = Reply(c, how)
           /\ call' \in [Callers -> Call] /\ call'[c].is = "served"
           /\ call'[c].does = call[c].does /\ call'[c].tab = call[c].tab /\ call'[c].arg = call[c].arg
           /\ \A d \in Callers \ {c} : call'[d] = call[d]
<1> DEFINE lines == <<Reply(c, how)>>
<1>1. lines \in Seq(AnyLine) /\ DOMAIN lines = {1} /\ lines[1] = Reply(c, how)
  <2>1. Reply(c, how) \in AnyLine
    BY DEF Reply, AnyLine
  <2> QED
    BY <2>1
<1>2. <<>> \o lines = lines
  OBVIOUS
<1> HIDE DEF lines
<1>3. Adds(lines) /\ call' = [call EXCEPT ![c].is = "served"]
  BY <1>2 DEF Answers, Replies, Reply, lines
<1>4. call \in [Callers -> Call] /\ call[c] \in Call /\ wire \in Seq(AnyLine) /\ Len(wire) \in Nat
  BY DEF WireOK
<1> DEFINE k == [call[c] EXCEPT !.is = "served"]
<1>5. k \in Call /\ k.is = "served" /\ k.does = call[c].does /\ k.tab = call[c].tab /\ k.arg = call[c].arg
  BY <1>4 DEF Call
<1>6. call' = [call EXCEPT ![c] = k]
  BY <1>3
<1> HIDE DEF k
<1>7. call' \in [Callers -> Call] /\ call'[c] = k /\ \A d \in Callers \ {c} : call'[d] = call[d]
  BY <1>4, <1>5, <1>6
<1>8. Len(wire) + 1 \in DOMAIN wire' /\ wire'[Len(wire) + 1] = Reply(c, how)
  <2>1. wire' = wire \o lines /\ lines = <<Reply(c, how)>>
    BY <1>3 DEF Adds, lines
  <2> QED
    BY <1>4, <2>1
<1> QED
  BY <1>1, <1>3, <1>5, <1>7, <1>8, WireGrows

LEMMA AnswersKeep ==
    ASSUME WireOK, NEW c \in Callers, NEW how \in {"ok", "error"}, Answers(c, how) PROVE WireOK'
<1>0. call[c].is = "sent" /\ UNCHANGED <<todo, tool, current, alive>>
  BY DEF Answers
<1>1. ASSUME NEW d \in Callers PROVE CallerOK(tool'[d], call'[d], todo'[d])
  <2>0. /\ tool[d] \in Tool /\ (Fits(tool[d], call[d]) \/ LeftBehind(tool[d], call[d], todo[d]))
        /\ call'[d] \in Call /\ Whole(call[d]) /\ call[d] \in Call /\ CallerOK(tool[d], call[d], todo[d])
    BY Caller, AnswersSay DEF WireOK
  <2>1. CASE d = c
    <3>1. call[d] # NoCall /\ call'[d].does # "none" /\ call'[d].is = "served"
      BY <1>0, <2>0, <2>1, NoneOK, AnswersSay DEF Whole
    <3>2. Whole(call'[d])
      BY <3>1 DEF Whole
    <3>3. Fits(tool[d], call[d]) => Fits(tool[d], call'[d])
      BY <2>1, <3>1, AnswersSay DEF Fits
    <3>4. LeftBehind(tool[d], call[d], todo[d]) => LeftBehind(tool[d], call'[d], todo[d])
      BY <2>1, AnswersSay DEF LeftBehind
    <3> QED
      BY <1>0, <2>0, <3>2, <3>3, <3>4 DEF CallerOK
  <2>2. CASE d # c
    BY <1>0, <2>0, <2>2, AnswersSay
  <2> QED
    BY <2>1, <2>2
<1>2. OneReply'
  <2>1. \A i \in Lines("reply") : wire[i].to # c
    BY <1>0 DEF WireOK, OneReply
  <2>2. \A i \in Lines("reply")' : (i \in Lines("reply") /\ wire'[i] = wire[i]) \/ (i = Len(wire) + 1 /\ wire'[i] = Reply(c, how))
    BY AnswersSay DEF Lines
  <2>3. Reply(c, how).to = c
    BY DEF Reply
  <2>4. ASSUME NEW i \in Lines("reply")' PROVE wire'[i].to \in Callers /\ call'[wire'[i].to].is = "served"
    <3>1. CASE i \in Lines("reply") /\ wire'[i] = wire[i]
      BY <2>1, <3>1, AnswersSay DEF WireOK, OneReply
    <3>2. CASE wire'[i] = Reply(c, how)
      BY <2>3, <3>2, AnswersSay
    <3> QED
      BY <2>2, <3>1, <3>2
  <2>5. ASSUME NEW i \in Lines("reply")', NEW j \in Lines("reply")', wire'[i].to = wire'[j].to PROVE i = j
    BY <2>1, <2>2, <2>3, <2>5 DEF WireOK, OneReply
  <2> QED
    BY <2>4, <2>5 DEF OneReply
<1> QED
  BY <1>0, <1>1, <1>2, AnswersSay DEF WireOK

LEMMA TellsKeep ==
    ASSUME WireOK, NEW lines \in Seq(AnyLine), Tells(lines) PROVE WireOK'
<1>1. \A i \in Lines("reply")' : i \in Lines("reply") /\ wire'[i] = wire[i]
  <2>1. \A i \in DOMAIN wire' : (i \in DOMAIN wire /\ wire'[i] = wire[i]) \/ wire'[i].kind # "reply"
    BY WireGrows DEF Tells
  <2> QED
    BY <2>1 DEF Lines
<1>2. OneReply'
  BY <1>1 DEF WireOK, OneReply, Tells
<1> QED
  BY <1>2, WireGrows DEF WireOK, Tells

\* What the reader does to the callers.
LEMMA ReadsSay ==
    ASSUME WireOK, Reads
    PROVE  /\ wire # <<>> /\ wire' = Tail(wire) /\ wire[1] \in AnyLine /\ alive /\ UNCHANGED <<todo, current, alive>>
           /\ tool' = [d \in Callers |-> tool'[d]] /\ \A d \in Callers : Awake(tool[d], tool'[d])
           /\ call' = IF wire[1].kind = "reply" THEN [call EXCEPT ![wire[1].to].is = wire[1].how] ELSE call
           /\ wire[1].kind = "reply" => /\ wire[1].to \in Callers /\ call[wire[1].to].is = "served"
                                        /\ wire[1].how \in {"ok", "error"}
           /\ \A d \in Callers : call'[d] = call[d] \/ (wire[1].kind = "reply" /\ d = wire[1].to)
<1>1. wire # <<>> /\ wire' = Tail(wire) /\ alive /\ UNCHANGED <<todo, current, alive>> /\ TakeReply(Head(wire))
  BY DEF Reads
<1>2. Head(wire) = wire[1] /\ wire[1] \in AnyLine /\ 1 \in DOMAIN wire
  BY <1>1, WireShrinks
<1>3. tool' = tool \/ tool' = Woken(tool) \/ tool' = Roused
  BY DEF Reads, TrackFrame, TrackChooser
<1>4. tool' = [d \in Callers |-> tool'[d]] /\ \A d \in Callers : Awake(tool[d], tool'[d])
  <2>1. CASE tool' = tool
    BY <2>1 DEF WireOK, Awake
  <2>2. CASE tool' = Woken(tool)
    BY <2>2 DEF Woken, Awake
  <2>3. CASE tool' = Roused
    BY <2>3 DEF Roused, Awake, Waits, At, Runs
  <2> QED
    BY <1>3, <2>1, <2>2, <2>3
<1>5. wire[1].kind = "reply" => /\ wire[1].to \in Callers /\ call[wire[1].to].is = "served"
                                /\ wire[1].how \in {"ok", "error"}
  BY <1>2, LineKinds DEF WireOK, OneReply, Lines
<1>6. call' = IF wire[1].kind = "reply" THEN [call EXCEPT ![wire[1].to].is = wire[1].how] ELSE call
  BY <1>1, <1>2, <1>5 DEF TakeReply
<1>7. \A d \in Callers : call'[d] = call[d] \/ (wire[1].kind = "reply" /\ d = wire[1].to)
  BY <1>5, <1>6 DEF WireOK
<1> QED
  BY <1>1, <1>2, <1>4, <1>5, <1>6, <1>7

\* The caller that has its answer.
LEMMA Answer ==
    ASSUME WireOK, Reads, wire[1].kind = "reply", NEW c \in Callers, c = wire[1].to
    PROVE  /\ call[c].is = "served" /\ call'[c] \in Call /\ call'[c].is = wire[1].how /\ call'[c].is \in {"ok", "error"}
           /\ call'[c].does = call[c].does /\ call'[c].tab = call[c].tab /\ call'[c].arg = call[c].arg
<1>1. call[c] \in Call /\ call \in [Callers -> Call] /\ wire[1].how \in {"ok", "error"} /\ call[c].is = "served"
  BY ReadsSay DEF WireOK
<1> DEFINE how == wire[1].how
           k == [call[c] EXCEPT !.is = how]
<1>2. k \in Call /\ k.is = how /\ k.does = call[c].does /\ k.tab = call[c].tab /\ k.arg = call[c].arg
  <2>1. how \in {"ok", "error"}
    BY <1>1
  <2> HIDE DEF how
  <2> QED
    BY <1>1, <2>1 DEF Call
<1>3. call' = [call EXCEPT ![c] = k]
  BY <1>1, ReadsSay
<1> HIDE DEF k
<1>4. call'[c] = k
  BY <1>1, <1>3
<1> QED
  BY <1>1, <1>2, <1>4

LEMMA ReadsKeep == ASSUME WireOK, Reads PROVE WireOK'
<1>1. ASSUME NEW d \in Callers PROVE CallerOK(tool'[d], call'[d], todo'[d])
  <2>0. CallerOK(tool[d], call[d], todo[d]) /\ todo' = todo /\ Awake(tool[d], tool'[d])
    BY ReadsSay DEF WireOK
  <2>1. CallerOK(tool[d], call'[d], todo[d])
    <3>1. CASE call'[d] = call[d]
      BY <2>0, <3>1
    <3>2. CASE wire[1].kind = "reply" /\ d = wire[1].to
      <4>1. call[d].does # "none" /\ call[d] # NoCall /\ call'[d].does # "none" /\ Whole(call'[d])
        BY <2>0, <3>2, Answer, NoneOK DEF Whole, CallerOK
      <4>2. Fits(tool[d], call[d]) => Fits(tool[d], call'[d])
        BY <3>2, <4>1, Answer DEF Fits
      <4>3. LeftBehind(tool[d], call[d], todo[d]) => LeftBehind(tool[d], call'[d], todo[d])
        BY <3>2, Answer DEF LeftBehind
      <4> QED
        BY <2>0, <3>2, <4>1, <4>2, <4>3, Answer DEF CallerOK
    <3> QED
      BY <3>1, <3>2, ReadsSay
  <2> QED
    BY <2>0, <2>1, AwakeFits
<1>2. tool' \in [Callers -> Tool] /\ call' \in [Callers -> Call]
  <2>1. \A d \in Callers : tool'[d] \in Tool /\ call'[d] \in Call
    BY <1>1 DEF CallerOK
  <2>2. tool' = [d \in Callers |-> tool'[d]] /\ DOMAIN call' = Callers /\ call' = [d \in Callers |-> call'[d]]
    BY ReadsSay DEF WireOK
  <2> QED
    BY <2>1, <2>2
<1>3. wire' \in Seq(AnyLine) /\ \A i \in DOMAIN wire' : i + 1 \in DOMAIN wire /\ i + 1 # 1 /\ wire'[i] = wire[i + 1] /\ i \in Nat
  BY ReadsSay, WireShrinks
<1>4. OneReply'
  <2>1. \A i \in Lines("reply")' : i + 1 \in Lines("reply") /\ i + 1 # 1 /\ wire'[i] = wire[i + 1] /\ i \in Nat
    BY <1>3 DEF Lines
  <2>2. 1 \in DOMAIN wire
    BY ReadsSay, WireShrinks
  <2>3. ASSUME NEW i \in Lines("reply")' PROVE wire'[i].to \in Callers /\ call'[wire'[i].to].is = "served"
    <3>1. wire[i + 1].to \in Callers /\ call[wire[i + 1].to].is = "served"
      BY <2>1 DEF WireOK, OneReply
    <3>2. ~(wire[1].kind = "reply" /\ wire[i + 1].to = wire[1].to)
      BY <2>1, <2>2 DEF WireOK, OneReply, Lines
    <3> QED
      BY <2>1, <3>1, <3>2, ReadsSay
  <2>4. ASSUME NEW i \in Lines("reply")', NEW j \in Lines("reply")', wire'[i].to = wire'[j].to PROVE i = j
    <3>1. i + 1 = j + 1 /\ i \in Nat /\ j \in Nat
      BY <2>1, <2>4 DEF WireOK, OneReply
    <3> QED
      BY <3>1
  <2> QED
    BY <2>3, <2>4 DEF OneReply
<1> QED
  BY <1>1, <1>2, <1>3, <1>4, ReadsSay DEF WireOK

LEMMA StopsSay ==
    ASSUME WireOK, EngineStops
    PROVE  /\ alive' = FALSE /\ wire' = <<>> /\ UNCHANGED <<todo, current>>
           /\ tool' = [d \in Callers |-> tool'[d]]
           /\ \A d \in Callers : tool'[d] = IF At(d, "sleep") THEN [tool[d] EXCEPT !.woken = TRUE] ELSE tool[d]
           /\ \A d \in Callers : Awake(tool[d], tool'[d])
           /\ call' \in [Callers -> Call]
           /\ \A d \in Callers : call'[d].is \notin {"sent", "served"} /\ call'[d].does = call[d].does
           /\ \A d \in Callers : CallerOK(tool[d], call'[d], todo[d])
<1>1. ASSUME NEW d \in Callers
      PROVE  /\ call'[d] \in Call /\ call'[d].is \notin {"sent", "served"} /\ call'[d].does = call[d].does
             /\ CallerOK(tool[d], call'[d], todo[d])
  <2>0. /\ call[d] \in Call /\ Whole(call[d]) /\ CallerOK(tool[d], call[d], todo[d])
        /\ call' = [e \in Callers |-> IF call[e].is \in {"sent", "served"} THEN [call[e] EXCEPT !.is = "error"] ELSE call[e]]
    BY Caller DEF EngineStops, WireOK
  <2>1. CASE call[d].is \notin {"sent", "served"}
    BY <2>0, <2>1
  <2>2. CASE call[d].is \in {"sent", "served"}
    <3>1. call'[d] = [call[d] EXCEPT !.is = "error"]
      BY <2>0, <2>2
    <3>2. /\ call'[d] \in Call /\ call'[d].is = "error" /\ call'[d].does = call[d].does
          /\ call'[d].tab = call[d].tab /\ call'[d].arg = call[d].arg
      BY <2>0, <3>1 DEF Call
    <3>3. call[d].does # "none" /\ call[d] # NoCall /\ Whole(call'[d])
      BY <2>0, <2>2, <3>2, NoneOK DEF Whole
    <3>4. Fits(tool[d], call[d]) => Fits(tool[d], call'[d])
      BY <3>2, <3>3 DEF Fits
    <3>5. LeftBehind(tool[d], call[d], todo[d]) => LeftBehind(tool[d], call'[d], todo[d])
      BY <3>2 DEF LeftBehind
    <3> QED
      BY <2>0, <3>2, <3>3, <3>4, <3>5 DEF CallerOK
  <2> QED
    BY <2>1, <2>2
<1>2. call' = [d \in Callers |-> call'[d]]
  BY DEF EngineStops
<1>3. ASSUME NEW d \in Callers
      PROVE  Awake(tool[d], tool'[d]) /\ tool'[d] = IF At(d, "sleep") THEN [tool[d] EXCEPT !.woken = TRUE] ELSE tool[d]
  <2>1. tool'[d] = IF At(d, "sleep") THEN [tool[d] EXCEPT !.woken = TRUE] ELSE tool[d]
    BY DEF EngineStops
  <2>2. At(d, "sleep") => tool[d].name \in {"frame", "fresh", "upload"}
    BY Caller DEF At, Fits
  <2> QED
    BY <2>1, <2>2 DEF Awake, At
<1> QED
  BY <1>1, <1>2, <1>3 DEF EngineStops

LEMMA StopsKeep == ASSUME WireOK, EngineStops PROVE WireOK'
<1>1. \A d \in Callers : CallerOK(tool'[d], call'[d], todo'[d])
  BY StopsSay, AwakeFits
<1>2. tool' \in [Callers -> Tool]
  BY <1>1, StopsSay DEF CallerOK
<1>3. wire' \in Seq(AnyLine) /\ OneReply'
  BY StopsSay DEF OneReply, Lines
<1> QED
  BY <1>1, <1>2, <1>3, StopsSay DEF WireOK

Types == RoutesTypeOK /\ CastTypeOK /\ UploadsTypeOK

LEMMA NetAnswers == ASSUME NEW c \in Callers, NetServes(c) PROVE \E how \in {"ok", "error"} : Answers(c, how)
BY DEF NetServes, Answers

LEMMA CastAnswers == ASSUME NEW c \in Callers, CastServes(c) PROVE \E how \in {"ok", "error"} : Answers(c, how)
BY DEF CastServes, Answers

LEMMA UploadAnswers == ASSUME NEW c \in Callers, UploadServes(c) PROVE \E how \in {"ok", "error"} : Answers(c, how)
BY DEF UploadServes, Answers

Stream == [id : Nat, flying : BOOLEAN]

\* What the pages put on the wire.
LEMMA PagesTell ==
    ASSUME Types, NEW t \in Tabs
    PROVE  /\ (\E id \in Ids : PageRequests(t, id)) => /\ Tells(<<[kind |-> "request", n |-> Len(reqs) + 1, paused |-> pausing[t]]>>)
                                     /\ <<[kind |-> "request", n |-> Len(reqs) + 1, paused |-> pausing[t]]>> \in Seq(AnyLine)
           /\ PagePaints(t) => /\ Tells(<<[kind |-> "frame", tab |-> t, of |-> stream[t].id]>>)
                               /\ <<[kind |-> "frame", tab |-> t, of |-> stream[t].id]>> \in Seq(AnyLine)
           /\ PageOpensChooser(t) => /\ Tells(<<[kind |-> "chooser", n |-> Len(opened) + 1]>>)
                                     /\ <<[kind |-> "chooser", n |-> Len(opened) + 1]>> \in Seq(AnyLine)
           /\ PageNavigates(t) =>
                 /\ Tells(<<[kind |-> "cleared", tab |-> t], [kind |-> "context", tab |-> t, doc |-> docs[t] + 1]>>)
                 /\ <<[kind |-> "cleared", tab |-> t], [kind |-> "context", tab |-> t, doc |-> docs[t] + 1]>> \in Seq(AnyLine)
<1>1. /\ Len(reqs) + 1 \in Nat /\ pausing[t] \in BOOLEAN /\ Len(opened) + 1 \in Nat /\ docs[t] + 1 \in Nat
      /\ stream[t] \in Stream
  BY SMTT(30) DEF Types, RoutesTypeOK, CastTypeOK, UploadsTypeOK, Stream
<1>2. /\ [kind |-> "request", n |-> Len(reqs) + 1, paused |-> pausing[t]] \in AnyLine
      /\ [kind |-> "frame", tab |-> t, of |-> stream[t].id] \in AnyLine
      /\ [kind |-> "chooser", n |-> Len(opened) + 1] \in AnyLine
      /\ [kind |-> "cleared", tab |-> t] \in AnyLine
      /\ [kind |-> "context", tab |-> t, doc |-> docs[t] + 1] \in AnyLine
  BY <1>1 DEF AnyLine, Stream
<1>a. ASSUME NEW x, x.kind # "reply", Adds(<<x>>), UNCHANGED <<todo, tool, call, current, alive>> PROVE Tells(<<x>>)
  BY <1>a DEF Tells
<1>b. ASSUME \E id \in Ids : PageRequests(t, id)
      PROVE  Tells(<<[kind |-> "request", n |-> Len(reqs) + 1, paused |-> pausing[t]]>>)
  <2> DEFINE x == [kind |-> "request", n |-> Len(reqs) + 1, paused |-> pausing[t]]
  <2>1. x.kind # "reply" /\ Adds(<<x>>) /\ UNCHANGED <<todo, tool, call, current, alive>>
    BY <1>b DEF PageRequests
  <2> HIDE DEF x
  <2>2. Tells(<<x>>)
    BY <1>a, <2>1
  <2> QED
    BY <2>2 DEF x
<1>c. ASSUME PagePaints(t) PROVE Tells(<<[kind |-> "frame", tab |-> t, of |-> stream[t].id]>>)
  <2> DEFINE x == [kind |-> "frame", tab |-> t, of |-> stream[t].id]
  <2>1. x.kind # "reply" /\ Adds(<<x>>) /\ UNCHANGED <<todo, tool, call, current, alive>>
    BY <1>c DEF PagePaints
  <2> HIDE DEF x
  <2>2. Tells(<<x>>)
    BY <1>a, <2>1
  <2> QED
    BY <2>2 DEF x
<1>d. ASSUME PageOpensChooser(t) PROVE Tells(<<[kind |-> "chooser", n |-> Len(opened) + 1]>>)
  <2> DEFINE x == [kind |-> "chooser", n |-> Len(opened) + 1]
  <2>1. x.kind # "reply" /\ Adds(<<x>>) /\ UNCHANGED <<todo, tool, call, current, alive>>
    BY <1>d DEF PageOpensChooser
  <2> HIDE DEF x
  <2>2. Tells(<<x>>)
    BY <1>a, <2>1
  <2> QED
    BY <2>2 DEF x
<1>4. ASSUME PageNavigates(t)
      PROVE  Tells(<<[kind |-> "cleared", tab |-> t], [kind |-> "context", tab |-> t, doc |-> docs[t] + 1]>>)
  <2> DEFINE a == [kind |-> "cleared", tab |-> t]
             b == [kind |-> "context", tab |-> t, doc |-> docs[t] + 1]
  <2>1. a.kind # "reply" /\ b.kind # "reply"
    OBVIOUS
  <2>2. Adds(<<a, b>>) /\ UNCHANGED <<todo, tool, call, current, alive>>
    BY <1>4 DEF PageNavigates
  <2> HIDE DEF a, b
  <2>3. \A i \in DOMAIN <<a, b>> : <<a, b>>[i] \in {a, b}
    OBVIOUS
  <2>4. Tells(<<a, b>>)
    BY <2>1, <2>2, <2>3 DEF Tells
  <2> QED
    BY <2>4 DEF a, b
<1> QED
  BY <1>2, <1>b, <1>c, <1>d, <1>4

LEMMA AmongKeeps == ASSUME WireOK, NEW c \in Callers, NEW names, NEW calls, TurnAmong(c, names, calls) PROVE WireOK'
BY TurnKeeps DEF TurnAmong

LEMMA WireStep == ASSUME WireOK, Types, [Next]_vars PROVE WireOK'
<1>1. ASSUME NEW c \in Callers, RouteStep(c) \/ CastStep(c) \/ UploadStep(c) PROVE WireOK'
  <2>1. CASE NetServes(c) \/ CastServes(c) \/ UploadServes(c)
    BY <2>1, NetAnswers, CastAnswers, UploadAnswers, AnswersKeep
  <2>2. CASE ~(NetServes(c) \/ CastServes(c) \/ UploadServes(c))
    BY <1>1, <2>2, RouteTurns, CastTurns, UploadTurns, AmongKeeps DEF Types
  <2> QED
    BY <2>1, <2>2
<1>2. ASSUME NEW t \in Tabs, (\E id \in Ids : PageRequests(t, id)) PROVE WireOK'
  BY <1>2, PagesTell, TellsKeep
<1>3. ASSUME NEW t \in Tabs, PagePaints(t) \/ PageOpensChooser(t) \/ PageNavigates(t) PROVE WireOK'
  BY <1>3, PagesTell, TellsKeep
<1>4. CASE Reads
  BY <1>4, ReadsKeep
<1>5. CASE EngineStops
  BY <1>5, StopsKeep
<1>6. CASE Switch
  BY <1>6 DEF Switch, WireOK, OneReply, Lines
<1>7. CASE UNCHANGED vars
  BY <1>7 DEF vars, wireVars, WireOK, OneReply, Lines
<1> QED
  BY <1>1, <1>2, <1>3, <1>4, <1>5, <1>6, <1>7 DEF Next

\* What is left on the wire of a kind of line after a step in which none was added.
Inherits(kind) ==
    \E f : /\ \A i \in Lines(kind)' : f[i] \in Lines(kind) /\ wire'[i] = wire[f[i]]
           /\ \A i, j \in Lines(kind)' : f[i] = f[j] => i = j

LEMMA SameWire == ASSUME NEW kind, wire' = wire PROVE Inherits(kind)
<1> DEFINE f == [i \in Lines(kind) |-> i]
<1>1. Lines(kind)' = Lines(kind)
  BY DEF Lines
<1>2. /\ \A i \in Lines(kind)' : f[i] \in Lines(kind) /\ wire'[i] = wire[f[i]]
      /\ \A i, j \in Lines(kind)' : f[i] = f[j] => i = j
  BY <1>1
<1> HIDE DEF f
<1> QED
  BY <1>2 DEF Inherits

LEMMA NoWire == ASSUME NEW kind, wire' = <<>> PROVE Lines(kind)' = {} /\ Inherits(kind)
BY DEF Inherits, Lines

\* No line of the kind is added.
LEMMA OldLines ==
    ASSUME NEW kind, \A i \in DOMAIN wire' : wire'[i].kind # kind \/ (i \in DOMAIN wire /\ wire'[i] = wire[i])
    PROVE  Inherits(kind)
<1> DEFINE f == [i \in Lines(kind)' |-> i]
<1>1. /\ \A i \in Lines(kind)' : f[i] \in Lines(kind) /\ wire'[i] = wire[f[i]]
      /\ \A i, j \in Lines(kind)' : f[i] = f[j] => i = j
  BY DEF Lines
<1> HIDE DEF f
<1> QED
  BY <1>1 DEF Inherits

LEMMA AnswersInherit ==
    ASSUME WireOK, NEW c \in Callers, NEW how \in {"ok", "error"}, Answers(c, how), NEW kind, kind # "reply"
    PROVE  Inherits(kind)
<1>1. Reply(c, how).kind # kind
  BY DEF Reply
<1> QED
  BY <1>1, AnswersSay, OldLines

LEMMA TellsInherit ==
    ASSUME WireOK, NEW lines \in Seq(AnyLine), Tells(lines), NEW kind, \A i \in DOMAIN lines : lines[i].kind # kind
    PROVE  Inherits(kind)
BY WireGrows, OldLines DEF Tells

LEMMA PagesInherit ==
    ASSUME WireOK, Types, NEW t \in Tabs, NEW kind,
           \/ (\E id \in Ids : PageRequests(t, id)) /\ kind # "request"
           \/ PagePaints(t) /\ kind # "frame"
           \/ PageOpensChooser(t) /\ kind # "chooser"
           \/ PageNavigates(t) /\ kind \notin {"cleared", "context"}
    PROVE  Inherits(kind)
<1>a. ASSUME NEW x, Tells(<<x>>), <<x>> \in Seq(AnyLine), x.kind # kind PROVE Inherits(kind)
  <2>1. \A i \in DOMAIN <<x>> : <<x>>[i].kind # kind
    BY <1>a
  <2> QED
    BY <1>a, <2>1, TellsInherit
<1>1. CASE (\E id \in Ids : PageRequests(t, id)) /\ kind # "request"
  <2> DEFINE x == [kind |-> "request", n |-> Len(reqs) + 1, paused |-> pausing[t]]
  <2>1. Tells(<<x>>) /\ <<x>> \in Seq(AnyLine) /\ x.kind # kind
    BY <1>1, PagesTell
  <2> HIDE DEF x
  <2> QED
    BY <1>a, <2>1
<1>2. CASE PagePaints(t) /\ kind # "frame"
  <2> DEFINE x == [kind |-> "frame", tab |-> t, of |-> stream[t].id]
  <2>1. Tells(<<x>>) /\ <<x>> \in Seq(AnyLine) /\ x.kind # kind
    BY <1>2, PagesTell
  <2> HIDE DEF x
  <2> QED
    BY <1>a, <2>1
<1>3. CASE PageOpensChooser(t) /\ kind # "chooser"
  <2> DEFINE x == [kind |-> "chooser", n |-> Len(opened) + 1]
  <2>1. Tells(<<x>>) /\ <<x>> \in Seq(AnyLine) /\ x.kind # kind
    BY <1>3, PagesTell
  <2> HIDE DEF x
  <2> QED
    BY <1>a, <2>1
<1>4. CASE PageNavigates(t) /\ kind \notin {"cleared", "context"}
  <2> DEFINE x == [kind |-> "cleared", tab |-> t]
             y == [kind |-> "context", tab |-> t, doc |-> docs[t] + 1]
  <2>1. Tells(<<x, y>>) /\ <<x, y>> \in Seq(AnyLine) /\ x.kind # kind /\ y.kind # kind
    BY <1>4, PagesTell
  <2> HIDE DEF x, y
  <2>2. \A i \in DOMAIN <<x, y>> : <<x, y>>[i].kind # kind
    BY <2>1
  <2> QED
    BY <2>1, <2>2, TellsInherit
<1> QED
  BY <1>1, <1>2, <1>3, <1>4

LEMMA ReadsInherit ==
    ASSUME WireOK, Reads, NEW kind
    PROVE  /\ Inherits(kind)
           /\ \A i \in Lines(kind)' : i \in Nat /\ i + 1 \in Lines(kind) \ {1} /\ wire'[i] = wire[i + 1]
           /\ \A i, j \in Lines(kind)' : i + 1 = j + 1 => i = j
           /\ 1 \in DOMAIN wire
<1> DEFINE f == [i \in Lines(kind)' |-> i + 1]
<1>1. 1 \in DOMAIN wire /\ \A i \in DOMAIN wire' : i + 1 \in DOMAIN wire /\ i + 1 # 1 /\ wire'[i] = wire[i + 1] /\ i \in Nat
  BY ReadsSay, WireShrinks
<1>2. /\ \A i \in Lines(kind)' : i \in Nat /\ i + 1 \in Lines(kind) \ {1} /\ wire'[i] = wire[i + 1]
      /\ \A i, j \in Lines(kind)' : i + 1 = j + 1 => i = j
  BY <1>1 DEF Lines
<1>3. /\ \A i \in Lines(kind)' : f[i] \in Lines(kind) /\ wire'[i] = wire[f[i]]
      /\ \A i, j \in Lines(kind)' : f[i] = f[j] => i = j
  BY <1>2
<1> HIDE DEF f
<1> QED
  BY <1>1, <1>2, <1>3 DEF Inherits

-----------------------------------------------------------------------------
(* Requests and routes.                                                    *)

\* Some of the requests are let go.
Marked(P, how) == [n \in DOMAIN reqs |-> IF n \in P THEN [reqs[n] EXCEPT !.is = how] ELSE reqs[n]]

LEMMA Marks ==
    ASSUME RoutesTypeOK, NEW P, NEW how \in {"free", "decided"}
    PROVE  /\ Marked(P, how) \in Seq(Request) /\ DOMAIN Marked(P, how) = DOMAIN reqs
           /\ \A n \in DOMAIN reqs : /\ Marked(P, how)[n].tab = reqs[n].tab /\ Marked(P, how)[n].id = reqs[n].id
                                     /\ Marked(P, how)[n].claims = reqs[n].claims
                                     /\ Marked(P, how)[n].is = IF n \in P THEN how ELSE reqs[n].is
<1>1. ASSUME NEW x \in Request, NEW y, y = [x EXCEPT !.is = how]
      PROVE  y \in Request /\ y.tab = x.tab /\ y.id = x.id /\ y.claims = x.claims /\ y.is = how
  BY <1>1 DEF Request
<1>2. ASSUME NEW n \in DOMAIN reqs
      PROVE  /\ Marked(P, how)[n] \in Request
             /\ Marked(P, how)[n].tab = reqs[n].tab /\ Marked(P, how)[n].id = reqs[n].id
             /\ Marked(P, how)[n].claims = reqs[n].claims
             /\ Marked(P, how)[n].is = IF n \in P THEN how ELSE reqs[n].is
  <2>1. Marked(P, how)[n] = IF n \in P THEN [reqs[n] EXCEPT !.is = how] ELSE reqs[n]
    BY DEF Marked
  <2> QED
    BY <1>1, <2>1, Requests
<1>3. DOMAIN Marked(P, how) = DOMAIN reqs /\ Marked(P, how) = [n \in DOMAIN reqs |-> Marked(P, how)[n]]
  BY DEF Marked
<1>4. DOMAIN reqs = 1..Len(reqs) /\ Len(reqs) \in Nat
  BY Requests
<1>5. Marked(P, how) \in Seq(Request)
  BY <1>2, <1>3, <1>4
<1> QED
  BY <1>2, <1>3, <1>5

\* The browser serves a call about interception.
LEMMA NetServed ==
    ASSUME WireOK, RoutesTypeOK, NEW c \in Callers, NetServes(c)
    PROVE  /\ reqs' \in Seq(Request) /\ DOMAIN reqs' = DOMAIN reqs /\ pausing' \in [Tabs -> BOOLEAN]
           /\ \A n \in DOMAIN reqs : /\ reqs'[n].tab = reqs[n].tab /\ reqs'[n].id = reqs[n].id
                                     /\ reqs'[n].claims = reqs[n].claims
                                     /\ reqs'[n].is = "paused" => reqs[n].is = "paused"
           /\ UNCHANGED <<window, routed, clock, listed, asked, lapsed>>
           /\ call[c].is = "sent" /\ call[c].does \in NetCalls
           /\ \E how \in {"ok", "error"} :
                 /\ Answers(c, how)
                 /\ \/ UNCHANGED <<pausing, reqs>> /\ how = "error"
                    \/ call[c].does = "pause" /\ pausing' = [pausing EXCEPT ![call[c].tab] = TRUE] /\ reqs' = reqs
                    \/ /\ call[c].does = "unpause" /\ pausing' = [pausing EXCEPT ![call[c].tab] = FALSE]
                       /\ \A n \in DOMAIN reqs : reqs[n].tab = call[c].tab => reqs'[n].is # "paused"
                    \/ call[c].does = "decide" /\ pausing' = pausing
<1>1. /\ call[c].is = "sent" /\ call[c].does \in NetCalls /\ UNCHANGED <<window, routed, clock, listed, asked, lapsed>>
      /\ pausing \in [Tabs -> BOOLEAN] /\ reqs \in Seq(Request)
  BY Requests DEF NetServes, RoutesTypeOK
<1>2. PICK how \in {"ok", "error"} : Answers(c, how) /\ (ServesNet(c) \/ (UNCHANGED <<pausing, reqs>> /\ how = "error"))
  BY DEF NetServes, Answers
<1>3. CASE UNCHANGED <<pausing, reqs>> /\ how = "error"
  BY <1>1, <1>2, <1>3
<1>4. CASE ServesNet(c) /\ call[c].does = "pause"
  <2>1. pausing' = [pausing EXCEPT ![call[c].tab] = TRUE] /\ reqs' = reqs
    BY <1>4 DEF ServesNet
  <2> QED
    BY <1>1, <1>2, <1>4, <2>1
<1>5. CASE ServesNet(c) /\ call[c].does = "unpause"
  <2>1. pausing' = [pausing EXCEPT ![call[c].tab] = FALSE] /\ reqs' = Marked(Paused(call[c].tab), "free")
    BY <1>5 DEF ServesNet, Marked
  <2>2. \A n \in DOMAIN reqs : reqs[n].tab = call[c].tab => reqs'[n].is # "paused"
    BY <2>1, Marks DEF Paused
  <2>3. /\ reqs' \in Seq(Request) /\ DOMAIN reqs' = DOMAIN reqs
        /\ \A n \in DOMAIN reqs : /\ reqs'[n].tab = reqs[n].tab /\ reqs'[n].id = reqs[n].id
                                  /\ reqs'[n].claims = reqs[n].claims
                                  /\ reqs'[n].is = "paused" => reqs[n].is = "paused"
    BY <2>1, Marks
  <2>4. pausing' \in [Tabs -> BOOLEAN]
    BY <1>1, <2>1
  <2> QED
    BY <1>1, <1>2, <1>5, <2>1, <2>2, <2>3, <2>4
<1>6. CASE ServesNet(c) /\ call[c].does = "decide"
  <2>1. pausing' = pausing /\ reqs' = Marked(Named(call[c].tab, call[c].arg), "decided")
    BY <1>6 DEF ServesNet, Marked
  <2>3. /\ reqs' \in Seq(Request) /\ DOMAIN reqs' = DOMAIN reqs
        /\ \A n \in DOMAIN reqs : /\ reqs'[n].tab = reqs[n].tab /\ reqs'[n].id = reqs[n].id
                                  /\ reqs'[n].claims = reqs[n].claims
                                  /\ reqs'[n].is = "paused" => reqs[n].is = "paused"
    BY <2>1, Marks
  <2> QED
    BY <1>1, <1>2, <1>6, <2>1, <2>3
<1> QED
  BY <1>1, <1>2, <1>3, <1>4, <1>5, <1>6 DEF NetCalls

\* A page makes a request.
LEMMA Requested ==
    ASSUME RoutesTypeOK, NEW t \in Tabs, NEW id \in Ids, PageRequests(t, id)
    PROVE  /\ reqs' \in Seq(Request) /\ DOMAIN reqs' = DOMAIN reqs \cup {Len(reqs) + 1} /\ Len(reqs) + 1 \notin DOMAIN reqs
           /\ \A n \in DOMAIN reqs : reqs'[n] = reqs[n]
           /\ reqs'[Len(reqs) + 1].claims = 0 /\ reqs'[Len(reqs) + 1].tab = t
           /\ reqs'[Len(reqs) + 1].is = "paused" => pausing[t]
           /\ UNCHANGED <<pausing, window, routed, clock, listed, asked, lapsed>>
<1> DEFINE r == [tab |-> t, id |-> id, claims |-> 0, is |-> IF pausing[t] THEN "paused" ELSE "free"]
<1>1. r \in Request /\ r.claims = 0 /\ r.tab = t /\ (r.is = "paused" => pausing[t])
  BY DEF Request
<1>2. reqs' = Append(reqs, r) /\ UNCHANGED <<pausing, window, routed, clock, listed, asked, lapsed>>
  BY DEF PageRequests
<1> HIDE DEF r
<1> QED
  BY <1>1, <1>2, Requests

RequestsOK ==
    /\ IsFiniteSet(routed)
    /\ \A i \in Lines("request") : /\ wire[i].n \in DOMAIN reqs /\ reqs[wire[i].n].claims = 0
                                   /\ \A j \in DOMAIN window : window[j].n # wire[i].n
    /\ \A i, j \in Lines("request") : wire[i].n = wire[j].n => i = j
    /\ \A j \in DOMAIN window : reqs[window[j].n].claims # 0 => reqs[window[j].n].id \in routed
    /\ RoutedOnce

LEMMA LastOfThem ==
    ASSUME NEW S, NEW s \in Seq(S)
    PROVE  /\ LastOnes(s) \in Seq(S) /\ Len(LastOnes(s)) <= Window
           /\ \A i \in DOMAIN LastOnes(s) : \E j \in DOMAIN s : LastOnes(s)[i] = s[j]
<1>0. Len(s) \in Nat /\ Window \in Nat /\ DOMAIN s = 1..Len(s)
  BY RoutesAssumption
<1>1. CASE Len(s) <= Window
  BY <1>0, <1>1 DEF LastOnes
<1>2. CASE Len(s) > Window
  <2> DEFINE m == Len(s) - Window + 1
             u == SubSeq(s, m, Len(s))
  <2>1. LastOnes(s) = u /\ m \in Nat /\ m >= 1 /\ m <= Len(s) + 1 /\ Len(s) - m + 1 = Window
    BY <1>0, <1>2 DEF LastOnes
  <2> HIDE DEF m
  <2>2. u \in Seq(S) /\ Len(u) = Window /\ DOMAIN u = 1..Window
    BY <1>0, <2>1
  <2>3. ASSUME NEW i \in DOMAIN u PROVE u[i] = s[m + i - 1] /\ m + i - 1 \in DOMAIN s
    BY <1>0, <2>1, <2>2
  <2> HIDE DEF u
  <2> QED
    BY <1>0, <2>1, <2>2, <2>3
<1> QED
  BY <1>0, <1>1, <1>2

LEMMA SeenAmong ==
    ASSUME NEW D \in SUBSET Nat, NEW w \in Seq(Seen), \A i \in DOMAIN w : w[i].n \in D
    PROVE  w \in Seq([n : D, paused : BOOLEAN, at : Nat])
<1>1. ASSUME NEW x \in Seen, x.n \in D PROVE x \in [n : D, paused : BOOLEAN, at : Nat]
  BY <1>1 DEF Seen
<1> DEFINE S == [n : D, paused : BOOLEAN, at : Nat]
<1>2. DOMAIN w = 1..Len(w) /\ Len(w) \in Nat /\ \A i \in DOMAIN w : w[i] \in S
  BY <1>1
<1> HIDE DEF S
<1>3. w \in Seq(S)
  BY <1>2
<1> QED
  BY <1>3 DEF S

\* The reader has seen a line.
LEMMA Listened ==
    ASSUME WireOK, RoutesTypeOK, Reads
    PROVE  /\ UNCHANGED <<pausing, reqs, routed, asked, lapsed>>
           /\ wire[1].kind # "request" => UNCHANGED <<window, clock, listed>>
           /\ wire[1].kind = "request" =>
                 /\ window' \in Seq(Seen) /\ Len(window') <= Window
                 /\ \A i \in DOMAIN window' : window'[i].n = wire[1].n \/ \E j \in DOMAIN window : window'[i].n = window[j].n
                 /\ clock' \in Nat /\ listed' = listed \cup {wire[1].n}
<1>1. wire[1] \in AnyLine /\ Head(wire) = wire[1] /\ TrackRequest(Head(wire)) /\ clock \in Nat
  BY ReadsSay, WireShrinks DEF Reads, RoutesTypeOK
<1>2. CASE wire[1].kind = "request"
  <2> DEFINE x == [n |-> wire[1].n, paused |-> wire[1].paused, at |-> clock]
             w == Append(window, x)
  <2>1. x \in Seen /\ x.n = wire[1].n
    BY <1>1, <1>2, LineKinds DEF Seen
  <2>2. window' = LastOnes(w) /\ clock' = clock + 1 /\ listed' = listed \cup {wire[1].n}
    BY <1>1, <1>2 DEF TrackRequest
  <2> HIDE DEF x
  <2>3. w \in Seq(Seen) /\ \A j \in DOMAIN w : w[j] = x \/ (j \in DOMAIN window /\ w[j] = window[j])
    BY <2>1, Requests
  <2> HIDE DEF w
  <2>4. /\ LastOnes(w) \in Seq(Seen) /\ Len(LastOnes(w)) <= Window
        /\ \A i \in DOMAIN LastOnes(w) : \E j \in DOMAIN w : LastOnes(w)[i] = w[j]
    BY <2>3, LastOfThem
  <2>5. \A i \in DOMAIN window' : window'[i].n = wire[1].n \/ \E j \in DOMAIN window : window'[i].n = window[j].n
    BY <2>1, <2>2, <2>3, <2>4
  <2> QED
    BY <1>1, <1>2, <2>2, <2>4, <2>5 DEF TrackRequest
<1>3. CASE wire[1].kind # "request"
  BY <1>1, <1>3 DEF TrackRequest
<1> QED
  BY <1>2, <1>3

\* A route takes a request.
LEMMA Claimed ==
    ASSUME WireOK, RoutesTypeOK, IsFiniteSet(routed), NEW c \in Callers, RouteClaims(c)
    PROVE  /\ wire' = wire /\ UNCHANGED <<pausing, clock, listed, asked, lapsed>>
           /\ reqs' \in Seq(Request) /\ DOMAIN reqs' = DOMAIN reqs
           /\ \A n \in DOMAIN reqs : reqs'[n].tab = reqs[n].tab /\ reqs'[n].id = reqs[n].id /\ reqs'[n].is = reqs[n].is
           /\ routed' \subseteq Ids /\ IsFiniteSet(routed') /\ Cardinality(routed') <= Window
           /\ \E i \in DOMAIN window :
                 /\ reqs[window[i].n].id \notin routed
                 /\ \A n \in DOMAIN reqs : reqs'[n].claims = IF n = window[i].n THEN reqs[n].claims + 1 ELSE reqs[n].claims
                 /\ window' = <<>> \/ (window' = window /\ routed' = routed \cup {reqs[window[i].n].id})
<1> DEFINE i == Min(Fresh(c))
           n == window[i].n
           ids == routed \cup {reqs[n].id}
<1>1. i \in Fresh(c)
  <2>1. Fresh(c) \in SUBSET Nat /\ Fresh(c) # {}
    BY Requests DEF RouteClaims, Fresh
  <2> QED
    BY <2>1, MinOfNaturals
<1>2. i \in DOMAIN window /\ n \in DOMAIN reqs /\ reqs[n].id \notin routed
  BY <1>1, Requests DEF Fresh
<1>3. /\ window' = Forget(window, ids).window /\ routed' = Forget(window, ids).ids
      /\ reqs' = [reqs EXCEPT ![n].claims = @ + 1]
      /\ wire' = wire /\ UNCHANGED <<pausing, clock, listed, asked, lapsed>>
  BY DEF RouteClaims
<1>4. reqs[n] \in Request /\ reqs \in Seq(Request) /\ routed \subseteq Ids
  BY <1>2, Requests DEF RoutesTypeOK
<1>5. ids \subseteq Ids /\ IsFiniteSet(ids)
  <2>1. reqs[n].id \in Ids
    BY <1>4 DEF Request
  <2> HIDE DEF n
  <2> QED
    BY <1>4, <2>1, FS_AddElement
<1> HIDE DEF i
<1>6. /\ routed' \subseteq Ids /\ IsFiniteSet(routed') /\ Cardinality(routed') <= Window
      /\ window' = <<>> \/ (window' = window /\ routed' = ids)
  <2> HIDE DEF ids
  <2>1. Cardinality(ids) \in Nat /\ Window \in Nat /\ Cardinality({}) = 0 /\ IsFiniteSet({})
    BY <1>5, RoutesAssumption, FS_CardinalityType, FS_EmptySet
  <2>2. CASE Cardinality(ids) > Window
    <3>1. window' = <<>> /\ routed' = {}
      BY <1>3, <2>2 DEF Forget
    <3> QED
      BY <2>1, <3>1
  <2>3. CASE ~(Cardinality(ids) > Window)
    <3>1. window' = window /\ routed' = ids
      BY <1>3, <2>3 DEF Forget
    <3> QED
      BY <1>5, <2>1, <2>3, <3>1
  <2> QED
    BY <2>2, <2>3
<1> DEFINE r == [reqs[n] EXCEPT !.claims = @ + 1]
<1>7. r \in Request /\ r.tab = reqs[n].tab /\ r.id = reqs[n].id /\ r.is = reqs[n].is /\ r.claims = reqs[n].claims + 1
  <2>1. ASSUME NEW x \in Request, NEW k \in Nat, k = x.claims + 1, NEW y, y = [x EXCEPT !.claims = k]
        PROVE  y \in Request /\ y.tab = x.tab /\ y.id = x.id /\ y.is = x.is /\ y.claims = k
    BY <2>1 DEF Request
  <2>2. reqs[n].claims + 1 \in Nat
    BY <1>4 DEF Request
  <2> HIDE DEF n
  <2> QED
    BY <1>4, <2>1, <2>2
<1>8. reqs' = [reqs EXCEPT ![n] = r]
  BY <1>3
<1> HIDE DEF r, n
<1>9. /\ reqs' \in Seq(Request) /\ DOMAIN reqs' = DOMAIN reqs
      /\ \A m \in DOMAIN reqs : reqs'[m] = IF m = n THEN r ELSE reqs[m]
  BY <1>2, <1>4, <1>7, <1>8
<1>10. /\ \A m \in DOMAIN reqs : /\ reqs'[m].tab = reqs[m].tab /\ reqs'[m].id = reqs[m].id /\ reqs'[m].is = reqs[m].is
                                 /\ reqs'[m].claims = IF m = n THEN reqs[m].claims + 1 ELSE reqs[m].claims
  BY <1>7, <1>9
<1> QED
  BY <1>2, <1>3, <1>6, <1>9, <1>10 DEF n

\* What a step of a route's own does to the notes about it.
LEMMA RoutesTyped == ASSUME WireOK, Types, RequestsOK, [Next]_vars PROVE RoutesTypeOK'
<1>0. RoutesTypeOK
  BY DEF Types
<1>u. ASSUME UNCHANGED routeVars PROVE RoutesTypeOK'
  BY <1>0, <1>u DEF RoutesTypeOK, routeVars
<1>l. ASSUME UNCHANGED <<pausing, reqs, window, routed, clock, listed>>, asked' \subseteq Tabs, lapsed' \subseteq Tabs
      PROVE  RoutesTypeOK'
  BY <1>0, <1>l DEF RoutesTypeOK
<1>w. ASSUME pausing' \in [Tabs -> BOOLEAN], reqs' \in Seq(Request), DOMAIN reqs \subseteq DOMAIN reqs',
             window' \in Seq(Seen), Len(window') <= Window, \A i \in DOMAIN window' : window'[i].n \in DOMAIN reqs',
             routed' \subseteq Ids, Cardinality(routed') <= Window, clock' \in Nat, listed' \subseteq DOMAIN reqs',
             UNCHANGED <<asked, lapsed>>
      PROVE  RoutesTypeOK'
  <2>1. DOMAIN reqs' \in SUBSET Nat
    BY <1>w
  <2>2. window' \in Seq([n : DOMAIN reqs', paused : BOOLEAN, at : Nat])
    BY <1>w, <2>1, SeenAmong
  <2> QED
    BY <1>0, <1>w, <2>2 DEF RoutesTypeOK, Request
<1>h. /\ pausing \in [Tabs -> BOOLEAN] /\ Len(window) <= Window /\ routed \subseteq Ids /\ Cardinality(routed) <= Window
      /\ clock \in Nat /\ listed \subseteq DOMAIN reqs /\ asked \subseteq Tabs /\ lapsed \subseteq Tabs
  BY <1>0 DEF RoutesTypeOK
<1>q. /\ reqs \in Seq(Request) /\ window \in Seq(Seen) /\ \A i \in DOMAIN window : window[i].n \in DOMAIN reqs
  BY <1>0, Requests
<1>1. ASSUME NEW c \in Callers, RouteStep(c) PROVE RoutesTypeOK'
  <2>1. CASE RouteBegins(c) \/ RouteTimesOut(c) \/ RouteDecided(c) \/ DecideBegins(c) \/ Switched(c)
    BY <1>u, <2>1 DEF RouteBegins, RouteTimesOut, RouteDecided, DecideBegins, Switched
  <2>2. CASE RouteEnabled(c) \/ RouteEnds(c) \/ RouteCancelled(c)
    <3>1. tool[c].tab \in Tabs
      BY <2>2, Caller DEF RouteEnabled, RouteEnds, RouteCancelled, Runs, Fits, LeftBehind, Idle
    <3>2. UNCHANGED <<pausing, reqs, window, routed, clock, listed, asked>> /\ lapsed' \subseteq lapsed \cup {tool[c].tab}
      BY <2>2 DEF RouteEnabled, RouteEnds, RouteCancelled, Lapses
    <3> QED
      BY <1>h, <1>l, <3>1, <3>2
  <2>3. CASE Intercepts(c)
    <3>1. current \in Tabs /\ UNCHANGED <<pausing, reqs, window, routed, clock, listed, lapsed>> /\ asked' \subseteq asked \cup {current}
      BY <2>3 DEF WireOK, Intercepts
    <3> QED
      BY <1>h, <1>l, <3>1
  <2>4. CASE RouteClaims(c)
    <3>1. IsFiniteSet(routed)
      BY DEF RequestsOK
    <3>2. /\ UNCHANGED <<pausing, clock, listed, asked, lapsed>> /\ reqs' \in Seq(Request) /\ DOMAIN reqs' = DOMAIN reqs
          /\ routed' \subseteq Ids /\ Cardinality(routed') <= Window /\ window' \in {<<>>, window}
      BY <1>0, <2>4, <3>1, Claimed
    <3>3. window' \in Seq(Seen) /\ Len(window') <= Window /\ \A i \in DOMAIN window' : window'[i].n \in DOMAIN reqs'
      <4>1. CASE window' = window
        BY <1>h, <1>q, <3>2, <4>1
      <4>2. CASE window' = <<>>
        <5>1. DOMAIN window' = {} /\ Len(window') = 0 /\ Window \in Nat
          BY <4>2, RoutesAssumption
        <5> QED
          BY <4>2, <5>1
      <4> QED
        BY <3>2, <4>1, <4>2
    <3> QED
      BY <1>h, <1>w, <3>2, <3>3
  <2>5. CASE NetServes(c)
    BY <1>0, <1>h, <1>q, <1>w, <2>5, NetServed
  <2> QED
    BY <1>1, <2>1, <2>2, <2>3, <2>4, <2>5 DEF RouteStep
<1>2. ASSUME NEW t \in Tabs, NEW id \in Ids, PageRequests(t, id) PROVE RoutesTypeOK'
  BY <1>0, <1>h, <1>q, <1>w, <1>2, Requested
<1>3. CASE Reads
  <2>1. CASE wire[1].kind # "request"
    BY <1>0, <1>3, <1>u, <2>1, Listened DEF routeVars
  <2>2. CASE wire[1].kind = "request"
    <3>1. wire[1].n \in DOMAIN reqs
      BY <1>3, <2>2, ReadsInherit DEF RequestsOK, Lines
    <3>2. /\ UNCHANGED <<pausing, reqs, routed, asked, lapsed>> /\ window' \in Seq(Seen) /\ Len(window') <= Window
          /\ \A i \in DOMAIN window' : window'[i].n = wire[1].n \/ \E j \in DOMAIN window : window'[i].n = window[j].n
          /\ clock' \in Nat /\ listed' = listed \cup {wire[1].n}
      BY <1>0, <1>3, <2>2, Listened
    <3>3. \A i \in DOMAIN window' : window'[i].n \in DOMAIN reqs
      BY <1>q, <3>1, <3>2
    <3> QED
      BY <1>h, <1>q, <1>w, <3>1, <3>2, <3>3
  <2> QED
    BY <2>1, <2>2
<1>4. CASE EngineStops
  <2>1. UNCHANGED <<pausing, reqs, clock, listed, asked, lapsed>> /\ window' = <<>> /\ routed' = {}
    BY <1>4 DEF EngineStops
  <2>2. window' \in Seq(Seen) /\ Len(window') <= Window /\ Cardinality(routed') <= Window /\ DOMAIN window' = {}
    BY <2>1, FS_EmptySet, RoutesAssumption
  <2> QED
    BY <1>h, <1>q, <1>w, <2>1, <2>2
<1>5. CASE UNCHANGED vars
  BY <1>5, <1>u DEF vars
<1> QED
  BY <1>1, <1>2, <1>3, <1>4, <1>5, <1>u DEF Next

LEMMA RequestsStep == ASSUME WireOK, Types, RequestsOK, [Next]_vars PROVE RequestsOK'
<1>0. RoutesTypeOK
  BY DEF Types
<1>q. /\ \A n \in DOMAIN reqs : reqs[n] \in Request /\ n \in Nat
      /\ \A j \in DOMAIN window : window[j].n \in DOMAIN reqs
  BY <1>0, Requests
<1>s. ASSUME Inherits("request"), UNCHANGED <<window, routed>>, DOMAIN reqs \subseteq DOMAIN reqs',
             \A n \in DOMAIN reqs : reqs'[n].claims = reqs[n].claims /\ reqs'[n].id = reqs[n].id,
             \A n \in DOMAIN reqs' \ DOMAIN reqs : reqs'[n].claims = 0
      PROVE  RequestsOK'
  <2>1. PICK f : /\ \A i \in Lines("request")' : f[i] \in Lines("request") /\ wire'[i] = wire[f[i]]
                 /\ \A i, j \in Lines("request")' : f[i] = f[j] => i = j
    BY <1>s DEF Inherits
  <2>2. ASSUME NEW i \in Lines("request")'
        PROVE  wire'[i].n \in DOMAIN reqs' /\ reqs'[wire'[i].n].claims = 0 /\ \A j \in DOMAIN window' : window'[j].n # wire'[i].n
    BY <1>s, <2>1 DEF RequestsOK
  <2>3. \A i, j \in Lines("request")' : wire'[i].n = wire'[j].n => i = j
    BY <2>1 DEF RequestsOK
  <2>4. \A j \in DOMAIN window' : reqs'[window'[j].n].claims # 0 => reqs'[window'[j].n].id \in routed'
    BY <1>q, <1>s DEF RequestsOK
  <2>5. RoutedOnce'
    BY <1>s DEF RequestsOK, RoutedOnce
  <2> QED
    BY <1>s, <2>2, <2>3, <2>4, <2>5 DEF RequestsOK
<1>u. ASSUME Inherits("request"), UNCHANGED <<window, routed, reqs>> PROVE RequestsOK'
  BY <1>s, <1>u
<1>1. ASSUME NEW c \in Callers, RouteStep(c) PROVE RequestsOK'
  <2>1. CASE NetServes(c)
    <3>1. Inherits("request")
      BY <2>1, NetAnswers, AnswersInherit
    <3> QED
      BY <1>0, <1>s, <2>1, <3>1, NetServed
  <2>2. CASE RouteClaims(c)
    <3>1. PICK i \in DOMAIN window :
             /\ reqs[window[i].n].id \notin routed
             /\ \A n \in DOMAIN reqs : reqs'[n].claims = IF n = window[i].n THEN reqs[n].claims + 1 ELSE reqs[n].claims
             /\ window' = <<>> \/ (window' = window /\ routed' = routed \cup {reqs[window[i].n].id})
      BY <1>0, <2>2, Claimed DEF RequestsOK
    <3>2. /\ wire' = wire /\ DOMAIN reqs' = DOMAIN reqs /\ IsFiniteSet(routed')
          /\ \A n \in DOMAIN reqs : reqs'[n].id = reqs[n].id
      BY <1>0, <2>2, Claimed DEF RequestsOK
    <3> DEFINE n == window[i].n
    <3>3. n \in DOMAIN reqs /\ reqs[n].claims = 0
      BY <1>q, <3>1 DEF RequestsOK
    <3>4. \A m \in Lines("request") : wire[m].n # n
      BY DEF RequestsOK
    <3>5. Lines("request")' = Lines("request")
      BY <3>2 DEF Lines
    <3>6. \A m \in Lines("request") : wire[m].n \in DOMAIN reqs' /\ reqs'[wire[m].n].claims = 0
      BY <3>1, <3>2, <3>4 DEF RequestsOK
    <3>7. \A m \in Lines("request") : \A j \in DOMAIN window' : window'[j].n # wire[m].n
      <4>1. DOMAIN <<>> = {}
        OBVIOUS
      <4> QED
        BY <3>1, <4>1 DEF RequestsOK
    <3>8. \A j \in DOMAIN window' : reqs'[window'[j].n].claims # 0 => reqs'[window'[j].n].id \in routed'
      <4>1. CASE window' = <<>>
        <5>1. DOMAIN window' = {}
          BY <4>1
        <5> QED
          BY <5>1
      <4>2. CASE window' = window /\ routed' = routed \cup {reqs[n].id}
        <5>1. ASSUME NEW j \in DOMAIN window, reqs'[window[j].n].claims # 0 PROVE reqs'[window[j].n].id \in routed'
          <6>1. CASE window[j].n = n
            BY <3>2, <3>3, <4>2, <6>1
          <6>2. CASE window[j].n # n
            <7>1. window[j].n \in DOMAIN reqs
              BY <1>q
            <7>2. reqs[window[j].n].claims # 0
              BY <3>1, <5>1, <6>2, <7>1
            <7> QED
              BY <3>2, <4>2, <7>1, <7>2 DEF RequestsOK
          <6> QED
            BY <6>1, <6>2
        <5> QED
          BY <4>2, <5>1
      <4> QED
        BY <3>1, <4>1, <4>2
    <3>9. RoutedOnce'
      <4>1. ASSUME NEW m \in DOMAIN reqs PROVE reqs'[m].claims <= 1
        <5>1. CASE m = n
          BY <3>1, <3>3, <5>1
        <5>2. CASE m # n
          BY <3>1, <5>2 DEF RequestsOK, RoutedOnce
        <5> QED
          BY <5>1, <5>2
      <4> QED
        BY <3>2, <4>1 DEF RoutedOnce
    <3> QED
      BY <3>2, <3>5, <3>6, <3>7, <3>8, <3>9 DEF RequestsOK
  <2>3. CASE ~NetServes(c) /\ ~RouteClaims(c)
    <3>1. wire' = wire
      BY <1>0, <1>1, <2>3, RouteTurns DEF TurnAmong, Turn
    <3>2. UNCHANGED <<window, routed, reqs>>
      BY <1>1, <2>3 DEF RouteStep, RouteBegins, RouteEnabled, RouteTimesOut, RouteDecided, RouteEnds, RouteCancelled,
                        Intercepts, DecideBegins, Switched, routeVars
    <3> QED
      BY <1>u, <3>1, <3>2, SameWire
  <2> QED
    BY <2>1, <2>2, <2>3
<1>2. ASSUME NEW c \in Callers, CastStep(c) \/ UploadStep(c), UNCHANGED routeVars PROVE RequestsOK'
  <2>1. CASE CastServes(c) \/ UploadServes(c)
    <3>1. Inherits("request")
      BY <2>1, CastAnswers, UploadAnswers, AnswersInherit
    <3> QED
      BY <1>2, <1>u, <3>1 DEF routeVars
  <2>2. CASE ~CastServes(c) /\ ~UploadServes(c)
    <3>1. wire' = wire
      BY <1>2, <2>2, CastTurns, UploadTurns DEF TurnAmong, Turn, Types
    <3> QED
      BY <1>2, <1>u, <3>1, SameWire DEF routeVars
  <2> QED
    BY <2>1, <2>2
<1>3. ASSUME NEW t \in Tabs, NEW id \in Ids, PageRequests(t, id) PROVE RequestsOK'
  <2> DEFINE x == [kind |-> "request", n |-> Len(reqs) + 1, paused |-> pausing[t]]
             new == Len(reqs) + 1
  <2>1. Tells(<<x>>) /\ <<x>> \in Seq(AnyLine)
    BY <1>3, PagesTell
  <2>2. x.n = new /\ x.kind = "request"
    OBVIOUS
  <2>3. /\ DOMAIN reqs' = DOMAIN reqs \cup {new} /\ new \notin DOMAIN reqs /\ \A n \in DOMAIN reqs : reqs'[n] = reqs[n]
        /\ reqs'[new].claims = 0 /\ UNCHANGED <<window, routed>>
    BY <1>0, <1>3, Requested
  <2> HIDE DEF x, new
  <2>4. \A i \in Lines("request")' : \/ i \in Lines("request") /\ wire'[i] = wire[i]
                                     \/ i = Len(wire) + 1 /\ wire'[i] = x
    <3>1. DOMAIN <<x>> = {1} /\ <<x>>[1] = x
      OBVIOUS
    <3> QED
      BY <2>1, <3>1, WireGrows DEF Tells, Lines
  <2>5. \A i \in Lines("request") : wire[i].n # new
    BY <2>3 DEF RequestsOK
  <2>6. ASSUME NEW i \in Lines("request")'
        PROVE  wire'[i].n \in DOMAIN reqs' /\ reqs'[wire'[i].n].claims = 0 /\ \A j \in DOMAIN window' : window'[j].n # wire'[i].n
    <3>1. CASE i \in Lines("request") /\ wire'[i] = wire[i]
      BY <2>3, <3>1 DEF RequestsOK
    <3>2. CASE wire'[i] = x
      BY <1>q, <2>2, <2>3, <3>2
    <3> QED
      BY <2>4, <3>1, <3>2
  <2>7. \A i, j \in Lines("request")' : wire'[i].n = wire'[j].n => i = j
    BY <2>2, <2>4, <2>5 DEF RequestsOK
  <2>8. \A j \in DOMAIN window' : reqs'[window'[j].n].claims # 0 => reqs'[window'[j].n].id \in routed'
    BY <1>q, <2>3 DEF RequestsOK
  <2>9. RoutedOnce'
    <3>1. \A m \in DOMAIN reqs : reqs'[m].claims <= 1
      BY <2>3 DEF RequestsOK, RoutedOnce
    <3> QED
      BY <2>3, <3>1 DEF RoutedOnce
  <2> QED
    BY <2>3, <2>6, <2>7, <2>8, <2>9 DEF RequestsOK
<1>4. ASSUME NEW t \in Tabs, PagePaints(t) \/ PageOpensChooser(t) \/ PageNavigates(t), UNCHANGED routeVars PROVE RequestsOK'
  <2>1. Inherits("request")
    BY <1>4, PagesInherit
  <2> QED
    BY <1>4, <1>u, <2>1 DEF routeVars
<1>5. CASE Reads
  <2>1. CASE wire[1].kind # "request"
    BY <1>0, <1>5, <1>u, <2>1, Listened, ReadsInherit
  <2>2. CASE wire[1].kind = "request"
    <3>0. /\ \A i \in Lines("request")' : i + 1 \in Lines("request") \ {1} /\ wire'[i] = wire[i + 1]
          /\ \A i, j \in Lines("request")' : i + 1 = j + 1 => i = j
          /\ 1 \in Lines("request")
      BY <1>5, <2>2, ReadsInherit DEF Lines
    <3>1. /\ UNCHANGED <<reqs, routed>>
          /\ \A i \in DOMAIN window' : window'[i].n = wire[1].n \/ \E j \in DOMAIN window : window'[i].n = window[j].n
      BY <1>0, <1>5, <2>2, Listened
    <3>2. wire[1].n \in DOMAIN reqs /\ reqs[wire[1].n].claims = 0
      BY <3>0 DEF RequestsOK
    <3>3. \A i \in Lines("request")' : wire'[i].n # wire[1].n
      BY <3>0 DEF RequestsOK
    <3>4. ASSUME NEW i \in Lines("request")'
          PROVE  wire'[i].n \in DOMAIN reqs' /\ reqs'[wire'[i].n].claims = 0 /\ \A j \in DOMAIN window' : window'[j].n # wire'[i].n
      BY <3>0, <3>1, <3>3 DEF RequestsOK
    <3>5. \A i, j \in Lines("request")' : wire'[i].n = wire'[j].n => i = j
      BY <3>0 DEF RequestsOK
    <3>6. \A j \in DOMAIN window' : reqs'[window'[j].n].claims # 0 => reqs'[window'[j].n].id \in routed'
      BY <3>1, <3>2 DEF RequestsOK
    <3>7. RoutedOnce' /\ IsFiniteSet(routed')
      BY <3>1 DEF RequestsOK, RoutedOnce
    <3> QED
      BY <3>4, <3>5, <3>6, <3>7 DEF RequestsOK
  <2> QED
    BY <2>1, <2>2
<1>6. CASE EngineStops
  <2>1. wire' = <<>> /\ window' = <<>> /\ routed' = {} /\ reqs' = reqs
    BY <1>6 DEF EngineStops
  <2>2. Lines("request")' = {} /\ DOMAIN window' = {} /\ IsFiniteSet(routed')
    BY <2>1, NoWire, FS_EmptySet
  <2> QED
    BY <2>1, <2>2 DEF RequestsOK, RoutedOnce
<1>7. CASE Switch /\ UNCHANGED routeVars
  BY <1>7, <1>u, SameWire DEF Switch, routeVars
<1>8. CASE UNCHANGED vars
  BY <1>8, <1>u, SameWire DEF vars, wireVars, routeVars
<1> QED
  BY <1>1, <1>2, <1>3, <1>4, <1>5, <1>6, <1>7, <1>8 DEF Next

\* A route that has not yet seen to it that the browser pauses no more.
Owes(c) ==
    \/ tool[c].at \in {"enable", "wait", "decide"}
    \/ tool[c].at = "disable" /\ \/ call[c].is \in {"sent", "error"}
                                 \/ call[c].is = "served" /\ \E i \in Lines("reply") : wire[i].to = c /\ wire[i].how = "error"
Pledged(c, t) == tool[c].name = "route" /\ tool[c].tab = t /\ Owes(c)
Answerable(t) == t \in asked \cup lapsed \/ \E c \in Callers : Pledged(c, t)

\* Who pauses a tab answers for it, also while the call that does so is on its way.
PausesOK ==
    alive => /\ \A t \in Tabs : (Paused(t) # {} => pausing[t]) /\ (pausing[t] => Answerable(t))
             /\ \A c \in Callers : call[c].does = "pause" /\ call[c].is = "sent" =>
                   \/ call[c].tab \in asked \cup lapsed
                   \/ tool[c].name = "route" /\ tool[c].tab = call[c].tab /\ tool[c].at = "enable"

LEMMA PledgeStays ==
    ASSUME NEW c, NEW t, Pledged(c, t), tool'[c] = tool[c], call'[c] = call[c],
           \A i \in DOMAIN wire : i \in DOMAIN wire' /\ wire'[i] = wire[i]
    PROVE  Pledged(c, t)'
BY DEF Pledged, Owes, Lines

LEMMA RoutesStayAwake == ASSUME NEW c, Awake(tool[c], tool'[c]), tool[c].name = "route" PROVE tool'[c] = tool[c]
BY DEF Awake

\* Nothing changes for the browser, and whoever owed does or the tab is written off.
LEMMA PausesKept ==
    ASSUME PausesOK, alive' => alive, pausing' = pausing, \A t \in Tabs : Paused(t)' # {} => Paused(t) # {} \/ pausing[t],
           asked \subseteq asked', lapsed \subseteq lapsed',
           \A c \in Callers, t \in Tabs : Pledged(c, t) => Pledged(c, t)' \/ t \in lapsed',
           \A c \in Callers : call'[c].does = "pause" /\ call'[c].is = "sent" =>
              \/ call'[c].tab \in asked' \cup lapsed'
              \/ tool'[c].name = "route" /\ tool'[c].tab = call'[c].tab /\ tool'[c].at = "enable"
              \/ call'[c] = call[c] /\ (tool[c].name = "route" => tool'[c] = tool[c])
    PROVE  PausesOK'
<1>1. SUFFICES ASSUME alive' PROVE /\ \A t \in Tabs : (Paused(t)' # {} => pausing'[t]) /\ (pausing'[t] => Answerable(t)')
                                   /\ \A c \in Callers : call'[c].does = "pause" /\ call'[c].is = "sent" =>
                                         \/ call'[c].tab \in asked' \cup lapsed'
                                         \/ tool'[c].name = "route" /\ tool'[c].tab = call'[c].tab /\ tool'[c].at = "enable"
  BY DEF PausesOK
<1>2. \A t \in Tabs : (Paused(t)' # {} => pausing'[t]) /\ (pausing'[t] => Answerable(t)')
  BY <1>1 DEF PausesOK, Answerable
<1>3. \A c \in Callers : call'[c].does = "pause" /\ call'[c].is = "sent" =>
         \/ call'[c].tab \in asked' \cup lapsed'
         \/ tool'[c].name = "route" /\ tool'[c].tab = call'[c].tab /\ tool'[c].at = "enable"
  BY <1>1 DEF PausesOK
<1> QED
  BY <1>2, <1>3

\* The turn of a tool that has nothing to do with requests.
LEMMA PausesAmong ==
    ASSUME WireOK, PausesOK, NEW c \in Callers, NEW names, NEW calls, TurnAmong(c, names, calls), UNCHANGED routeVars,
           "route" \notin names, "pause" \notin calls
    PROVE  PausesOK'
<1>1. PICK r, k : Turn(c, r, k) /\ r.name \in names \cup {"none"} /\ k.does \in calls \cup {"none"}
  BY DEF TurnAmong
<1>2. /\ tool[c].name # "route" /\ \A d \in Callers \ {c} : Awake(tool[d], tool'[d]) /\ call'[d] = call[d]
      /\ call'[c] = k /\ wire' = wire /\ alive' = alive
  BY <1>1 DEF TurnAmong, Turn, WireOK
<1>3. \A d \in Callers, t \in Tabs : Pledged(d, t) => Pledged(d, t)'
  <2> SUFFICES ASSUME NEW d \in Callers, NEW t \in Tabs, Pledged(d, t) PROVE Pledged(d, t)'
    OBVIOUS
  <2>1. tool[d].name = "route" /\ d # c
    BY <1>2 DEF Pledged
  <2> QED
    BY <1>2, <2>1, PledgeStays, RoutesStayAwake
<1>4. \A d \in Callers : call'[d].does = "pause" => call'[d] = call[d] /\ (tool[d].name = "route" => tool'[d] = tool[d])
  <2>1. k.does # "pause"
    BY <1>1
  <2> QED
    BY <1>2, <2>1, RoutesStayAwake
<1>5. \A t \in Tabs : Paused(t)' = Paused(t)
  BY DEF routeVars, Paused
<1> QED
  BY <1>2, <1>3, <1>4, <1>5, PausesKept DEF routeVars

\* The turn of a route or of the persistent mode.
LEMMA PausesRoute ==
    ASSUME WireOK, Types, PausesOK, NEW c \in Callers, RouteStep(c), ~NetServes(c) PROVE PausesOK'
<1>0. RoutesTypeOK /\ (tool[c].name # "none" => Fits(tool[c], call[c])) /\ (tool[c].at # "none" => Fits(tool[c], call[c]))
  BY Caller DEF Types, LeftBehind, Idle
<1>1. WireOK' /\ wire' = wire /\ alive' = alive /\ \A d \in Callers \ {c} : Awake(tool[d], tool'[d]) /\ call'[d] = call[d]
  <2>1. TurnAmong(c, OnPage, OnWire)
    BY <1>0, RouteTurns
  <2> QED
    BY <2>1, AmongKeeps DEF TurnAmong, Turn, WireOK
<1>2. ASSUME pausing' = pausing, \A t \in Tabs : Paused(t)' = Paused(t), asked \subseteq asked', lapsed \subseteq lapsed',
             \A t \in Tabs : Pledged(c, t) => Pledged(c, t)' \/ t \in lapsed',
             call'[c].does = "pause" /\ call'[c].is = "sent" =>
                \/ call'[c].tab \in asked' \cup lapsed'
                \/ tool'[c].name = "route" /\ tool'[c].tab = call'[c].tab /\ tool'[c].at = "enable"
      PROVE  PausesOK'
  <2>1. \A d \in Callers, t \in Tabs : Pledged(d, t) => Pledged(d, t)' \/ t \in lapsed'
    <3> SUFFICES ASSUME NEW d \in Callers, NEW t \in Tabs, Pledged(d, t), d # c PROVE Pledged(d, t)'
      BY <1>2
    <3>1. tool'[d] = tool[d]
      BY <1>1, RoutesStayAwake DEF Pledged
    <3> QED
      BY <1>1, <3>1, PledgeStays
  <2>2. \A d \in Callers \ {c} : call'[d] = call[d] /\ (tool[d].name = "route" => tool'[d] = tool[d])
    BY <1>1, RoutesStayAwake
  <2> QED
    BY <1>1, <1>2, <2>1, <2>2, PausesKept
<1>3. DOMAIN tool = Callers /\ DOMAIN call = Callers
  BY DEF WireOK
<1>4. CASE RouteBegins(c) \/ Intercepts(c) \/ DecideBegins(c)
  <2>1. tool[c].name # "route" /\ pausing' = pausing /\ reqs' = reqs /\ lapsed' = lapsed /\ asked \subseteq asked'
    <3>1. tool[c].at = "none"
      BY <1>4 DEF RouteBegins, Intercepts, DecideBegins, Begins
    <3>2. tool[c].name # "route"
      BY <1>0, <3>1, NoneOK DEF Fits
    <3> QED
      BY <1>4, <3>2 DEF RouteBegins, Intercepts, DecideBegins, routeVars
  <2>2. call'[c].does = "pause" => \/ call'[c].tab \in asked'
                                   \/ tool'[c].name = "route" /\ tool'[c].tab = call'[c].tab /\ tool'[c].at = "enable"
    <3>1. CASE RouteBegins(c)
      <4>1. /\ call'[c].tab = current
            /\ tool'[c] = [Idle EXCEPT !.name = "route", !.at = "enable", !.tab = current, !.since = clock]
        BY <1>3, <3>1 DEF RouteBegins, Begins, Sends
      <4> QED
        BY <4>1 DEF Idle
    <3>2. CASE Intercepts(c)
      BY <1>3, <3>2 DEF Intercepts, Sends
    <3>3. CASE DecideBegins(c)
      <4>1. call' = call \/ \E t, arg : Sends(c, "decide", t, arg)
        BY <3>3 DEF DecideBegins
      <4>2. call' = call => call'[c].does # "pause"
        <5>1. tool[c].at = "none"
          BY <3>3 DEF DecideBegins, Begins
        <5>2. todo[c] # <<>>
          BY <3>3 DEF DecideBegins, Begins
        <5> QED
          BY <5>1, <5>2, Caller, NoneOK DEF LeftBehind, Fits
      <4>3. \A t, arg : Sends(c, "decide", t, arg) => call'[c].does = "decide"
        BY <1>3 DEF Sends
      <4> QED
        BY <4>1, <4>2, <4>3
    <3> QED
      BY <1>4, <3>1, <3>2, <3>3
  <2> QED
    BY <1>2, <2>1, <2>2 DEF Pledged, Paused
<1>5. ASSUME tool[c].name = "route", UNCHANGED <<pausing, asked>>, lapsed \subseteq lapsed',
             \A t \in Tabs : Paused(t)' = Paused(t), call'[c].does # "pause",
             \/ tool[c].tab \in lapsed'
             \/ ~Owes(c)
             \/ tool'[c].name = "route" /\ tool'[c].tab = tool[c].tab /\ Owes(c)'
      PROVE  PausesOK'
  BY <1>2, <1>5 DEF Pledged
<1>6. CASE RouteEnabled(c) \/ RouteEnds(c)
  <2>1. /\ tool[c].name = "route" /\ UNCHANGED <<pausing, asked, reqs>> /\ call'[c].does # "pause"
        /\ lapsed' = IF Answered(c, "error") THEN lapsed \cup {tool[c].tab} ELSE lapsed
    BY <1>3, <1>6, NoneOK DEF RouteEnabled, RouteEnds, Runs, Quiet, Lapses
  <2>2. CASE Answered(c, "error")
    BY <1>5, <2>1, <2>2 DEF Paused
  <2>3. CASE ~Answered(c, "error") /\ RouteEnds(c)
    <3>1. ~Owes(c)
      BY <2>3 DEF RouteEnds, Owes, At, Answered
    <3> QED
      BY <1>5, <2>1, <2>3, <3>1 DEF Paused
  <2>4. CASE ~Answered(c, "error") /\ RouteEnabled(c)
    <3>1. tool'[c] = [tool[c] EXCEPT !.at = "wait"] /\ tool[c] \in Tool
      BY <1>3, <2>4 DEF RouteEnabled, Goes, WireOK
    <3>2. tool'[c].name = "route" /\ tool'[c].tab = tool[c].tab /\ Owes(c)'
      BY <2>1, <3>1 DEF Tool, Owes
    <3> QED
      BY <1>5, <2>1, <2>4, <3>2 DEF Paused
  <2> QED
    BY <1>6, <2>2, <2>3, <2>4
<1>7. CASE RouteClaims(c) \/ RouteTimesOut(c) \/ RouteDecided(c)
  <2>0. tool[c] \in Tool /\ tool[c].name = "route" /\ UNCHANGED <<asked, lapsed, pausing>>
    BY <1>7 DEF RouteClaims, RouteTimesOut, RouteDecided, Runs, WireOK, routeVars
  <2>1. \E at, item : tool'[c] = [tool[c] EXCEPT !.at = at, !.item = item] /\
           \/ at = "decide" /\ call'[c].does # "pause"
           \/ at = "disable" /\ call'[c].does # "pause" /\ call'[c].is \in {"sent", "error"}
    <3>1. CASE RouteClaims(c)
      <4>1. PICK n, id : Goes(c, [tool[c] EXCEPT !.at = "decide", !.item = n]) /\ Sends(c, "decide", tool[c].tab, id)
        BY <3>1 DEF RouteClaims
      <4>2. tool'[c] = [tool[c] EXCEPT !.at = "decide", !.item = n] /\ call'[c].does = "decide"
        BY <1>3, <4>1 DEF Goes, Sends
      <4> QED
        BY <4>2
    <3>2. CASE RouteTimesOut(c) \/ RouteDecided(c)
      <4>1. Goes(c, [tool[c] EXCEPT !.at = "disable"]) /\ Sends(c, "unpause", tool[c].tab, 0)
        BY <3>2 DEF RouteTimesOut, RouteDecided, Disables
      <4>2. tool'[c] = [tool[c] EXCEPT !.at = "disable"] /\ call'[c].does = "unpause" /\ call'[c].is \in {"sent", "error"}
        BY <1>3, <4>1 DEF Goes, Sends
      <4>3. [tool[c] EXCEPT !.at = "disable"] = [tool[c] EXCEPT !.at = "disable", !.item = tool[c].item]
        BY <2>0 DEF Tool
      <4>4. tool'[c] = [tool[c] EXCEPT !.at = "disable", !.item = tool[c].item]
        BY <4>2, <4>3
      <4> QED
        BY <4>2, <4>4
    <3> QED
      BY <1>7, <3>1, <3>2
  <2>2. tool'[c].name = "route" /\ tool'[c].tab = tool[c].tab /\ Owes(c)' /\ call'[c].does # "pause"
    BY <2>0, <2>1 DEF Tool, Owes
  <2>3. \A t \in Tabs : Paused(t)' = Paused(t)
    <3>1. CASE RouteClaims(c)
      <4>1. PICK n : reqs' = [reqs EXCEPT ![n].claims = @ + 1]
        BY <3>1 DEF RouteClaims
      <4>2. DOMAIN reqs' = DOMAIN reqs /\ \A m \in DOMAIN reqs : reqs[m] \in Request
        BY <1>0, <4>1, Requests
      <4>3. \A m \in DOMAIN reqs : reqs'[m].tab = reqs[m].tab /\ reqs'[m].is = reqs[m].is
        BY <4>1, <4>2 DEF Request
      <4> QED
        BY <4>2, <4>3 DEF Paused
    <3>2. CASE RouteTimesOut(c) \/ RouteDecided(c)
      BY <3>2 DEF RouteTimesOut, RouteDecided, routeVars, Paused
    <3> QED
      BY <1>7, <3>1, <3>2
  <2> QED
    BY <1>5, <2>0, <2>2, <2>3
<1>8. CASE RouteCancelled(c)
  <2>1. /\ tool[c].name = "route" /\ UNCHANGED <<pausing, asked, reqs, call>> /\ lapsed' = lapsed \cup {tool[c].tab}
    BY <1>8 DEF RouteCancelled, Runs
  <2>2. call'[c].does = "pause" /\ call'[c].is = "sent" => call'[c].tab \in asked' \cup lapsed'
    <3>1. call[c].does = "pause" => call[c].tab = tool[c].tab
      BY <1>0, <2>1, NoneOK DEF Fits
    <3> QED
      BY <2>1, <3>1
  <2> QED
    BY <1>2, <2>1, <2>2 DEF Pledged, Paused
<1>9. CASE Switched(c)
  <2>1. tool[c].name # "route"
    BY <1>0, <1>9 DEF Switched, At, Fits
  <2>2. UNCHANGED <<pausing, asked, reqs, lapsed>> /\ call'[c].does # "pause"
    BY <1>3, <1>9, NoneOK DEF Switched, routeVars, Quiet
  <2> QED
    BY <1>2, <2>1, <2>2 DEF Pledged, Paused
<1> QED
  BY <1>4, <1>6, <1>7, <1>8, <1>9 DEF RouteStep

\* The browser answers.
LEMMA PausesServed ==
    ASSUME WireOK, Types, PausesOK, NEW c \in Callers, NEW how \in {"ok", "error"}, Answers(c, how),
           \/ call[c].does \notin NetCalls /\ UNCHANGED routeVars
           \/ NetServes(c)
    PROVE  PausesOK'
<1>0. /\ tool' = tool /\ alive' = alive /\ call[c].is = "sent" /\ RoutesTypeOK
      /\ tool[c].name # "none" => Fits(tool[c], call[c])
  BY Caller DEF Answers, Types, LeftBehind, Idle
<1>1. /\ \A i \in DOMAIN wire : i \in DOMAIN wire' /\ wire'[i] = wire[i]
      /\ Len(wire) + 1 \in DOMAIN wire' /\ wire'[Len(wire) + 1] = Reply(c, how)
      /\ call'[c].is = "served" /\ call'[c].does = call[c].does /\ \A d \in Callers \ {c} : call'[d] = call[d]
  BY AnswersSay
<1>2. \A d \in Callers \ {c}, t \in Tabs : Pledged(d, t) => Pledged(d, t)'
  BY <1>0, <1>1, PledgeStays
<1>3. ASSUME NEW t \in Tabs, Pledged(c, t), how = "error" \/ ~(call[c].does = "unpause" /\ call[c].tab = t)
      PROVE  Pledged(c, t)'
  <2>1. CASE tool[c].at # "disable"
    BY <1>0, <1>3, <2>1 DEF Pledged, Owes
  <2>2. CASE tool[c].at = "disable"
    <3>1. call[c].does = "unpause" /\ call[c].tab = t
      BY <1>0, <1>3, <2>2, NoneOK DEF Pledged, Fits
    <3>2. Reply(c, how).kind = "reply" /\ Reply(c, how).to = c /\ Reply(c, how).how = "error"
      BY <1>3, <3>1 DEF Reply
    <3>3. \E i \in Lines("reply")' : wire'[i].to = c /\ wire'[i].how = "error"
      BY <1>1, <3>2 DEF Lines
    <3> QED
      BY <1>0, <1>1, <1>3, <2>2, <3>3 DEF Pledged, Owes
  <2> QED
    BY <2>1, <2>2
<1>4. \A d \in Callers : call'[d].is = "sent" => call'[d] = call[d] /\ d # c
  BY <1>1
<1>5. CASE call[c].does \notin NetCalls /\ UNCHANGED routeVars
  <2>1. \A d \in Callers, t \in Tabs : Pledged(d, t) => Pledged(d, t)'
    BY <1>2, <1>3, <1>5 DEF NetCalls
  <2>2. \A t \in Tabs : Paused(t)' = Paused(t)
    BY <1>5 DEF routeVars, Paused
  <2> QED
    BY <1>0, <1>4, <1>5, <2>1, <2>2, PausesKept DEF routeVars
<1>6. CASE NetServes(c)
  <2>0. /\ DOMAIN reqs' = DOMAIN reqs
        /\ \A n \in DOMAIN reqs : reqs'[n].tab = reqs[n].tab /\ (reqs'[n].is = "paused" => reqs[n].is = "paused")
        /\ UNCHANGED <<asked, lapsed>> /\ pausing \in [Tabs -> BOOLEAN]
    BY <1>0, <1>6, NetServed DEF RoutesTypeOK
  <2>1. PICK said \in {"ok", "error"} :
           /\ Answers(c, said)
           /\ \/ UNCHANGED <<pausing, reqs>> /\ said = "error"
              \/ call[c].does = "pause" /\ pausing' = [pausing EXCEPT ![call[c].tab] = TRUE] /\ reqs' = reqs
              \/ /\ call[c].does = "unpause" /\ pausing' = [pausing EXCEPT ![call[c].tab] = FALSE]
                 /\ \A n \in DOMAIN reqs : reqs[n].tab = call[c].tab => reqs'[n].is # "paused"
              \/ call[c].does = "decide" /\ pausing' = pausing
    BY <1>0, <1>6, NetServed
  <2>2. said = how
    <3>1. wire'[Len(wire) + 1] = Reply(c, said)
      BY <2>1, AnswersSay
    <3> QED
      BY <1>1, <3>1 DEF Reply
  <2>3. \A t \in Tabs : Paused(t)' \subseteq Paused(t)
    BY <2>0 DEF Paused
  <2>4. CASE pausing' = pausing /\ (how = "error" \/ call[c].does # "unpause")
    <3>1. \A d \in Callers, t \in Tabs : Pledged(d, t) => Pledged(d, t)'
      BY <1>2, <1>3, <2>4
    <3> QED
      BY <1>0, <1>4, <2>0, <2>3, <2>4, <3>1, PausesKept
  <2>5. SUFFICES ASSUME alive
                 PROVE  /\ \A t \in Tabs : (Paused(t)' # {} => pausing'[t]) /\ (pausing'[t] => Answerable(t)')
                        /\ \A d \in Callers : call'[d].does = "pause" /\ call'[d].is = "sent" =>
                              \/ call'[d].tab \in asked' \cup lapsed'
                              \/ tool'[d].name = "route" /\ tool'[d].tab = call'[d].tab /\ tool'[d].at = "enable"
    BY <1>0 DEF PausesOK
  <2>6. \A d \in Callers : call'[d].does = "pause" /\ call'[d].is = "sent" =>
           \/ call'[d].tab \in asked' \cup lapsed'
           \/ tool'[d].name = "route" /\ tool'[d].tab = call'[d].tab /\ tool'[d].at = "enable"
    BY <1>0, <1>4, <2>0, <2>5 DEF PausesOK
  <2>7. CASE call[c].does = "pause" /\ pausing' = [pausing EXCEPT ![call[c].tab] = TRUE] /\ reqs' = reqs
    <3>1. \A d \in Callers, t \in Tabs : Pledged(d, t) => Pledged(d, t)'
      BY <1>2, <1>3, <2>7
    <3>2. ASSUME NEW t \in Tabs PROVE (Paused(t)' # {} => pausing'[t]) /\ (pausing'[t] => Answerable(t)')
      <4>1. Answerable(t) => Answerable(t)'
        BY <2>0, <3>1 DEF Answerable
      <4>2. CASE t = call[c].tab
        <5>1. t \in asked \cup lapsed \/ Pledged(c, t)
          BY <1>0, <2>5, <2>7, <4>2 DEF PausesOK, Pledged, Owes
        <5> QED
          BY <2>0, <2>7, <4>1, <4>2, <5>1 DEF Answerable
      <4>3. CASE t # call[c].tab
        BY <2>0, <2>3, <2>5, <2>7, <4>1, <4>3 DEF PausesOK
      <4> QED
        BY <4>2, <4>3
    <3> QED
      BY <2>6, <3>2
  <2>8. CASE /\ call[c].does = "unpause" /\ pausing' = [pausing EXCEPT ![call[c].tab] = FALSE]
             /\ \A n \in DOMAIN reqs : reqs[n].tab = call[c].tab => reqs'[n].is # "paused"
    <3>1. ASSUME NEW t \in Tabs PROVE (Paused(t)' # {} => pausing'[t]) /\ (pausing'[t] => Answerable(t)')
      <4>1. CASE t = call[c].tab
        <5>1. Paused(t)' = {}
          BY <2>0, <2>8, <4>1 DEF Paused
        <5> QED
          BY <2>0, <2>8, <4>1, <5>1
      <4>2. CASE t # call[c].tab
        <5>1. \A d \in Callers : Pledged(d, t) => Pledged(d, t)'
          BY <1>2, <1>3, <4>2
        <5> QED
          BY <2>0, <2>3, <2>5, <2>8, <4>2, <5>1 DEF PausesOK, Answerable
      <4> QED
        BY <4>1, <4>2
    <3> QED
      BY <2>6, <3>1
  <2> QED
    BY <1>0, <2>1, <2>2, <2>4, <2>5, <2>7, <2>8 DEF PausesOK
<1> QED
  BY <1>5, <1>6

LEMMA PausesRead == ASSUME WireOK, Types, PausesOK, Reads PROVE PausesOK'
<1>0. /\ RoutesTypeOK /\ alive' = alive /\ wire # <<>> /\ wire' = Tail(wire) /\ UNCHANGED <<pausing, reqs, asked, lapsed>>
      /\ 1 \in DOMAIN wire /\ \A i \in DOMAIN wire \ {1} : i - 1 \in DOMAIN wire' /\ wire'[i - 1] = wire[i]
  BY ReadsSay, WireShrinks, Listened DEF Types
<1>1. ASSUME NEW d \in Callers, NEW t \in Tabs, Pledged(d, t) PROVE Pledged(d, t)'
  <2>1. tool'[d] = tool[d] /\ tool[d].name = "route"
    BY <1>1, ReadsSay, RoutesStayAwake DEF Pledged
  <2>2. CASE tool[d].at # "disable"
    BY <1>1, <2>1, <2>2 DEF Pledged, Owes
  <2>3. CASE tool[d].at = "disable" /\ call[d].is \in {"sent", "error"}
    <3>1. call'[d] = call[d]
      BY <2>3, ReadsSay
    <3> QED
      BY <1>1, <2>1, <2>3, <3>1 DEF Pledged, Owes
  <2>4. CASE tool[d].at = "disable" /\ call[d].is \notin {"sent", "error"}
    <3>1. PICK i \in Lines("reply") : wire[i].to = d /\ wire[i].how = "error"
      BY <1>1, <2>4 DEF Pledged, Owes
    <3>2. CASE i = 1
      <4>1. call'[d].is = "error"
        BY <3>1, <3>2, Answer DEF Lines
      <4> QED
        BY <1>1, <2>1, <2>4, <4>1 DEF Pledged, Owes
    <3>3. CASE i # 1
      <4>1. i - 1 \in Lines("reply")' /\ wire'[i - 1] = wire[i]
        BY <1>0, <3>1, <3>3 DEF Lines
      <4>2. ~(wire[1].kind = "reply" /\ d = wire[1].to)
        BY <1>0, <3>1, <3>3 DEF WireOK, OneReply, Lines
      <4>3. call'[d] = call[d]
        BY <4>2, ReadsSay
      <4>4. call[d].is = "served"
        BY <3>1 DEF WireOK, OneReply
      <4> QED
        BY <1>1, <2>1, <2>4, <3>1, <4>1, <4>3, <4>4 DEF Pledged, Owes
    <3> QED
      BY <3>2, <3>3
  <2> QED
    BY <2>2, <2>3, <2>4
<1>2. \A d \in Callers : call'[d].is = "sent" => call'[d] = call[d] /\ (tool[d].name = "route" => tool'[d] = tool[d])
  BY ReadsSay, Answer, RoutesStayAwake
<1>3. \A t \in Tabs : Paused(t)' = Paused(t)
  BY <1>0 DEF Paused
<1> QED
  BY <1>0, <1>1, <1>2, <1>3, PausesKept

LEMMA PausesStep == ASSUME WireOK, Types, PausesOK, [Next]_vars PROVE PausesOK'
<1>0. RoutesTypeOK /\ CastTypeOK /\ UploadsTypeOK
  BY DEF Types
<1>1. ASSUME NEW c \in Callers, RouteStep(c) PROVE PausesOK'
  <2>1. CASE NetServes(c)
    BY <2>1, NetAnswers, PausesServed
  <2>2. CASE ~NetServes(c)
    BY <1>1, <2>2, PausesRoute
  <2> QED
    BY <2>1, <2>2
<1>2. ASSUME NEW c \in Callers, CastStep(c), UNCHANGED routeVars PROVE PausesOK'
  <2>1. CASE CastServes(c)
    <3>1. call[c].does \notin NetCalls
      BY <2>1 DEF CastServes, CastCalls, NetCalls
    <3> QED
      BY <1>2, <2>1, <3>1, CastAnswers, PausesServed
  <2>2. CASE ~CastServes(c)
    <3>1. TurnAmong(c, CastNames, CastCalls) /\ "route" \notin CastNames /\ "pause" \notin CastCalls
      BY <1>0, <1>2, <2>2, CastTurns DEF CastNames, CastCalls
    <3> QED
      BY <1>2, <3>1, PausesAmong
  <2> QED
    BY <2>1, <2>2
<1>3. ASSUME NEW c \in Callers, UploadStep(c), UNCHANGED routeVars PROVE PausesOK'
  <2>1. CASE UploadServes(c)
    <3>1. call[c].does \notin NetCalls
      BY <2>1 DEF UploadServes, NetCalls
    <3> QED
      BY <1>3, <2>1, <3>1, UploadAnswers, PausesServed
  <2>2. CASE ~UploadServes(c)
    <3>1. TurnAmong(c, UploadNames, UploadCalls) /\ "route" \notin UploadNames /\ "pause" \notin UploadCalls
      BY <1>0, <1>3, <2>2, UploadTurns DEF UploadNames, UploadCalls
    <3> QED
      BY <1>3, <3>1, PausesAmong
  <2> QED
    BY <2>1, <2>2
<1>4. ASSUME NEW lines \in Seq(AnyLine), Tells(lines), UNCHANGED <<pausing, asked, lapsed>>,
             \A t \in Tabs : Paused(t)' # {} => Paused(t) # {} \/ pausing[t]
      PROVE  PausesOK'
  <2>1. tool' = tool /\ call' = call /\ alive' = alive /\ \A i \in DOMAIN wire : i \in DOMAIN wire' /\ wire'[i] = wire[i]
    BY <1>4, WireGrows DEF Tells
  <2>2. \A d \in Callers, t \in Tabs : Pledged(d, t) => Pledged(d, t)'
    BY <2>1, PledgeStays
  <2> QED
    BY <1>4, <2>1, <2>2, PausesKept
<1>5. ASSUME NEW t \in Tabs, NEW id \in Ids, PageRequests(t, id) PROVE PausesOK'
  <2>1. \A u \in Tabs : Paused(u)' # {} => Paused(u) # {} \/ pausing[u]
    <3>1. ASSUME NEW u \in Tabs, NEW n \in Paused(u)' PROVE Paused(u) # {} \/ pausing[u]
      <4>1. CASE n \in DOMAIN reqs
        BY <1>0, <1>5, <3>1, <4>1, Requested DEF Paused
      <4>2. CASE n \notin DOMAIN reqs
        BY <1>0, <1>5, <3>1, <4>2, Requested DEF Paused
      <4> QED
        BY <4>1, <4>2
    <3> QED
      BY <3>1
  <2>2. UNCHANGED <<pausing, asked, lapsed>>
    BY <1>0, <1>5, Requested
  <2> QED
    BY <1>4, <1>5, <2>1, <2>2, PagesTell
<1>6. ASSUME NEW t \in Tabs, PagePaints(t) \/ PageOpensChooser(t) \/ PageNavigates(t), UNCHANGED routeVars PROVE PausesOK'
  <2>1. \A u \in Tabs : Paused(u)' = Paused(u)
    BY <1>6 DEF routeVars, Paused
  <2> QED
    BY <1>4, <1>6, <2>1, PagesTell DEF routeVars
<1>7. CASE Reads
  BY <1>7, PausesRead
<1>8. CASE EngineStops
  BY <1>8 DEF EngineStops, PausesOK
<1>9. CASE (Switch \/ UNCHANGED wireVars) /\ UNCHANGED routeVars
  <2>1. UNCHANGED <<tool, call, wire, alive, pausing, reqs, asked, lapsed>>
    BY <1>9 DEF Switch, wireVars, routeVars
  <2>2. \A d \in Callers, t \in Tabs : Pledged(d, t) => Pledged(d, t)'
    BY <2>1, PledgeStays
  <2>3. \A t \in Tabs : Paused(t)' = Paused(t)
    BY <2>1 DEF Paused
  <2> QED
    BY <2>1, <2>2, <2>3, PausesKept
<1> QED
  BY <1>1, <1>2, <1>3, <1>5, <1>6, <1>7, <1>8, <1>9 DEF Next, vars

-----------------------------------------------------------------------------
(* File choosers.                                                          *)

Distinct(s) == \A j, k \in DOMAIN s : s[j] = s[k] => j = k

\* A sequence without its i-th element.
Without(s, i) == SubSeq(s, 1, i - 1) \o SubSeq(s, i + 1, Len(s))

LEMMA Joined ==
    ASSUME NEW S, NEW a \in Seq(S), NEW b \in Seq(S)
    PROVE  /\ a \o b \in Seq(S) /\ Len(a \o b) = Len(a) + Len(b) /\ DOMAIN (a \o b) = 1..(Len(a) + Len(b))
           /\ \A j \in 1..Len(a) : (a \o b)[j] = a[j]
           /\ \A j \in 1..Len(b) : (a \o b)[Len(a) + j] = b[j]
OBVIOUS

LEMMA Removed ==
    ASSUME NEW S, NEW s \in Seq(S), NEW i \in DOMAIN s
    PROVE  /\ Without(s, i) \in Seq(S) /\ Len(Without(s, i)) = Len(s) - 1 /\ DOMAIN Without(s, i) = 1..Len(Without(s, i))
           /\ \A j \in DOMAIN Without(s, i) : \E k \in DOMAIN s \ {i} : Without(s, i)[j] = s[k]
           /\ Distinct(s) => Distinct(Without(s, i)) /\ \A j \in DOMAIN Without(s, i) : Without(s, i)[j] # s[i]
<1>0. Len(s) \in Nat /\ DOMAIN s = 1..Len(s) /\ i \in Nat /\ 1 <= i /\ i <= Len(s)
  OBVIOUS
<1> DEFINE a == SubSeq(s, 1, i - 1)
           b == SubSeq(s, i + 1, Len(s))
           r == Without(s, i)
           to(j) == IF j < i THEN j ELSE j + 1
<1>1. a \in Seq(S) /\ Len(a) = i - 1 /\ \A j \in 1..(i - 1) : a[j] = s[j]
  BY <1>0
<1>2. b \in Seq(S) /\ Len(b) = Len(s) - i /\ \A j \in 1..(Len(s) - i) : b[j] = s[i + j]
  BY <1>0
<1>3. r = a \o b
  BY DEF Without
<1> HIDE DEF a, b, r
<1>a. (i - 1) + (Len(s) - i) = Len(s) - 1
  BY <1>0
<1>4. /\ r \in Seq(S) /\ Len(r) = Len(s) - 1 /\ DOMAIN r = 1..(Len(s) - 1)
      /\ \A j \in 1..(i - 1) : r[j] = a[j]
      /\ \A j \in 1..(Len(s) - i) : r[i - 1 + j] = b[j]
  <2>1. /\ a \o b \in Seq(S) /\ Len(a \o b) = Len(a) + Len(b) /\ DOMAIN (a \o b) = 1..(Len(a) + Len(b))
        /\ \A j \in 1..Len(a) : (a \o b)[j] = a[j]
        /\ \A j \in 1..Len(b) : (a \o b)[Len(a) + j] = b[j]
    <3>1. a \in Seq(S) /\ b \in Seq(S)
      BY <1>1, <1>2
    <3> QED
      BY <3>1, Joined
  <2>2. Len(a) = i - 1 /\ Len(b) = Len(s) - i
    BY <1>1, <1>2
  <2> QED
    BY <1>3, <1>a, <2>1, <2>2
<1>5. ASSUME NEW j \in DOMAIN r PROVE r[j] = s[to(j)] /\ to(j) \in DOMAIN s \ {i} /\ j \in Nat
  <2>0. j \in Nat /\ 1 <= j /\ j <= Len(s) - 1
    BY <1>0, <1>4
  <2>1. CASE j < i
    <3>1. j \in 1..(i - 1)
      BY <1>0, <2>0, <2>1
    <3>2. r[j] = s[j]
      BY <1>1, <1>4, <3>1
    <3> QED
      BY <1>0, <2>0, <2>1, <3>2
  <2>2. CASE ~(j < i)
    <3> DEFINE m == j - (i - 1)
    <3>1. m \in 1..(Len(s) - i) /\ i - 1 + m = j /\ i + m = j + 1
      BY <1>0, <2>0, <2>2
    <3> HIDE DEF m
    <3>2. r[j] = s[j + 1]
      BY <1>2, <1>4, <3>1
    <3> QED
      BY <1>0, <2>0, <2>2, <3>2
  <2> QED
    BY <2>1, <2>2
<1>6. \A j, k \in DOMAIN r : to(j) = to(k) => j = k
  BY <1>0, <1>4
<1> HIDE DEF to
<1> QED
  BY <1>4, <1>5, <1>6 DEF Distinct, r

LEMMA NewestOnes ==
    ASSUME NEW S, NEW s \in Seq(S), Len(s) <= ChooserCap + 1
    PROVE  /\ Newest(s) \in Seq(S) /\ Len(Newest(s)) <= ChooserCap
           /\ \A j \in DOMAIN Newest(s) : \E k \in DOMAIN s : Newest(s)[j] = s[k]
           /\ Distinct(s) => Distinct(Newest(s))
<1>0. Len(s) \in Nat /\ ChooserCap \in Nat /\ DOMAIN s = 1..Len(s)
  BY UploadsAssumption
<1>1. CASE Len(s) <= ChooserCap
  BY <1>0, <1>1 DEF Newest
<1>2. CASE Len(s) > ChooserCap
  <2>1. Newest(s) = Tail(s) /\ s # <<>>
    <3>1. ~(Len(s) <= ChooserCap) /\ Len(s) # 0
      BY <1>0, <1>2
    <3> QED
      BY <3>1 DEF Newest
  <2>2. Tail(s) \in Seq(S) /\ Len(Tail(s)) = Len(s) - 1 /\ DOMAIN Tail(s) = 1..(Len(s) - 1)
    BY <1>0, <2>1
  <2>3. \A j \in DOMAIN Tail(s) : Tail(s)[j] = s[j + 1] /\ j + 1 \in DOMAIN s /\ j \in Nat
    BY <1>0, <2>1, <2>2
  <2>4. Distinct(s) => Distinct(Tail(s))
    <3> SUFFICES ASSUME Distinct(s), NEW j \in DOMAIN Tail(s), NEW k \in DOMAIN Tail(s), Tail(s)[j] = Tail(s)[k] PROVE j = k
      BY DEF Distinct
    <3>1. j + 1 = k + 1 /\ j \in Nat /\ k \in Nat
      BY <2>3 DEF Distinct
    <3> QED
      BY <3>1
  <2> QED
    BY <1>0, <1>2, <2>1, <2>2, <2>3, <2>4
<1> QED
  BY <1>0, <1>1, <1>2

\* Files are on their way to a chooser.
Feeding(c) == call[c].does = "setfiles" /\ call[c].is = "sent"
Unfed(n) == n \in DOMAIN opened /\ opened[n].fed = 0 /\ \A c \in Callers : Feeding(c) => call[c].arg # n

ChoosersOK ==
    /\ FedByItsTab
    /\ \A i \in Lines("chooser") : Unfed(wire[i].n) /\ \A j \in DOMAIN choosers : choosers[j] # wire[i].n
    /\ \A i, j \in Lines("chooser") : wire[i].n = wire[j].n => i = j
    /\ \A j \in DOMAIN choosers : Unfed(choosers[j])
    /\ Distinct(choosers)
    /\ \A c \in Callers : Feeding(c) => /\ call[c].arg \in DOMAIN opened /\ opened[call[c].arg].fed = 0
                                        /\ opened[call[c].arg].tab = tool[c].tab
                                        /\ \A d \in Callers : Feeding(d) /\ call[d].arg = call[c].arg => d = c

\* What is known of the choosers, one by one.
LEMMA Openers ==
    ASSUME UploadsTypeOK
    PROVE  /\ opened \in Seq(Chooser) /\ DOMAIN opened = 1..Len(opened) /\ Len(opened) \in Nat
           /\ \A n \in DOMAIN opened : n \in Nat /\ opened[n] \in Chooser
           /\ choosers \in Seq(DOMAIN opened) /\ DOMAIN choosers = 1..Len(choosers) /\ Len(choosers) \in Nat
           /\ \A j \in DOMAIN choosers : j \in Nat /\ choosers[j] \in DOMAIN opened
<1>1. opened \in Seq(Chooser) /\ choosers \in Seq(DOMAIN opened)
  BY DEF UploadsTypeOK, Chooser
<1>2. DOMAIN opened = 1..Len(opened) /\ Len(opened) \in Nat /\ \A n \in DOMAIN opened : n \in Nat /\ opened[n] \in Chooser
  BY <1>1
<1> DEFINE D == DOMAIN opened
<1>3. choosers \in Seq(D)
  BY <1>1
<1> HIDE DEF D
<1>4. DOMAIN choosers = 1..Len(choosers) /\ Len(choosers) \in Nat /\ \A j \in DOMAIN choosers : j \in Nat /\ choosers[j] \in D
  BY <1>3
<1> QED
  BY <1>1, <1>2, <1>4 DEF D

\* No chooser is fed, taken or seen, and no call to feed one is made.
LEMMA ChoosersKept ==
    ASSUME ChoosersOK, Inherits("chooser"), UNCHANGED opened, choosers' = choosers \/ choosers' = <<>>,
           \A c \in Callers : Feeding(c)' => Feeding(c) /\ call'[c].arg = call[c].arg /\ tool'[c].tab = tool[c].tab
    PROVE  ChoosersOK'
<1>1. PICK f : /\ \A i \in Lines("chooser")' : f[i] \in Lines("chooser") /\ wire'[i] = wire[f[i]]
               /\ \A i, j \in Lines("chooser")' : f[i] = f[j] => i = j
  BY DEF Inherits
<1>2. \A n : Unfed(n) => Unfed(n)'
  BY DEF Unfed
<1>3. DOMAIN choosers' \subseteq DOMAIN choosers /\ \A j \in DOMAIN choosers' : choosers'[j] = choosers[j]
  OBVIOUS
<1>4. \A i \in Lines("chooser")' : \A m : m = wire'[i].n => Unfed(m)' /\ \A j \in DOMAIN choosers' : choosers'[j] # m
  <2> SUFFICES ASSUME NEW i \in Lines("chooser")', NEW m, m = wire'[i].n
               PROVE  Unfed(m)' /\ \A j \in DOMAIN choosers' : choosers'[j] # m
    OBVIOUS
  <2>1. m = wire[f[i]].n /\ f[i] \in Lines("chooser")
    BY <1>1
  <2> QED
    BY <1>2, <1>3, <2>1 DEF ChoosersOK
<1>5. \A i, j \in Lines("chooser")' : wire'[i].n = wire'[j].n => i = j
  BY <1>1 DEF ChoosersOK
<1>6. \A j \in DOMAIN choosers' : \A m : m = choosers'[j] => Unfed(m)'
  BY <1>2, <1>3 DEF ChoosersOK
<1>7. Distinct(choosers')
  BY <1>3 DEF ChoosersOK, Distinct
<1>8. FedByItsTab'
  BY DEF ChoosersOK, FedByItsTab
<1>9. \A c \in Callers : Feeding(c)' => /\ call'[c].arg \in DOMAIN opened' /\ opened'[call'[c].arg].fed = 0
                                        /\ opened'[call'[c].arg].tab = tool'[c].tab
                                        /\ \A d \in Callers : Feeding(d)' /\ call'[d].arg = call'[c].arg => d = c
  BY DEF ChoosersOK
<1> QED
  BY <1>4, <1>5, <1>6, <1>7, <1>8, <1>9 DEF ChoosersOK, Unfed

\* A turn that sends no files.
LEMMA ChoosersAmong ==
    ASSUME WireOK, ChoosersOK, NEW c \in Callers, NEW names, NEW calls, TurnAmong(c, names, calls), UNCHANGED opened,
           choosers' = choosers \/ choosers' = <<>>, ~Feeding(c)'
    PROVE  ChoosersOK'
<1>1. wire' = wire /\ \A d \in Callers \ {c} : call'[d] = call[d] /\ Awake(tool[d], tool'[d])
  BY DEF TurnAmong, Turn, WireOK
<1>2. \A d \in Callers \ {c} : tool'[d].tab = tool[d].tab
  <2> SUFFICES ASSUME NEW d \in Callers \ {c}
               PROVE  tool'[d].tab = tool[d].tab
    OBVIOUS
  <2>1. Awake(tool[d], tool'[d]) /\ tool[d] \in Tool
    BY <1>1 DEF WireOK
  <2> QED
    BY <2>1, AwakeTab
<1>3. \A d \in Callers : Feeding(d)' => Feeding(d) /\ call'[d].arg = call[d].arg /\ tool'[d].tab = tool[d].tab
  BY <1>1, <1>2 DEF Feeding
<1> QED
  BY <1>1, <1>3, SameWire, ChoosersKept

\* A chooser is taken from the queue.
LEMMA Takers ==
    ASSUME UploadsTypeOK, ChoosersOK, NEW c \in Callers, Feeds(c)
    PROVE  \E i \in OwnChoosers(c) :
              LET n == choosers[i] IN
              /\ n \in DOMAIN opened /\ opened[n].tab = tool[c].tab
              /\ choosers' \in Seq(DOMAIN opened) /\ Len(choosers') = Len(choosers) - 1
              /\ DOMAIN choosers' = 1..Len(choosers') /\ Distinct(choosers')
              /\ \A j \in DOMAIN choosers' : choosers'[j] # n /\ \E k \in DOMAIN choosers : choosers'[j] = choosers[k]
              /\ \/ Ends(c) /\ UNCHANGED call
                 \/ /\ Goes(c, [tool[c] EXCEPT !.at = "feed", !.item = n, !.woken = FALSE])
                    /\ Sends(c, "setfiles", opened[n].tab, n)
<1> DEFINE i == CHOOSE j \in OwnChoosers(c) : \A k \in OwnChoosers(c) : j <= k
<1>1. i \in OwnChoosers(c)
  <2>1. OwnChoosers(c) \subseteq DOMAIN choosers /\ DOMAIN choosers \subseteq Nat /\ OwnChoosers(c) # {}
    BY Openers DEF OwnChoosers, Feeds
  <2>2. \E j \in OwnChoosers(c) : \A k \in OwnChoosers(c) : j <= k
    BY <2>1, MinOfNaturals
  <2> QED
    BY <2>2
<1>2. choosers' = Without(choosers, i)
  BY DEF Feeds, Without
<1>3. \/ Ends(c) /\ UNCHANGED call
      \/ /\ Goes(c, [tool[c] EXCEPT !.at = "feed", !.item = choosers[i], !.woken = FALSE])
         /\ Sends(c, "setfiles", opened[choosers[i]].tab, choosers[i])
  BY DEF Feeds
<1> HIDE DEF i
<1>4. i \in DOMAIN choosers /\ opened[choosers[i]].tab = tool[c].tab
  BY <1>1 DEF OwnChoosers
<1> DEFINE D == DOMAIN opened
<1>5. choosers \in Seq(D) /\ choosers[i] \in D
  BY <1>4, Openers
<1> HIDE DEF D
<1>6. /\ choosers' \in Seq(D) /\ Len(choosers') = Len(choosers) - 1 /\ DOMAIN choosers' = 1..Len(choosers')
      /\ \A j \in DOMAIN choosers' : \E k \in DOMAIN choosers \ {i} : choosers'[j] = choosers[k]
      /\ Distinct(choosers) => Distinct(choosers') /\ \A j \in DOMAIN choosers' : choosers'[j] # choosers[i]
  BY <1>2, <1>4, <1>5, Removed
<1> QED
  BY <1>1, <1>3, <1>4, <1>5, <1>6 DEF ChoosersOK, D

\* Files reach a chooser, or do not.
LEMMA UploadServed ==
    ASSUME WireOK, UploadsTypeOK, ChoosersOK, NEW c \in Callers, UploadServes(c)
    PROVE  /\ UNCHANGED <<docs, choosers, chooserEvent, context>>
           /\ \/ opened' = opened
              \/ \E n \in DOMAIN opened :
                    /\ Feeding(c) /\ call[c].arg = n
                    /\ opened' \in Seq(Chooser) /\ DOMAIN opened' = DOMAIN opened
                    /\ \A m \in DOMAIN opened \ {n} : opened'[m] = opened[m]
                    /\ opened'[n].tab = opened[n].tab /\ opened'[n].fed = 1 /\ opened'[n].by = opened[n].tab
<1>1. UNCHANGED <<docs, choosers, chooserEvent, context>> /\ call[c].is = "sent" /\ call[c].does \in {"setfiles", "mode"}
  BY DEF UploadServes
<1>2. \/ opened' = opened
      \/ call[c].arg # 0 /\ opened' = [opened EXCEPT ![call[c].arg].fed = @ + 1, ![call[c].arg].by = tool[c].tab]
  BY DEF UploadServes
<1>3. call[c].does = "mode" => call[c].arg = 0
  BY Caller, NoneOK DEF Fits, LeftBehind, NetCalls
<1>4. CASE opened' = opened
  BY <1>1, <1>4
<1>5. CASE call[c].arg # 0 /\ opened' = [opened EXCEPT ![call[c].arg].fed = @ + 1, ![call[c].arg].by = tool[c].tab]
  <2> DEFINE n == call[c].arg
             x == [opened[n] EXCEPT !.fed = @ + 1, !.by = tool[c].tab]
  <2>1. Feeding(c) /\ n \in DOMAIN opened /\ opened[n].fed = 0 /\ opened[n].tab = tool[c].tab
    BY <1>1, <1>3, <1>5 DEF Feeding, ChoosersOK
  <2>2. opened[n] \in Chooser /\ opened \in Seq(Chooser) /\ DOMAIN opened = 1..Len(opened) /\ Len(opened) \in Nat
    BY <2>1, Openers
  <2>3. opened' = [opened EXCEPT ![n] = x]
    BY <1>5, <2>1, <2>2
  <2>4. x \in Chooser /\ x.tab = opened[n].tab /\ x.fed = 1 /\ x.by = opened[n].tab
    <3>1. tool[c].tab \in Tabs
      BY <2>1, <2>2 DEF Chooser
    <3>2. opened[n].fed + 1 = 1 /\ opened[n].fed + 1 \in Nat
      BY <2>1
    <3> DEFINE y == opened[n]
               k == opened[n].fed + 1
               u == tool[c].tab
    <3>3. x = [y EXCEPT !.fed = k, !.by = u] /\ k = 1 /\ k \in Nat /\ u \in Tabs /\ y \in Chooser
      BY <2>2, <3>1, <3>2
    <3>4. u = y.tab
      BY <2>1
    <3> HIDE DEF n, x, k, y, u
    <3>5. x \in Chooser /\ x.tab = y.tab /\ x.fed = k /\ x.by = u
      BY <3>3 DEF Chooser
    <3> QED
      BY <3>3, <3>4, <3>5 DEF y
  <2> HIDE DEF n, x
  <2>5. /\ opened' \in Seq(Chooser) /\ DOMAIN opened' = DOMAIN opened /\ opened'[n] = x
        /\ \A m \in DOMAIN opened \ {n} : opened'[m] = opened[m]
    BY <2>1, <2>2, <2>3, <2>4
  <2> QED
    BY <1>1, <2>1, <2>4, <2>5 DEF n
<1> QED
  BY <1>2, <1>4, <1>5

\* A page has opened a chooser.
LEMMA Opens ==
    ASSUME UploadsTypeOK, NEW t \in Tabs, PageOpensChooser(t)
    PROVE  /\ opened' \in Seq(Chooser) /\ DOMAIN opened' = DOMAIN opened \cup {Len(opened) + 1}
           /\ Len(opened) + 1 \notin DOMAIN opened /\ \A n \in DOMAIN opened : opened'[n] = opened[n]
           /\ opened'[Len(opened) + 1].fed = 0 /\ opened'[Len(opened) + 1].by = None
           /\ UNCHANGED <<docs, choosers, chooserEvent, context, tool, call>>
<1> DEFINE x == [tab |-> t, doc |-> docs[t], fed |-> 0, by |-> None]
<1>1. x \in Chooser /\ x.fed = 0 /\ x.by = None
  <2>1. docs[t] \in Nat
    BY DEF UploadsTypeOK
  <2> QED
    BY <2>1 DEF Chooser
<1>2. opened' = Append(opened, x) /\ UNCHANGED <<docs, choosers, chooserEvent, context, tool, call>>
  BY DEF PageOpensChooser
<1> HIDE DEF x
<1> QED
  BY <1>1, <1>2, Openers

\* The reader has seen a line about choosers.
LEMMA Noticed ==
    ASSUME WireOK, UploadsTypeOK, ChoosersOK, Reads
    PROVE  /\ UNCHANGED <<docs, opened>> /\ context' \in [Tabs -> Nat]
           /\ wire[1].kind # "chooser" => UNCHANGED <<choosers, chooserEvent>>
           /\ wire[1].kind = "chooser" =>
                 /\ choosers' \in Seq(DOMAIN opened) /\ Len(choosers') <= ChooserCap /\ Distinct(choosers') /\ chooserEvent'
                 /\ \A j \in DOMAIN choosers' : choosers'[j] = wire[1].n \/ \E k \in DOMAIN choosers : choosers'[j] = choosers[k]
                 /\ tool' = Roused
<1>0. /\ wire[1] \in AnyLine /\ Head(wire) = wire[1] /\ 1 \in DOMAIN wire /\ context \in [Tabs -> Nat]
      /\ Len(choosers) <= ChooserCap /\ ChooserCap \in Nat
  BY ReadsSay, WireShrinks, UploadsAssumption DEF Reads, UploadsTypeOK
<1>1. CASE wire[1].kind \notin {"chooser", "cleared", "context"}
  BY <1>0, <1>1 DEF Reads, uploadVars
<1>2. CASE wire[1].kind \in {"cleared", "context"}
  <2>1. TrackChooser(wire[1])
    BY <1>0, <1>2 DEF Reads
  <2>2. UNCHANGED <<docs, opened, choosers, chooserEvent>>
    BY <1>2, <2>1 DEF TrackChooser
  <2>3. context' \in [Tabs -> Nat]
    <3>1. CASE wire[1].kind = "cleared"
      <4>1. context' = [context EXCEPT ![wire[1].tab] = 0]
        BY <2>1, <3>1 DEF TrackChooser
      <4> QED
        BY <1>0, <4>1
    <3>2. CASE wire[1].kind = "context"
      <4>1. context' = [context EXCEPT ![wire[1].tab] = wire[1].doc] /\ wire[1].doc \in Nat
        BY <1>0, <2>1, <3>2, LineKinds DEF TrackChooser
      <4> QED
        BY <1>0, <4>1
    <3> QED
      BY <1>2, <3>1, <3>2
  <2> QED
    BY <1>2, <2>2, <2>3
<1>3. CASE wire[1].kind = "chooser"
  <2> DEFINE D == DOMAIN opened
             s == Append(choosers, wire[1].n)
  <2>1. /\ UNCHANGED <<docs, opened>> /\ choosers' = Newest(s) /\ chooserEvent' /\ tool' = Roused /\ context' = context
    BY <1>0, <1>3 DEF Reads, TrackChooser
  <2>2. wire[1].n \in D /\ \A j \in DOMAIN choosers : choosers[j] # wire[1].n
    BY <1>0, <1>3 DEF ChoosersOK, Lines, Unfed
  <2>3. choosers \in Seq(D) /\ Len(choosers) \in Nat /\ DOMAIN choosers = 1..Len(choosers) /\ Distinct(choosers)
    BY Openers DEF ChoosersOK
  <2> HIDE DEF D
  <2>4. /\ s \in Seq(D) /\ Len(s) = Len(choosers) + 1 /\ DOMAIN s = 1..(Len(choosers) + 1)
        /\ s[Len(choosers) + 1] = wire[1].n /\ \A j \in DOMAIN choosers : s[j] = choosers[j]
    BY <2>2, <2>3
  <2> HIDE DEF s
  <2>5. Len(s) <= ChooserCap + 1
    BY <1>0, <2>3, <2>4
  <2>6. \A j \in DOMAIN s : (j \in DOMAIN choosers /\ s[j] = choosers[j]) \/ (j = Len(choosers) + 1 /\ s[j] = wire[1].n)
    BY <2>3, <2>4
  <2>7. Distinct(s)
    BY <2>2, <2>3, <2>6 DEF Distinct
  <2>8. /\ Newest(s) \in Seq(D) /\ Len(Newest(s)) <= ChooserCap /\ Distinct(Newest(s))
        /\ \A j \in DOMAIN Newest(s) : \E k \in DOMAIN s : Newest(s)[j] = s[k]
    BY <2>4, <2>5, <2>7, NewestOnes
  <2>9. \A j \in DOMAIN Newest(s) : Newest(s)[j] = wire[1].n \/ \E k \in DOMAIN choosers : Newest(s)[j] = choosers[k]
    BY <2>6, <2>8
  <2> QED
    BY <1>0, <1>3, <2>1, <2>8, <2>9 DEF D
<1> QED
  BY <1>1, <1>2, <1>3

LEMMA UploadsTyped == ASSUME WireOK, Types, ChoosersOK, [Next]_vars PROVE UploadsTypeOK'
<1>0. UploadsTypeOK
  BY DEF Types
<1>u. ASSUME UNCHANGED uploadVars PROVE UploadsTypeOK'
  BY <1>0, <1>u DEF UploadsTypeOK, uploadVars
<1>t. /\ docs \in [Tabs -> Nat] /\ context \in [Tabs -> Nat] /\ chooserEvent \in BOOLEAN
      /\ Len(choosers) <= ChooserCap /\ choosers \in Seq(DOMAIN opened) /\ opened \in Seq(Chooser)
      /\ Len(choosers) \in Nat /\ ChooserCap \in Nat
  BY <1>0, Openers, UploadsAssumption DEF UploadsTypeOK
<1>w. ASSUME docs' \in [Tabs -> Nat], context' \in [Tabs -> Nat], chooserEvent' \in BOOLEAN, opened' \in Seq(Chooser),
             choosers' \in Seq(DOMAIN opened'), Len(choosers') <= ChooserCap
      PROVE  UploadsTypeOK'
  BY <1>w DEF UploadsTypeOK, Chooser
<1>e. ASSUME choosers' = <<>> PROVE choosers' \in Seq(DOMAIN opened') /\ Len(choosers') <= ChooserCap
  <2>1. Len(choosers') = 0
    BY <1>e
  <2> QED
    BY <1>e, <1>t, <2>1
<1>1. ASSUME NEW c \in Callers, UploadStep(c) PROVE UploadsTypeOK'
  <2>1. CASE SetsMode(c)
    <3>1. UNCHANGED <<docs, opened, context>> /\ choosers' = <<>> /\ chooserEvent' = FALSE
      BY <2>1 DEF SetsMode
    <3> QED
      BY <1>e, <1>t, <1>w, <3>1
  <2>2. CASE ModeSet(c) \/ UploadBegins(c) \/ UploadTimesOut(c) \/ Fed(c)
    BY <1>u, <2>2 DEF ModeSet, UploadBegins, UploadTimesOut, Fed
  <2>3. CASE Feeds(c)
    <3>1. UNCHANGED <<docs, opened, context>> /\ chooserEvent' \in BOOLEAN
      BY <2>3 DEF Feeds
    <3>2. choosers' \in Seq(DOMAIN opened) /\ Len(choosers') = Len(choosers) - 1
      BY <1>0, <2>3, Takers
    <3> QED
      BY <1>t, <1>w, <3>1, <3>2
  <2>4. CASE Sleeps(c)
    <3>1. UNCHANGED <<docs, opened, context, choosers>> /\ chooserEvent' = FALSE
      BY <2>4 DEF Sleeps
    <3> QED
      BY <1>t, <1>w, <3>1
  <2>5. CASE UploadServes(c)
    <3>1. UNCHANGED <<docs, choosers, chooserEvent, context>> /\ opened' \in Seq(Chooser) /\ DOMAIN opened' = DOMAIN opened
      BY <1>0, <1>t, <2>5, UploadServed
    <3> QED
      BY <1>t, <1>w, <3>1
  <2> QED
    BY <1>1, <2>1, <2>2, <2>3, <2>4, <2>5 DEF UploadStep
<1>2. ASSUME NEW t \in Tabs, PageOpensChooser(t) PROVE UploadsTypeOK'
  <2>1. /\ opened' \in Seq(Chooser) /\ DOMAIN opened \subseteq DOMAIN opened'
        /\ UNCHANGED <<docs, choosers, chooserEvent, context>>
    BY <1>0, <1>2, Opens
  <2> DEFINE D == DOMAIN opened
             E == DOMAIN opened'
  <2>2. choosers \in Seq(D) /\ D \subseteq E
    BY <1>t, <2>1
  <2> HIDE DEF D, E
  <2>3. choosers \in Seq(E)
    BY <2>2
  <2> QED
    BY <1>t, <1>w, <2>1, <2>3 DEF E
<1>3. ASSUME NEW t \in Tabs, PageNavigates(t) PROVE UploadsTypeOK'
  <2>1. docs' = [docs EXCEPT ![t] = @ + 1] /\ UNCHANGED <<opened, choosers, chooserEvent, context>>
    BY <1>3 DEF PageNavigates
  <2> QED
    BY <1>t, <1>w, <2>1
<1>4. CASE Reads
  <2>1. UNCHANGED <<docs, opened>> /\ context' \in [Tabs -> Nat] /\ (wire[1].kind # "chooser" => UNCHANGED <<choosers, chooserEvent>>)
    BY <1>0, <1>4, Noticed
  <2>2. CASE wire[1].kind # "chooser"
    BY <1>t, <1>w, <2>1, <2>2
  <2>3. CASE wire[1].kind = "chooser"
    <3>1. choosers' \in Seq(DOMAIN opened) /\ Len(choosers') <= ChooserCap /\ chooserEvent' = TRUE
      BY <1>0, <1>4, <2>3, Noticed, ReadsSay, WireShrinks DEF Reads, TrackChooser
    <3> QED
      BY <1>t, <1>w, <2>1, <3>1
  <2> QED
    BY <2>2, <2>3
<1>5. CASE EngineStops
  <2>1. UNCHANGED <<docs, opened, context>> /\ choosers' = <<>> /\ chooserEvent' = TRUE
    BY <1>5 DEF EngineStops
  <2> QED
    BY <1>e, <1>t, <1>w, <2>1
<1>6. CASE UNCHANGED vars
  BY <1>6, <1>u DEF vars
<1> QED
  BY <1>1, <1>2, <1>3, <1>4, <1>5, <1>6, <1>u DEF Next

LEMMA ChoosersStep == ASSUME WireOK, Types, ChoosersOK, [Next]_vars PROVE ChoosersOK'
<1>0. RoutesTypeOK /\ CastTypeOK /\ UploadsTypeOK
  BY DEF Types
<1>a. ASSUME NEW c \in Callers, NEW names, NEW calls, TurnAmong(c, names, calls) PROVE call'[c].does \in calls \cup {"none"}
  BY <1>a DEF TurnAmong, Turn, WireOK
<1>s. ASSUME NEW c \in Callers, NEW how \in {"ok", "error"}, Answers(c, how), UNCHANGED <<opened, choosers>> PROVE ChoosersOK'
  <2>1. \A d \in Callers : Feeding(d)' => Feeding(d) /\ call'[d].arg = call[d].arg /\ tool'[d].tab = tool[d].tab
    BY <1>s, AnswersSay DEF Feeding, Answers
  <2> QED
    BY <1>s, <2>1, AnswersInherit, ChoosersKept
<1>1. ASSUME NEW c \in Callers, RouteStep(c), UNCHANGED uploadVars PROVE ChoosersOK'
  <2>1. CASE NetServes(c)
    BY <1>1, <1>s, <2>1, NetAnswers DEF uploadVars
  <2>2. CASE ~NetServes(c)
    <3>1. TurnAmong(c, OnPage, OnWire)
      BY <1>0, <1>1, <2>2, RouteTurns
    <3>2. ~Feeding(c)'
      BY <1>a, <3>1 DEF Feeding, OnWire, NetCalls
    <3> QED
      BY <1>1, <3>1, <3>2, ChoosersAmong DEF uploadVars
  <2> QED
    BY <2>1, <2>2
<1>2. ASSUME NEW c \in Callers, CastStep(c), UNCHANGED uploadVars PROVE ChoosersOK'
  <2>1. CASE CastServes(c)
    BY <1>2, <1>s, <2>1, CastAnswers DEF uploadVars
  <2>2. CASE ~CastServes(c)
    <3>1. TurnAmong(c, CastNames, CastCalls)
      BY <1>0, <1>2, <2>2, CastTurns
    <3>2. ~Feeding(c)'
      BY <1>a, <3>1 DEF Feeding, CastCalls
    <3> QED
      BY <1>2, <3>1, <3>2, ChoosersAmong DEF uploadVars
  <2> QED
    BY <2>1, <2>2
<1>3. ASSUME NEW c \in Callers, UploadStep(c), ~UploadServes(c), ~Feeds(c) PROVE ChoosersOK'
  <2>1. TurnAmong(c, UploadNames, UploadCalls)
    BY <1>0, <1>3, UploadTurns
  <2>2. opened' = opened /\ (choosers' = choosers \/ choosers' = <<>>)
    BY <1>3 DEF UploadStep, SetsMode, ModeSet, UploadBegins, Sleeps, UploadTimesOut, Fed, uploadVars
  <2>3. call' = call => call[c] = NoCall
    <3>1. CASE SetsMode(c) \/ ModeSet(c) \/ Fed(c)
      <4>1. call'[c] # call[c]
        <5>1. CASE SetsMode(c)
          <6>1. call'[c].does = "mode"
            BY <5>1 DEF SetsMode, Sends, WireOK
          <6>2. call[c].does = "none"
            BY <5>1, Caller, NoneOK DEF SetsMode, Begins, Fits, LeftBehind
          <6> QED
            BY <6>1, <6>2
        <5>2. CASE ModeSet(c) \/ Fed(c)
          <6>1. call'[c].is = "none" /\ call[c].is \in {"ok", "error"}
            BY <5>2, NoneOK DEF ModeSet, Fed, Answered, Quiet, WireOK
          <6> QED
            BY <6>1
        <5> QED
          BY <3>1, <5>1, <5>2
      <4> QED
        BY <4>1
    <3>2. CASE UploadBegins(c)
      BY <3>2, Caller DEF UploadBegins, Begins, Fits, LeftBehind
    <3>3. CASE Sleeps(c) \/ UploadTimesOut(c)
      BY <3>3, Caller, NoneOK DEF Sleeps, UploadTimesOut, Scans, Waits, At, Runs, Fits
    <3> QED
      BY <1>3, <3>1, <3>2, <3>3 DEF UploadStep
  <2>4. ~Feeding(c)'
    <3>1. CASE call' = call
      BY <2>3, <3>1, NoneOK DEF Feeding
    <3>2. CASE SetsMode(c)
      BY <3>2 DEF SetsMode, Sends, WireOK, Feeding
    <3>3. CASE ModeSet(c) \/ Fed(c)
      BY <3>3, NoneOK DEF ModeSet, Fed, Quiet, WireOK, Feeding
    <3> QED
      BY <1>3, <3>1, <3>2, <3>3 DEF UploadStep, UploadBegins, Sleeps, UploadTimesOut
  <2> QED
    BY <2>1, <2>2, <2>4, ChoosersAmong
<1>4. ASSUME NEW c \in Callers, Feeds(c) PROVE ChoosersOK'
  <2>1. PICK i \in OwnChoosers(c) :
           LET n == choosers[i] IN
           /\ n \in DOMAIN opened /\ opened[n].tab = tool[c].tab
           /\ choosers' \in Seq(DOMAIN opened) /\ Len(choosers') = Len(choosers) - 1
           /\ DOMAIN choosers' = 1..Len(choosers') /\ Distinct(choosers')
           /\ \A j \in DOMAIN choosers' : choosers'[j] # n /\ \E k \in DOMAIN choosers : choosers'[j] = choosers[k]
           /\ \/ Ends(c) /\ UNCHANGED call
              \/ /\ Goes(c, [tool[c] EXCEPT !.at = "feed", !.item = n, !.woken = FALSE])
                 /\ Sends(c, "setfiles", opened[n].tab, n)
    BY <1>0, <1>4, Takers
  <2> DEFINE n == choosers[i]
  <2>2. /\ opened' = opened /\ wire' = wire /\ Unfed(n) /\ i \in DOMAIN choosers
        /\ \A d \in Callers \ {c} : tool'[d] = tool[d] /\ call'[d] = call[d]
    <3>1. i \in DOMAIN choosers
      BY DEF OwnChoosers
    <3> QED
      BY <1>4, <2>1, <3>1 DEF Feeds, ChoosersOK, Goes, Ends, Sends, WireOK
  <2>3. /\ n \in DOMAIN opened /\ opened[n].tab = tool[c].tab /\ Distinct(choosers')
        /\ \A j \in DOMAIN choosers' : choosers'[j] # n /\ \E k \in DOMAIN choosers : choosers'[j] = choosers[k]
    BY <2>1
  <2>4. Feeding(c)' => call'[c].arg = n /\ tool'[c].tab = tool[c].tab
    <3>1. CASE Ends(c) /\ UNCHANGED call
      <4>1. call[c] = NoCall
        BY <1>4, Caller, NoneOK DEF Feeds, Scans, At, Runs, Fits
      <4> QED
        BY <3>1, <4>1, NoneOK DEF Feeding
    <3>2. CASE /\ Goes(c, [tool[c] EXCEPT !.at = "feed", !.item = n, !.woken = FALSE])
               /\ Sends(c, "setfiles", opened[n].tab, n)
      <4>1. tool'[c] = [tool[c] EXCEPT !.at = "feed", !.item = n, !.woken = FALSE] /\ tool[c] \in Tool
        BY <3>2 DEF Goes, WireOK
      <4>2. tool'[c].tab = tool[c].tab
        BY <4>1 DEF Tool
      <4>3. call'[c].arg = n
        BY <3>2 DEF Sends, WireOK
      <4> QED
        BY <4>2, <4>3
    <3> QED
      BY <2>1, <3>1, <3>2
  <2> HIDE DEF n
  <2>5. \A m : Unfed(m) /\ m # n => Unfed(m)'
    BY <2>2, <2>4 DEF Unfed, Feeding
  <2>6. \A k \in Lines("chooser") : wire[k].n # n
    BY <2>2 DEF ChoosersOK, n
  <2>7. \A k \in Lines("chooser")' : \A m : m = wire'[k].n => Unfed(m)' /\ \A j \in DOMAIN choosers' : choosers'[j] # m
    BY <2>2, <2>3, <2>5, <2>6 DEF ChoosersOK, Lines
  <2>8. \A k, l \in Lines("chooser")' : wire'[k].n = wire'[l].n => k = l
    BY <2>2 DEF ChoosersOK, Lines
  <2>9. \A j \in DOMAIN choosers' : \A m : m = choosers'[j] => Unfed(m)'
    BY <2>3, <2>5 DEF ChoosersOK
  <2>10. \A d \in Callers : Feeding(d)' => /\ call'[d].arg \in DOMAIN opened' /\ opened'[call'[d].arg].fed = 0
                                           /\ opened'[call'[d].arg].tab = tool'[d].tab
                                           /\ \A e \in Callers : Feeding(e)' /\ call'[e].arg = call'[d].arg => e = d
    <3>1. \A d \in Callers \ {c} : Feeding(d)' => Feeding(d) /\ call'[d].arg = call[d].arg /\ call[d].arg # n
      BY <2>2 DEF Feeding, Unfed
    <3>2. opened[n].fed = 0
      BY <2>2 DEF Unfed
    <3> QED
      BY <2>2, <2>3, <2>4, <3>1, <3>2 DEF ChoosersOK
  <2>11. FedByItsTab'
    BY <2>2 DEF ChoosersOK, FedByItsTab
  <2> QED
    BY <2>3, <2>7, <2>8, <2>9, <2>10, <2>11 DEF ChoosersOK, Unfed
<1>5. ASSUME NEW c \in Callers, UploadServes(c) PROVE ChoosersOK'
  <2>1. CASE opened' = opened
    BY <1>0, <1>5, <1>s, <2>1, UploadAnswers, UploadServed
  <2>2. CASE opened' # opened
    <3>1. PICK n \in DOMAIN opened :
             /\ Feeding(c) /\ call[c].arg = n
             /\ opened' \in Seq(Chooser) /\ DOMAIN opened' = DOMAIN opened
             /\ \A m \in DOMAIN opened \ {n} : opened'[m] = opened[m]
             /\ opened'[n].tab = opened[n].tab /\ opened'[n].fed = 1 /\ opened'[n].by = opened[n].tab
      BY <1>0, <1>5, <2>2, UploadServed
    <3>2. PICK how \in {"ok", "error"} : Answers(c, how)
      BY <1>5, UploadAnswers
    <3>3. /\ choosers' = choosers /\ tool' = tool /\ ~Feeding(c)' /\ Inherits("chooser")
          /\ \A d \in Callers \ {c} : call'[d] = call[d]
      BY <1>0, <1>5, <3>2, UploadServed, AnswersSay, AnswersInherit DEF Answers, Feeding
    <3>4. \A m : Unfed(m) => m # n /\ Unfed(m)'
      BY <3>1, <3>3 DEF Unfed, Feeding
    <3>5. PICK f : /\ \A i \in Lines("chooser")' : f[i] \in Lines("chooser") /\ wire'[i] = wire[f[i]]
                   /\ \A i, j \in Lines("chooser")' : f[i] = f[j] => i = j
      BY <3>3 DEF Inherits
    <3>6. \A k \in Lines("chooser")' : \A m : m = wire'[k].n => Unfed(m)' /\ \A j \in DOMAIN choosers' : choosers'[j] # m
      <4> SUFFICES ASSUME NEW k \in Lines("chooser")', NEW m, m = wire'[k].n
                   PROVE  Unfed(m)' /\ \A j \in DOMAIN choosers' : choosers'[j] # m
        OBVIOUS
      <4>1. m = wire[f[k]].n /\ f[k] \in Lines("chooser")
        BY <3>5
      <4> QED
        BY <3>3, <3>4, <4>1 DEF ChoosersOK
    <3>7. \A k, l \in Lines("chooser")' : wire'[k].n = wire'[l].n => k = l
      BY <3>5 DEF ChoosersOK
    <3>8. \A j \in DOMAIN choosers' : \A m : m = choosers'[j] => Unfed(m)'
      BY <3>3, <3>4 DEF ChoosersOK
    <3>9. \A d \in Callers : Feeding(d)' => /\ call'[d].arg \in DOMAIN opened' /\ opened'[call'[d].arg].fed = 0
                                            /\ opened'[call'[d].arg].tab = tool'[d].tab
                                            /\ \A e \in Callers : Feeding(e)' /\ call'[e].arg = call'[d].arg => e = d
      <4>1. \A d \in Callers : Feeding(d)' => d # c /\ Feeding(d) /\ call'[d].arg = call[d].arg /\ call[d].arg # n
        BY <3>1, <3>3 DEF ChoosersOK, Feeding
      <4> QED
        BY <3>1, <3>3, <4>1 DEF ChoosersOK
    <3>10. FedByItsTab'
      <4>1. ASSUME NEW m \in DOMAIN opened PROVE opened'[m].fed <= 1 /\ opened'[m].by \in {None, opened'[m].tab}
        <5>1. CASE m = n
          BY <3>1, <5>1
        <5>2. CASE m # n
          BY <3>1, <5>2 DEF ChoosersOK, FedByItsTab
        <5> QED
          BY <5>1, <5>2
      <4> QED
        BY <3>1, <4>1 DEF FedByItsTab
    <3> QED
      BY <3>3, <3>6, <3>7, <3>8, <3>9, <3>10 DEF ChoosersOK, Unfed
  <2> QED
    BY <2>1, <2>2
<1>6. ASSUME NEW t \in Tabs, PageOpensChooser(t) PROVE ChoosersOK'
  <2> DEFINE x == [kind |-> "chooser", n |-> Len(opened) + 1]
             new == Len(opened) + 1
  <2>1. Tells(<<x>>) /\ <<x>> \in Seq(AnyLine)
    BY <1>0, <1>6, PagesTell DEF Types
  <2>2. x.n = new /\ x.kind = "chooser"
    OBVIOUS
  <2>3. /\ DOMAIN opened' = DOMAIN opened \cup {new} /\ new \notin DOMAIN opened /\ \A n \in DOMAIN opened : opened'[n] = opened[n]
        /\ opened'[new].fed = 0 /\ opened'[new].by = None /\ UNCHANGED <<choosers, tool, call>>
    BY <1>0, <1>6, Opens
  <2> HIDE DEF x, new
  <2>4. \A i \in Lines("chooser")' : \/ i \in Lines("chooser") /\ wire'[i] = wire[i]
                                     \/ i = Len(wire) + 1 /\ wire'[i] = x
    <3>1. DOMAIN <<x>> = {1} /\ <<x>>[1] = x
      OBVIOUS
    <3> QED
      BY <2>1, <3>1, WireGrows DEF Tells, Lines
  <2>5. \A m : Unfed(m) => m # new /\ Unfed(m)'
    BY <2>3 DEF Unfed, Feeding
  <2>6. \A m : m = new => Unfed(m)'
    <3> SUFFICES ASSUME NEW m, m = new PROVE Unfed(m)'
      OBVIOUS
    <3>1. m \in DOMAIN opened' /\ opened'[m].fed = 0 /\ opened'[m].by = None /\ m \notin DOMAIN opened
      BY <2>3
    <3> QED
      BY <2>3, <3>1 DEF Unfed, Feeding, ChoosersOK
  <2>7. \A i \in Lines("chooser")' : \A m : m = wire'[i].n => Unfed(m)' /\ \A j \in DOMAIN choosers' : choosers'[j] # m
    BY <2>2, <2>3, <2>4, <2>5, <2>6 DEF ChoosersOK
  <2>8. \A i, j \in Lines("chooser")' : wire'[i].n = wire'[j].n => i = j
    BY <2>2, <2>4, <2>5 DEF ChoosersOK
  <2>9. \A j \in DOMAIN choosers' : \A m : m = choosers'[j] => Unfed(m)'
    BY <2>3, <2>5 DEF ChoosersOK
  <2>10. \A d \in Callers : Feeding(d)' => /\ call'[d].arg \in DOMAIN opened' /\ opened'[call'[d].arg].fed = 0
                                           /\ opened'[call'[d].arg].tab = tool'[d].tab
                                           /\ \A e \in Callers : Feeding(e)' /\ call'[e].arg = call'[d].arg => e = d
    BY <2>3 DEF ChoosersOK, Feeding
  <2>11. FedByItsTab'
    <3>1. opened'[new].fed <= 1 /\ opened'[new].by \in {None, opened'[new].tab}
      BY <2>3
    <3> QED
      BY <2>3, <3>1 DEF ChoosersOK, FedByItsTab
  <2>12. Distinct(choosers')
    BY <2>3 DEF ChoosersOK
  <2> QED
    BY <2>7, <2>8, <2>9, <2>10, <2>11, <2>12 DEF ChoosersOK, Unfed
<1>7. ASSUME NEW t \in Tabs, (\E id \in Ids : PageRequests(t, id)) \/ PagePaints(t) \/ PageNavigates(t), UNCHANGED <<opened, choosers>>
      PROVE  ChoosersOK'
  <2>1. Inherits("chooser")
    BY <1>7, PagesInherit
  <2>2. UNCHANGED <<call, tool>>
    BY <1>7 DEF PageRequests, PagePaints, PageNavigates
  <2>3. \A d \in Callers : Feeding(d)' => Feeding(d) /\ call'[d].arg = call[d].arg /\ tool'[d].tab = tool[d].tab
    BY <2>2 DEF Feeding
  <2> QED
    BY <1>7, <2>1, <2>3, ChoosersKept
<1>8. CASE Reads
  <2>1. \A d \in Callers : Feeding(d)' => Feeding(d) /\ call'[d].arg = call[d].arg /\ call'[d] = call[d] /\ tool'[d].tab = tool[d].tab
    <3>1. ASSUME NEW d \in Callers PROVE tool'[d].tab = tool[d].tab
      <4>1. Awake(tool[d], tool'[d]) /\ tool[d] \in Tool
        BY <1>8, ReadsSay DEF WireOK
      <4> QED
        BY <4>1, AwakeTab
    <3>2. \A d \in Callers : call'[d].is = "sent" => call'[d] = call[d]
      BY <1>8, ReadsSay, Answer
    <3> QED
      BY <3>1, <3>2 DEF Feeding
  <2>2. CASE wire[1].kind # "chooser"
    BY <1>0, <1>8, <2>1, <2>2, Noticed, ReadsInherit, ChoosersKept
  <2>3. CASE wire[1].kind = "chooser"
    <3>0. /\ \A i \in Lines("chooser")' : i + 1 \in Lines("chooser") \ {1} /\ wire'[i] = wire[i + 1]
          /\ \A i, j \in Lines("chooser")' : i + 1 = j + 1 => i = j
          /\ 1 \in Lines("chooser")
      BY <1>8, <2>3, ReadsInherit DEF Lines
    <3>1. /\ opened' = opened /\ Distinct(choosers')
          /\ \A j \in DOMAIN choosers' : choosers'[j] = wire[1].n \/ \E k \in DOMAIN choosers : choosers'[j] = choosers[k]
      BY <1>0, <1>8, <2>3, Noticed
    <3>2. \A m : Unfed(m) => Unfed(m)'
      BY <2>1, <3>1 DEF Unfed
    <3>3. Unfed(wire[1].n) /\ \A i \in Lines("chooser")' : wire'[i].n # wire[1].n
      BY <3>0 DEF ChoosersOK
    <3>4. \A i \in Lines("chooser")' : \A m : m = wire'[i].n => Unfed(m)' /\ \A j \in DOMAIN choosers' : choosers'[j] # m
      BY <3>0, <3>1, <3>2, <3>3 DEF ChoosersOK
    <3>5. \A i, j \in Lines("chooser")' : wire'[i].n = wire'[j].n => i = j
      BY <3>0 DEF ChoosersOK
    <3>6. \A j \in DOMAIN choosers' : \A m : m = choosers'[j] => Unfed(m)'
      BY <3>1, <3>2, <3>3 DEF ChoosersOK
    <3>7. \A d \in Callers : Feeding(d)' => /\ call'[d].arg \in DOMAIN opened' /\ opened'[call'[d].arg].fed = 0
                                            /\ opened'[call'[d].arg].tab = tool'[d].tab
                                            /\ \A e \in Callers : Feeding(e)' /\ call'[e].arg = call'[d].arg => e = d
      BY <2>1, <3>1 DEF ChoosersOK
    <3>8. FedByItsTab'
      BY <3>1 DEF ChoosersOK, FedByItsTab
    <3> QED
      BY <3>1, <3>4, <3>5, <3>6, <3>7, <3>8 DEF ChoosersOK, Unfed
  <2> QED
    BY <2>2, <2>3
<1>9. CASE EngineStops
  <2>1. opened' = opened /\ choosers' = <<>> /\ wire' = <<>>
    BY <1>9 DEF EngineStops
  <2>2. \A d \in Callers : ~Feeding(d)'
    BY <1>9, StopsSay DEF Feeding
  <2> QED
    BY <2>1, <2>2, NoWire, ChoosersKept
<1>10. CASE (Switch \/ UNCHANGED wireVars) /\ UNCHANGED uploadVars
  <2>1. UNCHANGED <<tool, call, wire, opened, choosers>>
    BY <1>10 DEF Switch, wireVars, uploadVars
  <2>2. \A d \in Callers : Feeding(d)' => Feeding(d) /\ call'[d].arg = call[d].arg /\ tool'[d].tab = tool[d].tab
    BY <2>1 DEF Feeding
  <2> QED
    BY <2>1, <2>2, SameWire, ChoosersKept
<1>11. ASSUME NEW t \in Tabs, NEW id \in Ids, PageRequests(t, id), UNCHANGED uploadVars PROVE ChoosersOK'
  BY <1>7, <1>11 DEF uploadVars
<1>12. ASSUME NEW t \in Tabs, PagePaints(t), UNCHANGED uploadVars PROVE ChoosersOK'
  BY <1>7, <1>12 DEF uploadVars
<1>13. ASSUME NEW t \in Tabs, PageNavigates(t) PROVE ChoosersOK'
  BY <1>7, <1>13 DEF PageNavigates
<1>14. CASE UNCHANGED vars
  BY <1>10, <1>14 DEF vars
<1> QED
  BY <1>1, <1>2, <1>3, <1>4, <1>5, <1>6, <1>8, <1>9, <1>10, <1>11, <1>12, <1>13, <1>14 DEF Next

-----------------------------------------------------------------------------
(* Frames.                                                                 *)

\* A sequence from its i-th element on.
LEMMA Rest ==
    ASSUME NEW S, NEW s \in Seq(S), NEW i \in DOMAIN s
    PROVE  /\ SubSeq(s, i + 1, Len(s)) \in Seq(S)
           /\ SubSeq(s, i + 1, Len(s)) # <<>> => s # <<>>
OBVIOUS

\* CastTypeOK with its records named.
CastTyped ==
    /\ stream \in [Tabs -> Stream] /\ streams \in Nat
    /\ frames \in Seq(Frame) /\ frameEvent \in BOOLEAN
    /\ castId \in Nat /\ castTab \in Tabs \cup {None} /\ starting \in Tabs \cup {None}
    /\ generation \in Nat /\ holder \in Callers \cup {None} /\ strayed \in BOOLEAN /\ failed \in BOOLEAN

LEMMA CastNamed == CastTypeOK = CastTyped
BY DEF CastTypeOK, CastTyped, Stream, Frame

LEMMA CastNamedNext == CastTypeOK' = CastTyped'
BY DEF CastTypeOK, CastTyped, Stream, Frame

LEMMA FramesGrow ==
    ASSUME CastTypeOK, NEW g \in Nat, NEW k \in Nat
    PROVE  /\ Append(frames, [gen |-> g, of |-> k]) \in Seq(Frame)
           /\ <<[gen |-> g, of |-> k]>> \o frames \in Seq(Frame)
<1>1. [gen |-> g, of |-> k] \in Frame /\ frames \in Seq(Frame)
  BY DEF CastTypeOK, Frame
<1> DEFINE x == [gen |-> g, of |-> k]
<1>2. x \in Frame
  BY <1>1
<1> HIDE DEF x
<1>3. Append(frames, x) \in Seq(Frame) /\ <<x>> \in Seq(Frame)
  BY <1>1, <1>2
<1>4. <<x>> \o frames \in Seq(Frame)
  BY <1>1, <1>3, Joined
<1> QED
  BY <1>3, <1>4 DEF x

\* What a tool of the screencast does to the frames.
LEMMA FramesTurned ==
    ASSUME WireOK, CastTypeOK, NEW c \in Callers, CastStep(c), ~CastServes(c)
    PROVE  /\ CastTypeOK'
           /\ \/ frames' = <<>>
              \/ (frames' # <<>> => frames # <<>>) /\ (Sleeping(c)' => frames' = <<>>)
              \/ tool' = Woken([tool EXCEPT ![c] = Idle])
<1>f. CastTyped
  BY CastNamed
<1>0. /\ tool[c] \in Tool /\ tool \in [Callers -> Tool] /\ current \in Tabs /\ frames \in Seq(Frame)
      /\ \A i \in DOMAIN frames : i \in Nat /\ frames[i] \in Frame
  <2>1. frames \in Seq(Frame)
    BY <1>f DEF CastTyped
  <2> HIDE DEF Frame
  <2>2. \A i \in DOMAIN frames : i \in Nat /\ frames[i] \in Frame
    BY <2>1
  <2> QED
    BY <2>1, <2>2, Caller
<1>i. Idle.at = "none" /\ (tool'[c].at # "sleep" => ~Sleeping(c)')
  BY NoneOK DEF Sleeping, At
<1>e. <<>> \in Seq(Frame)
  OBVIOUS
<1> SUFFICES /\ CastTyped'
             /\ \/ frames' = <<>>
                \/ (frames' # <<>> => frames # <<>>) /\ (Sleeping(c)' => frames' = <<>>)
                \/ tool' = Woken([tool EXCEPT ![c] = Idle])
  BY CastNamedNext
<1>1. CASE StartCast(c)
  <2>1. tool'[c].at = "lock" /\ UNCHANGED castVars
    BY <1>0, <1>1 DEF StartCast, Begins, Idle
  <2> QED
    BY <1>f, <1>i, <2>1 DEF castVars, CastTyped
<1>2. CASE Locked(c)
  <2>1. CASE castId # 0
    <3>1. tool'[c].at = "stopping" /\ UNCHANGED <<stream, streams, frames, generation, castId, castTab, frameEvent, starting, strayed, failed>>
      BY <1>0, <1>2, <2>1 DEF Locked, Goes, Keeps, Tool
    <3>2. holder' = c
      BY <1>2 DEF Locked
    <3> QED
      BY <1>f, <1>i, <3>1, <3>2 DEF CastTyped
  <2>2. CASE castId = 0
    <3>1. /\ frames' = <<>> /\ generation' = generation + 1 /\ castId' = 0 /\ castTab' = None /\ frameEvent' = FALSE
          /\ starting' = current /\ holder' = c /\ UNCHANGED <<stream, streams, strayed, failed>>
      BY <1>2, <2>2 DEF Locked, SendStart, ClearCast
    <3>2. generation' \in Nat
      BY <1>f, <3>1 DEF CastTyped
    <3>3. CastTyped'
      BY <1>f, <1>0, <1>e, <3>1, <3>2 DEF CastTyped
    <3> QED
      BY <3>1, <3>3
  <2> QED
    BY <2>1, <2>2
<1>3. CASE CastFails(c)
  BY <1>f, <1>3 DEF CastFails, ClearCast, CastTyped
<1>4. CASE Restarts(c)
  <2>1. /\ frames' = <<>> /\ generation' = generation + 2 /\ castId' = 0 /\ castTab' = None /\ frameEvent' = FALSE
        /\ starting' = current /\ UNCHANGED <<stream, streams, holder, strayed, failed>>
    BY <1>4 DEF Restarts
  <2>2. generation' \in Nat
    BY <1>f, <2>1 DEF CastTyped
  <2>3. CastTyped'
    BY <1>0, <1>f, <1>e, <2>1, <2>2 DEF CastTyped
  <2> QED
    BY <2>1, <2>3
<1>5. CASE Started(c)
  <2>1. tool[c].tab \in Tabs
    BY <1>5, Caller DEF Started, Runs, At, Fits
  <2>2. stream[tool[c].tab].id \in Nat
    <3>1. stream[tool[c].tab] \in Stream
      BY <1>f, <2>1 DEF CastTyped
    <3> QED
      BY <3>1 DEF Stream
  <2>3. tool'[c].at # "sleep"
    BY <1>0, <1>5, <1>i DEF Started, Ends
  <2>4. castId' = stream[tool[c].tab].id /\ castTab' = tool[c].tab /\ starting' = None /\ holder' = None
    BY <1>5 DEF Started
  <2>5. UNCHANGED <<stream, streams, frames, frameEvent, generation, strayed, failed>>
    BY <1>5 DEF Started
  <2> QED
    BY <1>f, <1>i, <2>1, <2>2, <2>3, <2>4, <2>5 DEF CastTyped
<1>6. CASE StopCast(c)
  <2>1. tool'[c].at # "sleep"
    BY <1>0, <1>6 DEF StopCast, Begins, Idle
  <2> QED
    BY <1>f, <1>6, <1>i, <2>1 DEF StopCast, CastTyped
<1>7. CASE Stopped(c)
  BY <1>f, <1>7 DEF Stopped, ClearCast, CastTyped
<1>8. CASE FrameBegins(c)
  <2>1. tool'[c].at # "sleep"
    BY <1>0, <1>8 DEF FrameBegins, Begins, Idle
  <2> QED
    BY <1>f, <1>8, <1>i, <2>1 DEF FrameBegins, CastTyped, castVars
<1>9. CASE Drain(c)
  <2>1. strayed' \in BOOLEAN
    BY <1>9 DEF Drain
  <2>2. frames' = <<>> /\ frameEvent' = FALSE
    BY <1>9 DEF Drain
  <2>3. UNCHANGED <<stream, streams, castId, castTab, starting, generation, holder, failed>>
    BY <1>9 DEF Drain
  <2>4. CastTyped'
    BY <1>f, <1>e, <2>1, <2>2, <2>3 DEF CastTyped
  <2> QED
    BY <2>2, <2>4
<1>10. CASE Discarded(c)
  <2>1. tool'[c].at # "sleep"
    BY <1>0, <1>10, <1>i DEF Discarded, Goes, Ends, Tool, At
  <2> QED
    BY <1>f, <1>10, <1>i, <2>1 DEF Discarded, CastTyped
<1>11. CASE Takes(c)
  <2> DEFINE i == CHOOSE j \in Mine(c) : \A k \in Mine(c) : j <= k
  <2>1. i \in Mine(c)
    <3>1. Mine(c) \subseteq Nat /\ Mine(c) # {}
      BY <1>0, <1>11 DEF Mine, Takes
    <3>2. \E j \in Mine(c) : \A k \in Mine(c) : j <= k
      BY <3>1, MinOfNaturals
    <3> QED
      BY <3>2
  <2>2. /\ frames' = SubSeq(frames, i + 1, Len(frames)) /\ strayed' \in BOOLEAN
        /\ \/ Ends(c)
           \/ Goes(c, [tool[c] EXCEPT !.at = "ack", !.item = frames[i].of, !.woken = FALSE])
    BY <1>f, <1>11 DEF Takes, CastTyped
  <2> HIDE DEF i
  <2>3. frames' \in Seq(Frame) /\ (frames' # <<>> => frames # <<>>)
    BY <1>0, <2>1, <2>2, Rest DEF Mine
  <2>4. tool'[c].at # "sleep"
    BY <1>0, <1>i, <2>2 DEF Goes, Ends, Tool
  <2>5. frameEvent' \in BOOLEAN /\ UNCHANGED <<stream, streams, castId, castTab, starting, generation, holder, failed>>
    BY <1>f, <1>11 DEF Takes, CastTyped
  <2>6. CastTyped'
    BY <1>f, <2>2, <2>3, <2>5 DEF CastTyped
  <2> QED
    BY <1>i, <2>3, <2>4, <2>6
<1>12. CASE Misses(c)
  <2>1. strayed' \in BOOLEAN
    BY <1>12 DEF Misses
  <2>2. frames' = <<>> /\ (frameEvent' = FALSE \/ frameEvent' = frameEvent)
    BY <1>12 DEF Misses
  <2>3. UNCHANGED <<stream, streams, castId, castTab, starting, generation, holder, failed>>
    BY <1>12 DEF Misses
  <2>4. CastTyped'
    BY <1>f, <1>e, <2>1, <2>2, <2>3 DEF CastTyped
  <2> QED
    BY <2>2, <2>4
<1>13. CASE Wakes(c)
  BY <1>f, <1>13 DEF Wakes, CastTyped
<1>14. CASE FrameTimesOut(c) \/ Acked(c)
  <2>1. tool'[c].at # "sleep" /\ UNCHANGED castVars
    BY <1>0, <1>14, <1>i DEF FrameTimesOut, Acked, Ends
  <2> QED
    BY <1>f, <1>i, <2>1 DEF castVars, CastTyped
<1>15. CASE AckFails(c)
  <2>1. UNCHANGED <<stream, streams, castId, castTab, starting, generation, holder, strayed, failed>>
    BY <1>15 DEF AckFails
  <2>2. CASE tool[c].gen = generation
    <3>1. PutsBack(c)
      BY <1>15, <2>2 DEF AckFails
    <3>2. tool[c].gen \in Nat /\ tool[c].item \in Nat
      BY <1>0 DEF Tool
    <3>3. frames' \in Seq(Frame) /\ frameEvent' = TRUE /\ tool' = Woken([tool EXCEPT ![c] = Idle])
      BY <3>1, <3>2, FramesGrow DEF PutsBack
    <3> QED
      BY <1>f, <2>1, <3>3 DEF CastTyped
  <2>3. CASE tool[c].gen # generation
    <3>1. tool'[c].at # "sleep" /\ UNCHANGED <<frames, frameEvent>>
      BY <1>0, <1>15, <1>i, <2>3 DEF AckFails, Ends
    <3> QED
      BY <1>f, <1>i, <2>1, <3>1 DEF CastTyped
  <2> QED
    BY <2>2, <2>3
<1> QED
  BY <1>1, <1>2, <1>3, <1>4, <1>5, <1>6, <1>7, <1>8, <1>9, <1>10, <1>11, <1>12, <1>13, <1>14, <1>15 DEF CastStep

\* The browser serves a call about a stream.
LEMMA CastServed ==
    ASSUME WireOK, CastTypeOK, NEW c \in Callers, CastServes(c)
    PROVE  CastTypeOK' /\ frames' = frames
<1>1. CastTyped /\ tool[c] \in Tool
  BY CastNamed, Caller
<1>2. call[c].does \in CastCalls /\ UNCHANGED <<frames, frameEvent, castId, castTab, starting, generation, holder, strayed>>
  BY DEF CastServes
<1>3. failed' \in BOOLEAN
  BY <1>1 DEF CastServes, CastTyped
<1>4. ServesCast(c) \/ UNCHANGED <<stream, streams>>
  BY DEF CastServes, browserVars
<1>5. stream' \in [Tabs -> Stream] /\ streams' \in Nat
  <2> DEFINE t == call[c].tab
             begun == [id |-> streams + 1, flying |-> FALSE]
             over == [id |-> 0, flying |-> FALSE]
  <2>0. ASSUME NEW u, NEW x \in Stream, stream' = [stream EXCEPT ![u] = x] PROVE stream' \in [Tabs -> Stream]
    BY <1>1, <2>0 DEF CastTyped
  <2>1. begun \in Stream /\ over \in Stream
    BY <1>1 DEF Stream, CastTyped
  <2>2. CASE UNCHANGED <<stream, streams>>
    BY <1>1, <2>2 DEF CastTyped
  <2>3. CASE ServesCast(c)
    <3>1. CASE call[c].does = "startcast"
      <4>1. stream' = [stream EXCEPT ![t] = begun] /\ streams' = streams + 1
        BY <2>3, <3>1 DEF ServesCast
      <4>2. streams' \in Nat
        BY <1>1, <4>1 DEF CastTyped
      <4> HIDE DEF begun, t
      <4> QED
        BY <2>0, <2>1, <4>1, <4>2
    <3>2. CASE call[c].does = "stopcast"
      <4>1. stream' = [stream EXCEPT ![t] = over] /\ streams' = streams
        BY <2>3, <3>2 DEF ServesCast
      <4>2. streams' \in Nat
        BY <1>1, <4>1 DEF CastTyped
      <4> HIDE DEF over, t
      <4> QED
        BY <2>0, <2>1, <4>1, <4>2
    <3>3. CASE call[c].does = "ack"
      <4>1. stream' = [stream EXCEPT ![t].flying = FALSE] \/ stream' = stream
        BY <2>3, <3>3 DEF ServesCast
      <4>2. streams' = streams
        BY <2>3, <3>3 DEF ServesCast
      <4>3. CASE t \in Tabs
        <5> DEFINE x == [stream[t] EXCEPT !.flying = FALSE]
        <5>1. stream[t] \in Stream
          BY <1>1, <4>3 DEF CastTyped
        <5>2. x \in Stream
          BY <5>1 DEF Stream
        <5>3. stream' = [stream EXCEPT ![t] = x] \/ stream' = stream
          BY <4>1
        <5> HIDE DEF x, t
        <5> QED
          BY <1>1, <4>2, <5>2, <5>3 DEF CastTyped
      <4>4. CASE t \notin Tabs
        <5> HIDE DEF t
        <5> QED
          BY <1>1, <4>1, <4>2, <4>4 DEF CastTyped
      <4> QED
        BY <4>3, <4>4
    <3> QED
      BY <1>2, <3>1, <3>2, <3>3 DEF CastCalls
  <2> QED
    BY <1>4, <2>2, <2>3
<1>6. CastTyped'
  BY <1>1, <1>2, <1>3, <1>5 DEF CastTyped
<1> QED
  BY <1>2, <1>6, CastNamedNext

\* A page paints.
LEMMA Painted ==
    ASSUME CastTypeOK, NEW t \in Tabs, PagePaints(t)
    PROVE  CastTypeOK' /\ frames' = frames /\ tool' = tool
<1> DEFINE x == [stream[t] EXCEPT !.flying = TRUE]
<1>1. CastTyped
  BY CastNamed
<1>2. stream[t] \in Stream
  BY <1>1 DEF CastTyped
<1>3. x \in Stream
  BY <1>2 DEF Stream
<1>4. stream' = [stream EXCEPT ![t] = x]
  BY DEF PagePaints
<1>5. UNCHANGED <<tool, streams, frames, frameEvent, castId, castTab, starting, generation, holder, strayed, failed>>
  BY DEF PagePaints
<1> HIDE DEF x
<1>6. CastTyped'
  BY <1>1, <1>3, <1>4, <1>5 DEF CastTyped
<1> QED
  BY <1>5, <1>6, CastNamedNext

\* The reader has seen a line about frames.
LEMMA Heard ==
    ASSUME WireOK, CastTypeOK, Reads
    PROVE  CastTypeOK' /\ (frames' = frames \/ tool' = Woken(tool))
<1> DEFINE line == wire[1]
<1>1. CastTyped /\ line \in AnyLine /\ Head(wire) = line
  BY CastNamed, ReadsSay, WireShrinks DEF Reads
<1> HIDE DEF line
<1>2. CASE UNCHANGED castVars
  BY <1>2 DEF castVars, CastTypeOK
<1>3. CASE /\ line.kind = "frame" /\ frames' = Append(frames, [gen |-> generation, of |-> line.of])
           /\ frameEvent' = TRUE /\ tool' = Woken(tool)
           /\ UNCHANGED <<stream, streams, castId, castTab, starting, generation, holder, strayed, failed>>
  <2>1. line.of \in Nat /\ generation \in Nat
    BY <1>1, <1>3, LineKinds DEF CastTyped
  <2>2. frames' \in Seq(Frame)
    BY <1>3, <2>1, FramesGrow
  <2>3. CastTyped'
    BY <1>1, <1>3, <2>2 DEF CastTyped
  <2> QED
    BY <1>3, <2>3, CastNamedNext
<1>4. \/ TrackChooser(line) /\ UNCHANGED castVars
      \/ TrackFrame(line) /\ UNCHANGED <<stream, streams, castId, castTab, starting, generation, holder, strayed, failed>>
  <2>1. LET l == Head(wire) IN
        \/ TrackChooser(l) /\ UNCHANGED castVars
        \/ TrackFrame(l) /\ UNCHANGED <<stream, streams, castId, castTab, starting, generation, holder, strayed, failed>>
    BY DEF Reads
  <2> QED
    BY <1>1, <2>1
<1> QED
  BY <1>2, <1>3, <1>4 DEF TrackFrame, castVars

LEMMA CastTypes == ASSUME WireOK, Types, [Next]_vars PROVE CastTypeOK'
<1>0. CastTypeOK
  BY DEF Types
<1>1. CASE UNCHANGED castVars
  BY <1>0, <1>1 DEF castVars, CastTypeOK
<1>2. ASSUME NEW c \in Callers, CastStep(c) PROVE CastTypeOK'
  BY <1>0, <1>2, CastServed, FramesTurned
<1>3. ASSUME NEW t \in Tabs, PagePaints(t) PROVE CastTypeOK'
  BY <1>0, <1>3, Painted
<1>4. CASE Reads
  BY <1>0, <1>4, Heard
<1>5. CASE EngineStops
  <2>1. CastTyped
    BY <1>0, CastNamed
  <2>2. /\ frames' = <<>> /\ castId' = 0 /\ castTab' = None /\ starting' = None /\ frameEvent' = TRUE
        /\ UNCHANGED <<stream, streams, generation, holder, strayed, failed>>
    BY <1>5 DEF EngineStops
  <2>3. CastTyped'
    BY <2>1, <2>2 DEF CastTyped
  <2> QED
    BY <2>3, CastNamedNext
<1>6. CASE \/ \E c \in Callers : UploadStep(c) /\ UNCHANGED <<routeVars, castVars>>
           \/ \E t \in Tabs : \/ PageOpensChooser(t) /\ UNCHANGED <<routeVars, castVars>>
                              \/ PageNavigates(t) /\ UNCHANGED <<routeVars, castVars>>
           \/ Switch /\ UNCHANGED <<routeVars, castVars, uploadVars>>
           \/ UNCHANGED vars
  BY <1>1, <1>6 DEF vars
<1>7. CASE \/ \E c \in Callers : RouteStep(c) /\ UNCHANGED <<castVars, uploadVars>>
           \/ \E t \in Tabs : \E id \in Ids : PageRequests(t, id) /\ UNCHANGED <<castVars, uploadVars>>
  BY <1>1, <1>7
<1> QED
  BY <1>2, <1>3, <1>4, <1>5, <1>6, <1>7 DEF Next

LEMMA TypesStep == ASSUME WireOK, Types, RequestsOK, ChoosersOK, [Next]_vars PROVE Types'
BY RoutesTyped, CastTypes, UploadsTyped DEF Types

-----------------------------------------------------------------------------
(* Nobody sleeps through what is queued for them.                          *)

\* The turn of a tool of one kind leaves the tools of the other kinds as they are, or wakes them.
LEMMA AmongSays ==
    ASSUME WireOK, NEW c \in Callers, NEW names, NEW calls, TurnAmong(c, names, calls)
    PROVE  /\ tool'[c].name \in names \cup {"none"}
           /\ \A d \in Callers \ {c} : Awake(tool[d], tool'[d])
<1>1. PICK r, k : Turn(c, r, k) /\ r.name \in names \cup {"none"}
  BY DEF TurnAmong
<1>2. r \in Tool /\ Awake(r, tool'[c])
  BY <1>1 DEF Turn, CallerOK
<1>3. tool'[c].name = r.name
  BY <1>2 DEF Awake, Tool
<1> QED
  BY <1>1, <1>3 DEF Turn

LEMMA AllWoken == ASSUME NEW ts \in [Callers -> Tool], tool' = Woken(ts) PROVE FrameWakes'
<1> SUFFICES ASSUME NEW d \in Callers, Sleeping(d)' PROVE tool'[d].woken
  BY DEF FrameWakes
<1>1. tool'[d] = IF ts[d].at = "sleep" /\ ts[d].name \in {"frame", "fresh"} THEN [ts[d] EXCEPT !.woken = TRUE] ELSE ts[d]
  BY DEF Woken
<1>2. ts[d] \in Tool
  OBVIOUS
<1> QED
  BY <1>1, <1>2 DEF Sleeping, At, Tool

\* No frame comes to those who sleep.
LEMMA FramesSleep ==
    ASSUME WireOK, FrameWakes, frames' # <<>> => frames # <<>>,
           \A d \in Callers : Sleeping(d)' => frames' = <<>> \/ Awake(tool[d], tool'[d])
    PROVE  FrameWakes'
<1> SUFFICES ASSUME frames' # <<>>, NEW d \in Callers, Sleeping(d)' PROVE tool'[d].woken
  BY DEF FrameWakes
<1>1. Awake(tool[d], tool'[d]) /\ tool[d] \in Tool
  BY DEF WireOK
<1>2. CASE tool'[d] = tool[d]
  BY <1>2 DEF FrameWakes, Sleeping, At
<1>3. CASE tool'[d] # tool[d]
  BY <1>1, <1>3 DEF Awake, Tool
<1> QED
  BY <1>2, <1>3

LEMMA FramesWake == ASSUME WireOK, Types, FrameWakes, [Next]_vars PROVE FrameWakes'
<1>0. CastTypeOK /\ RoutesTypeOK /\ UploadsTypeOK /\ tool \in [Callers -> Tool]
  BY DEF Types, WireOK
<1>a. ASSUME UNCHANGED <<tool, frames>> PROVE FrameWakes'
  BY <1>a, FramesSleep DEF Awake
<1>b. ASSUME NEW c \in Callers, NEW names, NEW calls, TurnAmong(c, names, calls), {"frame", "fresh"} \cap names = {}, frames' = frames
      PROVE  FrameWakes'
  <2>1. \A d \in Callers : Sleeping(d)' => Awake(tool[d], tool'[d])
    BY <1>b, AmongSays DEF Sleeping
  <2> QED
    BY <1>b, <2>1, FramesSleep
<1>1. ASSUME NEW c \in Callers, RouteStep(c), UNCHANGED castVars PROVE FrameWakes'
  <2>1. CASE NetServes(c)
    BY <1>1, <1>a, <2>1 DEF NetServes, castVars
  <2>2. CASE ~NetServes(c)
    BY <1>0, <1>1, <1>b, <2>2, RouteTurns DEF OnPage, RouteNames, castVars
  <2> QED
    BY <2>1, <2>2
<1>2. ASSUME NEW c \in Callers, UploadStep(c), UNCHANGED castVars PROVE FrameWakes'
  <2>1. CASE UploadServes(c)
    BY <1>2, <1>a, <2>1 DEF UploadServes, castVars
  <2>2. CASE ~UploadServes(c)
    BY <1>0, <1>2, <1>b, <2>2, UploadTurns DEF UploadNames, castVars
  <2> QED
    BY <2>1, <2>2
<1>3. ASSUME NEW c \in Callers, CastStep(c) PROVE FrameWakes'
  <2>1. CASE CastServes(c)
    BY <1>0, <1>a, <2>1, CastServed DEF CastServes
  <2>2. CASE ~CastServes(c)
    <3>1. \A d \in Callers \ {c} : Awake(tool[d], tool'[d])
      BY <1>0, <1>3, <2>2, CastTurns, AmongSays
    <3>2. \/ frames' = <<>>
          \/ (frames' # <<>> => frames # <<>>) /\ (Sleeping(c)' => frames' = <<>>)
          \/ tool' = Woken([tool EXCEPT ![c] = Idle])
      BY <1>0, <1>3, <2>2, FramesTurned
    <3>3. CASE frames' = <<>>
      BY <3>3 DEF FrameWakes
    <3>4. CASE (frames' # <<>> => frames # <<>>) /\ (Sleeping(c)' => frames' = <<>>)
      BY <3>1, <3>4, FramesSleep
    <3>5. CASE tool' = Woken([tool EXCEPT ![c] = Idle])
      <4>1. [tool EXCEPT ![c] = Idle] \in [Callers -> Tool]
        BY <1>0, NoneOK
      <4> QED
        BY <3>5, <4>1, AllWoken
    <3> QED
      BY <3>2, <3>3, <3>4, <3>5
  <2> QED
    BY <2>1, <2>2
<1>4. ASSUME NEW t \in Tabs, PagePaints(t) PROVE FrameWakes'
  BY <1>0, <1>4, <1>a, Painted
<1>5. ASSUME NEW t \in Tabs, UNCHANGED castVars,
             (\E id \in Ids : PageRequests(t, id)) \/ PageOpensChooser(t) \/ PageNavigates(t)
      PROVE  FrameWakes'
  BY <1>5, <1>a DEF PageRequests, PageOpensChooser, PageNavigates, castVars
<1>6. CASE Reads
  <2>1. CASE tool' = Woken(tool)
    BY <1>0, <2>1, AllWoken
  <2>2. CASE frames' = frames
    BY <1>6, <2>2, ReadsSay, FramesSleep
  <2> QED
    BY <1>0, <1>6, <2>1, <2>2, Heard
<1>7. CASE EngineStops
  BY <1>7 DEF EngineStops, FrameWakes
<1>8. CASE Switch /\ UNCHANGED castVars
  BY <1>8, <1>a DEF Switch, castVars
<1>9. CASE UNCHANGED vars
  BY <1>9, <1>a DEF vars, wireVars, castVars
<1> QED
  BY <1>1, <1>2, <1>3, <1>4, <1>5, <1>6, <1>7, <1>8, <1>9 DEF Next

\* No chooser comes to a caller that sleeps.
LEMMA ChoosersSleep ==
    ASSUME WireOK, ChooserWakes, NEW d \in Callers, Awake(tool[d], tool'[d]),
           \A j \in DOMAIN choosers' : \E k \in DOMAIN choosers :
              choosers'[j] = choosers[k] /\ opened'[choosers'[j]].tab = opened[choosers[k]].tab
    PROVE  Waits(d)' /\ OwnChoosers(d)' # {} => tool'[d].woken
<1> SUFFICES ASSUME Waits(d)', NEW j \in OwnChoosers(d)' PROVE tool'[d].woken
  OBVIOUS
<1>1. tool[d] \in Tool
  BY DEF WireOK
<1>2. CASE tool'[d] = tool[d]
  <2>1. j \in DOMAIN choosers' /\ opened'[choosers'[j]].tab = tool'[d].tab
    BY DEF OwnChoosers
  <2>2. PICK k \in DOMAIN choosers : choosers'[j] = choosers[k] /\ opened'[choosers'[j]].tab = opened[choosers[k]].tab
    BY <2>1
  <2>3. k \in OwnChoosers(d)
    BY <1>2, <2>1, <2>2 DEF OwnChoosers
  <2>4. Waits(d)
    BY <1>2 DEF Waits, At, Runs
  <2> QED
    BY <1>2, <2>3, <2>4 DEF ChooserWakes
<1>3. CASE tool'[d] # tool[d]
  BY <1>1, <1>3 DEF Awake, Tool
<1> QED
  BY <1>2, <1>3

LEMMA ChoosersWake == ASSUME WireOK, Types, ChoosersOK, ChooserWakes, [Next]_vars PROVE ChooserWakes'
<1>0. CastTypeOK /\ RoutesTypeOK /\ UploadsTypeOK /\ tool \in [Callers -> Tool]
  BY DEF Types, WireOK
<1> DEFINE Calm == \A j \in DOMAIN choosers' : \E k \in DOMAIN choosers :
                      choosers'[j] = choosers[k] /\ opened'[choosers'[j]].tab = opened[choosers[k]].tab
<1>a. ASSUME Calm, \A d \in Callers : Waits(d)' => Awake(tool[d], tool'[d]) \/ OwnChoosers(d)' = {} PROVE ChooserWakes'
  BY <1>a, ChoosersSleep DEF ChooserWakes
<1>b. ASSUME UNCHANGED <<choosers, opened>> PROVE Calm
  BY <1>b
<1>c. ASSUME choosers' = <<>> PROVE ChooserWakes'
  <2>1. \A d : OwnChoosers(d)' = {}
    BY <1>c DEF OwnChoosers
  <2> QED
    BY <2>1 DEF ChooserWakes
<1>d. ASSUME UNCHANGED tool PROVE \A d \in Callers : Awake(tool[d], tool'[d])
  BY <1>d DEF Awake
<1> HIDE DEF Calm
<1>e. ASSUME NEW c \in Callers, NEW names, NEW calls, TurnAmong(c, names, calls), "upload" \notin names, UNCHANGED uploadVars
      PROVE  ChooserWakes'
  <2>1. \A d \in Callers : Waits(d)' => Awake(tool[d], tool'[d])
    BY <1>e, AmongSays DEF Waits, Runs
  <2> QED
    BY <1>a, <1>b, <1>e, <2>1 DEF uploadVars
<1>1. ASSUME NEW c \in Callers, RouteStep(c), UNCHANGED uploadVars PROVE ChooserWakes'
  <2>1. CASE NetServes(c)
    BY <1>1, <1>a, <1>b, <1>d, <2>1 DEF NetServes, uploadVars
  <2>2. CASE ~NetServes(c)
    BY <1>0, <1>1, <1>e, <2>2, RouteTurns DEF OnPage, RouteNames
  <2> QED
    BY <2>1, <2>2
<1>2. ASSUME NEW c \in Callers, CastStep(c), UNCHANGED uploadVars PROVE ChooserWakes'
  <2>1. CASE CastServes(c)
    BY <1>2, <1>a, <1>b, <1>d, <2>1 DEF CastServes, uploadVars
  <2>2. CASE ~CastServes(c)
    BY <1>0, <1>2, <1>e, <2>2, CastTurns DEF CastNames
  <2> QED
    BY <2>1, <2>2
<1>3. ASSUME NEW c \in Callers, UploadServes(c) PROVE ChooserWakes'
  <2>1. tool' = tool
    BY <1>3 DEF UploadServes
  <2>2. Calm
    <3>1. choosers' = choosers
      BY <1>0, <1>3, UploadServed
    <3>2. \A n \in DOMAIN opened : opened'[n].tab = opened[n].tab
      BY <1>0, <1>3, UploadServed
    <3>3. \A k \in DOMAIN choosers : choosers[k] \in DOMAIN opened
      BY <1>0, Openers
    <3> QED
      BY <3>1, <3>2, <3>3 DEF Calm
  <2> QED
    BY <1>a, <1>d, <2>1, <2>2
<1>4. ASSUME NEW c \in Callers, UploadStep(c), ~UploadServes(c) PROVE ChooserWakes'
  <2>0. /\ \A d \in Callers \ {c} : Awake(tool[d], tool'[d])
        /\ tool[c] \in Tool /\ Idle.at = "none"
    BY <1>0, <1>4, UploadTurns, AmongSays, NoneOK
  <2>1. CASE SetsMode(c)
    BY <1>c, <2>1 DEF SetsMode
  <2>2. CASE ModeSet(c) \/ UploadBegins(c) \/ UploadTimesOut(c) \/ Fed(c)
    <3>1. tool'[c].at # "sleep" /\ UNCHANGED <<choosers, opened>>
      BY <1>0, <2>0, <2>2 DEF ModeSet, UploadBegins, UploadTimesOut, Fed, Ends, Begins, Idle, uploadVars
    <3> QED
      BY <1>a, <1>b, <2>0, <3>1 DEF Waits, At
  <2>3. CASE Feeds(c)
    <3>1. PICK i \in OwnChoosers(c) :
             /\ \A j \in DOMAIN choosers' : \E k \in DOMAIN choosers : choosers'[j] = choosers[k]
             /\ \/ Ends(c)
                \/ Goes(c, [tool[c] EXCEPT !.at = "feed", !.item = choosers[i], !.woken = FALSE])
      BY <1>0, <2>3, Takers
    <3>2. opened' = opened
      BY <2>3 DEF Feeds
    <3>3. Calm
      BY <3>1, <3>2 DEF Calm
    <3>4. tool'[c].at # "sleep"
      BY <1>0, <2>0, <3>1, ZenonT(60) DEF Ends, Goes, Tool
    <3> QED
      BY <1>a, <2>0, <3>3, <3>4 DEF Waits, At
  <2>4. CASE Sleeps(c)
    <3>1. UNCHANGED <<choosers, opened>> /\ OwnChoosers(c) = {} /\ Goes(c, [tool[c] EXCEPT !.at = "sleep", !.woken = FALSE])
      BY <2>4 DEF Sleeps
    <3>2. tool'[c].tab = tool[c].tab
      BY <1>0, <2>0, <3>1 DEF Goes, Tool
    <3>3. OwnChoosers(c)' = {}
      BY <3>1, <3>2 DEF OwnChoosers
    <3> QED
      BY <1>a, <1>b, <2>0, <3>1, <3>3
  <2> QED
    BY <1>4, <2>1, <2>2, <2>3, <2>4 DEF UploadStep
<1>5. ASSUME NEW t \in Tabs, PageOpensChooser(t) PROVE ChooserWakes'
  <2>1. choosers' = choosers /\ tool' = tool /\ \A n \in DOMAIN opened : opened'[n] = opened[n]
    BY <1>0, <1>5, Opens
  <2>2. \A k \in DOMAIN choosers : choosers[k] \in DOMAIN opened
    BY <1>0, Openers
  <2>3. Calm
    BY <2>1, <2>2 DEF Calm
  <2> QED
    BY <1>a, <1>d, <2>1, <2>3
<1>6. ASSUME NEW t \in Tabs, UNCHANGED <<choosers, opened>>,
             (\E id \in Ids : PageRequests(t, id)) \/ PagePaints(t) \/ PageNavigates(t)
      PROVE  ChooserWakes'
  <2>1. tool' = tool
    BY <1>6 DEF PageRequests, PagePaints, PageNavigates
  <2> QED
    BY <1>6, <1>a, <1>b, <1>d, <2>1
<1>7. CASE Reads
  <2>1. CASE wire[1].kind = "chooser"
    <3>1. tool' = Roused
      BY <1>0, <1>7, <2>1, Noticed
    <3> SUFFICES ASSUME NEW d \in Callers, Waits(d)' PROVE tool'[d].woken
      BY DEF ChooserWakes
    <3>2. tool'[d] = (IF Waits(d) THEN [tool[d] EXCEPT !.woken = TRUE] ELSE tool[d]) /\ tool[d] \in Tool
      BY <1>0, <3>1 DEF Roused
    <3> QED
      BY <3>2 DEF Waits, At, Runs, Tool
  <2>2. CASE wire[1].kind # "chooser"
    <3>1. UNCHANGED <<choosers, opened>>
      BY <1>0, <1>7, <2>2, Noticed
    <3> QED
      BY <1>7, <1>a, <1>b, <3>1, ReadsSay
  <2> QED
    BY <2>1, <2>2
<1>8. CASE EngineStops
  BY <1>8, <1>c DEF EngineStops
<1>9. CASE (Switch \/ UNCHANGED wireVars) /\ UNCHANGED uploadVars
  <2>1. tool' = tool /\ UNCHANGED <<choosers, opened>>
    BY <1>9 DEF Switch, wireVars, uploadVars
  <2> QED
    BY <1>a, <1>b, <1>d, <2>1
<1>10. ASSUME NEW t \in Tabs, NEW id \in Ids, PageRequests(t, id), UNCHANGED uploadVars PROVE ChooserWakes'
  BY <1>6, <1>10 DEF uploadVars
<1>11. ASSUME NEW t \in Tabs, PagePaints(t), UNCHANGED uploadVars PROVE ChooserWakes'
  BY <1>6, <1>11 DEF uploadVars
<1>12. ASSUME NEW t \in Tabs, PageNavigates(t) PROVE ChooserWakes'
  BY <1>6, <1>12 DEF PageNavigates
<1>13. CASE UNCHANGED vars
  BY <1>9, <1>13 DEF vars
<1> QED
  BY <1>1, <1>2, <1>3, <1>4, <1>5, <1>7, <1>8, <1>9, <1>10, <1>11, <1>12, <1>13 DEF Next

-----------------------------------------------------------------------------
(* The stream: what the tools know of it, what the browser plays, and what *)
(* is on its way between them.                                             *)

Fetches(c) == tool[c].name \in {"frame", "fresh"}
\* The stream it noted is the one there is.
UpToDate(c) == Fetches(c) /\ tool[c].gen = generation
Locks(c) == call[c].does \in {"startcast", "stopcast"}

\* The stream that Python follows, known by its id or only by the tab it is being started on.
StreamId == IF castId # 0 THEN castId ELSE IF starting # None THEN stream[starting].id ELSE 0
StreamTab == IF castId # 0 THEN castTab ELSE starting

\* While nothing failed, Python's view of the stream is the browser's.
Sound == alive /\ ~failed

\* One tool at a time starts or stops a stream; a start under way is that tool's.
LockOK ==
    /\ \A c \in Callers : Locks(c) => holder = c
    /\ starting # None => /\ castId = 0 /\ castTab = None /\ holder \in Callers
                          /\ call[holder].does = "startcast" /\ call[holder].tab = starting
    /\ alive => \A c \in Callers : call[c].does = "startcast" => starting = call[c].tab

\* What is queued is of the generation there is; a tool of that generation noted the stream there is.
AgesOK ==
    /\ \A i \in DOMAIN frames : frames[i].gen = generation
    /\ \A c \in Callers : Fetches(c) => tool[c].gen <= generation
    /\ \A c \in Callers : call[c].does = "ack" => call[c].tab = tool[c].tab /\ call[c].arg # 0
    /\ alive => \A c \in Callers : UpToDate(c) => tool[c].sid = castId /\ tool[c].tab = castTab /\ starting = None

\* The browser plays the stream that Python follows, or none.
PlaysOK ==
    Sound =>
    /\ (castId = 0 <=> castTab = None) /\ castId <= streams
    /\ \A t \in Tabs : stream[t].id # 0 => t = StreamTab /\ stream[t].id = StreamId /\ stream[t].id <= streams
    /\ \A c \in Callers : Locks(c) => call[c].is # "error"
    /\ \A c \in Callers : call[c].does = "startcast" => (call[c].is = "sent" <=> stream[call[c].tab].id = 0)
    /\ \A c \in Callers : call[c].does = "stopcast" =>
          /\ castId # 0 => call[c].tab = castTab
          /\ call[c].is # "sent" => \A t \in Tabs : stream[t].id = 0

\* A frame on its way is of that stream, and comes before the answer to the call that stops it.
LinesOK ==
    Sound =>
    /\ \A i \in Lines("frame") : wire[i].of = StreamId /\ wire[i].tab = StreamTab /\ StreamId # 0
    /\ \A j \in Lines("reply") : call[wire[j].to].does \in {"startcast", "stopcast"} => wire[j].how = "ok"
    /\ \A j \in Lines("reply") : call[wire[j].to].does = "stopcast" => \A i \in Lines("frame") : i < j
    /\ \A c \in Callers : call[c].does = "stopcast" /\ call[c].is = "ok" => Lines("frame") = {}

\* What is queued is of that stream; a tool that noted another one does not take it for its own.
QueueOK ==
    Sound =>
    /\ \A i \in DOMAIN frames : frames[i].of = StreamId /\ StreamId # 0
    /\ \A c \in Callers : Fetches(c) =>
          /\ tool[c].sid <= streams
          /\ tool[c].gen # generation => tool[c].sid = 0 \/ tool[c].sid # StreamId

\* Tools of one generation noted one stream, and the frames of that generation are its.
ItemsOK ==
    ~failed =>
    /\ \A c, d \in Callers : UpToDate(c) /\ UpToDate(d) => tool[c].sid = tool[d].sid
    /\ \A c \in Callers : UpToDate(c) => \A i \in DOMAIN frames : frames[i].of = tool[c].sid
    /\ \A c \in Callers : At(c, "ack") => tool[c].item = tool[c].sid

\* The acknowledgement that c has under way is still to be served, or has failed.
Acks(c) ==
    /\ call[c].does = "ack" /\ call[c].arg = StreamId
    /\ \/ call[c].is \in {"sent", "error"}
       \/ call[c].is = "served" /\ \E j \in Lines("reply") : wire[j].to = c /\ wire[j].how = "error"

\* A frame that the browser waits for is on its way, queued, or being acknowledged.
FlowsOK ==
    Sound /\ ~strayed /\ StreamId # 0 /\ stream[StreamTab].id = StreamId /\ stream[StreamTab].flying =>
        Lines("frame") # {} \/ frames # <<>> \/ \E c \in Callers : Acks(c)

StreamOK == LockOK /\ AgesOK /\ PlaysOK /\ LinesOK /\ QueueOK /\ ItemsOK /\ FlowsOK

\* What the parts say of the types.
LEMMA StreamTypes ==
    ASSUME WireOK, CastTypeOK
    PROVE  /\ castId \in Nat /\ streams \in Nat /\ generation \in Nat /\ StreamId \in Nat
           /\ castTab \in Tabs \cup {None} /\ starting \in Tabs \cup {None} /\ holder \in Callers \cup {None}
           /\ None \notin Tabs \cup Callers /\ stream \in [Tabs -> Stream]
           /\ \A t \in Tabs : stream[t].id \in Nat /\ stream[t].flying \in BOOLEAN
           /\ frames \in Seq(Frame) /\ \A i \in DOMAIN frames : i \in Nat /\ frames[i].gen \in Nat /\ frames[i].of \in Nat
<1>1. CastTyped /\ None \notin Tabs \cup Callers
  BY CastNamed, WireAssumption
<1>2. \A t \in Tabs : stream[t].id \in Nat /\ stream[t].flying \in BOOLEAN
  <2>1. \A t \in Tabs : stream[t] \in Stream
    BY <1>1 DEF CastTyped
  <2> QED
    BY <2>1 DEF Stream
<1>3. frames \in Seq(Frame) /\ \A i \in DOMAIN frames : i \in Nat /\ frames[i] \in Frame
  <2>1. frames \in Seq(Frame)
    BY <1>1 DEF CastTyped
  <2> HIDE DEF Frame
  <2> QED
    BY <2>1
<1>4. \A i \in DOMAIN frames : frames[i].gen \in Nat /\ frames[i].of \in Nat
  BY <1>3 DEF Frame
<1>5. StreamId \in Nat
  BY <1>1, <1>2 DEF StreamId, CastTyped
<1> QED
  BY <1>1, <1>2, <1>3, <1>4, <1>5 DEF CastTyped

\* What a fetcher's call says, and that no one else acknowledges.
LEMMA Asked ==
    ASSUME WireOK, NEW c \in Callers
    PROVE  /\ tool[c].sid \in Nat /\ tool[c].gen \in Nat /\ call[c].tab \in Tabs \cup {None}
           /\ call[c].does = "none" <=> call[c].is = "none"
           /\ call[c].is \in {"none", "sent", "served", "ok", "error"}
           /\ call[c].does = "ack" => Fetches(c) /\ call[c].arg = tool[c].sid
           /\ At(c, "ack") => Fetches(c) /\ call[c].does = "ack"
           /\ call[c].does = "startcast" => tool[c].tab = call[c].tab /\ call[c].tab \in Tabs /\ ~Fetches(c) /\ tool[c].at = "starting"
           /\ call[c].does = "stopcast" => ~Fetches(c) /\ tool[c].at = "stopping"
<1>1. /\ tool[c] \in Tool /\ call[c] \in Call /\ Whole(call[c])
      /\ Fits(tool[c], call[c]) \/ LeftBehind(tool[c], call[c], todo[c])
  BY Caller
<1>2. CASE LeftBehind(tool[c], call[c], todo[c])
  BY <1>1, <1>2, NoneOK DEF LeftBehind, Idle, Tool, Call, Whole, NetCalls, At
<1>3. CASE Fits(tool[c], call[c])
  BY <1>1, <1>3, NoneOK DEF Fits, Tool, Call, Whole, At, Fetches
<1> QED
  BY <1>1, <1>2, <1>3

\* A tool that is as it was, or has been woken.
Same(d) ==
    /\ tool'[d].name = tool[d].name /\ tool'[d].at = tool[d].at /\ tool'[d].tab = tool[d].tab
    /\ tool'[d].sid = tool[d].sid /\ tool'[d].gen = tool[d].gen /\ tool'[d].item = tool[d].item

LEMMA AwakeSame == ASSUME NEW d, tool[d] \in Tool, Awake(tool[d], tool'[d]) PROVE Same(d)
BY DEF Awake, Same, Tool

\* A caller whose step is not the screencast's.
Apart(d) ==
    /\ Same(d) \/ (~Fetches(d) /\ ~Fetches(d)' /\ ~At(d, "ack") /\ ~At(d, "ack")')
    /\ call'[d] = call[d] \/ (call[d].does \notin CastCalls /\ call'[d].does \notin CastCalls)

\* A step that has nothing to do with the screencast.
LEMMA StreamApart ==
    ASSUME WireOK, CastTypeOK, StreamOK, UNCHANGED castVars, alive' = alive,
           \A d \in Callers : Apart(d),
           \A i \in DOMAIN wire : i \in DOMAIN wire' /\ wire'[i] = wire[i],
           \A i \in DOMAIN wire' \ DOMAIN wire :
              wire'[i].kind # "frame" /\ (wire'[i].kind = "reply" => wire'[i].to \in Callers /\ call[wire'[i].to].does \notin CastCalls)
    PROVE  StreamOK'
<1>1. /\ UNCHANGED <<stream, streams, frames, castId, castTab, starting, generation, holder, strayed, failed>>
      /\ StreamId' = StreamId /\ StreamTab' = StreamTab /\ Sound' = Sound
  BY DEF castVars, StreamId, StreamTab, Sound
<1>2. \A d \in Callers : /\ Fetches(d)' = Fetches(d) /\ UpToDate(d)' = UpToDate(d) /\ Locks(d)' = Locks(d)
                         /\ At(d, "ack")' = At(d, "ack")
                         /\ Fetches(d) => tool'[d].sid = tool[d].sid /\ tool'[d].gen = tool[d].gen
                                          /\ tool'[d].tab = tool[d].tab /\ tool'[d].item = tool[d].item
                         /\ call[d].does \in CastCalls \/ call'[d].does \in CastCalls => call'[d] = call[d]
  BY <1>1 DEF Apart, Same, Fetches, UpToDate, Locks, At, CastCalls
<1>3. /\ Lines("frame")' = Lines("frame") /\ \A i \in Lines("frame") : wire'[i] = wire[i]
      /\ \A i \in Lines("reply") : i \in Lines("reply")' /\ wire'[i] = wire[i]
      /\ \A i \in Lines("reply")' : \/ i \in Lines("reply") /\ wire'[i] = wire[i]
                                    \/ wire'[i].to \in Callers /\ call[wire'[i].to].does \notin CastCalls
  BY DEF Lines
<1>4. LockOK'
  BY <1>1, <1>2, StreamTypes DEF StreamOK, LockOK, Locks, CastCalls
<1>5. AgesOK'
  <2>0. AgesOK
    BY DEF StreamOK
  <2>1. \A c \in Callers : call'[c].does = "ack" => call'[c].tab = tool'[c].tab /\ call'[c].arg # 0
    BY <1>2, <2>0, Asked DEF AgesOK, CastCalls
  <2>2. /\ \A i \in DOMAIN frames' : frames'[i].gen = generation'
        /\ \A c \in Callers : Fetches(c)' => tool'[c].gen <= generation'
    BY <1>1, <1>2, <2>0 DEF AgesOK
  <2>3. alive' => \A c \in Callers : UpToDate(c)' => tool'[c].sid = castId' /\ tool'[c].tab = castTab' /\ starting' = None
    BY <1>1, <1>2, <2>0 DEF AgesOK, UpToDate
  <2> QED
    BY <2>1, <2>2, <2>3 DEF AgesOK
<1>6. PlaysOK'
  BY <1>1, <1>2 DEF StreamOK, PlaysOK, CastCalls, Locks
<1>7. LinesOK'
  <2> SUFFICES ASSUME Sound'
               PROVE  /\ \A i \in Lines("frame")' : wire'[i].of = StreamId' /\ wire'[i].tab = StreamTab' /\ StreamId' # 0
                      /\ \A j \in Lines("reply")' : call'[wire'[j].to].does \in {"startcast", "stopcast"} => wire'[j].how = "ok"
                      /\ \A j \in Lines("reply")' : call'[wire'[j].to].does = "stopcast" => \A i \in Lines("frame")' : i < j
                      /\ \A c \in Callers : call'[c].does = "stopcast" /\ call'[c].is = "ok" => Lines("frame")' = {}
    BY DEF LinesOK
  <2>0. Sound /\ LinesOK /\ \A i \in Lines("reply") : wire[i].to \in Callers
    BY <1>1 DEF StreamOK, WireOK, OneReply
  <2>1. \A i \in Lines("frame")' : wire'[i].of = StreamId' /\ wire'[i].tab = StreamTab' /\ StreamId' # 0
    BY <1>1, <1>3, <2>0 DEF LinesOK
  <2>2. ASSUME NEW j \in Lines("reply")', call'[wire'[j].to].does \in {"startcast", "stopcast"}
        PROVE  j \in Lines("reply") /\ wire'[j] = wire[j] /\ wire[j].to \in Callers /\ call'[wire[j].to] = call[wire[j].to]
    BY <1>2, <1>3, <2>0, <2>2 DEF CastCalls
  <2>3. \A j \in Lines("reply")' : call'[wire'[j].to].does \in {"startcast", "stopcast"} => wire'[j].how = "ok"
    BY <2>0, <2>2 DEF LinesOK, Locks
  <2>4. \A j \in Lines("reply")' : call'[wire'[j].to].does = "stopcast" => \A i \in Lines("frame")' : i < j
    BY <1>3, <2>0, <2>2 DEF LinesOK
  <2>5. \A c \in Callers : call'[c].does = "stopcast" /\ call'[c].is = "ok" => Lines("frame")' = {}
    BY <1>2, <1>3, <2>0 DEF LinesOK, CastCalls
  <2> QED
    BY <2>1, <2>3, <2>4, <2>5
<1>8. QueueOK'
  BY <1>1, <1>2 DEF StreamOK, QueueOK
<1>9. ItemsOK'
  BY <1>1, <1>2, Asked DEF StreamOK, ItemsOK, UpToDate
<1>10. FlowsOK'
  <2>1. ASSUME NEW c \in Callers, Acks(c) PROVE Acks(c)'
    BY <1>1, <1>2, <1>3, <2>1 DEF Acks, CastCalls
  <2> QED
    BY <1>1, <1>3, <2>1 DEF StreamOK, FlowsOK
<1> QED
  BY <1>4, <1>5, <1>6, <1>7, <1>8, <1>9, <1>10 DEF StreamOK

\* The turn of a tool that asks for a frame.
FetchTurn(c) ==
    /\ \A d \in Callers \ {c} : Same(d) /\ call'[d] = call[d]
    /\ UNCHANGED <<stream, streams, castId, castTab, starting, generation, holder, failed, alive, wire>>
    /\ call[c].does \in {"none", "ack"} /\ call'[c].does \in {"none", "ack"}
    /\ Fetches(c)' => \/ /\ Fetches(c) /\ tool'[c].sid = tool[c].sid /\ tool'[c].gen = tool[c].gen /\ tool'[c].tab = tool[c].tab
                      \/ /\ alive /\ holder = None /\ (castId = 0 => frames = <<>>)
                         /\ tool'[c].sid = castId /\ tool'[c].gen = generation /\ tool'[c].tab = castTab
    /\ call'[c].does = "ack" => call'[c].tab = tool'[c].tab /\ call'[c].arg # 0
    /\ At(c, "ack")' => \/ At(c, "ack") /\ tool'[c].item = tool[c].item /\ tool'[c].sid = tool[c].sid
                        \/ UpToDate(c) /\ tool'[c].sid = tool[c].sid /\ \E i \in DOMAIN frames : tool'[c].item = frames[i].of
    /\ \A i \in DOMAIN frames' : \/ \E j \in DOMAIN frames : frames'[i] = frames[j]
                                 \/ UpToDate(c) /\ At(c, "ack") /\ frames'[i].gen = generation /\ frames'[i].of = tool[c].item
    /\ strayed => strayed'

\* It leaves no frame unanswered.
FetchFlows(c) ==
    Sound /\ ~strayed' /\ StreamId # 0 /\ (frames # <<>> \/ Acks(c)) => frames' # <<>> \/ Acks(c)'

LEMMA StreamFetched ==
    ASSUME WireOK, CastTypeOK, StreamOK, NEW c \in Callers, FetchTurn(c), FetchFlows(c)
    PROVE  StreamOK'
<1>1. /\ UNCHANGED <<stream, streams, castId, castTab, starting, generation, holder, failed, alive, wire>>
      /\ StreamId' = StreamId /\ StreamTab' = StreamTab /\ Sound' = Sound
  BY DEF FetchTurn, StreamId, StreamTab, Sound
<1>2. \A d \in Callers \ {c} : /\ call'[d] = call[d] /\ Fetches(d)' = Fetches(d) /\ UpToDate(d)' = UpToDate(d) /\ At(d, "ack")' = At(d, "ack")
                               /\ tool'[d].sid = tool[d].sid /\ tool'[d].gen = tool[d].gen
                               /\ tool'[d].tab = tool[d].tab /\ tool'[d].item = tool[d].item
  BY <1>1 DEF FetchTurn, Same, Fetches, UpToDate, At
<1>3. \A d \in Callers : Locks(d)' = Locks(d) /\ (call'[d].does \in {"startcast", "stopcast"} \/ call[d].does \in {"startcast", "stopcast"} => call'[d] = call[d])
  BY <1>2 DEF FetchTurn, Locks
<1>4. Lines("frame")' = Lines("frame") /\ Lines("reply")' = Lines("reply")
  BY <1>1 DEF Lines
<1>5. LockOK'
  BY <1>1, <1>3, StreamTypes DEF StreamOK, LockOK, Locks
<1>6. PlaysOK'
  BY <1>1, <1>3 DEF StreamOK, PlaysOK, Locks
<1>7. LinesOK'
  <2>1. LinesOK /\ \A i \in Lines("reply") : wire[i].to \in Callers
    BY DEF StreamOK, WireOK, OneReply
  <2> QED
    BY <1>1, <1>3, <1>4, <2>1 DEF LinesOK
<1>8. alive /\ holder = None => starting = None
  BY StreamTypes DEF StreamOK, LockOK
<1>9. AgesOK'
  <2>0. AgesOK
    BY DEF StreamOK
  <2>1. \A i \in DOMAIN frames' : frames'[i].gen = generation'
    BY <1>1, <2>0 DEF AgesOK, FetchTurn
  <2>2. \A d \in Callers : Fetches(d)' => tool'[d].gen <= generation'
    BY <1>1, <1>2, <2>0, StreamTypes DEF AgesOK, FetchTurn
  <2>3. \A d \in Callers : call'[d].does = "ack" => call'[d].tab = tool'[d].tab /\ call'[d].arg # 0
    BY <1>2, <2>0 DEF AgesOK, FetchTurn
  <2>4. alive' => \A d \in Callers : UpToDate(d)' => tool'[d].sid = castId' /\ tool'[d].tab = castTab' /\ starting' = None
    BY <1>1, <1>2, <1>8, <2>0 DEF AgesOK, FetchTurn, UpToDate
  <2> QED
    BY <2>1, <2>2, <2>3, <2>4 DEF AgesOK
\* What it puts back is of the stream it noted.
<1>10. ASSUME ~failed, UpToDate(c), At(c, "ack") PROVE tool[c].item = tool[c].sid /\ tool[c].sid # 0
  BY <1>10, Asked DEF StreamOK, ItemsOK, AgesOK
<1>11. QueueOK'
  <2> SUFFICES ASSUME Sound'
               PROVE  /\ \A i \in DOMAIN frames' : frames'[i].of = StreamId' /\ StreamId' # 0
                      /\ \A d \in Callers : Fetches(d)' =>
                            /\ tool'[d].sid <= streams'
                            /\ tool'[d].gen # generation' => tool'[d].sid = 0 \/ tool'[d].sid # StreamId'
    BY DEF QueueOK
  <2>0. Sound /\ alive /\ ~failed /\ QueueOK /\ AgesOK /\ castId <= streams
    BY <1>1 DEF StreamOK, PlaysOK, Sound
  <2>1. UpToDate(c) /\ At(c, "ack") => tool[c].item = StreamId /\ StreamId # 0
    BY <1>10, <2>0 DEF AgesOK, StreamId
  <2>2. \A i \in DOMAIN frames' : frames'[i].of = StreamId' /\ StreamId' # 0
    BY <1>1, <2>0, <2>1 DEF QueueOK, FetchTurn
  <2>3. \A d \in Callers : Fetches(d)' => /\ tool'[d].sid <= streams'
                                          /\ tool'[d].gen # generation' => tool'[d].sid = 0 \/ tool'[d].sid # StreamId'
    BY <1>1, <1>2, <2>0 DEF QueueOK, FetchTurn
  <2> QED
    BY <2>2, <2>3
<1>12. ItemsOK'
  <2> SUFFICES ASSUME ~failed'
               PROVE  /\ \A d, e \in Callers : UpToDate(d)' /\ UpToDate(e)' => tool'[d].sid = tool'[e].sid
                      /\ \A d \in Callers : UpToDate(d)' => \A i \in DOMAIN frames' : frames'[i].of = tool'[d].sid
                      /\ \A d \in Callers : At(d, "ack")' => tool'[d].item = tool'[d].sid
    BY DEF ItemsOK, At, UpToDate, Fetches
  <2>0. ~failed /\ ItemsOK /\ AgesOK
    BY <1>1 DEF StreamOK
  \* It noted the stream before, or notes it now.
  <2>1. CASE UpToDate(c)' /\ ~(UpToDate(c) /\ tool'[c].sid = tool[c].sid)
    <3>1. alive /\ holder = None /\ (castId = 0 => frames = <<>>) /\ tool'[c].sid = castId /\ starting = None
      BY <1>1, <1>8, <2>1 DEF FetchTurn, UpToDate, Fetches
    <3>2. \A d \in Callers : UpToDate(d)' => tool'[d].sid = castId
      BY <1>2, <2>0, <3>1 DEF AgesOK
    <3>3. \A i \in DOMAIN frames' : frames'[i].of = castId
      <4>1. \A j \in DOMAIN frames : frames[j].of = castId
        BY <2>0, <3>1 DEF StreamOK, QueueOK, StreamId, Sound
      <4>2. UpToDate(c) /\ At(c, "ack") => tool[c].item = castId
        BY <1>10, <2>0, <3>1 DEF AgesOK
      <4> QED
        BY <4>1, <4>2 DEF FetchTurn
    <3>4. \A d \in Callers : At(d, "ack")' => tool'[d].item = tool'[d].sid
      BY <1>2, <2>0 DEF ItemsOK, FetchTurn
    <3> QED
      BY <3>2, <3>3, <3>4
  <2>2. CASE ~(UpToDate(c)' /\ ~(UpToDate(c) /\ tool'[c].sid = tool[c].sid))
    <3>1. \A d \in Callers : UpToDate(d)' => UpToDate(d) /\ tool'[d].sid = tool[d].sid
      BY <1>2, <2>2
    <3>2. \A d \in Callers : UpToDate(d)' => \A i \in DOMAIN frames' : frames'[i].of = tool'[d].sid
      BY <1>10, <2>0, <3>1 DEF ItemsOK, FetchTurn
    <3>3. \A d \in Callers : At(d, "ack")' => tool'[d].item = tool'[d].sid
      BY <1>2, <2>0 DEF ItemsOK, FetchTurn
    <3> QED
      BY <2>0, <3>1, <3>2, <3>3 DEF ItemsOK
  <2> QED
    BY <2>1, <2>2
<1>13. FlowsOK'
  <2>1. \A d \in Callers \ {c} : Acks(d) => Acks(d)'
    BY <1>1, <1>2, <1>4 DEF Acks
  <2> SUFFICES ASSUME Sound', ~strayed', StreamId' # 0, stream'[StreamTab'].id = StreamId', stream'[StreamTab'].flying
               PROVE  Lines("frame")' # {} \/ frames' # <<>> \/ \E d \in Callers : Acks(d)'
    BY DEF FlowsOK
  <2>2. Lines("frame") # {} \/ frames # <<>> \/ \E d \in Callers : Acks(d)
    BY <1>1 DEF StreamOK, FlowsOK, FetchTurn
  <2> QED
    BY <1>1, <1>4, <2>1, <2>2 DEF FetchFlows
<1> QED
  BY <1>5, <1>6, <1>7, <1>9, <1>11, <1>12, <1>13 DEF StreamOK

\* The turn of a tool that starts or stops the stream.
LockTurn(c) ==
    /\ \A d \in Callers \ {c} : Same(d) /\ call'[d] = call[d]
    /\ UNCHANGED <<stream, streams, strayed, failed, alive, wire>>
    /\ ~Fetches(c) /\ ~Fetches(c)' /\ call[c].does # "ack" /\ call'[c].does # "ack" /\ ~At(c, "ack")'

\* Nobody else starts or stops it meanwhile.
LEMMA Alone ==
    ASSUME WireOK, CastTypeOK, StreamOK, NEW c \in Callers, holder = c \/ holder = None
    PROVE  /\ \A d \in Callers \ {c} : ~Locks(d)
           /\ starting # None => holder = c /\ call[c].does = "startcast" /\ call[c].tab = starting /\ castId = 0 /\ castTab = None
BY StreamTypes DEF StreamOK, LockOK

\* Who fetches has nothing to do with it.
LEMMA OthersFetch ==
    ASSUME WireOK, NEW c \in Callers, LockTurn(c)
    PROVE  /\ \A d \in Callers : Fetches(d)' = Fetches(d) /\ At(d, "ack")' = At(d, "ack") /\ (Fetches(d) => d # c)
           /\ \A d \in Callers : Fetches(d) => /\ tool'[d].sid = tool[d].sid /\ tool'[d].gen = tool[d].gen
                                              /\ tool'[d].tab = tool[d].tab /\ tool'[d].item = tool[d].item
           /\ \A d \in Callers : call'[d].does = "ack" <=> call[d].does = "ack"
           /\ \A d \in Callers \ {c} : call'[d] = call[d]
           /\ Lines("frame")' = Lines("frame") /\ Lines("reply")' = Lines("reply") /\ wire' = wire
           /\ UNCHANGED <<stream, streams, strayed, failed, alive>> /\ Sound' = Sound
<1>1. \A d \in Callers \ {c} : /\ tool'[d].name = tool[d].name /\ tool'[d].at = tool[d].at /\ tool'[d].tab = tool[d].tab
                               /\ tool'[d].sid = tool[d].sid /\ tool'[d].gen = tool[d].gen /\ tool'[d].item = tool[d].item
  BY DEF LockTurn, Same
<1>2. ~At(c, "ack") /\ Fetches(c)' = Fetches(c)
  BY Asked DEF LockTurn, Fetches
<1>3. Lines("frame")' = Lines("frame") /\ Lines("reply")' = Lines("reply") /\ Sound' = Sound
  BY DEF LockTurn, Lines, Sound
<1> QED
  BY <1>1, <1>2, <1>3 DEF LockTurn, Fetches, At

LEMMA StreamHalted ==
    ASSUME WireOK, CastTypeOK, StreamOK, NEW c \in Callers, LockTurn(c),
           holder = None, holder' = c, UNCHANGED <<frames, castId, castTab, starting, generation>>,
           call[c].does = "none", call'[c].does = "stopcast", call'[c].is = IF alive THEN "sent" ELSE "error",
           castId # 0 /\ castTab # None => call'[c].tab = castTab
    PROVE  StreamOK'
<1>1. /\ StreamId' = StreamId /\ StreamTab' = StreamTab /\ starting = None /\ \A d \in Callers : ~Locks(d)
  BY Alone, StreamTypes DEF Locks, StreamId, StreamTab, LockTurn
<1>2. \A d \in Callers : UpToDate(d)' = UpToDate(d)
  BY OthersFetch DEF UpToDate
<1>3. LockOK'
  BY <1>1, OthersFetch DEF LockOK, Locks
<1>4. AgesOK'
  <2>0. AgesOK
    BY DEF StreamOK
  <2>1. \A d \in Callers : call'[d].does = "ack" => call'[d].tab = tool'[d].tab /\ call'[d].arg # 0
    BY <2>0, OthersFetch, Asked DEF AgesOK
  <2> QED
    BY <1>2, <2>0, <2>1, OthersFetch DEF AgesOK, UpToDate
<1>5. PlaysOK'
  <2> SUFFICES ASSUME Sound' PROVE PlaysOK'
    BY DEF PlaysOK
  <2>1. PlaysOK /\ Sound /\ alive /\ UNCHANGED <<stream, streams>>
    BY OthersFetch DEF StreamOK, Sound
  <2>2. /\ (castId' = 0 <=> castTab' = None) /\ castId' <= streams'
        /\ \A t \in Tabs : stream'[t].id # 0 => t = StreamTab' /\ stream'[t].id = StreamId' /\ stream'[t].id <= streams'
    BY <1>1, <2>1 DEF PlaysOK
  <2>3. \A d \in Callers : Locks(d)' => d = c /\ call'[d].does = "stopcast" /\ call'[d].is = "sent"
    BY <1>1, <2>1, OthersFetch DEF Locks
  <2>4. castId' # 0 => call'[c].tab = castTab'
    BY <2>1 DEF PlaysOK
  <2>5. \A d \in Callers : call'[d].does = "startcast" => (call'[d].is = "sent" <=> stream'[call'[d].tab].id = 0)
    BY <2>3 DEF Locks
  <2>6. \A d \in Callers : call'[d].does = "stopcast" =>
           /\ castId' # 0 => call'[d].tab = castTab'
           /\ call'[d].is # "sent" => \A t \in Tabs : stream'[t].id = 0
    BY <2>3, <2>4 DEF Locks
  <2>7. \A d \in Callers : Locks(d)' => call'[d].is # "error"
    BY <2>3
  <2> QED
    BY <2>2, <2>5, <2>6, <2>7 DEF PlaysOK
<1>6. LinesOK'
  <2>1. LinesOK /\ \A j \in Lines("reply") : wire[j].to \in Callers /\ call[wire[j].to].is = "served"
    BY DEF StreamOK, WireOK, OneReply
  <2>2. \A j \in Lines("reply") : wire[j].to # c
    <3>1. call[c].is # "served"
      BY Asked
    <3> QED
      BY <2>1, <3>1
  <2>3. \A j \in Lines("reply")' : j \in Lines("reply") /\ call'[wire'[j].to].does \notin {"startcast", "stopcast"}
    BY <1>1, <2>1, <2>2, OthersFetch DEF Locks
  <2>4. \A d \in Callers : call'[d].does = "stopcast" /\ call'[d].is = "ok" => Lines("frame")' = {}
    BY <1>1, OthersFetch DEF Locks
  <2>5. ASSUME Sound', NEW i \in Lines("frame")' PROVE wire'[i].of = StreamId' /\ wire'[i].tab = StreamTab' /\ StreamId' # 0
    <3>1. Sound /\ i \in Lines("frame") /\ wire'[i] = wire[i]
      BY <2>5, OthersFetch
    <3> QED
      BY <1>1, <2>1, <3>1 DEF LinesOK
  <2> QED
    BY <2>3, <2>4, <2>5 DEF LinesOK
<1>7. QueueOK'
  BY <1>1, OthersFetch DEF StreamOK, QueueOK
<1>8. ItemsOK'
  BY <1>2, OthersFetch, Asked DEF StreamOK, ItemsOK, UpToDate
<1>9. FlowsOK'
  <2>1. \A d \in Callers : Acks(d) => Acks(d)'
    BY <1>1, OthersFetch DEF Acks, LockTurn
  <2> QED
    BY <1>1, <2>1, OthersFetch DEF StreamOK, FlowsOK
<1> QED
  BY <1>3, <1>4, <1>5, <1>6, <1>7, <1>8, <1>9 DEF StreamOK

\* The stream there was has ended; the next one may be on its way.
LEMMA StreamCleared ==
    ASSUME WireOK, CastTypeOK, StreamOK, NEW c \in Callers, LockTurn(c),
           holder \in {None, c}, frames' = <<>>, castId' = 0, castTab' = None, generation' \in Nat, generation' > generation,
           call[c].is # "served",
           \/ starting' = None /\ holder' = None /\ call'[c].does = "none"
           \/ /\ starting' \in Tabs /\ holder' = c /\ call'[c].does = "startcast" /\ call'[c].tab = starting'
              /\ call'[c].is = IF alive THEN "sent" ELSE "error",
           Sound => Lines("frame") = {} /\ \A t \in Tabs : stream[t].id = 0
    PROVE  StreamOK'
<1>1. \A d \in Callers \ {c} : ~Locks(d) /\ ~Locks(d)'
  BY Alone, OthersFetch DEF Locks
<1>2. \A d \in Callers : ~UpToDate(d)'
  <2>1. \A d \in Callers : Fetches(d) => tool[d].gen <= generation /\ tool[d].gen \in Nat
    BY Asked DEF StreamOK, AgesOK
  <2> QED
    BY <2>1, StreamTypes, OthersFetch DEF UpToDate
<1>3. Sound' => StreamId' = 0
  BY StreamTypes, OthersFetch DEF StreamId
<1>4. LockOK'
  BY <1>1, StreamTypes, OthersFetch DEF LockOK, Locks
<1>5. AgesOK'
  <2>1. \A d \in Callers : Fetches(d)' => tool'[d].gen <= generation'
    <3>1. \A d \in Callers : Fetches(d) => tool[d].gen <= generation /\ tool[d].gen \in Nat
      BY Asked DEF StreamOK, AgesOK
    <3> QED
      BY <3>1, StreamTypes, OthersFetch
  <2>2. \A d \in Callers : call'[d].does = "ack" => call'[d].tab = tool'[d].tab /\ call'[d].arg # 0
    BY OthersFetch, Asked DEF StreamOK, AgesOK
  <2>3. \A i \in DOMAIN frames' : frames'[i].gen = generation'
    OBVIOUS
  <2> QED
    BY <1>2, <2>1, <2>2, <2>3 DEF AgesOK
<1>6. PlaysOK'
  <2> SUFFICES ASSUME Sound'
               PROVE  /\ (castId' = 0 <=> castTab' = None) /\ castId' <= streams'
                      /\ \A t \in Tabs : stream'[t].id = 0
                      /\ \A d \in Callers : Locks(d)' => d = c /\ call'[c].does = "startcast" /\ call'[c].is = "sent" /\ call'[c].tab \in Tabs
    BY DEF PlaysOK, Locks
  <2>1. Sound /\ alive
    BY OthersFetch DEF Sound
  <2>2. \A t \in Tabs : stream'[t].id = 0
    BY <2>1, OthersFetch
  <2>3. \A d \in Callers : Locks(d)' => d = c /\ call'[c].does = "startcast" /\ call'[c].is = "sent" /\ call'[c].tab \in Tabs
    BY <1>1, <2>1 DEF Locks
  <2>4. castId' <= streams'
    <3>1. streams' = streams /\ streams \in Nat
      BY StreamTypes, OthersFetch
    <3> QED
      BY <3>1
  <2> QED
    BY <2>2, <2>3, <2>4
<1>7. LinesOK'
  <2>1. \A j \in Lines("reply") : wire[j].to \in Callers /\ call[wire[j].to].is = "served"
    BY DEF WireOK, OneReply
  <2>2. \A j \in Lines("reply") : wire[j].to # c
    BY <2>1
  <2>3. \A j \in Lines("reply")' : j \in Lines("reply") /\ call'[wire'[j].to].does \notin {"startcast", "stopcast"}
    BY <1>1, <2>1, <2>2, OthersFetch DEF Locks
  <2>4. Sound' => Lines("frame")' = {}
    BY OthersFetch
  <2> QED
    BY <2>3, <2>4 DEF LinesOK
<1>8. QueueOK'
  <2>1. Sound => \A d \in Callers : Fetches(d) => tool[d].sid <= streams /\ tool[d].sid \in Nat
    BY Asked DEF StreamOK, QueueOK
  <2>2. Sound' => \A d \in Callers : Fetches(d)' => tool'[d].sid <= streams' /\ (tool'[d].sid = 0 \/ tool'[d].sid # StreamId')
    BY <1>3, <2>1, OthersFetch
  <2>3. DOMAIN frames' = {}
    OBVIOUS
  <2> QED
    BY <2>2, <2>3 DEF QueueOK
<1>9. ItemsOK'
  <2>1. failed' = failed
    BY OthersFetch
  <2>2. ~failed => \A d \in Callers : At(d, "ack")' => tool'[d].item = tool'[d].sid
    BY OthersFetch, Asked DEF StreamOK, ItemsOK
  <2> QED
    BY <1>2, <2>1, <2>2 DEF ItemsOK
<1>10. FlowsOK'
  BY <1>3 DEF FlowsOK
<1> QED
  BY <1>4, <1>5, <1>6, <1>7, <1>8, <1>9, <1>10 DEF StreamOK

\* The stream being started is known by its id.
LEMMA StreamKnown ==
    ASSUME WireOK, CastTypeOK, StreamOK, NEW c \in Callers, LockTurn(c),
           call[c].does = "startcast", call[c].is = "ok", call'[c].does = "none",
           castTab' = call[c].tab, castId' = stream[call[c].tab].id, starting' = None, holder' = None,
           UNCHANGED <<frames, generation>>
    PROVE  StreamOK'
<1> DEFINE t == call[c].tab
<1>0. t \in Tabs /\ holder = c
  BY Asked DEF StreamOK, LockOK, Locks
<1>1. \A d \in Callers : ~Locks(d)' /\ (d # c => ~Locks(d))
  BY <1>0, Alone, OthersFetch DEF Locks
<1>2. alive => starting = t /\ castId = 0
  BY <1>0, StreamTypes DEF StreamOK, LockOK
<1>3. Sound => /\ stream[t].id # 0 /\ StreamId' = StreamId /\ StreamTab' = StreamTab /\ StreamId = stream[t].id
               /\ StreamTab = t /\ stream[t].id <= streams
  <2> SUFFICES ASSUME Sound PROVE /\ stream[t].id # 0 /\ StreamId' = StreamId /\ StreamTab' = StreamTab /\ StreamId = stream[t].id
                                  /\ StreamTab = t /\ stream[t].id <= streams
    OBVIOUS
  <2>1. stream[t].id # 0
    BY <1>0 DEF StreamOK, PlaysOK
  <2>2. StreamId = stream[t].id /\ StreamTab = t
    BY <1>0, <1>2, StreamTypes DEF StreamId, StreamTab, Sound
  <2>3. StreamId' = stream[t].id /\ StreamTab' = t
    BY <2>1 DEF StreamId, StreamTab
  <2>4. stream[t].id <= streams
    BY <1>0, <2>1 DEF StreamOK, PlaysOK
  <2> QED
    BY <2>1, <2>2, <2>3, <2>4
<1>4. \A d \in Callers : UpToDate(d)' = UpToDate(d)
  BY OthersFetch DEF UpToDate
<1>5. LockOK'
  BY <1>1 DEF LockOK, Locks
<1>6. AgesOK'
  <2>0. AgesOK
    BY DEF StreamOK
  <2>1. \A d \in Callers : call'[d].does = "ack" => call'[d].tab = tool'[d].tab /\ call'[d].arg # 0
    BY <2>0, OthersFetch, Asked DEF AgesOK
  <2>2. alive => \A d \in Callers : ~UpToDate(d)
    BY <1>0, <1>2, <2>0, StreamTypes DEF AgesOK
  <2> QED
    BY <1>4, <2>0, <2>1, <2>2, OthersFetch DEF AgesOK, UpToDate
<1>7. PlaysOK'
  <2> SUFFICES ASSUME Sound
               PROVE  /\ castId' # 0 /\ castTab' # None /\ castId' <= streams'
                      /\ \A u \in Tabs : stream'[u].id # 0 => u = StreamTab' /\ stream'[u].id = StreamId' /\ stream'[u].id <= streams'
    BY <1>1, OthersFetch DEF PlaysOK, Locks
  <2>1. stream[t].id # 0 /\ StreamId' = StreamId /\ StreamTab' = StreamTab /\ stream[t].id <= streams
    BY <1>3
  <2>2. castId' # 0 /\ castTab' # None /\ castId' <= streams'
    BY <1>0, <2>1, StreamTypes, OthersFetch
  <2>3. \A u \in Tabs : stream[u].id # 0 => u = StreamTab /\ stream[u].id = StreamId /\ stream[u].id <= streams
    BY DEF StreamOK, PlaysOK
  <2>4. UNCHANGED <<stream, streams>>
    BY OthersFetch
  <2> QED
    BY <2>1, <2>2, <2>3, <2>4
<1>8. LinesOK'
  <2>1. LinesOK /\ \A j \in Lines("reply") : wire[j].to \in Callers
    BY DEF StreamOK, WireOK, OneReply
  <2>2. \A j \in Lines("reply")' : call'[wire'[j].to].does \notin {"startcast", "stopcast"}
    BY <1>1, <2>1, OthersFetch DEF Locks
  <2>3. \A d \in Callers : call'[d].does # "stopcast"
    BY <1>1 DEF Locks
  <2>4. ASSUME Sound', NEW i \in Lines("frame")' PROVE wire'[i].of = StreamId' /\ wire'[i].tab = StreamTab' /\ StreamId' # 0
    <3>1. Sound /\ i \in Lines("frame") /\ wire'[i] = wire[i]
      BY <2>4, OthersFetch
    <3>2. StreamId' = StreamId /\ StreamTab' = StreamTab
      BY <1>3, <3>1
    <3> QED
      BY <2>1, <3>1, <3>2 DEF LinesOK
  <2> QED
    BY <2>2, <2>3, <2>4 DEF LinesOK
<1>9. QueueOK'
  BY <1>3, OthersFetch DEF StreamOK, QueueOK
<1>10. ItemsOK'
  BY <1>4, OthersFetch, Asked DEF StreamOK, ItemsOK, UpToDate
<1>11. FlowsOK'
  <2>1. Sound => \A d \in Callers : Acks(d) => Acks(d)'
    BY <1>3, OthersFetch DEF Acks, LockTurn
  <2> QED
    BY <1>3, <2>1, OthersFetch DEF StreamOK, FlowsOK
<1> QED
  BY <1>5, <1>6, <1>7, <1>8, <1>9, <1>10, <1>11 DEF StreamOK

\* The turn of c leaves the others as they are, or wakes them.
LEMMA OthersRest ==
    ASSUME WireOK, CastTypeOK, NEW c \in Callers, CastStep(c), ~CastServes(c)
    PROVE  \A d \in Callers \ {c} : Same(d) /\ call'[d] = call[d]
<1>1. PICK r, k : Turn(c, r, k)
  BY CastTurns DEF TurnAmong
<1>2. \A d \in Callers \ {c} : tool[d] \in Tool /\ Awake(tool[d], tool'[d])
  BY <1>1, Caller DEF Turn
<1>3. \A d \in Callers \ {c} : call'[d] = call[d]
  BY <1>1, Caller DEF Turn
<1> QED
  BY <1>2, <1>3, AwakeSame

LEMMA NowIs ==
    ASSUME WireOK, NEW c \in Callers, NEW r,
           tool' = [tool EXCEPT ![c] = r] \/ (tool' = Woken([tool EXCEPT ![c] = r]) /\ r.at # "sleep")
    PROVE  tool'[c] = r
<1>1. [tool EXCEPT ![c] = r][c] = r
  BY Caller
<1> QED
  BY <1>1, Caller DEF Woken

LEMMA CallIs ==
    ASSUME WireOK, NEW c \in Callers
    PROVE  /\ \A does, t, arg : Sends(c, does, t, arg) =>
                 /\ call'[c].does = does /\ call'[c].tab = t /\ call'[c].arg = arg
                 /\ call'[c].is = IF alive THEN "sent" ELSE "error"
           /\ Quiet(c) => call'[c] = NoCall /\ call'[c].does = "none"
<1>1. ASSUME NEW does, NEW t, NEW arg, Sends(c, does, t, arg)
      PROVE  /\ call'[c].does = does /\ call'[c].tab = t /\ call'[c].arg = arg
             /\ call'[c].is = IF alive THEN "sent" ELSE "error"
  BY <1>1, Caller DEF Sends
<1>2. Quiet(c) => call'[c] = NoCall /\ call'[c].does = "none"
  BY Caller, NoneOK DEF Quiet
<1> QED
  BY <1>1, <1>2

\* A tool that starts or stops a stream.
LEMMA StreamLocked ==
    ASSUME WireOK, CastTypeOK, StreamOK, NEW c \in Callers,
           StartCast(c) \/ Locked(c) \/ CastFails(c) \/ Restarts(c) \/ Started(c) \/ StopCast(c) \/ Stopped(c)
    PROVE  StreamOK'
<1>0. /\ tool[c] \in Tool /\ call[c] \in Call /\ current \in Tabs
      /\ tool[c].at # "none" => Fits(tool[c], call[c])
      /\ tool[c].at = "none" => ~Fetches(c) /\ (call[c].does = "none" \/ todo[c] = <<>>)
  BY Caller, NoneOK DEF Fits, LeftBehind, Fetches, Idle
<1>o. \A d \in Callers \ {c} : Same(d) /\ call'[d] = call[d]
  <2>1. CastStep(c) /\ ~CastServes(c)
    <3>1. CastStep(c)
      BY DEF CastStep
    <3>2. call[c].is # "sent"
      BY <1>0, Asked, NoneOK DEF StartCast, Locked, CastFails, Restarts, Started, StopCast, Stopped, Begins, Answered, At, Fits, Runs
    <3> QED
      BY <3>1, <3>2 DEF CastServes
  <2> QED
    BY <2>1, OthersRest
<1>1. CASE StartCast(c)
  <2> DEFINE r == [Idle EXCEPT !.name = "start", !.at = "lock"]
  <2>1. /\ tool[c].at = "none" /\ tool' = [tool EXCEPT ![c] = r] /\ UNCHANGED castVars
        /\ UNCHANGED <<call, wire, alive>>
    BY <1>1 DEF StartCast, Begins
  <2>2. r.name = "start" /\ r.at = "lock"
    BY DEF Idle
  <2> HIDE DEF r
  <2>3. tool'[c] = r
    BY <2>1, NowIs
  <2>4. Apart(c)
    BY <1>0, <2>1, <2>2, <2>3 DEF Apart, Fetches, At
  <2>5. \A d \in Callers : Apart(d)
    BY <1>o, <2>4 DEF Apart
  <2> QED
    BY <2>1, <2>5, StreamApart
<1>2. CASE Locked(c)
  <2>0. tool[c].name = "start" /\ tool[c].at = "lock" /\ call[c] = NoCall /\ holder = None /\ holder' = c
    BY <1>0, <1>2 DEF Locked, Runs, At, Fits
  <2>1. UNCHANGED <<wire, alive, stream, streams, strayed, failed>>
    BY <1>2 DEF Locked
  <2>2. ~Fetches(c) /\ call[c].does = "none" /\ call[c].is # "served"
    BY <2>0, NoneOK DEF Fetches
  <2>3. CASE castId # 0
    <3> DEFINE r == [tool[c] EXCEPT !.at = "stopping"]
    <3>1. /\ tool' = [tool EXCEPT ![c] = r] /\ Sends(c, "stopcast", castTab, 0)
          /\ UNCHANGED <<frames, generation, castId, castTab, starting>>
      BY <1>2, <2>3 DEF Locked, Goes, Keeps
    <3>2. r.name = "start" /\ r.at = "stopping"
      BY <1>0, <2>0 DEF Tool
    <3> HIDE DEF r
    <3>3. tool'[c] = r
      BY <3>1, NowIs
    <3>4. /\ call'[c].does = "stopcast" /\ call'[c].tab = castTab /\ call'[c].is = IF alive THEN "sent" ELSE "error"
      BY <3>1, CallIs
    <3>5. LockTurn(c)
      BY <1>o, <2>1, <2>2, <3>2, <3>3, <3>4 DEF LockTurn, Fetches, At
    <3> QED
      BY <2>0, <2>2, <3>1, <3>4, <3>5, StreamHalted
  <2>4. CASE castId = 0
    <3> DEFINE r == [tool[c] EXCEPT !.at = "starting", !.tab = current]
    <3>1. /\ tool' = [tool EXCEPT ![c] = r] /\ Sends(c, "startcast", current, 0) /\ starting' = current
          /\ frames' = <<>> /\ generation' = generation + 1 /\ castId' = 0 /\ castTab' = None
      BY <1>2, <2>4 DEF Locked, SendStart, ClearCast
    <3>2. r.name = "start" /\ r.at = "starting"
      BY <1>0, <2>0 DEF Tool
    <3> HIDE DEF r
    <3>3. tool'[c] = r
      BY <3>1, NowIs
    <3>4. /\ call'[c].does = "startcast" /\ call'[c].tab = current /\ call'[c].is = IF alive THEN "sent" ELSE "error"
      BY <3>1, CallIs
    <3>5. LockTurn(c)
      BY <1>o, <2>1, <2>2, <3>2, <3>3, <3>4 DEF LockTurn, Fetches, At
    <3>6. starting = None
      BY <2>0, StreamTypes DEF StreamOK, LockOK
    <3>7. Sound => Lines("frame") = {} /\ \A t \in Tabs : stream[t].id = 0
      BY <2>4, <3>6, StreamTypes DEF StreamOK, PlaysOK, LinesOK, StreamId, StreamTab
    <3>8. generation' \in Nat /\ generation' > generation
      BY <3>1, StreamTypes
    <3> QED
      BY <1>0, <2>0, <2>2, <3>1, <3>4, <3>5, <3>7, <3>8, StreamCleared
  <2> QED
    BY <2>3, <2>4
<1>3. CASE CastFails(c)
  <2>0. call[c].does \in {"startcast", "stopcast"} /\ call[c].is = "error" /\ tool[c].name = "start"
    BY <1>0, <1>3 DEF CastFails, Runs, At, Answered, Fits
  <2>1. /\ UNCHANGED <<wire, alive, stream, streams, strayed, failed>> /\ Quiet(c) /\ starting' = None /\ holder' = None
        /\ frames' = <<>> /\ generation' = generation + 1 /\ castId' = 0 /\ castTab' = None
        /\ tool' = Woken([tool EXCEPT ![c] = Idle])
    BY <1>3 DEF CastFails, ClearCast
  <2>2. tool'[c] = Idle /\ call'[c].does = "none"
    BY <2>1, NowIs, NoneOK, CallIs
  <2>3. LockTurn(c)
    BY <1>o, <2>0, <2>1, <2>2, NoneOK DEF LockTurn, Fetches, At
  <2>4. holder = c /\ ~Sound
    BY <2>0 DEF StreamOK, LockOK, PlaysOK, Locks
  <2>5. generation' \in Nat /\ generation' > generation
    BY <2>1, StreamTypes
  <2> QED
    BY <2>0, <2>1, <2>2, <2>3, <2>4, <2>5, StreamCleared
<1>4. CASE Restarts(c)
  <2> DEFINE r == [tool[c] EXCEPT !.at = "starting", !.tab = current]
  <2>0. call[c].does = "stopcast" /\ call[c].is = "ok" /\ tool[c].name = "start"
    BY <1>0, <1>4 DEF Restarts, Runs, At, Answered, Fits
  <2>1. /\ UNCHANGED <<wire, alive, stream, streams, strayed, failed, holder>>
        /\ Sends(c, "startcast", current, 0) /\ starting' = current
        /\ frames' = <<>> /\ generation' = generation + 2 /\ castId' = 0 /\ castTab' = None
        /\ tool' = Woken([tool EXCEPT ![c] = r])
    BY <1>4 DEF Restarts
  <2>2. r.name = "start" /\ r.at = "starting"
    BY <1>0, <2>0 DEF Tool
  <2> HIDE DEF r
  <2>3. tool'[c] = r
    BY <2>1, <2>2, NowIs
  <2>4. /\ call'[c].does = "startcast" /\ call'[c].tab = current /\ call'[c].is = IF alive THEN "sent" ELSE "error"
    BY <2>1, CallIs
  <2>5. LockTurn(c)
    BY <1>o, <2>0, <2>1, <2>2, <2>3, <2>4 DEF LockTurn, Fetches, At
  <2>6. holder = c
    BY <2>0 DEF StreamOK, LockOK, Locks
  <2>7. Sound => Lines("frame") = {} /\ \A t \in Tabs : stream[t].id = 0
    BY <2>0 DEF StreamOK, PlaysOK, LinesOK
  <2>8. generation' \in Nat /\ generation' > generation
    BY <2>1, StreamTypes
  <2> QED
    BY <1>0, <2>0, <2>1, <2>4, <2>5, <2>6, <2>7, <2>8, StreamCleared
<1>5. CASE Started(c)
  <2>0. /\ call[c].does = "startcast" /\ call[c].is = "ok" /\ tool[c].name = "start" /\ tool[c].tab = call[c].tab
    BY <1>0, <1>5 DEF Started, Runs, At, Answered, Fits
  <2>1. /\ UNCHANGED <<wire, alive, stream, streams, frames, generation, strayed, failed>> /\ Quiet(c)
        /\ starting' = None /\ holder' = None /\ castId' = stream[call[c].tab].id /\ castTab' = call[c].tab
        /\ tool' = [tool EXCEPT ![c] = Idle]
    BY <1>5, <2>0 DEF Started, Ends
  <2>2. tool'[c] = Idle /\ call'[c].does = "none"
    BY <2>1, NowIs, CallIs
  <2>3. LockTurn(c)
    BY <1>o, <2>0, <2>1, <2>2, NoneOK DEF LockTurn, Fetches, At
  <2> QED
    BY <2>0, <2>1, <2>2, <2>3, StreamKnown
<1>6. CASE StopCast(c)
  <2> DEFINE r == [Idle EXCEPT !.name = "stop", !.at = "stopping"]
             t == IF castTab # None THEN castTab ELSE current
  <2>1. /\ tool[c].at = "none" /\ todo[c] # <<>> /\ tool' = [tool EXCEPT ![c] = r] /\ holder = None /\ holder' = c
        /\ Sends(c, "stopcast", t, 0)
        /\ UNCHANGED <<wire, alive, stream, streams, frames, castId, castTab, starting, generation, strayed, failed>>
    BY <1>6 DEF StopCast, Begins
  <2>2. r.name = "stop" /\ r.at = "stopping"
    BY DEF Idle
  <2> HIDE DEF r
  <2>3. tool'[c] = r
    BY <2>1, NowIs
  <2>4. castTab # None => t = castTab
    OBVIOUS
  <2> HIDE DEF t
  <2>5. call'[c].does = "stopcast" /\ call'[c].tab = t /\ call'[c].is = IF alive THEN "sent" ELSE "error"
    BY <2>1, CallIs
  <2>6. ~Fetches(c) /\ call[c].does = "none"
    BY <1>0, <2>1
  <2>7. LockTurn(c)
    BY <1>o, <2>1, <2>2, <2>3, <2>5, <2>6 DEF LockTurn, Fetches, At
  <2> QED
    BY <2>1, <2>4, <2>5, <2>6, <2>7, StreamHalted
<1>7. CASE Stopped(c)
  <2>0. call[c].does = "stopcast" /\ call[c].is \in {"ok", "error"} /\ tool[c].name = "stop"
    BY <1>0, <1>7 DEF Stopped, Runs, At, Answered, Fits
  <2>1. /\ UNCHANGED <<wire, alive, stream, streams, strayed, failed, starting>> /\ Quiet(c) /\ holder' = None
        /\ frames' = <<>> /\ generation' = generation + 1 /\ castId' = 0 /\ castTab' = None
        /\ tool' = Woken([tool EXCEPT ![c] = Idle])
    BY <1>7 DEF Stopped, ClearCast
  <2>2. tool'[c] = Idle /\ call'[c].does = "none"
    BY <2>1, NowIs, NoneOK, CallIs
  <2>3. LockTurn(c)
    BY <1>o, <2>0, <2>1, <2>2, NoneOK DEF LockTurn, Fetches, At
  <2>4. holder = c
    BY <2>0 DEF StreamOK, LockOK, Locks
  <2>5. starting' = None
    BY <2>0, <2>1, <2>4, Alone
  <2>6. Sound => Lines("frame") = {} /\ \A t \in Tabs : stream[t].id = 0
    BY <2>0 DEF StreamOK, PlaysOK, LinesOK, Locks
  <2>7. generation' \in Nat /\ generation' > generation
    BY <2>1, StreamTypes
  <2> QED
    BY <2>0, <2>1, <2>2, <2>3, <2>4, <2>5, <2>6, <2>7, StreamCleared
<1> QED
  BY <1>1, <1>2, <1>3, <1>4, <1>5, <1>6, <1>7

\* What is known of a tool that asks for a frame, by where it is.
LEMMA Fetcher ==
    ASSUME WireOK, StreamOK, NEW c \in Callers
    PROVE  /\ At(c, "drain") \/ Looking(c) \/ Sleeping(c) => Fetches(c) /\ call[c] = NoCall /\ call[c].does = "none" /\ ~At(c, "ack")
           /\ At(c, "discard") \/ At(c, "ack") => /\ Fetches(c) /\ call[c].does = "ack" /\ call[c].arg = tool[c].sid
                                                  /\ call[c].tab = tool[c].tab /\ call[c].arg # 0
           /\ tool[c].at = "none" /\ todo[c] # <<>> => call[c].does = "none" /\ ~Fetches(c)
           /\ ~Acks(c) \/ call[c].does = "ack"
<1>0. /\ tool[c] \in Tool /\ call[c] \in Call /\ Whole(call[c])
      /\ tool[c].at # "none" => Fits(tool[c], call[c])
      /\ Fits(tool[c], call[c]) \/ LeftBehind(tool[c], call[c], todo[c])
  BY Caller
<1>1. At(c, "drain") \/ Looking(c) \/ Sleeping(c) => Fetches(c) /\ call[c] = NoCall /\ ~At(c, "ack")
  BY <1>0 DEF At, Looking, Sleeping, Runs, Fits, Fetches
<1>2. At(c, "discard") \/ At(c, "ack") => Fetches(c) /\ call[c].does = "ack" /\ call[c].arg = tool[c].sid
  BY <1>0 DEF At, Fits, Fetches
<1>3. tool[c].at = "none" /\ todo[c] # <<>> => call[c].does = "none" /\ ~Fetches(c)
  BY <1>0, NoneOK DEF Fits, LeftBehind, Fetches
<1> QED
  BY <1>1, <1>2, <1>3, NoneOK DEF StreamOK, AgesOK, Acks

\* The tool goes on with what it noted, and no frame is added.
LEMMA FetchGoes ==
    ASSUME WireOK, StreamOK, NEW c \in Callers, Fetches(c), call[c].does \in {"none", "ack"},
           \A d \in Callers \ {c} : Same(d) /\ call'[d] = call[d],
           UNCHANGED <<stream, streams, castId, castTab, starting, generation, holder, failed, alive, wire>>, strayed => strayed',
           NEW r \in Tool, tool'[c] = r,
           r = Idle \/ (r.name = tool[c].name /\ r.sid = tool[c].sid /\ r.gen = tool[c].gen /\ r.tab = tool[c].tab),
           r.at # "ack" \/ (UpToDate(c) /\ \E i \in DOMAIN frames : r.item = frames[i].of),
           call'[c].does = "none" \/ (call'[c].does = "ack" /\ call'[c].tab = r.tab /\ call'[c].arg # 0),
           \A i \in DOMAIN frames' : \E j \in DOMAIN frames : frames'[i] = frames[j]
    PROVE  FetchTurn(c)
<1>1. Fetches(c)' => tool'[c].sid = tool[c].sid /\ tool'[c].gen = tool[c].gen /\ tool'[c].tab = tool[c].tab
  BY NoneOK DEF Fetches
<1>2. At(c, "ack")' => UpToDate(c) /\ tool'[c].sid = tool[c].sid /\ \E i \in DOMAIN frames : tool'[c].item = frames[i].of
  BY NoneOK DEF At
<1> QED
  BY <1>1, <1>2 DEF FetchTurn

\* What it asks to be acknowledged is of the stream there is.
LEMMA OwnStream ==
    ASSUME StreamOK, NEW c \in Callers, UpToDate(c), alive, StreamId # 0
    PROVE  tool[c].sid = StreamId /\ tool[c].sid # 0
BY DEF StreamOK, AgesOK, StreamId

LEMMA StreamFetches1 ==
    ASSUME WireOK, CastTypeOK, StreamOK, NEW c \in Callers,
           Drain(c) \/ Discarded(c) \/ Misses(c) \/ Wakes(c) \/ FrameTimesOut(c) \/ Acked(c)
    PROVE  StreamOK'
<1>0. /\ tool[c] \in Tool /\ Idle \in Tool /\ call[c].is \in {"none", "sent", "served", "ok", "error"}
      /\ call[c].does = "none" <=> call[c].is = "none"
  BY Caller, NoneOK, Asked
<1>o. \A d \in Callers \ {c} : Same(d) /\ call'[d] = call[d]
  <2>1. CastStep(c)
    BY DEF CastStep
  <2>2. call[c].is # "sent"
    BY <1>0, Fetcher, NoneOK DEF Drain, Discarded, Misses, Wakes, FrameTimesOut, Acked, Answered
  <2>3. ~CastServes(c)
    BY <2>2 DEF CastServes
  <2> QED
    BY <2>1, <2>3, OthersRest
<1>u. UNCHANGED <<stream, streams, castId, castTab, starting, generation, holder, failed, alive, wire>> /\ (strayed => strayed')
  <2>1. CASE Drain(c)
    BY <2>1 DEF Drain
  <2>2. CASE Discarded(c)
    BY <2>2 DEF Discarded
  <2>3. CASE Misses(c)
    BY <2>3 DEF Misses
  <2>4. CASE Wakes(c)
    BY <2>4 DEF Wakes
  <2>5. CASE FrameTimesOut(c) \/ Acked(c)
    BY <2>5 DEF FrameTimesOut, Acked, castVars
  <2> QED
    BY <2>1, <2>2, <2>3, <2>4, <2>5
<1>f. \A i \in DOMAIN <<>> : FALSE
  OBVIOUS
<1>1. CASE Drain(c)
  <2>0. Fetches(c) /\ call[c].does = "none" /\ frames' = <<>> /\ strayed' = (strayed \/ Older(c, frames))
    BY <1>1, Fetcher DEF Drain
  <2>1. FetchTurn(c)
    <3>1. CASE frames = <<>> /\ Goes(c, [tool[c] EXCEPT !.at = "look"]) /\ call' = call
      <4> DEFINE r == [tool[c] EXCEPT !.at = "look"]
      <4>1. r \in Tool /\ r.name = tool[c].name /\ r.sid = tool[c].sid /\ r.gen = tool[c].gen /\ r.tab = tool[c].tab /\ r.at # "ack"
        BY <1>0 DEF Tool
      <4>2. tool' = [tool EXCEPT ![c] = r]
        BY <3>1 DEF Goes
      <4> HIDE DEF r
      <4>3. tool'[c] = r
        BY <4>2, NowIs
      <4> QED
        BY <1>o, <1>u, <1>f, <2>0, <3>1, <4>1, <4>3, FetchGoes
    <3>2. CASE Ends(c) /\ call' = call
      <4>1. tool'[c] = Idle
        BY <3>2, NowIs DEF Ends
      <4> QED
        BY <1>0, <1>o, <1>u, <1>f, <2>0, <3>2, <4>1, NoneOK, FetchGoes
    <3>3. CASE /\ tool[c].sid # 0 /\ Goes(c, [tool[c] EXCEPT !.at = "discard", !.left = Len(frames)])
               /\ Sends(c, "ack", tool[c].tab, tool[c].sid)
      <4> DEFINE v == [tool[c] EXCEPT !.at = "discard"]
                 r == [v EXCEPT !.left = Len(frames)]
      <4>1. v \in Tool /\ v.name = tool[c].name /\ v.sid = tool[c].sid /\ v.gen = tool[c].gen /\ v.tab = tool[c].tab /\ v.at = "discard"
        BY <1>0 DEF Tool
      <4>2. tool' = [tool EXCEPT ![c] = r]
        BY <3>3 DEF Goes
      <4> HIDE DEF v
      <4>3. Len(frames) \in Nat
        BY StreamTypes
      <4>4. r \in Tool /\ r.name = v.name /\ r.sid = v.sid /\ r.gen = v.gen /\ r.tab = v.tab /\ r.at = v.at
        BY <4>1, <4>3 DEF Tool
      <4> HIDE DEF r
      <4>5. tool'[c] = r
        BY <4>2, NowIs
      <4>6. call'[c].does = "ack" /\ call'[c].tab = tool[c].tab /\ call'[c].arg = tool[c].sid
        BY <3>3, CallIs
      <4> QED
        BY <1>o, <1>u, <1>f, <2>0, <3>3, <4>1, <4>4, <4>5, <4>6, FetchGoes
    <3> QED
      BY <1>1, <3>1, <3>2, <3>3 DEF Drain
  <2>2. FetchFlows(c)
    <3> SUFFICES ASSUME Sound, ~strayed', StreamId # 0, frames # <<>> \/ Acks(c) PROVE Acks(c)'
      BY DEF FetchFlows
    <3>1. frames # <<>> /\ ~Older(c, frames)
      BY <2>0, Fetcher
    <3>2. UpToDate(c)
      <4>1. 1 \in DOMAIN frames
        BY <3>1, StreamTypes
      <4> QED
        BY <2>0, <3>1, <4>1 DEF Older, StreamOK, AgesOK, UpToDate
    <3>3. tool[c].sid = StreamId /\ tool[c].sid # 0 /\ alive
      BY <3>2, OwnStream DEF Sound
    <3>4. Sends(c, "ack", tool[c].tab, tool[c].sid)
      BY <1>1, <3>1, <3>3 DEF Drain
    <3>5. call'[c].does = "ack" /\ call'[c].arg = StreamId /\ call'[c].is = "sent"
      BY <3>3, <3>4, CallIs
    <3> QED
      BY <1>u, <3>5 DEF Acks, StreamId
  <2> QED
    BY <2>1, <2>2, StreamFetched
<1>2. CASE Discarded(c)
  <2>0. /\ Fetches(c) /\ call[c].does = "ack" /\ frames' = frames /\ tool[c].sid # 0
        /\ strayed' = (strayed \/ Answered(c, "error")) /\ call[c].is \in {"ok", "error"}
    BY <1>2, Fetcher DEF Discarded, Answered
  <2>1. FetchTurn(c)
    <3>1. CASE Ends(c) /\ Quiet(c)
      <4>1. tool'[c] = Idle /\ call'[c].does = "none"
        BY <3>1, NowIs, CallIs DEF Ends
      <4> QED
        BY <1>0, <1>o, <1>u, <2>0, <4>1, NoneOK, FetchGoes
    <3>2. CASE tool[c].left > 1 /\ Goes(c, [tool[c] EXCEPT !.left = @ - 1]) /\ Sends(c, "ack", tool[c].tab, tool[c].sid)
      <4> DEFINE n == tool[c].left - 1
                 r == [tool[c] EXCEPT !.left = n]
      <4>0. n \in Nat
        <5>1. tool[c].left \in Nat
          BY <1>0 DEF Tool
        <5> QED
          BY <3>2, <5>1
      <4>1. tool' = [tool EXCEPT ![c] = r]
        BY <3>2 DEF Goes
      <4> HIDE DEF n
      <4>2. r \in Tool /\ r.name = tool[c].name /\ r.sid = tool[c].sid /\ r.gen = tool[c].gen /\ r.tab = tool[c].tab /\ r.at = tool[c].at
        BY <1>0, <4>0 DEF Tool
      <4>3. r.at # "ack"
        BY <1>2, <4>2 DEF Discarded, At
      <4> HIDE DEF r
      <4>4. tool'[c] = r
        BY <4>1, NowIs
      <4>5. call'[c].does = "ack" /\ call'[c].tab = tool[c].tab /\ call'[c].arg = tool[c].sid
        BY <3>2, CallIs
      <4> QED
        BY <1>o, <1>u, <2>0, <4>2, <4>3, <4>4, <4>5, FetchGoes
    <3>3. CASE Goes(c, [tool[c] EXCEPT !.at = "look"]) /\ Quiet(c)
      <4> DEFINE r == [tool[c] EXCEPT !.at = "look"]
      <4>1. r \in Tool /\ r.name = tool[c].name /\ r.sid = tool[c].sid /\ r.gen = tool[c].gen /\ r.tab = tool[c].tab /\ r.at # "ack"
        BY <1>0 DEF Tool
      <4>2. tool' = [tool EXCEPT ![c] = r]
        BY <3>3 DEF Goes
      <4> HIDE DEF r
      <4>3. tool'[c] = r /\ call'[c].does = "none"
        BY <3>3, <4>2, NowIs, CallIs
      <4> QED
        BY <1>o, <1>u, <2>0, <4>1, <4>3, FetchGoes
    <3> QED
      BY <1>2, <3>1, <3>2, <3>3 DEF Discarded
  <2>2. FetchFlows(c)
    BY <2>0 DEF FetchFlows, Acks, Answered
  <2> QED
    BY <2>1, <2>2, StreamFetched
<1>3. CASE Misses(c) \/ Wakes(c) \/ FrameTimesOut(c)
  <2>0. /\ Fetches(c) /\ call[c].does = "none" /\ call' = call /\ ~Acks(c)
        /\ frames' = frames \/ (frames' = <<>> /\ strayed' = (strayed \/ frames # <<>>))
    BY <1>3, Fetcher DEF Misses, Wakes, FrameTimesOut, castVars
  <2>1. ASSUME NEW r \in Tool, tool' = [tool EXCEPT ![c] = r], r.at # "ack",
               r = Idle \/ (r.name = tool[c].name /\ r.sid = tool[c].sid /\ r.gen = tool[c].gen /\ r.tab = tool[c].tab)
        PROVE  FetchTurn(c)
    <3>1. tool'[c] = r
      BY <2>1, NowIs
    <3>2. \A i \in DOMAIN frames' : \E j \in DOMAIN frames : frames'[i] = frames[j]
      BY <1>f, <2>0
    <3> QED
      BY <1>o, <1>u, <2>0, <2>1, <3>1, <3>2, FetchGoes
  <2>2. FetchTurn(c)
    <3>1. CASE Ends(c)
      BY <1>0, <2>1, <3>1, NoneOK DEF Ends
    <3>2. CASE Goes(c, [tool[c] EXCEPT !.at = "sleep", !.woken = FALSE])
      <4> DEFINE r == [tool[c] EXCEPT !.at = "sleep", !.woken = FALSE]
      <4>1. r \in Tool /\ r.name = tool[c].name /\ r.sid = tool[c].sid /\ r.gen = tool[c].gen /\ r.tab = tool[c].tab /\ r.at # "ack"
        BY <1>0 DEF Tool
      <4> QED
        BY <2>1, <3>2, <4>1 DEF Goes
    <3>3. CASE Goes(c, [tool[c] EXCEPT !.woken = FALSE])
      <4> DEFINE r == [tool[c] EXCEPT !.woken = FALSE]
      <4>1. r \in Tool /\ r.name = tool[c].name /\ r.sid = tool[c].sid /\ r.gen = tool[c].gen /\ r.tab = tool[c].tab /\ r.at = tool[c].at
        BY <1>0 DEF Tool
      <4>2. r.at # "ack"
        BY <1>3, <4>1, Fetcher DEF Misses, Wakes, FrameTimesOut, At
      <4> QED
        BY <2>1, <3>3, <4>1, <4>2 DEF Goes
    <3> QED
      BY <1>3, <3>1, <3>2, <3>3 DEF Misses, Wakes, FrameTimesOut
  <2>3. FetchFlows(c)
    BY <2>0 DEF FetchFlows
  <2> QED
    BY <2>2, <2>3, StreamFetched
<1>4. CASE Acked(c)
  <2>0. Fetches(c) /\ call[c].does = "ack" /\ call[c].is = "ok" /\ frames' = frames /\ Ends(c) /\ Quiet(c)
    BY <1>4, Fetcher DEF Acked, Answered, castVars
  <2>1. tool'[c] = Idle /\ call'[c].does = "none"
    BY <2>0, NowIs, CallIs DEF Ends
  <2>2. FetchTurn(c)
    BY <1>0, <1>o, <1>u, <2>0, <2>1, NoneOK, FetchGoes
  <2>3. FetchFlows(c)
    BY <2>0 DEF FetchFlows, Acks
  <2> QED
    BY <2>2, <2>3, StreamFetched
<1> QED
  BY <1>1, <1>2, <1>3, <1>4

LEMMA StreamFetches2 ==
    ASSUME WireOK, CastTypeOK, StreamOK, NEW c \in Callers, FrameBegins(c) \/ Takes(c) \/ AckFails(c)
    PROVE  StreamOK'
<1>0. /\ tool[c] \in Tool /\ Idle \in Tool /\ call[c].is \in {"none", "sent", "served", "ok", "error"}
      /\ call[c].does = "none" <=> call[c].is = "none"
  BY Caller, NoneOK, Asked
<1>o. \A d \in Callers \ {c} : Same(d) /\ call'[d] = call[d]
  <2>1. CastStep(c)
    BY DEF CastStep
  <2>2. call[c].is # "sent"
    BY <1>0, Fetcher, NoneOK DEF FrameBegins, Begins, Takes, AckFails, Answered
  <2>3. ~CastServes(c)
    BY <2>2 DEF CastServes
  <2> QED
    BY <2>1, <2>3, OthersRest
<1>u. UNCHANGED <<stream, streams, castId, castTab, starting, generation, holder, failed, alive, wire>> /\ (strayed => strayed')
  <2>1. CASE FrameBegins(c)
    BY <2>1 DEF FrameBegins, castVars
  <2>2. CASE Takes(c)
    BY <2>2 DEF Takes
  <2>3. CASE AckFails(c)
    BY <2>3 DEF AckFails
  <2> QED
    BY <2>1, <2>2, <2>3
<1>1. CASE FrameBegins(c)
  <2>1. PICK name \in {"frame", "fresh"} :
           LET r == [Idle EXCEPT !.name = name, !.at = IF name = "fresh" THEN "drain" ELSE "look",
                                 !.sid = castId, !.tab = castTab, !.gen = generation]
           IN  Begins(c, name, IF castId = 0 /\ frames # <<>> THEN Idle ELSE r)
    BY <1>1 DEF FrameBegins
  <2> DEFINE at == IF name = "fresh" THEN "drain" ELSE "look"
             r == [Idle EXCEPT !.name = name, !.at = at, !.sid = castId, !.tab = castTab, !.gen = generation]
             s == IF castId = 0 /\ frames # <<>> THEN Idle ELSE r
  <2>2. r.name = name /\ r.at # "ack" /\ r.sid = castId /\ r.tab = castTab /\ r.gen = generation
    BY DEF Idle
  <2>3. Begins(c, name, s) /\ call' = call /\ frames' = frames /\ alive /\ holder = None
    BY <1>1, <2>1 DEF FrameBegins, castVars, Begins
  <2> HIDE DEF r
  <2>4. tool' = [tool EXCEPT ![c] = s] /\ call[c].does = "none" /\ ~Fetches(c)
    BY <2>3, Fetcher DEF Begins
  <2>5. s = Idle \/ (s = r /\ (castId = 0 => frames = <<>>))
    OBVIOUS
  <2> HIDE DEF s
  <2>6. tool'[c] = s /\ call'[c].does = "none" /\ s.at # "ack"
    BY <2>2, <2>3, <2>4, <2>5, NowIs, NoneOK
  <2>7. FetchTurn(c)
    BY <1>o, <1>u, <2>2, <2>3, <2>4, <2>5, <2>6, NoneOK DEF FetchTurn, Fetches, At
  <2>8. FetchFlows(c)
    BY <2>3, <2>4, Fetcher DEF FetchFlows
  <2> QED
    BY <2>7, <2>8, StreamFetched
<1>2. CASE Takes(c)
  <2> DEFINE i == CHOOSE j \in Mine(c) : \A k \in Mine(c) : j <= k
  <2>0. Fetches(c) /\ call[c].does = "none" /\ ~Acks(c)
    BY <1>2, Fetcher DEF Takes
  <2>1. i \in Mine(c)
    <3>1. Mine(c) \in SUBSET Nat /\ Mine(c) # {}
      BY <1>2, StreamTypes DEF Takes, Mine
    <3>2. \E j \in Mine(c) : \A k \in Mine(c) : j <= k
      BY <3>1, MinOfNaturals
    <3> QED
      BY <3>2
  <2>2. /\ frames' = SubSeq(frames, i + 1, Len(frames))
        /\ \/ tool[c].sid = 0 /\ Ends(c) /\ call' = call
           \/ /\ tool[c].sid # 0 /\ Goes(c, [tool[c] EXCEPT !.at = "ack", !.item = frames[i].of, !.woken = FALSE])
              /\ Sends(c, "ack", tool[c].tab, tool[c].sid)
    BY <1>2 DEF Takes
  <2> HIDE DEF i
  <2>3. i \in DOMAIN frames /\ frames[i].gen = tool[c].gen
    BY <2>1 DEF Mine
  <2>4. UpToDate(c)
    BY <2>0, <2>3 DEF StreamOK, AgesOK, UpToDate
  <2>5. \A k \in DOMAIN frames' : \E j \in DOMAIN frames : frames'[k] = frames[j]
    <3>1. frames \in Seq(Frame) /\ Len(frames) \in Nat /\ DOMAIN frames = 1..Len(frames) /\ i \in Nat /\ i >= 1
      BY <2>3, StreamTypes
    <3>2. /\ DOMAIN frames' = 1..(Len(frames) - i)
          /\ \A k \in 1..(Len(frames) - i) : frames'[k] = frames[i + k] /\ i + k \in 1..Len(frames)
      BY <2>2, <2>3, <3>1
    <3> QED
      BY <3>1, <3>2
  <2>6. CASE tool[c].sid = 0 /\ Ends(c) /\ call' = call
    <3>1. tool'[c] = Idle
      BY <2>6, NowIs DEF Ends
    <3>2. FetchTurn(c)
      BY <1>0, <1>o, <1>u, <2>0, <2>5, <2>6, <3>1, NoneOK, FetchGoes
    <3>3. FetchFlows(c)
      BY <2>4, <2>6, OwnStream DEF FetchFlows, Sound
    <3> QED
      BY <3>2, <3>3, StreamFetched
  <2>7. CASE /\ tool[c].sid # 0 /\ Goes(c, [tool[c] EXCEPT !.at = "ack", !.item = frames[i].of, !.woken = FALSE])
             /\ Sends(c, "ack", tool[c].tab, tool[c].sid)
    <3> DEFINE of == frames[i].of
               v == [tool[c] EXCEPT !.at = "ack"]
               w == [v EXCEPT !.item = of]
               r == [w EXCEPT !.woken = FALSE]
    <3>1. of \in Nat
      BY <2>3, StreamTypes
    <3>2. v \in Tool /\ v.name = tool[c].name /\ v.sid = tool[c].sid /\ v.gen = tool[c].gen /\ v.tab = tool[c].tab
      BY <1>0 DEF Tool
    <3>3. tool' = [tool EXCEPT ![c] = r]
      BY <2>7 DEF Goes
    <3> HIDE DEF of, v
    <3>4. w \in Tool /\ w.name = v.name /\ w.sid = v.sid /\ w.gen = v.gen /\ w.tab = v.tab /\ w.item = of
      BY <3>1, <3>2 DEF Tool
    <3> HIDE DEF w
    <3>5. r \in Tool /\ r.name = w.name /\ r.sid = w.sid /\ r.gen = w.gen /\ r.tab = w.tab /\ r.item = w.item
      BY <3>4 DEF Tool
    <3> HIDE DEF r
    <3>6. tool'[c] = r
      BY <3>3, NowIs
    <3>7. /\ call'[c].does = "ack" /\ call'[c].tab = tool[c].tab /\ call'[c].arg = tool[c].sid
          /\ call'[c].is = IF alive THEN "sent" ELSE "error"
      BY <2>7, CallIs
    <3>8. r.item = frames[i].of
      BY <3>4, <3>5 DEF of
    <3>9. FetchTurn(c)
      BY <1>o, <1>u, <2>0, <2>3, <2>4, <2>5, <2>7, <3>2, <3>4, <3>5, <3>6, <3>7, <3>8, FetchGoes
    <3>10. FetchFlows(c)
      <4> SUFFICES ASSUME Sound, StreamId # 0 PROVE Acks(c)'
        BY DEF FetchFlows
      <4>1. tool[c].sid = StreamId /\ alive
        BY <2>4, OwnStream DEF Sound
      <4>2. StreamId' = StreamId
        BY <1>u DEF StreamId
      <4> QED
        BY <3>7, <4>1, <4>2 DEF Acks
    <3> QED
      BY <3>9, <3>10, StreamFetched
  <2> QED
    BY <2>2, <2>6, <2>7
<1>3. CASE AckFails(c)
  <2>0. /\ Fetches(c) /\ call[c].does = "ack" /\ call[c].arg = tool[c].sid /\ call[c].arg # 0 /\ At(c, "ack") /\ Quiet(c)
    BY <1>3, Fetcher DEF AckFails
  <2>1. call'[c].does = "none"
    BY <2>0, CallIs
  <2>2. CASE tool[c].gen = generation
    <3> DEFINE x == [gen |-> tool[c].gen, of |-> tool[c].item]
    <3>1. frames' = <<x>> \o frames /\ tool' = Woken([tool EXCEPT ![c] = Idle])
      BY <1>3, <2>2 DEF AckFails, PutsBack
    <3>2. x.gen = generation /\ x.of = tool[c].item
      BY <2>2
    <3> HIDE DEF x
    <3>3. tool'[c] = Idle
      BY <3>1, NowIs, NoneOK
    <3>4. /\ frames' # <<>>
          /\ \A i \in DOMAIN frames' : frames'[i] = x \/ \E j \in DOMAIN frames : frames'[i] = frames[j]
      <4>1. frames \in Seq(Frame) /\ Len(frames) \in Nat /\ DOMAIN frames = 1..Len(frames)
        BY StreamTypes
      <4>2. /\ DOMAIN frames' = 1..(Len(frames) + 1) /\ frames'[1] = x
            /\ \A i \in 2..(Len(frames) + 1) : frames'[i] = frames[i - 1] /\ i - 1 \in 1..Len(frames)
        BY <3>1, <4>1
      <4>3. frames' # <<>>
        BY <4>1, <4>2
      <4>4. \A i \in 1..(Len(frames) + 1) : i = 1 \/ i \in 2..(Len(frames) + 1)
        BY <4>1
      <4> QED
        BY <4>1, <4>2, <4>3, <4>4
    <3>5. FetchTurn(c)
      BY <1>o, <1>u, <2>0, <2>1, <2>2, <3>2, <3>3, <3>4, NoneOK DEF FetchTurn, UpToDate, Fetches, At
    <3>6. FetchFlows(c)
      BY <3>4 DEF FetchFlows
    <3> QED
      BY <3>5, <3>6, StreamFetched
  <2>3. CASE tool[c].gen # generation
    <3>1. Ends(c) /\ frames' = frames
      BY <1>3, <2>3 DEF AckFails
    <3>2. tool'[c] = Idle
      BY <3>1, NowIs DEF Ends
    <3>3. FetchTurn(c)
      BY <1>0, <1>o, <1>u, <2>0, <2>1, <3>1, <3>2, NoneOK, FetchGoes
    <3>4. FetchFlows(c)
      BY <2>0, <2>3, <3>1 DEF FetchFlows, StreamOK, QueueOK, Acks
    <3> QED
      BY <3>3, <3>4, StreamFetched
  <2> QED
    BY <2>2, <2>3
<1> QED
  BY <1>1, <1>2, <1>3

\* The lines after the browser has answered a call.
LEMMA AnsweredLines ==
    ASSUME WireOK, NEW c \in Callers, NEW how \in {"ok", "error"}, Answers(c, how)
    PROVE  /\ Lines("frame")' = Lines("frame") /\ \A i \in Lines("frame") : wire'[i] = wire[i] /\ i \in Nat /\ i < Len(wire) + 1
           /\ \A j \in Lines("reply")' :
                 \/ /\ j \in Lines("reply") /\ wire'[j] = wire[j] /\ wire[j].to \in Callers \ {c}
                    /\ call'[wire[j].to] = call[wire[j].to]
                 \/ j = Len(wire) + 1 /\ wire'[j].to = c /\ wire'[j].how = how
           /\ \A j \in Lines("reply") : j \in Lines("reply")' /\ wire'[j] = wire[j]
           /\ Len(wire) + 1 \in Lines("reply")' /\ wire'[Len(wire) + 1].to = c /\ wire'[Len(wire) + 1].how = how
<1>1. Reply(c, how).kind = "reply" /\ Reply(c, how).to = c /\ Reply(c, how).how = how
  BY DEF Reply
<1>2. wire \in Seq(AnyLine) /\ \A i \in Lines("reply") : wire[i].to \in Callers \ {c}
  BY DEF WireOK, OneReply, Answers
<1>3. \A i \in DOMAIN wire : i \in Nat /\ i < Len(wire) + 1
  BY <1>2
<1>4. Lines("frame")' = Lines("frame") /\ \A i \in Lines("frame") : wire'[i] = wire[i]
  BY <1>1, AnswersSay DEF Lines
<1>5. \A j \in Lines("reply")' : (j \in Lines("reply") /\ wire'[j] = wire[j]) \/ (j = Len(wire) + 1 /\ wire'[j] = Reply(c, how))
  BY AnswersSay DEF Lines
<1>6. \A j \in Lines("reply") : j \in Lines("reply")' /\ wire'[j] = wire[j]
  BY AnswersSay DEF Lines
<1>7. Len(wire) + 1 \in Lines("reply")' /\ wire'[Len(wire) + 1] = Reply(c, how)
  BY <1>1, AnswersSay DEF Lines
<1>8. \A i \in Lines("frame") : i \in Nat /\ i < Len(wire) + 1
  BY <1>3 DEF Lines
<1>9. \A d \in Callers \ {c} : call'[d] = call[d]
  BY AnswersSay
<1> QED
  BY <1>1, <1>2, <1>4, <1>5, <1>6, <1>7, <1>8, <1>9

\* The browser starts or stops the stream, or goes on with it.
LEMMA StreamServed ==
    ASSUME WireOK, CastTypeOK, StreamOK, NEW c \in Callers, CastServes(c)
    PROVE  StreamOK'
<1>0. PICK how \in {"ok", "error"} : /\ Answers(c, how) /\ (how = "ok" => ServesCast(c) /\ failed' = failed)
                                     /\ how = "error" => /\ ServesCast(c) \/ UNCHANGED <<stream, streams>>
                                                         /\ failed' = (failed \/ call[c].does # "ack")
  BY DEF CastServes, Answers, browserVars
<1>1. /\ call[c].is = "sent" /\ call[c].does \in CastCalls
      /\ UNCHANGED <<tool, alive, frames, castId, castTab, starting, generation, holder, strayed>>
  BY DEF CastServes
<1>2. /\ \A d \in Callers : call'[d].does = call[d].does /\ call'[d].tab = call[d].tab /\ call'[d].arg = call[d].arg
      /\ call'[c].is = "served" /\ \A d \in Callers \ {c} : call'[d] = call[d]
  BY <1>0, AnswersSay
<1>3. \A d \in Callers : /\ Fetches(d)' = Fetches(d) /\ UpToDate(d)' = UpToDate(d) /\ Locks(d)' = Locks(d)
                         /\ At(d, "ack")' = At(d, "ack") /\ tool'[d] = tool[d]
  BY <1>1, <1>2 DEF Fetches, UpToDate, Locks, At
<1>4. failed => failed'
  BY <1>0
<1>5. LockOK'
  BY <1>1, <1>2, <1>3, StreamTypes DEF StreamOK, LockOK, Locks
<1>6. AgesOK'
  <2>0. AgesOK
    BY DEF StreamOK
  <2>1. \A d \in Callers : call'[d].does = "ack" => call'[d].tab = tool'[d].tab /\ call'[d].arg # 0
    BY <1>2, <1>3, <2>0 DEF AgesOK
  <2> QED
    BY <1>1, <1>3, <2>0, <2>1 DEF AgesOK
<1>7. ItemsOK'
  BY <1>1, <1>3, <1>4 DEF StreamOK, ItemsOK
<1>8. CASE ~Sound'
  BY <1>5, <1>6, <1>7, <1>8 DEF StreamOK, PlaysOK, LinesOK, QueueOK, FlowsOK
<1>9. CASE Sound' /\ call[c].does # "ack"
  <2>0. /\ Sound /\ how = "ok" /\ ServesCast(c) /\ alive /\ holder = c /\ (\A d \in Callers \ {c} : ~Locks(d)) /\ Locks(c)
        /\ PlaysOK /\ LinesOK /\ QueueOK
    <3>1. Sound /\ how = "ok" /\ alive
      BY <1>0, <1>1, <1>4, <1>9 DEF Sound
    <3>2. Locks(c)
      BY <1>1, <1>9 DEF Locks, CastCalls
    <3>3. holder = c
      BY <3>2 DEF StreamOK, LockOK
    <3> QED
      BY <1>0, <3>1, <3>2, <3>3, Alone DEF StreamOK
  <2>1. \A d \in Callers : Locks(d)' => d = c /\ call'[d].is = "served"
    BY <1>2, <1>3, <2>0
  <2>2. \A j \in Lines("reply")' : call'[wire'[j].to].does \in {"startcast", "stopcast"} => j = Len(wire) + 1 /\ wire'[j].how = "ok"
    BY <1>0, <1>2, <2>0, AnsweredLines DEF Locks
  <2>3. CASE call[c].does = "startcast"
    <3> DEFINE t == call[c].tab
    <3>1. t \in Tabs /\ starting = t /\ starting # None /\ castId = 0 /\ castTab = None /\ stream[t].id = 0
      <4>1. t \in Tabs /\ starting = t /\ stream[t].id = 0
        BY <1>1, <2>0, <2>3, Asked DEF StreamOK, LockOK, PlaysOK
      <4> HIDE DEF t
      <4> QED
        BY <4>1, StreamTypes DEF StreamOK, LockOK
    <3>2. /\ stream' = [stream EXCEPT ![t] = [id |-> streams + 1, flying |-> FALSE]] /\ streams' = streams + 1
      BY <2>0, <2>3 DEF ServesCast
    <3> HIDE DEF t
    <3>3. StreamId = 0 /\ \A u \in Tabs : stream[u].id = 0
      <4>1. StreamId = 0
        BY <3>1 DEF StreamId
      <4> QED
        BY <2>0, <4>1 DEF PlaysOK
    <3>4. Lines("frame") = {} /\ DOMAIN frames = {} /\ \A d \in Callers : Fetches(d) => tool[d].sid <= streams
      BY <2>0, <3>3 DEF LinesOK, QueueOK
    <3>5. stream'[t].id = streams + 1 /\ stream'[t].flying = FALSE /\ \A u \in Tabs \ {t} : stream'[u].id = 0
      BY <3>1, <3>2, <3>3, StreamTypes
    <3>6. StreamId' = streams + 1 /\ StreamTab' = t /\ streams \in Nat
      BY <1>1, <3>1, <3>5, StreamTypes DEF StreamId, StreamTab
    <3>7. call'[c].tab = t /\ call'[c].does = "startcast"
      BY <1>2, <2>3 DEF t
    <3>8. PlaysOK'
      <4>1. (castId' = 0 <=> castTab' = None) /\ castId' <= streams'
        BY <1>1, <3>1, <3>2, StreamTypes
      <4>2. \A u \in Tabs : stream'[u].id # 0 => u = StreamTab' /\ stream'[u].id = StreamId' /\ stream'[u].id <= streams'
        BY <3>2, <3>5, <3>6
      <4>3. \A d \in Callers : call'[d].does = "startcast" => (call'[d].is = "sent" <=> stream'[call'[d].tab].id = 0)
        BY <2>1, <3>5, <3>6, <3>7 DEF Locks
      <4>4. \A d \in Callers : call'[d].does # "stopcast"
        BY <2>1, <3>7 DEF Locks
      <4> QED
        BY <2>1, <4>1, <4>2, <4>3, <4>4 DEF PlaysOK
    <3>9. LinesOK'
      <4>1. \A d \in Callers : call'[d].does # "stopcast"
        BY <2>1, <3>7 DEF Locks
      <4>2. Lines("frame")' = {}
        BY <1>0, <3>4, AnsweredLines
      <4> QED
        BY <2>2, <4>1, <4>2 DEF LinesOK
    <3>10. QueueOK'
      <4>1. \A d \in Callers : Fetches(d)' => tool'[d].sid <= streams' /\ tool'[d].sid # StreamId'
        BY <1>3, <3>2, <3>4, <3>6, Asked
      <4> QED
        BY <1>1, <3>4, <4>1 DEF QueueOK
    <3>11. FlowsOK'
      BY <3>5, <3>6 DEF FlowsOK
    <3> QED
      BY <1>5, <1>6, <1>7, <3>8, <3>9, <3>10, <3>11 DEF StreamOK
  <2>4. CASE call[c].does = "stopcast"
    <3> DEFINE t == call[c].tab
    <3>1. stream' = [stream EXCEPT ![t] = [id |-> 0, flying |-> FALSE]] /\ streams' = streams
      BY <2>0, <2>4 DEF ServesCast
    <3>2. castId # 0 => t = castTab
      BY <2>0, <2>4 DEF PlaysOK
    <3> HIDE DEF t
    <3>3. starting = None
      BY <2>0, <2>4 DEF StreamOK, LockOK
    <3>4. StreamId = castId /\ StreamId' = castId /\ StreamTab' = StreamTab /\ (castId # 0 => StreamTab = castTab /\ castTab \in Tabs)
      BY <1>1, <2>0, <3>3, StreamTypes DEF StreamId, StreamTab, PlaysOK
    <3>5. \A u \in Tabs : stream'[u].id = 0
      <4>1. \A u \in Tabs : u # t => stream[u].id = 0
        BY <2>0, <3>2, <3>4 DEF PlaysOK
      <4> QED
        BY <3>1, <4>1, StreamTypes
    <3>6. call'[c].tab = t /\ call'[c].does = "stopcast"
      BY <1>2, <2>4 DEF t
    <3>7. PlaysOK'
      <4>1. (castId' = 0 <=> castTab' = None) /\ castId' <= streams'
        BY <1>1, <2>0, <3>1 DEF PlaysOK
      <4>2. \A d \in Callers : call'[d].does # "startcast"
        BY <2>1, <3>6 DEF Locks
      <4>3. \A d \in Callers : call'[d].does = "stopcast" => (castId' # 0 => call'[d].tab = castTab')
        BY <1>1, <2>1, <3>2, <3>6 DEF Locks
      <4> QED
        BY <2>1, <3>5, <4>1, <4>2, <4>3 DEF PlaysOK
    <3>8. LinesOK'
      <4>1. \A i \in Lines("frame")' : wire'[i].of = StreamId' /\ wire'[i].tab = StreamTab' /\ StreamId' # 0
        BY <1>0, <2>0, <3>4, AnsweredLines DEF LinesOK
      <4>2. \A j \in Lines("reply")' : call'[wire'[j].to].does = "stopcast" => \A i \in Lines("frame")' : i < j
        BY <1>0, <2>2, AnsweredLines
      <4>3. \A d \in Callers : ~(call'[d].does = "stopcast" /\ call'[d].is = "ok")
        BY <2>1 DEF Locks
      <4> QED
        BY <2>2, <4>1, <4>2, <4>3 DEF LinesOK
    <3>9. QueueOK'
      BY <1>1, <1>3, <2>0, <3>1, <3>4 DEF QueueOK
    <3>10. FlowsOK'
      BY <1>1, <3>4, <3>5 DEF FlowsOK
    <3> QED
      BY <1>5, <1>6, <1>7, <3>7, <3>8, <3>9, <3>10 DEF StreamOK
  <2> QED
    BY <1>1, <1>9, <2>3, <2>4 DEF CastCalls
<1>10. CASE Sound' /\ call[c].does = "ack"
  <2> DEFINE t == call[c].tab
             a == call[c].arg
  <2>0. Sound /\ alive /\ PlaysOK /\ LinesOK /\ QueueOK /\ FlowsOK /\ AgesOK
    BY <1>1, <1>4, <1>10 DEF Sound, StreamOK
  <2>1. streams' = streams /\ (stream' = stream \/ stream' = [stream EXCEPT ![t].flying = FALSE])
    BY <1>0, <1>10 DEF ServesCast
  <2>2. how = "ok" /\ stream[t].id = a => stream' = [stream EXCEPT ![t].flying = FALSE]
    BY <1>0, <1>10 DEF ServesCast
  <2>3. \A u \in Tabs : stream'[u].id = stream[u].id /\ (stream'[u].flying => stream[u].flying)
    <3> HIDE DEF t
    <3>1. CASE stream' = stream
      BY <3>1
    <3>2. CASE stream' = [stream EXCEPT ![t].flying = FALSE]
      <4> DEFINE x == [stream[t] EXCEPT !.flying = FALSE]
      <4>1. t \in Tabs => x.id = stream[t].id /\ x.flying = FALSE
        BY StreamTypes DEF Stream
      <4>2. stream' = [stream EXCEPT ![t] = x]
        BY <3>2
      <4> HIDE DEF x
      <4> QED
        BY <4>1, <4>2, StreamTypes
    <3> QED
      BY <2>1, <3>1, <3>2
  <2>4. how = "ok" /\ t \in Tabs /\ stream[t].id = a => ~stream'[t].flying
    <3> HIDE DEF t, a
    <3> SUFFICES ASSUME t \in Tabs, stream' = [stream EXCEPT ![t].flying = FALSE] PROVE ~stream'[t].flying
      BY <2>2
    <3> DEFINE x == [stream[t] EXCEPT !.flying = FALSE]
    <3>1. x.flying = FALSE
      BY StreamTypes DEF Stream
    <3>2. stream' = [stream EXCEPT ![t] = x]
      OBVIOUS
    <3> HIDE DEF x
    <3> QED
      BY <3>1, <3>2, StreamTypes
  <2>5. StreamId' = StreamId /\ StreamTab' = StreamTab
    BY <1>1, <2>3, StreamTypes DEF StreamId, StreamTab
  <2>6. ~Locks(c) /\ \A d \in Callers : Locks(d)' => call'[d] = call[d] /\ d # c
    BY <1>2, <1>3, <1>10 DEF Locks
  <2>7. PlaysOK'
    <3>1. (castId' = 0 <=> castTab' = None) /\ castId' <= streams'
      BY <1>1, <2>0, <2>1 DEF PlaysOK
    <3>2. \A u \in Tabs : stream'[u].id # 0 => u = StreamTab' /\ stream'[u].id = StreamId' /\ stream'[u].id <= streams'
      BY <2>0, <2>1, <2>3, <2>5 DEF PlaysOK
    <3>3. \A d \in Callers : Locks(d)' => call'[d].is # "error"
      BY <1>3, <2>0, <2>6 DEF PlaysOK
    <3>4. \A d \in Callers : call'[d].does = "startcast" => (call'[d].is = "sent" <=> stream'[call'[d].tab].id = 0)
      BY <2>0, <2>3, <2>6, Asked DEF PlaysOK, Locks
    <3>5. \A d \in Callers : call'[d].does = "stopcast" => /\ castId' # 0 => call'[d].tab = castTab'
                                                           /\ call'[d].is # "sent" => \A u \in Tabs : stream'[u].id = 0
      BY <1>1, <2>0, <2>3, <2>6 DEF PlaysOK, Locks
    <3> QED
      BY <3>1, <3>2, <3>3, <3>4, <3>5 DEF PlaysOK
  <2>8. LinesOK'
    <3>1. \A j \in Lines("reply")' : call'[wire'[j].to].does \in {"startcast", "stopcast"} =>
             j \in Lines("reply") /\ wire'[j] = wire[j] /\ call'[wire[j].to] = call[wire[j].to]
      BY <1>0, <1>2, <1>10, AnsweredLines
    <3>2. \A i \in Lines("frame")' : wire'[i].of = StreamId' /\ wire'[i].tab = StreamTab' /\ StreamId' # 0
      BY <1>0, <2>0, <2>5, AnsweredLines DEF LinesOK
    <3>3. \A j \in Lines("reply")' : call'[wire'[j].to].does \in {"startcast", "stopcast"} => wire'[j].how = "ok"
      BY <2>0, <3>1 DEF LinesOK
    <3>4. \A j \in Lines("reply")' : call'[wire'[j].to].does = "stopcast" => \A i \in Lines("frame")' : i < j
      BY <1>0, <2>0, <3>1, AnsweredLines DEF LinesOK
    <3>5. \A d \in Callers : call'[d].does = "stopcast" /\ call'[d].is = "ok" => Lines("frame")' = {}
      BY <1>0, <2>0, <2>6, AnsweredLines DEF LinesOK, Locks
    <3> QED
      BY <3>2, <3>3, <3>4, <3>5 DEF LinesOK
  <2>9. QueueOK'
    BY <1>1, <1>3, <2>0, <2>1, <2>5 DEF QueueOK
  <2>10. FlowsOK'
    <3> SUFFICES ASSUME ~strayed', StreamId' # 0, stream'[StreamTab'].id = StreamId', stream'[StreamTab'].flying
                 PROVE  Lines("frame")' # {} \/ frames' # <<>> \/ \E d \in Callers : Acks(d)'
      BY DEF FlowsOK
    <3>1. StreamTab \in Tabs /\ StreamId # 0 /\ stream[StreamTab].id = StreamId /\ stream[StreamTab].flying /\ ~strayed
      <4>1. StreamTab \in Tabs
        BY <2>0, <2>5, StreamTypes DEF StreamTab, StreamId, PlaysOK
      <4> QED
        BY <1>1, <2>3, <2>5, <4>1
    <3>2. Lines("frame") # {} \/ frames # <<>> \/ \E d \in Callers : Acks(d)
      BY <2>0, <3>1 DEF FlowsOK
    <3>3. ASSUME NEW d \in Callers \ {c}, Acks(d) PROVE Acks(d)'
      BY <1>0, <1>2, <2>5, <3>3, AnsweredLines DEF Acks
    <3>4. ASSUME Acks(c) PROVE Acks(c)'
      <4>1. CASE how = "error"
        BY <1>0, <1>2, <2>5, <3>4, <4>1, AnsweredLines DEF Acks
      <4>2. CASE how = "ok"
        <5>1. t = tool[c].tab /\ a = tool[c].sid /\ a = StreamId /\ Fetches(c) /\ a # 0
          BY <1>10, <2>0, <3>4, Asked DEF AgesOK, Acks
        <5> HIDE DEF t, a
        <5>2. UpToDate(c)
          BY <2>0, <5>1 DEF QueueOK, UpToDate
        <5>3. tool[c].sid = castId /\ tool[c].tab = castTab
          BY <2>0, <5>2 DEF AgesOK
        <5>4. t = StreamTab /\ stream[t].id = a
          BY <3>1, <5>1, <5>3 DEF StreamTab
        <5> QED
          BY <2>4, <2>5, <3>1, <4>2, <5>4
      <4> QED
        BY <4>1, <4>2
    <3> QED
      BY <1>0, <1>1, <3>2, <3>3, <3>4, AnsweredLines
  <2> QED
    BY <1>5, <1>6, <1>7, <2>7, <2>8, <2>9, <2>10 DEF StreamOK
<1> QED
  BY <1>8, <1>9, <1>10

\* The turn of a tool of another kind.
LEMMA ApartTurn ==
    ASSUME WireOK, CastTypeOK, StreamOK, UNCHANGED castVars, NEW c \in Callers, NEW names, NEW calls, TurnAmong(c, names, calls),
           names \cap {"frame", "fresh"} = {}, calls \cap CastCalls = {}
    PROVE  StreamOK'
<1>1. PICK r, k : Turn(c, r, k) /\ r.name \in names \cup {"none"} /\ k.does \in calls \cup {"none"}
  BY DEF TurnAmong
<1>2. r \in Tool /\ (r.at = "ack" => r.name \in {"frame", "fresh"}) /\ Awake(r, tool'[c])
  <2>1. CallerOK(r, k, todo'[c]) /\ Awake(r, tool'[c])
    BY <1>1 DEF Turn
  <2> QED
    BY <2>1, NoneOK DEF CallerOK, Fits, LeftBehind, Idle
<1>3. tool'[c].name = r.name /\ tool'[c].at = r.at
  BY <1>2 DEF Awake, Tool
<1>4. ~Fetches(c)' /\ ~At(c, "ack")'
  BY <1>1, <1>2, <1>3 DEF Fetches, At
<1>5. ~Fetches(c) /\ ~At(c, "ack") /\ call[c].does \notin CastCalls
  <2>1. tool[c].name \in names \cup {"none"} /\ call[c].does \in calls \cup {"none"}
    BY DEF TurnAmong
  <2> QED
    BY <2>1, Asked DEF Fetches, CastCalls
<1>6. call'[c] = k /\ \A d \in Callers \ {c} : call'[d] = call[d] /\ Same(d)
  <2>1. call' = [call EXCEPT ![c] = k] /\ \A d \in Callers \ {c} : Awake(tool[d], tool'[d])
    BY <1>1 DEF Turn
  <2>2. call \in [Callers -> Call] /\ \A d \in Callers : tool[d] \in Tool
    BY DEF WireOK
  <2> QED
    BY <2>1, <2>2, AwakeSame
<1>7. \A d \in Callers : Apart(d)
  <2>1. call'[c].does \notin CastCalls
    BY <1>1, <1>6 DEF CastCalls
  <2> QED
    BY <1>4, <1>5, <1>6, <2>1 DEF Apart
<1>8. wire' = wire /\ alive' = alive
  BY <1>1 DEF Turn
<1> QED
  BY <1>7, <1>8, StreamApart

\* The browser answers a call that has nothing to do with the stream.
LEMMA ApartAnswers ==
    ASSUME WireOK, CastTypeOK, StreamOK, UNCHANGED castVars, NEW c \in Callers, NEW how \in {"ok", "error"}, Answers(c, how),
           call[c].does \notin CastCalls
    PROVE  StreamOK'
<1>1. \A d \in Callers : Apart(d)
  <2>1. tool' = tool /\ call'[c].does = call[c].does /\ \A d \in Callers \ {c} : call'[d] = call[d]
    BY AnswersSay DEF Answers
  <2> QED
    BY <2>1 DEF Apart, Same
<1>2. Reply(c, how).kind = "reply" /\ Reply(c, how).to = c
  BY DEF Reply
<1>3. \A i \in DOMAIN wire' \ DOMAIN wire : wire'[i].kind = "reply" /\ wire'[i].to = c
  BY <1>2, AnswersSay
<1> QED
  BY <1>1, <1>3, AnswersSay, StreamApart DEF Answers

\* A page tells of something else.
LEMMA ApartTells ==
    ASSUME WireOK, CastTypeOK, StreamOK, UNCHANGED castVars, NEW lines \in Seq(AnyLine), Tells(lines),
           \A i \in DOMAIN lines : lines[i].kind # "frame"
    PROVE  StreamOK'
<1>1. \A d \in Callers : Apart(d)
  BY DEF Apart, Same, Tells
<1>2. \A i \in DOMAIN wire' \ DOMAIN wire : wire'[i].kind # "frame" /\ wire'[i].kind # "reply"
  BY WireGrows DEF Tells
<1> QED
  BY <1>1, <1>2, WireGrows, StreamApart DEF Tells

\* A page paints a frame of the stream there is.
LEMMA StreamPaints ==
    ASSUME WireOK, Types, StreamOK, NEW t \in Tabs, PagePaints(t)
    PROVE  StreamOK'
<1> DEFINE x == [kind |-> "frame", tab |-> t, of |-> stream[t].id]
<1>0. CastTypeOK
  BY DEF Types
<1>1. Tells(<<x>>) /\ <<x>> \in Seq(AnyLine) /\ x.kind = "frame" /\ x.tab = t /\ x.of = stream[t].id
  BY PagesTell
<1>2. /\ UNCHANGED <<tool, call, alive, streams, frames, castId, castTab, starting, generation, holder, strayed, failed>>
      /\ stream[t].id # 0 /\ alive
  BY DEF PagePaints
<1> HIDE DEF x
<1>3. \A u \in Tabs : stream'[u].id = stream[u].id
  <2> DEFINE y == [stream[t] EXCEPT !.flying = TRUE]
  <2>1. y.id = stream[t].id
    BY <1>0, StreamTypes DEF Stream
  <2>2. stream' = [stream EXCEPT ![t] = y]
    BY DEF PagePaints
  <2> HIDE DEF y
  <2> QED
    BY <1>0, <2>1, <2>2, StreamTypes
<1>4. StreamId' = StreamId /\ StreamTab' = StreamTab /\ Sound' = Sound
  BY <1>0, <1>2, <1>3, StreamTypes DEF StreamId, StreamTab, Sound
<1>5. \A d \in Callers : Fetches(d)' = Fetches(d) /\ UpToDate(d)' = UpToDate(d) /\ Locks(d)' = Locks(d) /\ At(d, "ack")' = At(d, "ack")
  BY <1>2 DEF Fetches, UpToDate, Locks, At
<1>6. LockOK' /\ AgesOK' /\ ItemsOK' /\ QueueOK'
  <2>1. LockOK'
    BY <1>2, <1>5 DEF StreamOK, LockOK
  <2>2. AgesOK'
    BY <1>2, <1>5 DEF StreamOK, AgesOK
  <2>3. ItemsOK'
    BY <1>2, <1>5 DEF StreamOK, ItemsOK
  <2>4. QueueOK'
    BY <1>2, <1>4, <1>5 DEF StreamOK, QueueOK
  <2> QED
    BY <2>1, <2>2, <2>3, <2>4
<1>7. PlaysOK'
  <2> SUFFICES ASSUME Sound'
               PROVE  /\ (castId' = 0 <=> castTab' = None) /\ castId' <= streams'
                      /\ \A u \in Tabs : stream'[u].id # 0 => u = StreamTab' /\ stream'[u].id = StreamId' /\ stream'[u].id <= streams'
                      /\ \A c \in Callers : Locks(c)' => call'[c].is # "error"
                      /\ \A c \in Callers : call'[c].does = "startcast" => (call'[c].is = "sent" <=> stream'[call'[c].tab].id = 0)
                      /\ \A c \in Callers : call'[c].does = "stopcast" =>
                            /\ castId' # 0 => call'[c].tab = castTab'
                            /\ call'[c].is # "sent" => \A u \in Tabs : stream'[u].id = 0
    BY DEF PlaysOK
  <2>1. PlaysOK /\ Sound
    BY <1>4 DEF StreamOK
  <2>2. \A c \in Callers : call'[c].does = "startcast" => (call'[c].is = "sent" <=> stream'[call'[c].tab].id = 0)
    BY <1>2, <1>3, <2>1, Asked DEF PlaysOK
  <2> QED
    BY <1>2, <1>3, <1>4, <1>5, <2>1, <2>2 DEF PlaysOK
<1>8. /\ \A i \in Lines("frame")' : (i \in Lines("frame") /\ wire'[i] = wire[i]) \/ wire'[i] = x
      /\ \A j \in Lines("reply")' : j \in Lines("reply") /\ wire'[j] = wire[j]
      /\ Lines("frame")' # {}
  <2>1. /\ \A i \in DOMAIN wire : i \in DOMAIN wire' /\ wire'[i] = wire[i]
        /\ \A i \in DOMAIN wire' : i \in DOMAIN wire \/ wire'[i] = x
    <3>1. DOMAIN <<x>> = {1} /\ <<x>>[1] = x
      OBVIOUS
    <3> QED
      BY <1>1, <3>1, WireGrows DEF Tells
  <2>2. Len(wire) + 1 \in DOMAIN wire' /\ wire'[Len(wire) + 1] = x
    <3>1. wire \in Seq(AnyLine) /\ wire' = wire \o <<x>>
      BY <1>1 DEF WireOK, Tells, Adds
    <3> QED
      BY <3>1
  <2> QED
    BY <1>1, <2>1, <2>2 DEF Lines
<1>9. LinesOK'
  <2> SUFFICES ASSUME Sound'
               PROVE  /\ \A i \in Lines("frame")' : wire'[i].of = StreamId' /\ wire'[i].tab = StreamTab' /\ StreamId' # 0
                      /\ \A j \in Lines("reply")' : call'[wire'[j].to].does \in {"startcast", "stopcast"} => wire'[j].how = "ok"
                      /\ \A j \in Lines("reply")' : call'[wire'[j].to].does = "stopcast" => \A i \in Lines("frame")' : i < j
                      /\ \A c \in Callers : call'[c].does = "stopcast" /\ call'[c].is = "ok" => Lines("frame")' = {}
    BY DEF LinesOK
  <2>1. PlaysOK /\ LinesOK /\ Sound
    BY <1>4 DEF StreamOK
  <2>2. x.of = StreamId /\ x.tab = StreamTab /\ StreamId # 0
    BY <1>1, <1>2, <2>1 DEF PlaysOK
  <2>3. \A i \in Lines("frame")' : wire'[i].of = StreamId' /\ wire'[i].tab = StreamTab' /\ StreamId' # 0
    BY <1>4, <1>8, <2>1, <2>2 DEF LinesOK
  <2>4. \A j \in Lines("reply")' : call'[wire'[j].to].does \in {"startcast", "stopcast"} => wire'[j].how = "ok"
    BY <1>2, <1>8, <2>1 DEF LinesOK
  \* No stream is played once it was stopped.
  <2>5. \A c \in Callers : call[c].does = "stopcast" => call[c].is = "sent"
    BY <1>2, <2>1 DEF PlaysOK
  <2>6. \A j \in Lines("reply")' : call'[wire'[j].to].does # "stopcast"
    BY <1>2, <1>8, <2>5 DEF WireOK, OneReply
  <2> QED
    BY <1>2, <2>3, <2>4, <2>5, <2>6
<1>10. FlowsOK'
  BY <1>8 DEF FlowsOK
<1> QED
  BY <1>6, <1>7, <1>9, <1>10 DEF StreamOK

\* The engine stops: what is queued is gone, and nobody starts a stream.
LEMMA StreamStops ==
    ASSUME WireOK, CastTypeOK, StreamOK, EngineStops
    PROVE  StreamOK'
<1>1. /\ alive' = FALSE /\ frames' = <<>> /\ castId' = 0 /\ castTab' = None /\ starting' = None
      /\ UNCHANGED <<stream, streams, generation, holder, strayed, failed>>
  BY DEF EngineStops
<1>2. \A d \in Callers : call'[d].does = call[d].does /\ call'[d].tab = call[d].tab /\ call'[d].arg = call[d].arg
  <2> SUFFICES ASSUME NEW d \in Callers
               PROVE  call'[d].does = call[d].does /\ call'[d].tab = call[d].tab /\ call'[d].arg = call[d].arg
    OBVIOUS
  <2>1. call'[d] = IF call[d].is \in {"sent", "served"} THEN [call[d] EXCEPT !.is = "error"] ELSE call[d]
    BY DEF EngineStops
  <2>2. call[d] \in Call
    BY DEF WireOK
  <2> QED
    BY <2>1, <2>2 DEF Call
<1>3. \A d \in Callers : Same(d)
  BY StopsSay, AwakeSame DEF WireOK
<1>4. \A d \in Callers : Fetches(d)' = Fetches(d) /\ UpToDate(d)' = UpToDate(d) /\ Locks(d)' = Locks(d) /\ At(d, "ack")' = At(d, "ack")
  BY <1>1, <1>2, <1>3 DEF Fetches, UpToDate, Locks, At, Same
<1>5. LockOK'
  BY <1>1, <1>2, <1>4 DEF StreamOK, LockOK
<1>6. AgesOK'
  BY <1>1, <1>2, <1>3, <1>4 DEF StreamOK, AgesOK, Same
<1>7. ItemsOK'
  BY <1>1, <1>3, <1>4 DEF StreamOK, ItemsOK, Same
<1> QED
  BY <1>1, <1>5, <1>6, <1>7 DEF StreamOK, PlaysOK, LinesOK, QueueOK, FlowsOK, Sound

\* What the reader does to the frames: one of the stream that Python follows is queued.
LEMMA ReadsFrames ==
    ASSUME WireOK, CastTypeOK, StreamOK, Reads
    PROVE  /\ UNCHANGED <<stream, streams, castId, castTab, starting, generation, holder, strayed, failed, alive>> /\ alive
           /\ \/ frames' = frames /\ (Sound => wire[1].kind # "frame")
              \/ /\ wire[1].kind = "frame" /\ frames' = Append(frames, [gen |-> generation, of |-> wire[1].of])
                 /\ Sound => wire[1].of = StreamId /\ StreamId # 0
<1> DEFINE line == wire[1]
<1>1. Head(wire) = line /\ 1 \in DOMAIN wire /\ alive /\ alive' = alive
  BY WireShrinks DEF Reads
<1>2. \/ line.kind \in {"chooser", "cleared", "context"} /\ UNCHANGED castVars
      \/ /\ line.kind \notin {"chooser", "cleared", "context"} /\ TrackFrame(line)
         /\ UNCHANGED <<stream, streams, castId, castTab, starting, generation, holder, strayed, failed>>
  <2>1. LET l == Head(wire) IN
        \/ l.kind \in {"chooser", "cleared", "context"} /\ UNCHANGED castVars
        \/ /\ l.kind \notin {"chooser", "cleared", "context"} /\ TrackFrame(l)
           /\ UNCHANGED <<stream, streams, castId, castTab, starting, generation, holder, strayed, failed>>
    BY DEF Reads
  <2> QED
    BY <1>1, <2>1
<1>3. ASSUME Sound, line.kind = "frame" PROVE line.of = StreamId /\ StreamId # 0 /\ line.tab = StreamTab
  BY <1>1, <1>3 DEF StreamOK, LinesOK, Lines
<1> HIDE DEF line
<1>4. CASE line.kind \in {"chooser", "cleared", "context"} /\ UNCHANGED castVars
  BY <1>1, <1>4 DEF castVars, line
<1>5. CASE /\ TrackFrame(line)
           /\ UNCHANGED <<stream, streams, castId, castTab, starting, generation, holder, strayed, failed>>
  <2>1. frames' = frames \/ (line.kind = "frame" /\ frames' = Append(frames, [gen |-> generation, of |-> line.of]))
    BY <1>5 DEF TrackFrame
  <2>2. ASSUME Sound, line.kind = "frame" PROVE frames' = Append(frames, [gen |-> generation, of |-> line.of])
    <3>1. castId = 0 <=> castTab = None
      BY <2>2 DEF StreamOK, PlaysOK
    <3>2. line.tab = (IF castTab # None THEN castTab ELSE starting) /\ (castId # 0 \/ starting # None)
      BY <1>3, <2>2, <3>1 DEF StreamId, StreamTab
    <3> QED
      BY <1>5, <2>2, <3>2 DEF TrackFrame
  <2>3. CASE Sound /\ line.kind = "frame"
    BY <1>1, <1>3, <1>5, <2>2, <2>3 DEF line
  <2>4. CASE ~(Sound /\ line.kind = "frame")
    BY <1>1, <1>5, <2>1, <2>4 DEF line
  <2> QED
    BY <2>3, <2>4
<1> QED
  BY <1>2, <1>4, <1>5

\* The reader takes a frame, or the answer that says what was started or stopped.
LEMMA StreamReads ==
    ASSUME WireOK, CastTypeOK, StreamOK, Reads
    PROVE  StreamOK'
<1>1. /\ UNCHANGED <<stream, streams, castId, castTab, starting, generation, holder, strayed, failed, alive>> /\ alive
      /\ StreamId' = StreamId /\ StreamTab' = StreamTab /\ Sound' = Sound
  BY ReadsFrames DEF StreamId, StreamTab, Sound
<1>2. \A d \in Callers : call'[d].does = call[d].does /\ call'[d].tab = call[d].tab /\ call'[d].arg = call[d].arg
  <2> SUFFICES ASSUME NEW d \in Callers
               PROVE  call'[d].does = call[d].does /\ call'[d].tab = call[d].tab /\ call'[d].arg = call[d].arg
    OBVIOUS
  <2>1. CASE wire[1].kind = "reply" /\ d = wire[1].to
    BY <2>1, Answer
  <2>2. CASE ~(wire[1].kind = "reply" /\ d = wire[1].to)
    BY <2>2, ReadsSay
  <2> QED
    BY <2>1, <2>2
<1>3. \A d \in Callers :
         \/ call'[d] = call[d] /\ ~(wire[1].kind = "reply" /\ d = wire[1].to)
         \/ /\ wire[1].kind = "reply" /\ d = wire[1].to /\ 1 \in Lines("reply") /\ call[d].is = "served"
            /\ call'[d].is = wire[1].how /\ wire[1].how \in {"ok", "error"}
  <2> SUFFICES ASSUME NEW d \in Callers, wire[1].kind = "reply", d = wire[1].to
               PROVE  1 \in Lines("reply") /\ call[d].is = "served" /\ call'[d].is = wire[1].how /\ wire[1].how \in {"ok", "error"}
    BY ReadsSay
  <2>1. 1 \in DOMAIN wire
    BY ReadsInherit
  <2> QED
    BY <2>1, Answer, ReadsSay DEF Lines
<1>4. \A d \in Callers : Same(d)
  BY ReadsSay, AwakeSame DEF WireOK
<1>5. \A d \in Callers : Fetches(d)' = Fetches(d) /\ UpToDate(d)' = UpToDate(d) /\ Locks(d)' = Locks(d) /\ At(d, "ack")' = At(d, "ack")
  BY <1>1, <1>2, <1>4 DEF Fetches, UpToDate, Locks, At, Same
<1>6. \A i \in DOMAIN frames' : \/ i \in DOMAIN frames /\ frames'[i] = frames[i]
                                \/ /\ frames'[i].gen = generation /\ frames'[i].of = wire[1].of
                                   /\ Sound => wire[1].of = StreamId /\ StreamId # 0
  <2> DEFINE x == [gen |-> generation, of |-> wire[1].of]
  <2>1. x.gen = generation /\ x.of = wire[1].of
    OBVIOUS
  <2>2. frames' = frames \/ (frames' = Append(frames, x) /\ (Sound => wire[1].of = StreamId /\ StreamId # 0))
    BY ReadsFrames
  <2> HIDE DEF x
  <2>3. frames \in Seq(Frame)
    BY StreamTypes
  <2>4. ASSUME frames' = Append(frames, x), NEW i \in DOMAIN frames' PROVE (i \in DOMAIN frames /\ frames'[i] = frames[i]) \/ frames'[i] = x
    BY <2>3, <2>4
  <2> QED
    BY <2>1, <2>2, <2>4
<1>7. LockOK'
  BY <1>1, <1>2, <1>5, StreamTypes DEF StreamOK, LockOK
<1>8. AgesOK'
  BY <1>1, <1>2, <1>4, <1>5, <1>6 DEF StreamOK, AgesOK, Same
<1>9. ItemsOK'
  <2> SUFFICES ASSUME ~failed'
               PROVE  /\ \A c, d \in Callers : UpToDate(c)' /\ UpToDate(d)' => tool'[c].sid = tool'[d].sid
                      /\ \A c \in Callers : UpToDate(c)' => \A i \in DOMAIN frames' : frames'[i].of = tool'[c].sid
                      /\ \A c \in Callers : At(c, "ack")' => tool'[c].item = tool'[c].sid
    BY DEF ItemsOK, At, UpToDate, Fetches
  <2>1. Sound /\ ~failed /\ ItemsOK
    BY <1>1 DEF Sound, StreamOK
  <2>2. \A c \in Callers : UpToDate(c) /\ StreamId # 0 => tool[c].sid = StreamId
    BY <1>1, OwnStream
  <2>3. \A c \in Callers : UpToDate(c)' => \A i \in DOMAIN frames' : frames'[i].of = tool'[c].sid
    BY <1>4, <1>5, <1>6, <2>1, <2>2 DEF ItemsOK, Same
  <2> QED
    BY <1>4, <1>5, <2>1, <2>3 DEF ItemsOK, Same
<1>10. CASE ~Sound
  BY <1>1, <1>7, <1>8, <1>9, <1>10 DEF StreamOK, PlaysOK, LinesOK, QueueOK, FlowsOK
<1>11. CASE Sound
  <2>0. PlaysOK /\ LinesOK /\ QueueOK /\ FlowsOK
    BY DEF StreamOK
  <2>1. \A d \in Callers : Locks(d) => call'[d] = call[d] \/ (call[d].is = "served" /\ call'[d].is = "ok")
    BY <1>3, <1>11, <2>0 DEF LinesOK, Locks
  <2>2. PlaysOK'
    <3>1. \A d \in Callers : Locks(d)' => call'[d].is # "error"
      BY <1>5, <1>11, <2>0, <2>1 DEF PlaysOK
    <3>2. \A d \in Callers : call'[d].does = "startcast" => (call'[d].is = "sent" <=> stream'[call'[d].tab].id = 0)
      BY <1>1, <1>2, <1>11, <2>0, <2>1 DEF PlaysOK, Locks
    <3>3. \A d \in Callers : call'[d].does = "stopcast" => /\ castId' # 0 => call'[d].tab = castTab'
                                                           /\ call'[d].is # "sent" => \A u \in Tabs : stream'[u].id = 0
      BY <1>1, <1>2, <1>11, <2>0, <2>1 DEF PlaysOK, Locks
    <3>4. /\ (castId' = 0 <=> castTab' = None) /\ castId' <= streams'
          /\ \A u \in Tabs : stream'[u].id # 0 => u = StreamTab' /\ stream'[u].id = StreamId' /\ stream'[u].id <= streams'
      BY <1>1, <1>11, <2>0 DEF PlaysOK
    <3> QED
      BY <3>1, <3>2, <3>3, <3>4 DEF PlaysOK
  <2>3. /\ \A i \in Lines("frame")' : i \in Nat /\ i + 1 \in Lines("frame") /\ wire'[i] = wire[i + 1]
        /\ \A j \in Lines("reply")' : j \in Nat /\ j + 1 \in Lines("reply") /\ j + 1 # 1 /\ wire'[j] = wire[j + 1]
    BY ReadsInherit
  <2>4. \A j \in Lines("reply")' : /\ wire'[j].to \in Callers /\ wire'[j].to = wire[j + 1].to /\ call'[wire'[j].to] = call[wire'[j].to]
                                   /\ call[wire'[j].to].is = "served"
    <3> SUFFICES ASSUME NEW j \in Lines("reply")'
                 PROVE  /\ wire'[j].to \in Callers /\ wire'[j].to = wire[j + 1].to /\ call'[wire'[j].to] = call[wire'[j].to]
                        /\ call[wire'[j].to].is = "served"
      OBVIOUS
    <3>1. j + 1 \in Lines("reply") /\ j + 1 # 1 /\ wire'[j] = wire[j + 1]
      BY <2>3
    <3>2. wire[j + 1].to \in Callers /\ call[wire[j + 1].to].is = "served" /\ (1 \in Lines("reply") => wire[1].to # wire[j + 1].to)
      BY <3>1 DEF WireOK, OneReply
    <3> QED
      BY <1>3, <3>1, <3>2
  <2>5. LinesOK'
    <3>1. \A i \in Lines("frame")' : wire'[i].of = StreamId' /\ wire'[i].tab = StreamTab' /\ StreamId' # 0
      BY <1>1, <1>11, <2>0, <2>3 DEF LinesOK
    <3>2. \A j \in Lines("reply")' : call'[wire'[j].to].does \in {"startcast", "stopcast"} => wire'[j].how = "ok"
      BY <1>11, <2>0, <2>3, <2>4 DEF LinesOK
    <3>3. \A j \in Lines("reply")' : call'[wire'[j].to].does = "stopcast" => \A i \in Lines("frame")' : i < j
      <4> SUFFICES ASSUME NEW j \in Lines("reply")', call'[wire'[j].to].does = "stopcast", NEW i \in Lines("frame")' PROVE i < j
        OBVIOUS
      <4>1. call[wire[j + 1].to].does = "stopcast" /\ i + 1 \in Lines("frame") /\ j + 1 \in Lines("reply") /\ i \in Nat /\ j \in Nat
        BY <2>3, <2>4
      <4>2. i + 1 < j + 1
        BY <1>11, <2>0, <4>1 DEF LinesOK
      <4> QED
        BY <4>1, <4>2
    <3>4. \A d \in Callers : call'[d].does = "stopcast" /\ call'[d].is = "ok" => Lines("frame")' = {}
      <4> SUFFICES ASSUME NEW d \in Callers, call'[d].does = "stopcast", call'[d].is = "ok" PROVE Lines("frame")' = {}
        OBVIOUS
      <4>1. Lines("frame") = {} \/ \A i \in Lines("frame") : i < 1
        BY <1>2, <1>3, <1>11, <2>0 DEF LinesOK
      <4>2. Lines("frame") \subseteq DOMAIN wire /\ wire \in Seq(AnyLine)
        BY DEF Lines, WireOK
      <4>3. Lines("frame") = {}
        BY <4>1, <4>2
      <4> QED
        BY <2>3, <4>3
    <3> QED
      BY <3>1, <3>2, <3>3, <3>4 DEF LinesOK
  <2>6. QueueOK'
    <3>1. \A i \in DOMAIN frames' : frames'[i].of = StreamId' /\ StreamId' # 0
      BY <1>1, <1>6, <1>11, <2>0 DEF QueueOK
    <3>2. \A c \in Callers : Fetches(c)' => /\ tool'[c].sid <= streams'
                                            /\ tool'[c].gen # generation' => tool'[c].sid = 0 \/ tool'[c].sid # StreamId'
      BY <1>1, <1>4, <1>5, <1>11, <2>0 DEF QueueOK, Same
    <3> QED
      BY <3>1, <3>2 DEF QueueOK
  <2>7. FlowsOK'
    <3> SUFFICES ASSUME ~strayed', StreamId' # 0, stream'[StreamTab'].id = StreamId', stream'[StreamTab'].flying
                 PROVE  Lines("frame")' # {} \/ frames' # <<>> \/ \E d \in Callers : Acks(d)'
      BY DEF FlowsOK
    <3>1. Lines("frame") # {} \/ frames # <<>> \/ \E d \in Callers : Acks(d)
      BY <1>1, <1>11, <2>0 DEF FlowsOK
    <3>2. frames \in Seq(Frame) /\ (frames # <<>> => frames' # <<>>) /\ (wire[1].kind = "frame" => frames' # <<>>)
      <4> DEFINE x == [gen |-> generation, of |-> wire[1].of]
      <4>1. (frames' = frames /\ wire[1].kind # "frame") \/ frames' = Append(frames, x)
        BY <1>11, ReadsFrames
      <4> HIDE DEF x
      <4>2. frames \in Seq(Frame)
        BY StreamTypes
      <4>3. Append(frames, x) # <<>>
        <5>1. Len(Append(frames, x)) = Len(frames) + 1 /\ Len(frames) \in Nat
          BY <4>2
        <5>2. Len(<<>>) = 0
          OBVIOUS
        <5> QED
          BY <5>1, <5>2
      <4> QED
        BY <4>1, <4>2, <4>3
    <3>3. \A i \in DOMAIN wire \ {1} : i - 1 \in DOMAIN wire' /\ wire'[i - 1] = wire[i]
      BY ReadsSay, WireShrinks
    <3>4. Lines("frame") # {} => Lines("frame")' # {} \/ wire[1].kind = "frame"
      BY <3>3 DEF Lines
    <3>5. ASSUME NEW d \in Callers, Acks(d) PROVE Acks(d)'
      <4>1. CASE call'[d] = call[d] /\ ~(wire[1].kind = "reply" /\ d = wire[1].to)
        <5>1. ASSUME NEW j \in Lines("reply"), wire[j].to = d, wire[j].how = "error"
              PROVE  \E i \in Lines("reply")' : wire'[i].to = d /\ wire'[i].how = "error"
          <6>1. j \in DOMAIN wire \ {1} /\ wire[j].kind = "reply"
            BY <4>1, <5>1 DEF Lines
          <6>2. j - 1 \in Lines("reply")' /\ wire'[j - 1] = wire[j]
            BY <3>3, <6>1 DEF Lines
          <6> QED
            BY <5>1, <6>2
        <5> QED
          BY <1>1, <3>5, <4>1, <5>1 DEF Acks
      <4>2. CASE /\ wire[1].kind = "reply" /\ d = wire[1].to /\ 1 \in Lines("reply") /\ call[d].is = "served"
                 /\ call'[d].is = wire[1].how /\ wire[1].how \in {"ok", "error"}
        <5>1. PICK j \in Lines("reply") : wire[j].to = d /\ wire[j].how = "error"
          BY <3>5, <4>2 DEF Acks
        <5>2. j = 1
          BY <4>2, <5>1 DEF WireOK, OneReply
        <5> QED
          BY <1>1, <1>2, <3>5, <4>2, <5>1, <5>2 DEF Acks
      <4> QED
        BY <1>3, <4>1, <4>2
    <3> QED
      BY <3>1, <3>2, <3>4, <3>5
  <2> QED
    BY <1>7, <1>8, <1>9, <2>2, <2>5, <2>6, <2>7 DEF StreamOK
<1> QED
  BY <1>10, <1>11

LEMMA StreamStep == ASSUME WireOK, Types, StreamOK, [Next]_vars PROVE StreamOK'
<1>0. CastTypeOK /\ RoutesTypeOK /\ UploadsTypeOK
  BY DEF Types
<1>a. ASSUME UNCHANGED <<tool, call, wire, alive>>, UNCHANGED castVars PROVE StreamOK'
  <2>1. \A d \in Callers : Apart(d)
    BY <1>a DEF Apart, Same
  <2> QED
    BY <1>0, <1>a, <2>1, StreamApart
<1>b. ASSUME NEW t \in Tabs, NEW x, Tells(<<x>>), <<x>> \in Seq(AnyLine), x.kind # "frame", UNCHANGED castVars PROVE StreamOK'
  <2>1. \A i \in DOMAIN <<x>> : <<x>>[i].kind # "frame"
    BY <1>b
  <2> QED
    BY <1>0, <1>b, <2>1, ApartTells
<1>1. ASSUME NEW c \in Callers, RouteStep(c), UNCHANGED castVars PROVE StreamOK'
  <2>1. CASE NetServes(c)
    <3>1. call[c].does \notin CastCalls
      BY <2>1 DEF NetServes, NetCalls, CastCalls
    <3> QED
      BY <1>0, <1>1, <2>1, <3>1, NetAnswers, ApartAnswers
  <2>2. CASE ~NetServes(c)
    <3>1. OnPage \cap {"frame", "fresh"} = {} /\ OnWire \cap CastCalls = {}
      BY DEF OnPage, RouteNames, OnWire, NetCalls, CastCalls
    <3>2. TurnAmong(c, OnPage, OnWire)
      BY <1>0, <1>1, <2>2, RouteTurns
    <3> QED
      BY <1>0, <1>1, <3>1, <3>2, ApartTurn
  <2> QED
    BY <2>1, <2>2
<1>2. ASSUME NEW c \in Callers, UploadStep(c), UNCHANGED castVars PROVE StreamOK'
  <2>1. CASE UploadServes(c)
    <3>1. call[c].does \notin CastCalls
      BY <2>1 DEF UploadServes, CastCalls
    <3> QED
      BY <1>0, <1>2, <2>1, <3>1, UploadAnswers, ApartAnswers
  <2>2. CASE ~UploadServes(c)
    <3>1. UploadNames \cap {"frame", "fresh"} = {} /\ UploadCalls \cap CastCalls = {}
      BY DEF UploadNames, UploadCalls, CastCalls
    <3>2. TurnAmong(c, UploadNames, UploadCalls)
      BY <1>0, <1>2, <2>2, UploadTurns
    <3> QED
      BY <1>0, <1>2, <3>1, <3>2, ApartTurn
  <2> QED
    BY <2>1, <2>2
<1>3. ASSUME NEW c \in Callers, CastStep(c) PROVE StreamOK'
  BY <1>0, <1>3, StreamLocked, StreamFetches1, StreamFetches2, StreamServed DEF CastStep
<1>4. ASSUME NEW t \in Tabs, PagePaints(t) PROVE StreamOK'
  BY <1>4, StreamPaints
<1>5. ASSUME NEW t \in Tabs, NEW id \in Ids, PageRequests(t, id), UNCHANGED castVars PROVE StreamOK'
  <2> DEFINE x == [kind |-> "request", n |-> Len(reqs) + 1, paused |-> pausing[t]]
  <2>1. Tells(<<x>>) /\ <<x>> \in Seq(AnyLine) /\ x.kind # "frame"
    BY <1>5, PagesTell
  <2> HIDE DEF x
  <2> QED
    BY <1>5, <1>b, <2>1
<1>6. ASSUME NEW t \in Tabs, PageOpensChooser(t), UNCHANGED castVars PROVE StreamOK'
  <2> DEFINE x == [kind |-> "chooser", n |-> Len(opened) + 1]
  <2>1. Tells(<<x>>) /\ <<x>> \in Seq(AnyLine) /\ x.kind # "frame"
    BY <1>6, PagesTell
  <2> HIDE DEF x
  <2> QED
    BY <1>6, <1>b, <2>1
<1>7. ASSUME NEW t \in Tabs, PageNavigates(t), UNCHANGED castVars PROVE StreamOK'
  <2> DEFINE x == [kind |-> "cleared", tab |-> t]
             y == [kind |-> "context", tab |-> t, doc |-> docs[t] + 1]
  <2>1. Tells(<<x, y>>) /\ <<x, y>> \in Seq(AnyLine) /\ x.kind # "frame" /\ y.kind # "frame"
    BY <1>7, PagesTell
  <2> HIDE DEF x, y
  <2>2. \A i \in DOMAIN <<x, y>> : <<x, y>>[i].kind # "frame"
    BY <2>1
  <2> QED
    BY <1>0, <1>7, <2>1, <2>2, ApartTells
<1>8. CASE Reads
  BY <1>0, <1>8, StreamReads
<1>9. CASE EngineStops
  BY <1>0, <1>9, StreamStops
<1>10. CASE Switch /\ UNCHANGED castVars
  BY <1>10, <1>a DEF Switch
<1>11. CASE UNCHANGED vars
  BY <1>11, <1>a DEF vars, wireVars, castVars
<1> QED
  BY <1>1, <1>2, <1>3, <1>4, <1>5, <1>6, <1>7, <1>8, <1>9, <1>10, <1>11 DEF Next

LEMMA StreamFirst == Init => StreamOK
<1> SUFFICES ASSUME Init PROVE StreamOK
  OBVIOUS
<1>1. /\ \A c \in Callers : tool[c] = Idle /\ call[c] = NoCall
      /\ wire = <<>> /\ Lines("frame") = {} /\ Lines("reply") = {}
  BY DEF Init, InitWire, Lines
<1>2. /\ \A t \in Tabs : stream[t].id = 0 /\ stream[t].flying = FALSE
      /\ streams = 0 /\ frames = <<>> /\ castId = 0 /\ castTab = None /\ starting = None /\ generation = 0
  BY DEF Init, InitCast
<1>3. StreamId = 0
  BY <1>2 DEF StreamId
<1>4. \A c \in Callers : ~Fetches(c) /\ ~UpToDate(c) /\ ~Locks(c) /\ ~At(c, "ack") /\ call[c].does = "none"
  BY <1>1, NoneOK DEF Fetches, UpToDate, Locks, At, Idle, NoCall
<1>5. LockOK /\ AgesOK /\ ItemsOK
  BY <1>2, <1>4 DEF LockOK, AgesOK, ItemsOK
<1>6. PlaysOK
  BY <1>2, <1>4 DEF PlaysOK
<1>7. LinesOK /\ QueueOK /\ FlowsOK
  BY <1>1, <1>2, <1>3, <1>4 DEF LinesOK, QueueOK, FlowsOK
<1> QED
  BY <1>5, <1>6, <1>7 DEF StreamOK

\* What that says of the frames.
LEMMA StreamShows == ASSUME WireOK, Types, StreamOK PROVE StreamSound
<1>1. FrameOfItsStream
  BY DEF StreamOK, ItemsOK, FrameOfItsStream
<1>2. FramesAcked
  <2> SUFFICES ASSUME alive, castId # 0, stream[castTab].id = castId, stream[castTab].flying, ~strayed, ~failed
               PROVE  \/ \E i \in DOMAIN wire : wire[i].kind = "frame" /\ wire[i].of = castId
                      \/ \E i \in DOMAIN frames : frames[i].of = castId
                      \/ \E c \in Callers : call[c].does = "ack" /\ call[c].arg = castId
                                            /\ call[c].is \in {"sent", "served", "ok", "error"}
    BY DEF FramesAcked
  <2>1. StreamId = castId /\ StreamTab = castTab /\ Sound
    BY DEF StreamId, StreamTab, Sound
  <2>2. CASE Lines("frame") # {}
    BY <2>1, <2>2 DEF StreamOK, LinesOK, Lines
  <2>3. CASE frames # <<>>
    <3>1. 1 \in DOMAIN frames
      <4>1. frames \in Seq(Frame)
        BY StreamTypes DEF Types
      <4> QED
        BY <2>3, <4>1
    <3> QED
      BY <2>1, <3>1 DEF StreamOK, QueueOK
  <2>4. CASE \E c \in Callers : Acks(c)
    BY <2>1, <2>4 DEF Acks
  <2> QED
    BY <2>1, <2>2, <2>3, <2>4 DEF StreamOK, FlowsOK
<1> QED
  BY <1>1, <1>2 DEF StreamSound

-----------------------------------------------------------------------------
(* The invariant.                                                          *)

Inv == WireOK /\ Types /\ RequestsOK /\ PausesOK /\ ChoosersOK /\ NobodyOverslept /\ StreamOK

LEMMA AtFirst == Init => Inv
<1> SUFFICES ASSUME Init PROVE Inv
  OBVIOUS
<1>1. /\ tool = [c \in Callers |-> Idle] /\ call = [c \in Callers |-> NoCall] /\ wire = <<>> /\ alive = TRUE
      /\ current \in Tabs /\ DOMAIN todo = Callers
  BY WireAssumption DEF Init, InitWire
<1>2. /\ pausing = [t \in Tabs |-> FALSE] /\ reqs = <<>> /\ window = <<>> /\ routed = {} /\ clock = 0
      /\ listed = {} /\ asked = {} /\ lapsed = {}
  BY DEF Init, InitRoutes
<1>3. /\ stream = [t \in Tabs |-> [id |-> 0, flying |-> FALSE]] /\ streams = 0
      /\ frames = <<>> /\ frameEvent = FALSE /\ castId = 0 /\ castTab = None /\ starting = None /\ generation = 0
      /\ holder = None /\ strayed = FALSE /\ failed = FALSE
  BY DEF Init, InitCast
<1>4. /\ docs = [t \in Tabs |-> 1] /\ context = [t \in Tabs |-> 1]
      /\ opened = <<>> /\ choosers = <<>> /\ chooserEvent = FALSE
  BY DEF Init, InitUploads
<1>5. WireOK
  <2>1. \A c \in Callers : tool[c] = Idle /\ call[c] = NoCall
    BY <1>1
  <2>2. tool \in [Callers -> Tool] /\ call \in [Callers -> Call]
    BY <1>1, NoneOK
  <2>3. \A c \in Callers : CallerOK(tool[c], call[c], todo[c])
    BY <2>1, NoneOK DEF CallerOK
  <2>4. wire \in Seq(AnyLine) /\ OneReply
    BY <1>1 DEF OneReply, Lines
  <2> QED
    BY <1>1, <2>2, <2>3, <2>4 DEF WireOK
<1>6. RoutesTypeOK
  <2>1. Cardinality(routed) <= Window
    BY <1>2, FS_EmptySet, RoutesAssumption
  <2>2. reqs \in Seq(Request) /\ window \in Seq([n : DOMAIN reqs, paused : BOOLEAN, at : Nat]) /\ Len(window) <= Window
    BY <1>2, RoutesAssumption
  <2>3. pausing \in [Tabs -> BOOLEAN]
    BY <1>2
  <2> QED
    BY <1>2, <2>1, <2>2, <2>3 DEF RoutesTypeOK, Request
<1>7. CastTypeOK
  <2>1. [id |-> 0, flying |-> FALSE] \in Stream
    BY DEF Stream
  <2>2. stream \in [Tabs -> Stream] /\ frames \in Seq(Frame)
    BY <1>3, <2>1
  <2>3. CastTyped
    BY <1>3, <2>2 DEF CastTyped
  <2> QED
    BY <2>3, CastNamed
<1>8. UploadsTypeOK
  <2>1. opened \in Seq(Chooser) /\ choosers \in Seq(DOMAIN opened) /\ Len(choosers) <= ChooserCap
    BY <1>4, UploadsAssumption
  <2>2. docs \in [Tabs -> Nat] /\ context \in [Tabs -> Nat] /\ chooserEvent \in BOOLEAN
    BY <1>4
  <2> QED
    BY <2>1, <2>2 DEF UploadsTypeOK, Chooser
<1>9. RequestsOK
  BY <1>1, <1>2, FS_EmptySet DEF RequestsOK, Lines, RoutedOnce
<1>10. PausesOK
  <2>1. \A t \in Tabs : Paused(t) = {} /\ ~pausing[t]
    BY <1>2 DEF Paused
  <2>2. \A c \in Callers : call[c].does = "none"
    BY <1>1, NoneOK
  <2> QED
    BY <2>1, <2>2 DEF PausesOK
<1>11. ChoosersOK
  <2>1. \A c \in Callers : ~Feeding(c)
    BY <1>1, NoneOK DEF Feeding
  <2> QED
    BY <1>1, <1>4, <2>1 DEF ChoosersOK, FedByItsTab, Lines, Distinct
<1>12. NobodyOverslept
  BY <1>3, <1>4 DEF NobodyOverslept, FrameWakes, ChooserWakes, OwnChoosers
<1> QED
  BY <1>5, <1>6, <1>7, <1>8, <1>9, <1>10, <1>11, <1>12, StreamFirst DEF Inv, Types

LEMMA InvStep == Inv /\ [Next]_vars => Inv'
<1> SUFFICES ASSUME Inv, [Next]_vars PROVE Inv'
  OBVIOUS
<1>1. WireOK /\ Types /\ RequestsOK /\ PausesOK /\ ChoosersOK /\ FrameWakes /\ ChooserWakes /\ StreamOK
  BY DEF Inv, NobodyOverslept
<1> QED
  BY <1>1, WireStep, TypesStep, RequestsStep, PausesStep, ChoosersStep, FramesWake, ChoosersWake, StreamStep
  DEF Inv, NobodyOverslept

LEMMA Always == Spec => []Inv
BY AtFirst, InvStep, PTL DEF Spec

-----------------------------------------------------------------------------
(* What it shows.                                                          *)

\* Every variable keeps its type; in particular the window of requests, the ids noted in it and the queue
\* of choosers never outgrow the lengths the engine gives them (mirage.py, _track_request, _track_chooser).
THEOREM CaptureTypes == Spec => []TypeOK
<1>1. Inv => TypeOK
  <2> SUFFICES ASSUME Inv PROVE TypeOK
    OBVIOUS
  <2>1. {"none"} \cup RouteNames \cup CastNames \cup UploadNames
           = {"none", "route", "intercept", "unintercept", "continue", "start", "stop", "frame", "fresh", "mode", "upload"}
    <3>1. \A x : x \in {"none"} \cup RouteNames \cup CastNames \cup UploadNames
                   <=> x \in {"none", "route", "intercept", "unintercept", "continue", "start", "stop",
                             "frame", "fresh", "mode", "upload"}
      BY DEF RouteNames, CastNames, UploadNames
    <3> QED
      BY <3>1
  <2>2. /\ RoutesTypeOK /\ CastTypeOK /\ UploadsTypeOK
        /\ current \in Tabs /\ alive \in BOOLEAN /\ tool \in [Callers -> Tool]
    BY DEF Inv, Types, WireOK
  <2> QED
    BY <2>1, <2>2 DEF TypeOK, Tool
<1> QED
  BY <1>1, Always, PTL

\* Two routes never take the same request, whatever the window has forgotten (wait_for_intercepted).
THEOREM RequestsRoutedOnce == Spec => []RoutedOnce
<1>1. Inv => RoutedOnce
  BY DEF Inv, RequestsOK
<1> QED
  BY <1>1, Always, PTL

\* When the routes of a tab have ended, none of its requests is left paused and it pauses no more, unless
\* somebody asked for that, a route was cancelled or the browser failed to switch (kahin_mirage_route).
THEOREM NoTabStranded == Spec => []NothingStranded
<1>1. Inv => NothingStranded
  <2> SUFFICES ASSUME Inv, NEW t \in Tabs, alive, t \notin asked \cup lapsed,
                      ~(\E c \in Callers : tool[c].name = "route" /\ tool[c].tab = t)
               PROVE  ~pausing[t] /\ Paused(t) = {}
    BY DEF NothingStranded
  <2>1. ~Answerable(t)
    BY DEF Answerable, Pledged
  <2> QED
    BY <2>1 DEF Inv, PausesOK
<1> QED
  BY <1>1, Always, PTL

\* A chooser gets files once at most, and only from an upload of its own tab (wait_for_chooser).
THEOREM ChoosersFedRight == Spec => []FedByItsTab
<1>1. Inv => FedByItsTab
  BY DEF Inv, ChoosersOK
<1> QED
  BY <1>1, Always, PTL

\* No tool sleeps through a frame or a chooser that is queued for it, although those who wait share one
\* event each and any of them may clear it (wait_for_screencast_frame, wait_for_chooser).
THEOREM NobodySleepsOn == Spec => []NobodyOverslept
<1>1. Inv => NobodyOverslept
  BY DEF Inv
<1> QED
  BY <1>1, Always, PTL

\* While no call of the browser failed and no tool of an older generation took a newer one's frames, a frame
\* that the browser wants acknowledged is on its way, queued, or with a tool that acknowledges it under its
\* stream's id; and a tool returns frames of the stream it noted only (kahin_mirage_screencast_start, _stop
\* and _frame, _track_screencast, clear_screencast).
THEOREM StreamStaysSound == Spec => []StreamSound
<1>1. Inv => StreamSound
  BY StreamShows DEF Inv
<1> QED
  BY <1>1, Always, PTL
=============================================================================
