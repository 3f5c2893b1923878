----------------------------- MODULE Screencast -----------------------------
(***************************************************************************)
(* The live screencast: one stream at a time, whose frames wait in Python  *)
(* until a tool takes one and acknowledges it; the browser holds the       *)
(* stream at one frame that is not acknowledged (mirage.py,                *)
(* screencast_mirage.py).                                                  *)
(***************************************************************************)
EXTENDS EngineWire

VARIABLES
    stream,      \* browser: per tab, its stream (0: none) and whether a frame of it is in flight
    streams,     \* how many streams were started
    frames,      \* _screencast_frames
    frameEvent,  \* _screencast_event
    castId, castTab,           \* _screencast_id, _screencast_session_id
    starting,                  \* the tab of a start call under way (_screencast_starting)
    generation,  \* _screencast_generation
    holder,      \* who holds _screencast_lock
    strayed,     \* a tool that belongs to an older generation has taken frames of a newer one
    failed       \* the browser failed a call

castVars == <<stream, streams, frames, frameEvent, castId, castTab, starting, generation, holder, strayed, failed>>
browserVars == <<stream, streams>>

-----------------------------------------------------------------------------
(* The browser                                                             *)

\* A page with a stream paints, if the frame before was acknowledged.
PagePaints(t) ==
    /\ alive /\ Event("frame")
    /\ stream[t].id # 0 /\ ~stream[t].flying
    /\ stream' = [stream EXCEPT ![t].flying = TRUE]
    /\ Adds(<<[kind |-> "frame", tab |-> t, of |-> stream[t].id]>>)
    /\ UNCHANGED <<todo, tool, call, current, alive, streams, frames, frameEvent, castId, castTab, starting,
                   generation, holder, strayed, failed>>

CastCalls == {"startcast", "stopcast", "ack"}
ServesCast(c) ==
    LET t == call[c].tab IN
    CASE call[c].does = "startcast" ->
           stream' = [stream EXCEPT ![t] = [id |-> streams + 1, flying |-> FALSE]] /\ streams' = streams + 1
      [] call[c].does = "stopcast" ->
           stream' = [stream EXCEPT ![t] = [id |-> 0, flying |-> FALSE]] /\ UNCHANGED streams
      [] call[c].does = "ack" ->
           /\ stream' = IF stream[t].id = call[c].arg THEN [stream EXCEPT ![t].flying = FALSE] ELSE stream
           /\ UNCHANGED streams
CastServes(c) ==
    /\ call[c].is = "sent" /\ call[c].does \in CastCalls
    /\ \/ ServesCast(c) /\ Smooth /\ UNCHANGED failed /\ Replies(c, "ok", <<>>)
       \/ Trouble /\ Replies(c, "error", <<>>)
          /\ (ServesCast(c) \/ UNCHANGED browserVars)
          /\ failed' = (failed \/ call[c].does # "ack")
    /\ UNCHANGED <<todo, tool, current, alive, frames, frameEvent, castId, castTab, starting, generation, holder, strayed>>

-----------------------------------------------------------------------------
(* The queue and its event                                                 *)

Sleeping(c) == At(c, "sleep") /\ tool[c].name \in {"frame", "fresh"}
\* The event is set: whoever waits for it has been woken.
Woken(ts) == [c \in Callers |-> IF ts[c].at = "sleep" /\ ts[c].name \in {"frame", "fresh"}
                                THEN [ts[c] EXCEPT !.woken = TRUE] ELSE ts[c]]

\* _track_screencast: frames of the stream's own tab are queued, under the generation there is now.
TrackFrame(line) ==
    LET expected == IF castTab # None THEN castTab ELSE starting
        owned == expected = None \/ (line.kind = "frame" /\ line.tab = expected)
    IN  IF line.kind = "frame" /\ owned /\ (castId # 0 \/ starting # None)
        THEN /\ frames' = Append(frames, [gen |-> generation, of |-> line.of])
             /\ frameEvent' = TRUE
             /\ tool' = Woken(tool)
        ELSE UNCHANGED <<frames, frameEvent, tool>>

\* clear_screencast, by a caller that goes on as r; those who wait are told, or not.
ClearCast(c, r, wake) ==
    /\ frames' = <<>> /\ generation' = generation + 1
    /\ castId' = 0 /\ castTab' = None
    /\ frameEvent' = wake
    /\ LET ts == [tool EXCEPT ![c] = r] IN tool' = IF wake THEN Woken(ts) ELSE ts
Keeps == UNCHANGED <<frames, generation, castId, castTab, frameEvent>>

-----------------------------------------------------------------------------
(* kahin_mirage_screencast_start                                           *)

\* Page.startScreencast: the predecessor is cleared as the call is made.
SendStart(c) ==
    /\ ClearCast(c, [tool[c] EXCEPT !.at = "starting", !.tab = current], FALSE)
    /\ starting' = current
    /\ Sends(c, "startcast", current, 0)

StartCast(c) ==
    /\ Begins(c, "start", [Idle EXCEPT !.name = "start", !.at = "lock"])
    /\ Smooth /\ UNCHANGED <<call, wire, current, alive>> /\ UNCHANGED castVars

Locked(c) ==
    /\ Runs(c, {"start"}) /\ At(c, "lock") /\ holder = None
    /\ IF castId # 0
       THEN /\ Goes(c, [tool[c] EXCEPT !.at = "stopping"]) /\ Sends(c, "stopcast", castTab, 0)
            /\ Keeps /\ UNCHANGED starting
       ELSE SendStart(c)
    /\ holder' = c
    /\ Smooth /\ UNCHANGED <<todo, wire, current, alive, stream, streams, strayed, failed>>

\* A call failed: the state is cleared and the tool ends.
CastFails(c) ==
    /\ Runs(c, {"start"}) /\ (At(c, "stopping") \/ At(c, "starting")) /\ Answered(c, "error")
    /\ ClearCast(c, Idle, TRUE)
    /\ starting' = None /\ holder' = None
    /\ Quiet(c)
    /\ Smooth /\ UNCHANGED <<todo, wire, current, alive, stream, streams, strayed, failed>>

\* The stream before has ended; the call that starts the next one clears a second time.
Restarts(c) ==
    /\ Runs(c, {"start"}) /\ At(c, "stopping") /\ Answered(c, "ok")
    /\ LET r == [tool[c] EXCEPT !.at = "starting", !.tab = current]
       IN  tool' = Woken([tool EXCEPT ![c] = r])
    /\ frames' = <<>> /\ generation' = generation + 2
    /\ castId' = 0 /\ castTab' = None /\ frameEvent' = FALSE
    /\ starting' = current /\ Sends(c, "startcast", current, 0)
    /\ Smooth /\ UNCHANGED <<todo, wire, current, alive, stream, streams, holder, strayed, failed>>

Started(c) ==
    /\ Runs(c, {"start"}) /\ At(c, "starting") /\ Answered(c, "ok")
    /\ castId' = stream[tool[c].tab].id /\ castTab' = tool[c].tab
    /\ starting' = None /\ holder' = None
    /\ Ends(c) /\ Quiet(c)
    /\ Smooth /\ UNCHANGED <<todo, wire, current, alive, stream, streams, frames, frameEvent, generation, strayed, failed>>

-----------------------------------------------------------------------------
(* kahin_mirage_screencast_stop                                            *)

StopCast(c) ==
    /\ Begins(c, "stop", [Idle EXCEPT !.name = "stop", !.at = "stopping"])
    /\ holder = None /\ holder' = c
    /\ Sends(c, "stopcast", IF castTab # None THEN castTab ELSE current, 0)
    /\ Smooth /\ UNCHANGED <<wire, current, alive, stream, streams, frames, frameEvent, castId, castTab, starting,
                             generation, strayed, failed>>

Stopped(c) ==
    /\ Runs(c, {"stop"}) /\ At(c, "stopping") /\ (Answered(c, "ok") \/ Answered(c, "error"))
    /\ ClearCast(c, Idle, TRUE)
    /\ holder' = None
    /\ Quiet(c)
    /\ Smooth /\ UNCHANGED <<todo, wire, current, alive, stream, streams, starting, strayed, failed>>

-----------------------------------------------------------------------------
(* kahin_mirage_screencast_frame                                           *)

\* The stream, its tab and its generation are noted under the lock.
FrameBegins(c) ==
    /\ holder = None
    /\ \E name \in {"frame", "fresh"} :
          LET r == [Idle EXCEPT !.name = name, !.at = IF name = "fresh" THEN "drain" ELSE "look",
                                !.sid = castId, !.tab = castTab, !.gen = generation]
          IN  Begins(c, name, IF castId = 0 /\ frames # <<>> THEN Idle ELSE r)
    /\ Smooth /\ UNCHANGED <<call, wire, current, alive>> /\ UNCHANGED castVars

Older(c, fs) == \E i \in DOMAIN fs : fs[i].gen # tool[c].gen

\* fresh: what is queued is thrown away and acknowledged, under the stream noted.
Drain(c) ==
    /\ At(c, "drain") /\ holder = None
    /\ frames' = <<>> /\ frameEvent' = FALSE
    /\ strayed' = (strayed \/ Older(c, frames))
    /\ IF frames = <<>> THEN Goes(c, [tool[c] EXCEPT !.at = "look"]) /\ UNCHANGED call
       ELSE IF tool[c].sid = 0 THEN Ends(c) /\ UNCHANGED call
       ELSE /\ Goes(c, [tool[c] EXCEPT !.at = "discard", !.left = Len(frames)])
            /\ Sends(c, "ack", tool[c].tab, tool[c].sid)
    /\ Smooth /\ UNCHANGED <<todo, wire, current, alive, stream, streams, castId, castTab, starting, generation, holder, failed>>

Discarded(c) ==
    /\ At(c, "discard") /\ (Answered(c, "ok") \/ Answered(c, "error"))
    /\ IF Answered(c, "error") THEN Ends(c) /\ Quiet(c)
       ELSE IF tool[c].left > 1
            THEN Goes(c, [tool[c] EXCEPT !.left = @ - 1]) /\ Sends(c, "ack", tool[c].tab, tool[c].sid)
            ELSE Goes(c, [tool[c] EXCEPT !.at = "look"]) /\ Quiet(c)
    /\ strayed' = (strayed \/ Answered(c, "error"))
    /\ Smooth /\ UNCHANGED <<todo, wire, current, alive, stream, streams, frames, frameEvent, castId, castTab, starting,
                             generation, holder, failed>>

\* wait_for_screencast_frame takes the first frame of its generation; those before it are dropped.
Mine(c) == {i \in DOMAIN frames : frames[i].gen = tool[c].gen}
Looking(c) ==
    \/ At(c, "look") /\ Runs(c, {"frame", "fresh"})
    \/ Sleeping(c) /\ tool[c].woken /\ frames # <<>>
Takes(c) ==
    /\ Looking(c) /\ Mine(c) # {}
    /\ LET i == CHOOSE j \in Mine(c) : \A k \in Mine(c) : j <= k
       IN  /\ frames' = SubSeq(frames, i + 1, Len(frames))
           /\ strayed' = (strayed \/ i > 1)
           /\ IF tool[c].sid = 0 THEN Ends(c) /\ UNCHANGED call
              ELSE /\ Goes(c, [tool[c] EXCEPT !.at = "ack", !.item = frames[i].of, !.woken = FALSE])
                   /\ Sends(c, "ack", tool[c].tab, tool[c].sid)
    /\ frameEvent' = (frameEvent /\ frames' # <<>>)
    /\ Smooth /\ UNCHANGED <<todo, wire, current, alive, stream, streams, castId, castTab, starting, generation, holder, failed>>

\* Nothing of its generation is queued: it ends, or sleeps until the event is set.
Over(c) == tool[c].gen # generation
Misses(c) ==
    /\ Looking(c) /\ Mine(c) = {}
    /\ frames' = <<>>
    /\ strayed' = (strayed \/ frames # <<>>)
    /\ \/ Over(c) /\ Ends(c) /\ UNCHANGED frameEvent
       \/ ~Over(c) /\ frameEvent /\ (~alive \/ (castId = 0 /\ starting = None)) /\ Ends(c) /\ UNCHANGED frameEvent
       \/ /\ ~Over(c) /\ ~(frameEvent /\ (~alive \/ (castId = 0 /\ starting = None)))
          /\ frameEvent' = FALSE
          /\ Goes(c, [tool[c] EXCEPT !.at = "sleep", !.woken = FALSE])
    /\ Smooth /\ UNCHANGED <<todo, call, wire, current, alive, stream, streams, castId, castTab, starting, generation, holder, failed>>

\* Woken with nothing queued: the stream or the engine may be gone.
Wakes(c) ==
    /\ Sleeping(c) /\ tool[c].woken /\ frames = <<>>
    /\ IF ~alive \/ (castId = 0 /\ starting = None) THEN Ends(c) /\ UNCHANGED frameEvent
       ELSE IF Over(c) THEN Ends(c) /\ frameEvent' = FALSE
       ELSE Goes(c, [tool[c] EXCEPT !.woken = FALSE]) /\ frameEvent' = FALSE
    /\ Smooth /\ UNCHANGED <<todo, call, wire, current, alive, stream, streams, frames, castId, castTab, starting,
                             generation, holder, strayed, failed>>

FrameTimesOut(c) ==
    /\ Sleeping(c) /\ Ends(c)
    /\ Smooth /\ UNCHANGED <<todo, call, wire, current, alive>> /\ UNCHANGED castVars

Acked(c) ==
    /\ At(c, "ack") /\ Answered(c, "ok") /\ Ends(c) /\ Quiet(c)
    /\ Smooth /\ UNCHANGED <<todo, wire, current, alive>> /\ UNCHANGED castVars

\* Faulty variant: the frame is put back but nobody is told.
PutsBackSilently(c) ==
    /\ frames' = <<[gen |-> tool[c].gen, of |-> tool[c].item]>> \o frames
    /\ UNCHANGED frameEvent /\ Ends(c)

\* Faulty variant: the frame is given up.
GivesItUp(c) == Ends(c) /\ UNCHANGED <<frames, frameEvent>>

\* A frame whose acknowledgement failed is queued again.
PutsBack(c) ==
    /\ frames' = <<[gen |-> tool[c].gen, of |-> tool[c].item]>> \o frames
    /\ frameEvent' = TRUE /\ tool' = Woken([tool EXCEPT ![c] = Idle])

AckFails(c) ==
    /\ At(c, "ack") /\ Answered(c, "error") /\ holder = None
    /\ IF tool[c].gen = generation THEN PutsBack(c) ELSE Ends(c) /\ UNCHANGED <<frames, frameEvent>>
    /\ Quiet(c)
    /\ Smooth /\ UNCHANGED <<todo, wire, current, alive, stream, streams, castId, castTab, starting, generation, holder,
                             strayed, failed>>

CastStep(c) ==
    \/ StartCast(c) \/ Locked(c) \/ CastFails(c) \/ Restarts(c) \/ Started(c) \/ StopCast(c) \/ Stopped(c)
    \/ FrameBegins(c) \/ Drain(c) \/ Discarded(c) \/ Takes(c) \/ Misses(c) \/ Wakes(c) \/ FrameTimesOut(c)
    \/ Acked(c) \/ AckFails(c) \/ CastServes(c)

InitCast ==
    /\ stream = [t \in Tabs |-> [id |-> 0, flying |-> FALSE]] /\ streams = 0
    /\ frames = <<>> /\ frameEvent = FALSE /\ castId = 0 /\ castTab = None /\ starting = None /\ generation = 0
    /\ holder = None /\ strayed = FALSE /\ failed = FALSE

-----------------------------------------------------------------------------
(* Properties                                                              *)

CastTypeOK ==
    /\ stream \in [Tabs -> [id : Nat, flying : BOOLEAN]] /\ streams \in Nat
    /\ frames \in Seq([gen : Nat, of : Nat]) /\ frameEvent \in BOOLEAN
    /\ castId \in Nat /\ castTab \in Tabs \cup {None} /\ starting \in Tabs \cup {None}
    /\ generation \in Nat /\ holder \in Callers \cup {None} /\ strayed \in BOOLEAN /\ failed \in BOOLEAN

\* The stream never stalls: a frame the browser wants acknowledged is on its way, in the queue, or with a
\* tool that is acknowledging it under its stream's id.  (Not when a tool that noted an older generation
\* has thrown frames of a newer one away, nor after the browser failed a call: see the README.)
FramesAcked ==
    alive /\ castId # 0 /\ stream[castTab].id = castId /\ stream[castTab].flying /\ ~strayed /\ ~failed =>
        \/ \E i \in DOMAIN wire : wire[i].kind = "frame" /\ wire[i].of = castId
        \/ \E i \in DOMAIN frames : frames[i].of = castId
        \/ \E c \in Callers : call[c].does = "ack" /\ call[c].arg = castId /\ call[c].is \in {"sent", "served", "ok", "error"}

\* A frame that a tool returns is of the stream the tool knows, unless a call of the browser failed.
FrameOfItsStream ==
    \A c \in Callers : At(c, "ack") /\ ~failed => tool[c].item = tool[c].sid

\* Frames are neither lost nor mixed up.
StreamSound == FramesAcked /\ FrameOfItsStream

\* No tool sleeps through a frame: while frames are queued, everyone who waits for one has been woken.
FrameWakes == frames # <<>> => \A c \in Callers : Sleeping(c) => tool[c].woken
=============================================================================
