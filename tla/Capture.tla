------------------------------ MODULE Capture -------------------------------
(***************************************************************************)
(* Routes, the screencast and uploads on one engine: they share the line   *)
(* the reader takes from the sidecar, the tab that is current, and the end *)
(* of the engine, which wakes everyone who waits.                          *)
(***************************************************************************)
EXTENDS Routes, Screencast, Uploads

vars == <<wireVars, routeVars, castVars, uploadVars>>

\* The reader takes one line; every tracker sees it.
Reads ==
    /\ alive /\ wire # <<>> /\ wire' = Tail(wire)
    /\ LET line == Head(wire) IN
          /\ TakeReply(line) /\ TrackRequest(line)
          /\ IF line.kind \in {"chooser", "cleared", "context"}
             THEN TrackChooser(line) /\ UNCHANGED castVars
             ELSE /\ TrackFrame(line) /\ UNCHANGED uploadVars
                  /\ UNCHANGED <<stream, streams, castId, castTab, starting, generation, holder, strayed, failed>>
    /\ Smooth /\ UNCHANGED <<todo, current, alive>>

\* stop(): _reset_capture_state(wake_waiters=True), and the calls under way fail.
EngineStops ==
    /\ alive /\ Trouble
    /\ alive' = FALSE /\ wire' = <<>>
    /\ call' = [c \in Callers |-> IF call[c].is \in {"sent", "served"} THEN [call[c] EXCEPT !.is = "error"] ELSE call[c]]
    /\ choosers' = <<>> /\ frames' = <<>> /\ window' = <<>> /\ routed' = {}
    /\ castId' = 0 /\ castTab' = None /\ starting' = None
    /\ chooserEvent' = TRUE /\ frameEvent' = TRUE
    /\ tool' = [c \in Callers |-> IF At(c, "sleep") THEN [tool[c] EXCEPT !.woken = TRUE] ELSE tool[c]]
    /\ UNCHANGED <<todo, current, docs, opened, context, pausing, reqs, clock, listed, asked, lapsed,
                   stream, streams, generation, holder, strayed, failed>>

Init == InitWire /\ InitRoutes /\ InitCast /\ InitUploads

Next ==
    \/ \E c \in Callers :
          \/ RouteStep(c) /\ UNCHANGED <<castVars, uploadVars>>
          \/ CastStep(c) /\ UNCHANGED <<routeVars, uploadVars>>
          \/ UploadStep(c) /\ UNCHANGED <<routeVars, castVars>>
    \/ \E t \in Tabs :
          \/ \E id \in Ids : PageRequests(t, id) /\ UNCHANGED <<castVars, uploadVars>>
          \/ PagePaints(t) /\ UNCHANGED <<routeVars, uploadVars>>
          \/ PageOpensChooser(t) /\ UNCHANGED <<routeVars, castVars>>
          \/ PageNavigates(t) /\ UNCHANGED <<routeVars, castVars>>
    \/ Reads
    \/ Switch /\ UNCHANGED <<routeVars, castVars, uploadVars>>
    \/ EngineStops

Spec == Init /\ [][Next]_vars

-----------------------------------------------------------------------------
(* Properties                                                              *)

TypeOK ==
    /\ RoutesTypeOK /\ CastTypeOK /\ UploadsTypeOK
    /\ current \in Tabs /\ alive \in BOOLEAN
    /\ tool \in [Callers -> [name : {"none", "route", "intercept", "unintercept", "continue", "start", "stop",
                                     "frame", "fresh", "mode", "upload"},
                             at : {"none", "wait", "lock", "drain", "look", "sleep", "enable", "decide", "disable",
                                   "switch", "stopping", "starting", "discard", "ack", "feed"},
                             tab : Tabs \cup {None}, sid : Nat, gen : Nat, item : Nat, left : Nat,
                             since : Nat, woken : BOOLEAN]]

\* Nobody sleeps through what is queued for them.
NobodyOverslept == FrameWakes /\ ChooserWakes
=============================================================================
