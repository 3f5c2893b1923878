------------------------------ MODULE Uploads -------------------------------
(***************************************************************************)
(* File choosers: a page that opens one is fed by kahin_mirage_upload_files*)
(* of its own tab, whichever came first (mirage.py, upload_mirage.py).     *)
(***************************************************************************)
EXTENDS EngineWire

CONSTANTS ChooserCap    \* the length of _pending_choosers

ASSUME UploadsAssumption == ChooserCap \in Nat

VARIABLES
    docs,          \* browser: per tab, how many documents it has had
    opened,        \* every chooser a page has opened
    choosers,      \* _pending_choosers
    chooserEvent,  \* _chooser_event
    context        \* _frame_contexts: per tab, the document whose context Python knows (0: none)

uploadVars == <<docs, opened, choosers, chooserEvent, context>>

-----------------------------------------------------------------------------
(* The browser                                                             *)

\* A file input is clicked while choosers are intercepted.
PageOpensChooser(t) ==
    /\ alive /\ Event("chooser")
    /\ opened' = Append(opened, [tab |-> t, doc |-> docs[t], fed |-> 0, by |-> None])
    /\ Adds(<<[kind |-> "chooser", n |-> Len(opened) + 1]>>)
    /\ UNCHANGED <<todo, tool, call, current, alive, docs, choosers, chooserEvent, context>>

PageNavigates(t) ==
    /\ alive /\ Trouble
    /\ docs' = [docs EXCEPT ![t] = @ + 1]
    /\ Adds(<<[kind |-> "cleared", tab |-> t], [kind |-> "context", tab |-> t, doc |-> docs[t] + 1]>>)
    /\ UNCHANGED <<todo, tool, call, current, alive, opened, choosers, chooserEvent, context>>

\* Files reach a chooser whose element is still there.
UploadServes(c) ==
    /\ call[c].is = "sent" /\ call[c].does \in {"setfiles", "mode"}
    /\ LET n == call[c].arg
           good == call[c].does = "mode" \/ (opened[n].tab = call[c].tab /\ opened[n].doc = docs[call[c].tab])
       IN  \/ /\ opened' = IF good /\ n # 0 THEN [opened EXCEPT ![n].fed = @ + 1, ![n].by = tool[c].tab] ELSE opened
              /\ Replies(c, IF good THEN "ok" ELSE "error", <<>>) /\ Smooth
           \/ Trouble /\ UNCHANGED opened /\ Replies(c, "error", <<>>)
    /\ UNCHANGED <<todo, tool, current, alive, docs, choosers, chooserEvent, context>>

-----------------------------------------------------------------------------
(* The reader                                                              *)

Waits(c) == At(c, "sleep") /\ Runs(c, {"upload"})
\* The event is set: whoever waits for it has been woken.
Roused == [c \in Callers |-> IF Waits(c) THEN [tool[c] EXCEPT !.woken = TRUE] ELSE tool[c]]

Newest(s) == IF Len(s) <= ChooserCap THEN s ELSE Tail(s)

\* _track_chooser, _track_context
TrackChooser(line) ==
    /\ IF line.kind = "chooser"
       THEN choosers' = Newest(Append(choosers, line.n)) /\ chooserEvent' = TRUE /\ tool' = Roused
       ELSE UNCHANGED <<choosers, chooserEvent, tool>>
    /\ context' = CASE line.kind = "cleared" -> [context EXCEPT ![line.tab] = 0]
                    [] line.kind = "context" -> [context EXCEPT ![line.tab] = line.doc]
                    [] OTHER -> context
    /\ UNCHANGED <<docs, opened>>

-----------------------------------------------------------------------------
(* The tools                                                               *)

\* kahin_mirage_set_file_chooser_intercept: a new mode forgets the choosers there are, of every tab.
SetsMode(c) ==
    /\ Begins(c, "mode", [Idle EXCEPT !.name = "mode", !.at = "switch"])
    /\ choosers' = <<>> /\ chooserEvent' = FALSE
    /\ Sends(c, "mode", current, 0)
    /\ Smooth /\ UNCHANGED <<wire, current, alive, docs, opened, context>>
ModeSet(c) ==
    /\ Runs(c, {"mode"}) /\ (Answered(c, "ok") \/ Answered(c, "error"))
    /\ Ends(c) /\ Quiet(c)
    /\ Smooth /\ UNCHANGED <<todo, wire, current, alive>> /\ UNCHANGED uploadVars

\* kahin_mirage_upload_files, for the tab that is current.
UploadBegins(c) ==
    /\ Begins(c, "upload", [Idle EXCEPT !.name = "upload", !.at = "look", !.tab = current])
    /\ Smooth /\ UNCHANGED <<call, wire, current, alive>> /\ UNCHANGED uploadVars

\* Faulty variant: the first chooser, whosever it is.
AnyChooser(c) == DOMAIN choosers

\* The queued choosers of the upload's own tab.
OwnChoosers(c) == {i \in DOMAIN choosers : opened[choosers[i]].tab = tool[c].tab}

Scans(c) == Runs(c, {"upload"}) /\ (At(c, "look") \/ (At(c, "sleep") /\ tool[c].woken))

\* wait_for_chooser takes the oldest; it is fed if the document that opened it is the one that is there.
Feeds(c) ==
    /\ Scans(c) /\ OwnChoosers(c) # {}
    /\ LET i == CHOOSE j \in OwnChoosers(c) : \A k \in OwnChoosers(c) : j <= k
           n == choosers[i]
       IN  /\ choosers' = SubSeq(choosers, 1, i - 1) \o SubSeq(choosers, i + 1, Len(choosers))
           /\ IF opened[n].doc # context[opened[n].tab] THEN Ends(c) /\ UNCHANGED call
              ELSE Goes(c, [tool[c] EXCEPT !.at = "feed", !.item = n, !.woken = FALSE])
                   /\ Sends(c, "setfiles", opened[n].tab, n)
    /\ chooserEvent' = (chooserEvent /\ choosers' # <<>>)
    /\ Smooth /\ UNCHANGED <<todo, wire, current, alive, docs, opened, context>>

\* There is none: the event is cleared and waited for, also after the engine has stopped.
Sleeps(c) ==
    /\ Scans(c) /\ OwnChoosers(c) = {}
    /\ chooserEvent' = FALSE
    /\ Goes(c, [tool[c] EXCEPT !.at = "sleep", !.woken = FALSE])
    /\ Smooth /\ UNCHANGED <<todo, call, wire, current, alive, docs, opened, choosers, context>>

UploadTimesOut(c) ==
    /\ Waits(c) /\ ~tool[c].woken /\ Ends(c)
    /\ Smooth /\ UNCHANGED <<todo, call, wire, current, alive>> /\ UNCHANGED uploadVars

Fed(c) ==
    /\ At(c, "feed") /\ (Answered(c, "ok") \/ Answered(c, "error"))
    /\ Ends(c) /\ Quiet(c)
    /\ Smooth /\ UNCHANGED <<todo, wire, current, alive>> /\ UNCHANGED uploadVars

UploadStep(c) ==
    \/ SetsMode(c) \/ ModeSet(c) \/ UploadBegins(c) \/ Feeds(c) \/ Sleeps(c) \/ UploadTimesOut(c) \/ Fed(c)
    \/ UploadServes(c)

InitUploads ==
    /\ docs = [t \in Tabs |-> 1] /\ context = [t \in Tabs |-> 1]
    /\ opened = <<>> /\ choosers = <<>> /\ chooserEvent = FALSE

-----------------------------------------------------------------------------
(* Properties                                                              *)

UploadsTypeOK ==
    /\ docs \in [Tabs -> Nat] /\ context \in [Tabs -> Nat]
    /\ opened \in Seq([tab : Tabs, doc : Nat, fed : Nat, by : Tabs \cup {None}])
    /\ choosers \in Seq(DOMAIN opened) /\ Len(choosers) <= ChooserCap /\ chooserEvent \in BOOLEAN

\* A chooser gets files once at most, and only from an upload of its own tab, whichever uploads wait for
\* whichever tabs and in whatever order the choosers open (wait_for_chooser).
FedByItsTab == \A n \in DOMAIN opened : opened[n].fed <= 1 /\ opened[n].by \in {None, opened[n].tab}

\* No upload sleeps through its chooser: the uploads share one event, and the one that clears it must not
\* take the other's wake-up with it.
ChooserWakes == \A c \in Callers : Waits(c) /\ OwnChoosers(c) # {} => tool[c].woken
=============================================================================
