------------------------------- MODULE Routes -------------------------------
(***************************************************************************)
(* Interception of a page's requests: one-shot routes                      *)
(* (kahin_mirage_route), the persistent mode, and continue and abort by a  *)
(* request's id (reliability_mirage.py, dejavu_mirage.py, mirage.py).      *)
(***************************************************************************)
EXTENDS EngineWire, FiniteSetsExt

CONSTANTS Window,    \* the length of _network_events
          Ids,       \* request ids; the tabs use the same ones
          Matching   \* those of urls, methods and frames that routes are for

ASSUME RoutesAssumption == Window \in Nat

VARIABLES
    pausing,   \* per tab, whether the browser pauses its requests
    reqs,      \* every request made, in order
    window,    \* _network_events: requests the reader has seen
    routed,    \* _network_routed_ids
    clock,     \* how many requests the reader has seen
    listed,    \* state._network_requests
    asked,     \* tabs for which the persistent mode was asked
    lapsed     \* tabs where a route was cancelled or could not switch interception

routeVars == <<pausing, reqs, window, routed, clock, listed, asked, lapsed>>

-----------------------------------------------------------------------------
(* The browser                                                             *)

\* A page makes a request.
PageRequests(t, id) ==
    /\ alive /\ Event("request")
    /\ \A n \in DOMAIN reqs : ~(reqs[n].tab = t /\ reqs[n].id = id)
    /\ reqs' = Append(reqs, [tab |-> t, id |-> id, claims |-> 0,
                             is |-> IF pausing[t] THEN "paused" ELSE "free"])
    /\ Adds(<<[kind |-> "request", n |-> Len(reqs) + 1, paused |-> pausing[t]]>>)
    /\ UNCHANGED <<todo, tool, call, current, alive, pausing, window, routed, clock, listed, asked, lapsed>>

Paused(t) == {n \in DOMAIN reqs : reqs[n].tab = t /\ reqs[n].is = "paused"}
Named(t, id) == {n \in Paused(t) : reqs[n].id = id}

\* What the browser does for a call: switching interception off releases what is paused.
ServesNet(c) ==
    LET t == call[c].tab IN
    CASE call[c].does = "pause" ->
           pausing' = [pausing EXCEPT ![t] = TRUE] /\ UNCHANGED reqs
      [] call[c].does = "unpause" ->
           /\ pausing' = [pausing EXCEPT ![t] = FALSE]
           /\ reqs' = [n \in DOMAIN reqs |-> IF n \in Paused(t) THEN [reqs[n] EXCEPT !.is = "free"] ELSE reqs[n]]
      [] call[c].does = "decide" ->
           /\ reqs' = [n \in DOMAIN reqs |->
                         IF n \in Named(t, call[c].arg) THEN [reqs[n] EXCEPT !.is = "decided"] ELSE reqs[n]]
           /\ UNCHANGED pausing

NetCalls == {"pause", "unpause", "decide"}
NetServes(c) ==
    /\ call[c].is = "sent" /\ call[c].does \in NetCalls
    /\ \/ ServesNet(c) /\ Smooth
          /\ Replies(c, IF call[c].does = "decide" /\ Named(call[c].tab, call[c].arg) = {} THEN "error" ELSE "ok", <<>>)
       \/ Trouble /\ Replies(c, "error", <<>>)
          /\ (ServesNet(c) \/ UNCHANGED <<pausing, reqs>>)
    /\ UNCHANGED <<todo, tool, current, alive, window, routed, clock, listed, asked, lapsed>>

-----------------------------------------------------------------------------
(* The reader                                                              *)

\* Faulty variant: the window has no bound.
AllOfThem(s) == s

LastOnes(s) == IF Len(s) <= Window THEN s ELSE SubSeq(s, Len(s) - Window + 1, Len(s))

\* _track_network_event, and the buffer of the event callbacks.
TrackRequest(line) ==
    /\ IF line.kind = "request"
       THEN /\ clock' = clock + 1
            /\ window' = LastOnes(Append(window, [n |-> line.n, paused |-> line.paused, at |-> clock]))
            /\ listed' = listed \cup {line.n}
       ELSE UNCHANGED <<clock, window, listed>>
    /\ UNCHANGED <<pausing, reqs, routed, asked, lapsed>>

-----------------------------------------------------------------------------
(* kahin_mirage_route                                                      *)

RouteBegins(c) ==
    /\ Begins(c, "route", [Idle EXCEPT !.name = "route", !.at = "enable", !.tab = current, !.since = clock])
    /\ Sends(c, "pause", current, 0)
    /\ Smooth /\ UNCHANGED <<wire, current, alive>> /\ UNCHANGED routeVars

Lapses(c) == lapsed' = IF Answered(c, "error") THEN lapsed \cup {tool[c].tab} ELSE lapsed

RouteEnabled(c) ==
    /\ Runs(c, {"route"}) /\ At(c, "enable")
    /\ \/ Answered(c, "ok") /\ Goes(c, [tool[c] EXCEPT !.at = "wait"])
       \/ Answered(c, "error") /\ Ends(c)
    /\ Quiet(c) /\ Lapses(c)
    /\ Smooth /\ UNCHANGED <<todo, wire, current, alive, pausing, reqs, window, routed, clock, listed, asked>>

\* Events in the window that a route waits for.
Fresh(c) == {i \in DOMAIN window :
                /\ window[i].paused /\ window[i].at >= tool[c].since
                /\ reqs[window[i].n].tab = tool[c].tab /\ reqs[window[i].n].id \in Matching
                /\ reqs[window[i].n].id \notin routed}

\* Faulty variant: when the ids outgrow the window only they are forgotten.
ForgetIds(w, ids) == [window |-> w, ids |-> IF Cardinality(ids) > Window THEN {} ELSE ids]

\* When the ids outgrow the window, both are forgotten.
Forget(w, ids) == IF Cardinality(ids) > Window THEN [window |-> <<>>, ids |-> {}] ELSE [window |-> w, ids |-> ids]

\* wait_for_intercepted finds a request, and the route decides it.
RouteClaims(c) ==
    /\ Runs(c, {"route"}) /\ At(c, "wait") /\ Fresh(c) # {}
    /\ LET n == window[Min(Fresh(c))].n
           kept == Forget(window, routed \cup {reqs[n].id})
       IN  /\ window' = kept.window /\ routed' = kept.ids
           /\ reqs' = [reqs EXCEPT ![n].claims = @ + 1]
           /\ Goes(c, [tool[c] EXCEPT !.at = "decide", !.item = n])
           /\ Sends(c, "decide", tool[c].tab, reqs[n].id)
    /\ Smooth /\ UNCHANGED <<todo, wire, current, alive, pausing, clock, listed, asked, lapsed>>

\* Faulty variant: a route that times out leaves interception as it is.
LeavesIt(c) == Ends(c) /\ Quiet(c)

\* disable_interception
Disables(c) == Goes(c, [tool[c] EXCEPT !.at = "disable"]) /\ Sends(c, "unpause", tool[c].tab, 0)

RouteTimesOut(c) ==
    /\ Runs(c, {"route"}) /\ At(c, "wait") /\ Fresh(c) = {}
    /\ Disables(c)
    /\ Smooth /\ UNCHANGED <<todo, wire, current, alive>> /\ UNCHANGED routeVars

RouteDecided(c) ==
    /\ Runs(c, {"route"}) /\ At(c, "decide") /\ (Answered(c, "ok") \/ Answered(c, "error"))
    /\ Disables(c)
    /\ Smooth /\ UNCHANGED <<todo, wire, current, alive>> /\ UNCHANGED routeVars

RouteEnds(c) ==
    /\ Runs(c, {"route"}) /\ At(c, "disable") /\ (Answered(c, "ok") \/ Answered(c, "error"))
    /\ Ends(c) /\ Quiet(c) /\ Lapses(c)
    /\ Smooth /\ UNCHANGED <<todo, wire, current, alive, pausing, reqs, window, routed, clock, listed, asked>>

\* The client cancels the tool: it ends where it is and cleans up nothing; a call on its way is served.
RouteCancelled(c) ==
    /\ Runs(c, {"route"}) /\ Trouble
    /\ Ends(c) /\ lapsed' = lapsed \cup {tool[c].tab}
    /\ todo' = [todo EXCEPT ![c] = <<>>]
    /\ UNCHANGED <<call, wire, current, alive, pausing, reqs, window, routed, clock, listed, asked>>

-----------------------------------------------------------------------------
(* The persistent mode                                                     *)

\* kahin_mirage_intercept_requests, kahin_mirage_unintercept_requests
Intercepts(c) ==
    /\ \/ Begins(c, "intercept", [Idle EXCEPT !.name = "intercept", !.at = "switch", !.tab = current])
          /\ Sends(c, "pause", current, 0) /\ asked' = asked \cup {current}
       \/ Begins(c, "unintercept", [Idle EXCEPT !.name = "unintercept", !.at = "switch", !.tab = current])
          /\ Sends(c, "unpause", current, 0) /\ UNCHANGED asked
    /\ Smooth /\ UNCHANGED <<wire, current, alive, pausing, reqs, window, routed, clock, listed, lapsed>>

\* _owner_session_id: the current tab's request of that id, or the only one there is.
Owners(id) == {reqs[n].tab : n \in {m \in listed : reqs[m].id = id}}
Owner(id) ==
    IF current \in Owners(id) THEN current
    ELSE IF Cardinality(Owners(id)) = 1 THEN CHOOSE t \in Owners(id) : TRUE ELSE None

\* kahin_mirage_network_continue, kahin_mirage_network_abort, of a request the client was shown
DecideBegins(c) ==
    /\ \E n \in listed :
          LET t == Owner(reqs[n].id)
              r == [Idle EXCEPT !.name = "continue", !.at = "switch", !.tab = t, !.item = n]
          IN  IF t = None THEN Begins(c, "continue", Idle) /\ UNCHANGED call
              ELSE Begins(c, "continue", r) /\ Sends(c, "decide", t, reqs[n].id)
    /\ Smooth /\ UNCHANGED <<wire, current, alive>> /\ UNCHANGED routeVars

Switched(c) ==
    /\ At(c, "switch") /\ (Answered(c, "ok") \/ Answered(c, "error"))
    /\ Ends(c) /\ Quiet(c)
    /\ Smooth /\ UNCHANGED <<todo, wire, current, alive>> /\ UNCHANGED routeVars

RouteStep(c) ==
    \/ RouteBegins(c) \/ RouteEnabled(c) \/ RouteClaims(c) \/ RouteTimesOut(c) \/ RouteDecided(c)
    \/ RouteEnds(c) \/ RouteCancelled(c) \/ Intercepts(c) \/ DecideBegins(c) \/ Switched(c) \/ NetServes(c)

InitRoutes ==
    /\ pausing = [t \in Tabs |-> FALSE] /\ reqs = <<>> /\ window = <<>> /\ routed = {} /\ clock = 0
    /\ listed = {} /\ asked = {} /\ lapsed = {}

-----------------------------------------------------------------------------
(* Properties                                                              *)

RoutesTypeOK ==
    /\ pausing \in [Tabs -> BOOLEAN]
    /\ reqs \in Seq([tab : Tabs, id : Ids, claims : Nat, is : {"paused", "free", "decided"}])
    /\ window \in Seq([n : DOMAIN reqs, paused : BOOLEAN, at : Nat]) /\ Len(window) <= Window
    /\ routed \subseteq Ids /\ Cardinality(routed) <= Window
    /\ clock \in Nat /\ listed \subseteq DOMAIN reqs /\ asked \subseteq Tabs /\ lapsed \subseteq Tabs

\* Two routes never take the same request, also when the bounded window and the set of ids taken from it
\* are forgotten between them (wait_for_intercepted).
RoutedOnce == \A n \in DOMAIN reqs : reqs[n].claims <= 1

\* When the routes of a tab have ended, whichever way and in whatever order, none of its requests is left
\* paused and it pauses no more, unless somebody asked for that, a route was cancelled, or the browser
\* failed the call that switches interception (kahin_mirage_route).
NothingStranded ==
    \A t \in Tabs :
        \/ t \in asked \cup lapsed \/ ~alive
        \/ \E c \in Callers : tool[c].name = "route" /\ tool[c].tab = t
        \/ ~pausing[t] /\ Paused(t) = {}
=============================================================================
