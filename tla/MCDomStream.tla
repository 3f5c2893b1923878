---------------------------- MODULE MCDomStream -----------------------------
(* Small instances of DomStream: what two agents run against one page. *)
EXTENDS DomStream
CONSTANTS r1, r2

Plan(a, b, bursts, loads, faults) ==
    [runs |-> (r1 :> a) @@ (r2 :> b), bursts |-> bursts, loads |-> loads, faults |-> faults]
Reading == {Plan(<<"start", "events", "events">>, <<"events">>, 2, 0, 1),
            Plan(<<"snapshot", "events">>, <<"start", "stop", "events">>, 2, 1, 0)}
Acting == {Plan(<<"snapshot", "action">>, <<"status", "snapshot", "stop">>, 2, 1, 0),
           Plan(<<"snapshot", "action">>, <<"snapshot", "action">>, 1, 0, 1)}
ReadingAndActing == Reading \cup Acting
=============================================================================
