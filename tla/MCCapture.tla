----------------------------- MODULE MCCapture ------------------------------
(* Small instances of Capture: what each caller runs, in order. *)
EXTENDS Capture
CONSTANTS c1, c2, c3

Plan(kind, much, a, b, c) ==
    [runs |-> [x \in Callers |-> CASE x = c1 -> a [] x = c2 -> b [] OTHER -> c], pages |-> {kind},
     events |-> much[1], trouble |-> much[2]]
Routing == {Plan("request", <<2, 0>>, <<"route", "route">>, <<"route">>, <<>>),
            Plan("request", <<1, 1>>, <<"route">>, <<"route">>, <<>>),
            Plan("request", <<2, 1>>, <<"route">>, <<"intercept", "continue">>, <<>>),
            Plan("request", <<1, 1>>, <<"intercept", "unintercept">>, <<"route">>, <<>>)}
Casting == {Plan("frame", <<3, 2>>, <<"start", "start", "stop">>, <<"frame", "frame">>, <<>>),
            Plan("frame", <<3, 2>>, <<"start", "start">>, <<"fresh", "frame">>, <<>>),
            Plan("frame", <<3, 2>>, <<"start">>, <<"frame">>, <<"frame">>)}
Uploading == {Plan("chooser", <<2, 1>>, <<"upload">>, <<"upload">>, <<"upload">>),
              Plan("chooser", <<2, 1>>, <<"mode", "upload">>, <<"upload">>, <<>>)}
Everything == Routing \cup Casting \cup Uploading
=============================================================================
