---------------------------- MODULE MCCrawlStore ----------------------------
(* Small instances of CrawlStore: what two clients run. *)
EXTENDS CrawlStore, TLC
CONSTANTS c1, c2

Pair(a, b) == (c1 :> a) @@ (c2 :> b)
Starting == {Pair(<<"start", "start">>, <<"start", "stop", "start">>)}
Reading == {Pair(<<"start", "results", "results">>, <<"results", "results">>),
            Pair(<<"start", "events", "events">>, <<"events", "stop">>)}
StartingAndReading == Starting \cup Reading
=============================================================================
