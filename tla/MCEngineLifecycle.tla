------------------------- MODULE MCEngineLifecycle -------------------------
(* Small instances of EngineLifecycle. *)
EXTENDS EngineLifecycle, TLC
CONSTANTS p1, p2, c1, c2

TwoServers == [c \in Calls |-> IF c = c1 THEN p1 ELSE p2]
OneServer  == [c \in Calls |-> p1]
Interchangeable == Permutations(Engines)
=============================================================================
