--------------------------- MODULE MCMirageTabs ---------------------------
(* Small instances of MirageTabs. *)
EXTENDS MirageTabs
CONSTANTS c1, c2

OpenAndUse == [c \in Callers |-> IF c = c1 THEN {"newUrl"} ELSE {"front", "switch", "close"}]
=============================================================================
