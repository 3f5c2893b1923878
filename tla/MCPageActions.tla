--------------------------- MODULE MCPageActions ---------------------------
(* Small instances of PageActions. *)
EXTENDS PageActions
CONSTANTS c1, c2

\* One caller runs any tool, the other a click that gets in its way.
AnyAndMouse == [c \in Callers |-> IF c = c1 THEN DOMAIN Steps ELSE {"click"}]
=============================================================================
