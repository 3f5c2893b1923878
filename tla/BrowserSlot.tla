---------------------------- MODULE BrowserSlot ----------------------------
(***************************************************************************)
(* What kahin promises about browsers on one machine (README.md:129-131):  *)
(* a slot that one server process owns at a time, and a browser that only  *)
(* the owner may open, one at a time.  The owner gives the slot back when  *)
(* its browser is gone; the operating system may end a browser any time.   *)
(***************************************************************************)
CONSTANTS Procs, Engines, None

VARIABLES
  owner,  \* the process that owns the slot, or None
  open    \* the browsers that run

vars == <<owner, open>>

Init == owner = None /\ open = {}

\* The owner, or whoever finds the slot free, opens the machine's browser.
Open(p, e) ==
  /\ owner \in {None, p}
  /\ open = {}
  /\ owner' = p
  /\ open' = {e}

Close(e) ==
  /\ e \in open
  /\ open' = open \ {e}
  /\ UNCHANGED owner

Release ==
  /\ owner # None
  /\ open = {}
  /\ owner' = None
  /\ UNCHANGED open

Next ==
  \/ \E p \in Procs, e \in Engines : Open(p, e)
  \/ \E e \in Engines : Close(e)
  \/ Release

Spec == Init /\ [][Next]_vars
=============================================================================
