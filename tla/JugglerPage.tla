---------------------------- MODULE JugglerPage ----------------------------
(***************************************************************************)
(* What the sidecar knows of one page (driver.zig, Page) and the state     *)
(* machine of its navigation (adapters/page.zig, Lifecycle), as operators  *)
(* on records.                                                             *)
(*                                                                         *)
(* The lifecycle borrows the buffer of the page's main frame id.  When the *)
(* page frees that buffer the lifecycle's frame is Freed, and comparing it *)
(* with a frame id may go either way: SameFrame is the set of outcomes.    *)
(***************************************************************************)
CONSTANTS
  Frames,   \* main frame ids
  Urls,     \* addresses a page may show
  NoNav,    \* "", no navigation id
  NoFrame,  \* a null main frame id, or the "" a new lifecycle starts with
  Freed,    \* a frame id whose buffer was freed
  NoUrl     \* current_url before the first commit

Idle == [state |-> "idle", frame |-> NoFrame, nav |-> NoNav, started |-> FALSE, committed |-> FALSE]

NewPage(session) ==
  [session |-> session, main |-> NoFrame, url |-> NoUrl, context |-> FALSE, life |-> Idle]

SameFrame(l, frame) == IF l.frame = Freed THEN BOOLEAN ELSE {l.frame = frame}

\* Faulty variant: the flags of the last navigation stay.
BeginOver(l, frame) ==
  IF l.state = "waiting" THEN l ELSE [l EXCEPT !.state = "waiting", !.frame = frame, !.nav = NoNav]

\* A navigation that is still waiting keeps its id and its flags.
Begin(l, frame) ==
  IF l.state = "waiting" THEN l
  ELSE [state |-> "waiting", frame |-> frame, nav |-> NoNav, started |-> FALSE, committed |-> FALSE]

\* The handlers below run for an event of the lifecycle's own frame.
SetNavigationId(l, nav) == IF l.state \in {"waiting", "done"} THEN [l EXCEPT !.nav = nav] ELSE l

OnLoad(l) == IF l.state = "waiting" THEN [l EXCEPT !.state = "done"] ELSE l

OnSameDocument(l) == OnLoad(l)

OnAbort(l, nav) ==
  IF l.state = "waiting" /\ l.nav # NoNav /\ l.nav = nav THEN [l EXCEPT !.state = "aborted"] ELSE l

OnNavigationStarted(l, nav) ==
  IF l.state \notin {"waiting", "done"} THEN l
  ELSE IF l.nav = NoNav THEN [l EXCEPT !.nav = nav, !.started = TRUE]
  ELSE [l EXCEPT !.started = (l.nav = nav)]

OnCommitted(l, nav) == IF l.nav = NoNav THEN l ELSE [l EXCEPT !.committed = (l.nav = nav)]

\* Replacing or dropping the main frame id frees the buffer the lifecycle borrowed.
FreesMain(p) == IF p.life.frame # NoFrame THEN [p EXCEPT !.life.frame = Freed] ELSE p

OnFrameAttached(p, frame) ==
  IF p.main = frame THEN p
  ELSE [(IF p.main = NoFrame THEN p ELSE FreesMain(p)) EXCEPT !.main = frame]

OnFrameDetached(p, frame) == IF p.main = frame THEN [FreesMain(p) EXCEPT !.main = NoFrame] ELSE p

UrlCommitted(p, url) == p.url = url

NavigationSatisfied(p, nav, url) ==
  /\ p.life.state = "done"
  /\ \/ UrlCommitted(p, url)
     \/ p.life.nav \in {NoNav, nav} /\ p.life.started /\ p.life.committed
=============================================================================
