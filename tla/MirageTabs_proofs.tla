------------------------- MODULE MirageTabs_proofs --------------------------
(***************************************************************************)
(* What Python believes of its calls and of the browser's tabs, for every  *)
(* number of callers, tabs, sessions and request ids, every script and all *)
(* faults.                                                                 *)
(***************************************************************************)
EXTENDS MirageTabs, FiniteSetTheorems, WellFoundedInduction, SequenceTheorems, TLAPS

----------------------------------------------------------------------------
(* Finite sets of numbers *)

\* The least of a set of numbers: the one with nothing below it.
LEMMA MinOfNaturals ==
    ASSUME NEW S \in SUBSET Nat, S # {}
    PROVE  Min(S) \in S /\ \A y \in S : Min(S) <= y
<1> DEFINE below(i) == {k \in S : k < i}
           T == {below(i) : i \in S}
<1>1. \A i \in S : below(i) \in SUBSET Nat /\ IsFiniteSet(below(i))
  <2>1. ASSUME NEW i \in S PROVE IsFiniteSet(below(i))
    <3>1. i \in Nat /\ \A k \in S : k < i => k <= i
      OBVIOUS
    <3>2. below(i) \in SUBSET Nat /\ \A k \in below(i) : k <= i
      BY <3>1
    <3> QED
      BY <3>1, <3>2, FS_BoundedSetOfNaturals
  <2> QED
    BY <2>1
<1>2. PICK t \in T : \A u \in T : <<u, t>> \notin StrictSubsetOrdering(Nat)
  <2>1. T \subseteq FiniteSubsetsOf(Nat) /\ T # {}
    BY <1>1 DEF FiniteSubsetsOf
  <2>2. IsWellFoundedOn(StrictSubsetOrdering(Nat), FiniteSubsetsOf(Nat))
    BY FS_StrictSubsetOrderingWellFounded
  <2> HIDE DEF T
  <2> QED
    BY <2>1, <2>2, WFMin
<1>3. PICK x \in S : t = below(x)
  OBVIOUS
<1>4. ASSUME NEW y \in S, y < x PROVE FALSE
  <2>1. y \in below(x) /\ y \notin below(y)
    BY <1>4
  <2>2. \A k \in S : k < y => k < x
    BY <1>4
  <2>3. below(y) \subseteq below(x) /\ below(y) \in T
    BY <2>2
  <2> HIDE DEF below, T
  <2> QED
    BY <1>1, <1>2, <1>3, <1>4, <2>1, <2>3 DEF StrictSubsetOrdering
<1>5. \A y \in S : x <= y
  BY <1>4
<1> QED
  BY <1>5 DEF Min

Methods == {"none", "eval", "navigate", "getFrameTree", "getTargets", "newPage", "close"}
Thens == {"none", "act", "quiet", "close", "go", "landed", "result", "recover", "recovered", "tidy", "made"}
Goals == {"act", "quiet", "close", "go", "landed", "result"}
Opening == {"adopt", "open", "attach", "frame"}
Pcs == Opening \union {"idle", "done", "ensure", "close", "closing", "renew", "act", "quiet", "go", "landed"}

CallRec == [st : InStates \union {"none", "back"}, id : 0 .. MaxId, method : Methods,
            session : Sessions \union {None}, fut : Ended \union {"open", "timeout"},
            page : Targets \union {None}]
AskRec == [id : Ids, method : Methods, session : Sessions \union {None}]
ToolRec == [name : ToolKinds \union {"none"}, pc : Pcs, then : Thens, target : Targets \union {None},
            session : Sessions \union {None}, old : Targets \union {None}, retried : BOOLEAN]
ReplyLine == [kind : {"reply"}, id : Ids, ok : BOOLEAN, page : Targets \union {None}]
EventLine == [kind : {"attached", "detached", "context", "cleared"}, target : Targets, session : Sessions]
Lines == ReplyLine \union EventLine

\* Inside call(), and waiting for its future there.
Inside(k) == k.st \in InStates
Awaits(k) == Inside(k) /\ k.fut = "open"

-----------------------------------------------------------------------------
(* The calls                                                               *)

\* A call that closes a page names its session.
Names(k) == k.method = "close" => k.session # None
CallOK(k) == k \in CallRec /\ Names(k) /\ (Inside(k) <=> k.id \in Ids)

Calls == call \in [Callers -> CallRec] /\ \A c \in Callers : CallOK(call[c])
OwnIds == \A c, d \in Callers : Inside(call[c]) /\ Inside(call[d]) /\ call[c].id = call[d].id => c = d
Exact == \A id : id \in pending <=> \E c \in Callers : Awaits(call[c]) /\ call[c].id = id
Table == Calls /\ OwnIds /\ Exact
Asks == asked \subseteq AskRec /\ \A r \in asked : Names(r)
Engine ==
    /\ reader \in {"reads", "cancelled", "ended"} /\ stopping \in {"no", "begun", "taken", "done"}
    /\ handle \in BOOLEAN /\ dead \in BOOLEAN /\ sidecar \in {"up", "stuck", "gone"}
    /\ writer \in Callers \union {None}
    /\ stopping # "no" => reader # "reads"
    /\ reader = "ended" => dead /\ pending = {}

IpcInv == Table /\ Asks /\ Engine

-----------------------------------------------------------------------------
(* The tools                                                               *)

\* Between its calls a tool has none; the page lock belongs to a tool that opens the first tab for
\* what it is going to do there.
Resting == {"idle", "done", "ensure", "attach", "closing", "renew"}
Fits(c, w, lock) ==
    /\ w.pc = "ensure" => w.then \in Goals
    /\ w.pc = "adopt" => lock = c
    /\ lock = c => w.pc \in Opening /\ w.then \in Goals
    /\ w.pc \in Opening /\ lock # c => w.then \in {"recovered", "made"}
    /\ w.pc = "renew" => w.then = "recovered"
    /\ w.pc = "frame" => w.session # None
ToolOK(c, w, k, lock) == (w.pc \in Resting => k = NoCall) /\ Fits(c, w, lock)

ToolInv ==
    /\ tool \in [Callers -> ToolRec] /\ pageLock \in Callers \union {None}
    /\ \A c \in Callers : ToolOK(c, tool[c], call[c], pageLock)

-----------------------------------------------------------------------------
(* What the reader has still to read                                       *)

Attaches(q, i, t) == i \in DOMAIN q /\ q[i].kind = "attached" /\ q[i].target = t
Detaches(q, i, t, s) == i \in DOMAIN q /\ q[i].kind = "detached" /\ q[i].target = t /\ q[i].session = s
Talks(q, i, t, s) ==
    i \in DOMAIN q /\ q[i].kind \in {"context", "cleared"} /\ q[i].target = t /\ q[i].session = s
About(q, i, t, s) == i \in DOMAIN q /\ q[i].kind # "reply" /\ q[i].target = t /\ q[i].session = s

\* The session a tab was attached to last, and whether its end was announced, in the lines before n.
Newest(q, se, t, n, s) ==
    \/ se[t] = s /\ \A i : Attaches(q, i, t) => i >= n
    \/ \E i : /\ Attaches(q, i, t) /\ i < n /\ q[i].session = s
              /\ \A j : Attaches(q, j, t) /\ j < n => j <= i
Gone(q, t, n, s) == \E i : Detaches(q, i, t, s) /\ i < n

\* Having read the lines before n, Python shows tab t with session s.
Shows(q, se, t, n, s) == Newest(q, se, t, n, s) /\ ~Gone(q, t, n, s)

\* Having read all, it knows the context of the session.
Hears(q, co, t, s) ==
    \/ \E i : /\ Talks(q, i, t, s) /\ q[i].kind = "context"
              /\ \A j : Talks(q, j, t, s) => j <= i
    \/ s \in co /\ \A i : ~Talks(q, i, t, s)

\* Everything names a session with one and the same tab.
Holds(q, se, pg, t, s) == se[t] = s \/ pg[t] = s \/ \E i : About(q, i, t, s)

\* An attachment is the first that is heard of a session.
News(q, se, co) ==
    \A i \in DOMAIN q : q[i].kind = "attached" =>
        /\ q[i].session \notin co
        /\ \A u \in Targets : se[u] # q[i].session /\ \A j : About(q, j, u, q[i].session) => j >= i

OneTab(q, se, pg) ==
    \A t, u \in Targets, s \in Sessions : Holds(q, se, pg, t, s) /\ Holds(q, se, pg, u, s) => t = u

\* The browser's tabs are the ones shown when all is read, a context is news of a tab that is shown,
\* and no session but a shown one has a context.
PagesShown(q, se, pg) ==
    \A t \in Targets, s \in Sessions : pg[t] = s <=> Shows(q, se, t, Len(q) + 1, s)
TalkShown(q, se) == \A t \in Targets, s \in Sessions : \A i : Talks(q, i, t, s) => Shows(q, se, t, i, s)
ContextsKnown(se, co) == \A s \in co : \E t \in Targets : se[t] = s
WorldsLive(pg, wo) == \A s \in wo : \E t \in Targets : pg[t] = s
WorldsHeard(q, co, pg, wo) ==
    \A t \in Targets, s \in Sessions : pg[t] = s => (s \in wo <=> Hears(q, co, t, s))

View(q, se, co, pg, wo) ==
    /\ OneTab(q, se, pg) /\ News(q, se, co) /\ PagesShown(q, se, pg) /\ TalkShown(q, se)
    /\ ContextsKnown(se, co) /\ WorldsLive(pg, wo) /\ WorldsHeard(q, co, pg, wo)

TabTypes ==
    /\ sessions \in [Targets -> Sessions \union {None}] /\ contexts \subseteq Sessions
    /\ current \in Targets \union {None}
    /\ page \in [Targets -> Sessions \union {None}] /\ worlds \subseteq Sessions
    /\ inbox \in Seq(Lines)

TabsInv == TabTypes /\ CurrentAttached /\ (reader = "reads" => View(inbox, sessions, contexts, page, worlds))

-----------------------------------------------------------------------------
(* Reading a line                                                          *)

LEMMA TailFacts ==
    ASSUME NEW q \in Seq(Lines), q # <<>>
    PROVE  /\ Tail(q) \in Seq(Lines) /\ Len(Tail(q)) = Len(q) - 1 /\ Len(q) \in Nat /\ Len(q) >= 1
           /\ DOMAIN q = 1 .. Len(q) /\ DOMAIN Tail(q) = 1 .. Len(q) - 1
           /\ \A i \in 1 .. Len(q) - 1 : Tail(q)[i] = q[i + 1]
           /\ Head(q) = q[1] /\ q[1] \in Lines
OBVIOUS

\* Places in the rest of the lines, and places in all of them.
LEMMA Shift ==
    ASSUME NEW q \in Seq(Lines), q # <<>>, NEW t, NEW s
    PROVE  /\ \A i : Attaches(Tail(q), i, t) => i \in Nat \ {0} /\ Attaches(q, i + 1, t) /\ q[i + 1] = Tail(q)[i]
           /\ \A i : Detaches(Tail(q), i, t, s) => i \in Nat \ {0} /\ Detaches(q, i + 1, t, s)
           /\ \A i : Talks(Tail(q), i, t, s) => i \in Nat \ {0} /\ Talks(q, i + 1, t, s) /\ q[i + 1] = Tail(q)[i]
           /\ \A i : About(Tail(q), i, t, s) => i \in Nat \ {0} /\ About(q, i + 1, t, s)
<1> DEFINE r == Tail(q)
<1>1. \A i \in DOMAIN r : i \in Nat \ {0} /\ i + 1 \in DOMAIN q /\ r[i] = q[i + 1]
  BY TailFacts
<1> HIDE DEF r
<1> QED
  BY <1>1 DEF Attaches, Detaches, Talks, About, r

LEMMA Unshift ==
    ASSUME NEW q \in Seq(Lines), q # <<>>, NEW t, NEW s
    PROVE  /\ \A i : Attaches(q, i, t) /\ i # 1 =>
                 i - 1 \in Nat \ {0} /\ Attaches(Tail(q), i - 1, t) /\ Tail(q)[i - 1] = q[i]
           /\ \A i : Detaches(q, i, t, s) /\ i # 1 => i - 1 \in Nat \ {0} /\ Detaches(Tail(q), i - 1, t, s)
           /\ \A i : Talks(q, i, t, s) /\ i # 1 =>
                 i - 1 \in Nat \ {0} /\ Talks(Tail(q), i - 1, t, s) /\ Tail(q)[i - 1] = q[i]
           /\ \A i : About(q, i, t, s) /\ i # 1 => i - 1 \in Nat \ {0} /\ About(Tail(q), i - 1, t, s)
<1> DEFINE r == Tail(q)
<1>1. \A i \in DOMAIN q : i # 1 => i - 1 \in Nat \ {0} /\ i - 1 \in DOMAIN r /\ r[i - 1] = q[i]
  BY TailFacts
<1> HIDE DEF r
<1> QED
  BY <1>1 DEF Attaches, Detaches, Talks, About, r

LEMMA Places ==
    ASSUME NEW q \in Seq(Lines), NEW t, NEW s
    PROVE  /\ \A i : Attaches(q, i, t) => i \in Nat \ {0} /\ i <= Len(q)
           /\ \A i : Detaches(q, i, t, s) => i \in Nat \ {0} /\ i <= Len(q) /\ About(q, i, t, s)
           /\ \A i : Talks(q, i, t, s) => i \in Nat \ {0} /\ i <= Len(q) /\ About(q, i, t, s)
           /\ \A i : About(q, i, t, s) => i \in Nat \ {0} /\ i <= Len(q)
BY DEF Attaches, Detaches, Talks, About

\* What a line leaves of the sessions and the contexts Python knows.
SessionsAfter(se, m) ==
    CASE m.kind = "attached" -> [se EXCEPT ![m.target] = m.session]
      [] m.kind = "detached" -> IF se[m.target] \notin {None, m.session} THEN se
                                ELSE [se EXCEPT ![m.target] = None]
      [] OTHER -> se
ContextsAfter(se, co, m) ==
    CASE m.kind = "attached" -> co \ {se[m.target], m.session}
      [] m.kind = "detached" -> IF se[m.target] \notin {None, m.session} THEN co ELSE co \ {m.session}
      [] m.kind = "context"  -> co \union {m.session}
      [] m.kind = "cleared"  -> co \ {m.session}
      [] OTHER -> co

\* Only lines about t change the session of t.
LEMMA SessionAfter ==
    ASSUME NEW se \in [Targets -> Sessions \union {None}], NEW m \in Lines, NEW t \in Targets
    PROVE  /\ SessionsAfter(se, m) \in [Targets -> Sessions \union {None}]
           /\ m.kind = "attached" /\ m.target = t => SessionsAfter(se, m)[t] = m.session
           /\ m.kind = "detached" /\ m.target = t =>
                 SessionsAfter(se, m)[t] = IF se[t] \notin {None, m.session} THEN se[t] ELSE None
           /\ ~(m.kind \in {"attached", "detached"} /\ m.target = t) => SessionsAfter(se, m)[t] = se[t]
<1>1. CASE m.kind = "attached"
  BY <1>1 DEF SessionsAfter, Lines, EventLine, ReplyLine
<1>2. CASE m.kind = "detached"
  BY <1>2 DEF SessionsAfter, Lines, EventLine, ReplyLine
<1>3. CASE m.kind \notin {"attached", "detached"}
  BY <1>3 DEF SessionsAfter
<1> QED
  BY <1>1, <1>2, <1>3

\* What is left of the ends and of the attachments of a tab when a line has been read.
LEMMA ReadGone ==
    ASSUME NEW q \in Seq(Lines), q # <<>>, NEW t, NEW s, NEW n \in Nat, ~Detaches(q, 1, t, s)
    PROVE  Gone(Tail(q), t, n, s) <=> Gone(q, t, n + 1, s)
<1> DEFINE r == Tail(q)
<1>1. \A i : Detaches(r, i, t, s) => i \in Nat \ {0} /\ Detaches(q, i + 1, t, s)
  BY Shift
<1>2. \A i : Detaches(q, i, t, s) => i \in Nat /\ i - 1 \in Nat \ {0} /\ Detaches(r, i - 1, t, s)
  BY Unshift, Places
<1> HIDE DEF r
<1> SUFFICES Gone(r, t, n, s) <=> Gone(q, t, n + 1, s)
  BY DEF r
<1>3. ASSUME NEW i, Detaches(r, i, t, s), i < n PROVE Gone(q, t, n + 1, s)
  <2>1. Detaches(q, i + 1, t, s) /\ i + 1 < n + 1
    BY <1>3, <1>1
  <2> QED
    BY <2>1 DEF Gone
<1>4. ASSUME NEW i, Detaches(q, i, t, s), i < n + 1 PROVE Gone(r, t, n, s)
  <2>1. Detaches(r, i - 1, t, s) /\ i - 1 < n
    BY <1>4, <1>2
  <2> QED
    BY <2>1 DEF Gone
<1> QED
  BY <1>3, <1>4 DEF Gone

LEMMA ReadNewest ==
    ASSUME NEW q \in Seq(Lines), q # <<>>, NEW t, NEW s, NEW n \in Nat, ~Attaches(q, 1, t),
           NEW se, NEW se2, se2[t] = s <=> se[t] = s
    PROVE  Newest(Tail(q), se2, t, n, s) <=> Newest(q, se, t, n + 1, s)
<1> DEFINE r == Tail(q)
<1>1. \A i : Attaches(r, i, t) => i \in Nat \ {0} /\ Attaches(q, i + 1, t) /\ q[i + 1] = r[i]
  BY Shift
<1>2. \A i : Attaches(q, i, t) => i \in Nat /\ i - 1 \in Nat \ {0} /\ Attaches(r, i - 1, t) /\ r[i - 1] = q[i]
  BY Unshift, Places
<1> HIDE DEF r
<1> SUFFICES Newest(r, se2, t, n, s) <=> Newest(q, se, t, n + 1, s)
  BY DEF r
<1>3. (\A i : Attaches(r, i, t) => i >= n) <=> (\A i : Attaches(q, i, t) => i >= n + 1)
  <2>1. ASSUME \A i : Attaches(r, i, t) => i >= n, NEW i, Attaches(q, i, t) PROVE i >= n + 1
    <3>1. i - 1 >= n /\ i \in Nat
      BY <2>1, <1>2
    <3> QED
      BY <3>1
  <2>2. ASSUME \A i : Attaches(q, i, t) => i >= n + 1, NEW i, Attaches(r, i, t) PROVE i >= n
    <3>1. i + 1 >= n + 1 /\ i \in Nat
      BY <2>2, <1>1
    <3> QED
      BY <3>1
  <2> QED
    BY <2>1, <2>2
<1>4. ASSUME NEW i, Attaches(r, i, t), i < n, r[i].session = s,
             \A j : Attaches(r, j, t) /\ j < n => j <= i
      PROVE  Newest(q, se, t, n + 1, s)
  <2>1. i \in Nat /\ Attaches(q, i + 1, t) /\ i + 1 < n + 1 /\ q[i + 1].session = s
    BY <1>1, <1>4
  <2>2. ASSUME NEW j, Attaches(q, j, t), j < n + 1 PROVE j <= i + 1
    <3>1. j \in Nat /\ Attaches(r, j - 1, t) /\ j - 1 < n
      BY <2>2, <1>2
    <3> QED
      BY <3>1, <2>1, <1>4
  <2> QED
    BY <2>1, <2>2 DEF Newest
<1>5. ASSUME NEW i, Attaches(q, i, t), i < n + 1, q[i].session = s,
             \A j : Attaches(q, j, t) /\ j < n + 1 => j <= i
      PROVE  Newest(r, se2, t, n, s)
  <2>1. i \in Nat /\ Attaches(r, i - 1, t) /\ i - 1 < n /\ r[i - 1].session = s
    BY <1>2, <1>5
  <2>2. ASSUME NEW j, Attaches(r, j, t), j < n PROVE j <= i - 1
    <3>1. j \in Nat /\ Attaches(q, j + 1, t) /\ j + 1 < n + 1
      BY <2>2, <1>1
    <3> QED
      BY <3>1, <2>1, <1>5
  <2> QED
    BY <2>1, <2>2 DEF Newest
<1> QED
  BY <1>3, <1>4, <1>5 DEF Newest

LEMMA ReadAttached ==
    ASSUME NEW q \in Seq(Lines), q # <<>>, NEW t, NEW s, NEW n \in Nat, n >= 1, Attaches(q, 1, t),
           NEW se, NEW se2, se2[t] = q[1].session,
           \A i : Attaches(q, i, t) /\ q[i].session = s => se[t] # s
    PROVE  Newest(Tail(q), se2, t, n, s) <=> Newest(q, se, t, n + 1, s)
<1> DEFINE r == Tail(q)
<1>1. \A i : Attaches(r, i, t) => i \in Nat \ {0} /\ Attaches(q, i + 1, t) /\ q[i + 1] = r[i]
  BY Shift
<1>2. \A i : Attaches(q, i, t) /\ i # 1 =>
         i \in Nat /\ i - 1 \in Nat \ {0} /\ Attaches(r, i - 1, t) /\ r[i - 1] = q[i]
  BY Unshift, Places
<1> HIDE DEF r
<1> SUFFICES Newest(r, se2, t, n, s) <=> Newest(q, se, t, n + 1, s)
  BY DEF r
<1>3. ASSUME se2[t] = s, \A i : Attaches(r, i, t) => i >= n
      PROVE  Newest(q, se, t, n + 1, s)
  <2>1. ASSUME NEW j, Attaches(q, j, t), j < n + 1, j # 1 PROVE FALSE
    <3>1. j \in Nat /\ Attaches(r, j - 1, t) /\ j - 1 >= n
      BY <2>1, <1>2, <1>3
    <3> QED
      BY <3>1, <2>1
  <2>2. 1 < n + 1 /\ \A j : Attaches(q, j, t) /\ j < n + 1 => j <= 1
    BY <2>1
  <2> QED
    BY <2>2, <1>3 DEF Newest
<1>4. ASSUME NEW i, Attaches(r, i, t), i < n, r[i].session = s,
             \A j : Attaches(r, j, t) /\ j < n => j <= i
      PROVE  Newest(q, se, t, n + 1, s)
  <2>1. i \in Nat \ {0} /\ Attaches(q, i + 1, t) /\ i + 1 < n + 1 /\ q[i + 1].session = s
    BY <1>1, <1>4
  <2>2. ASSUME NEW j, Attaches(q, j, t), j < n + 1, j # 1 PROVE j <= i + 1
    <3>1. j \in Nat /\ Attaches(r, j - 1, t) /\ j - 1 < n
      BY <2>2, <1>2
    <3> QED
      BY <3>1, <2>1, <1>4
  <2>3. \A j : Attaches(q, j, t) /\ j < n + 1 => j <= i + 1
    BY <2>1, <2>2
  <2> QED
    BY <2>1, <2>3 DEF Newest
<1>5. ASSUME NEW i, Attaches(q, i, t), i < n + 1, q[i].session = s,
             \A j : Attaches(q, j, t) /\ j < n + 1 => j <= i
      PROVE  Newest(r, se2, t, n, s)
  <2>1. CASE i = 1
    <3>1. ASSUME NEW j, Attaches(r, j, t), ~(j >= n) PROVE FALSE
      <4>1. j \in Nat \ {0} /\ Attaches(q, j + 1, t) /\ j + 1 < n + 1
        BY <3>1, <1>1
      <4> QED
        BY <4>1, <2>1, <1>5
    <3> QED
      BY <3>1, <2>1, <1>5 DEF Newest
  <2>2. CASE i # 1
    <3>1. i \in Nat /\ Attaches(r, i - 1, t) /\ i - 1 < n /\ r[i - 1].session = s
      BY <1>2, <1>5, <2>2
    <3>2. ASSUME NEW j, Attaches(r, j, t), j < n PROVE j <= i - 1
      <4>1. j \in Nat /\ Attaches(q, j + 1, t) /\ j + 1 < n + 1
        BY <3>2, <1>1
      <4> QED
        BY <4>1, <3>1, <1>5
    <3> QED
      BY <3>1, <3>2 DEF Newest
  <2> QED
    BY <2>1, <2>2
<1>6. ~(\A i : Attaches(q, i, t) => i >= n + 1)
  OBVIOUS
<1> QED
  BY <1>3, <1>4, <1>5, <1>6 DEF Newest

\* A tab keeps its announced session through the reading of a line.
LEMMA ReadShows ==
    ASSUME NEW q \in Seq(Lines), q # <<>>, NEW se \in [Targets -> Sessions \union {None}], NEW co,
           News(q, se, co), NEW t \in Targets, NEW s \in Sessions, NEW n \in Nat, n >= 1
    PROVE  Shows(Tail(q), SessionsAfter(se, Head(q)), t, n, s) <=> Shows(q, se, t, n + 1, s)
<1> DEFINE m == Head(q)
           se2 == SessionsAfter(se, m)
<1>0. m = q[1] /\ m \in Lines /\ 1 \in DOMAIN q /\ s # None
  BY TailFacts, TabsAssumption DEF Sessions
<1>3. /\ m.kind = "attached" /\ m.target = t => se2[t] = m.session
      /\ m.kind = "detached" /\ m.target = t => se2[t] = IF se[t] \notin {None, m.session} THEN se[t] ELSE None
      /\ ~(m.kind \in {"attached", "detached"} /\ m.target = t) => se2[t] = se[t]
  BY <1>0, SessionAfter
<1>4. /\ Attaches(q, 1, t) <=> m.kind = "attached" /\ m.target = t
      /\ Detaches(q, 1, t, s) <=> m.kind = "detached" /\ m.target = t /\ m.session = s
  BY <1>0 DEF Attaches, Detaches
<1>5. ASSUME NEW i, Attaches(q, i, t), q[i].session = s
      PROVE  se[t] # s /\ (Detaches(q, 1, t, s) => i = 1)
  <2>1. i \in DOMAIN q /\ q[i].kind = "attached" /\ i \in Nat \ {0}
    BY <1>5, Places DEF Attaches
  <2>2. Detaches(q, 1, t, s) => About(q, 1, t, s)
    BY Places
  <2>3. se[t] # s /\ (About(q, 1, t, s) => 1 >= i)
    BY <2>1, <1>5 DEF News
  <2> QED
    BY <2>1, <2>2, <2>3
<1> HIDE DEF m, se2
<1> SUFFICES Shows(Tail(q), se2, t, n, s) <=> Shows(q, se, t, n + 1, s)
  BY DEF m, se2
<1>6. CASE ~(m.kind \in {"attached", "detached"} /\ m.target = t)
  <2>1. ~Attaches(q, 1, t) /\ ~Detaches(q, 1, t, s) /\ se2[t] = se[t]
    BY <1>3, <1>4, <1>6
  <2> QED
    BY <2>1, ReadGone, ReadNewest DEF Shows
<1>7. CASE m.kind = "attached" /\ m.target = t
  <2>1. Attaches(q, 1, t) /\ ~Detaches(q, 1, t, s) /\ se2[t] = q[1].session
    BY <1>0, <1>3, <1>4, <1>7
  <2>2. Newest(Tail(q), se2, t, n, s) <=> Newest(q, se, t, n + 1, s)
    BY <2>1, <1>5, ReadAttached
  <2> QED
    BY <2>1, <2>2, ReadGone DEF Shows
<1>8. CASE m.kind = "detached" /\ m.target = t
  <2>1. ~Attaches(q, 1, t) /\ se2[t] = IF se[t] \notin {None, m.session} THEN se[t] ELSE None
    BY <1>3, <1>4, <1>8
  <2>2. CASE m.session = s
    <3>1. Detaches(q, 1, t, s) /\ se2[t] # s
      BY <2>1, <2>2, <1>0, <1>4, <1>8
    <3>2. ~Shows(q, se, t, n + 1, s)
      BY <3>1 DEF Shows, Gone
    <3>3. \A i : Attaches(Tail(q), i, t) => Tail(q)[i].session # s
      <4>1. ASSUME NEW i, Attaches(Tail(q), i, t), Tail(q)[i].session = s PROVE FALSE
        <5>1. i \in Nat \ {0} /\ Attaches(q, i + 1, t) /\ q[i + 1].session = s
          BY <4>1, Shift
        <5> QED
          BY <5>1, <3>1, <1>5
      <4> QED
        BY <4>1
    <3> QED
      BY <3>1, <3>2, <3>3 DEF Shows, Newest
  <2>3. CASE m.session # s
    <3>1. ~Detaches(q, 1, t, s) /\ (se2[t] = s <=> se[t] = s)
      BY <2>1, <2>3, <1>0, <1>4
    <3>2. Newest(Tail(q), se2, t, n, s) <=> Newest(q, se, t, n + 1, s)
      BY <3>1, <2>1, ReadNewest
    <3> QED
      BY <3>1, <3>2, ReadGone DEF Shows
  <2> QED
    BY <2>2, <2>3
<1> QED
  BY <1>6, <1>7, <1>8

\* What a line does to the contexts, as far as one session goes.
LEMMA ContextAfter ==
    ASSUME NEW se \in [Targets -> Sessions \union {None}], NEW m \in Lines, NEW co, NEW s \in Sessions
    PROVE  /\ m.kind = "context" => (s \in ContextsAfter(se, co, m) <=> s \in co \/ s = m.session)
           /\ m.kind = "cleared" => (s \in ContextsAfter(se, co, m) <=> s \in co /\ s # m.session)
           /\ m.kind = "attached" =>
                 (s \in ContextsAfter(se, co, m) <=> s \in co /\ s # m.session /\ s # se[m.target])
           /\ m.kind = "detached" /\ se[m.target] \notin {None, m.session} =>
                 (s \in ContextsAfter(se, co, m) <=> s \in co)
           /\ m.kind = "detached" /\ se[m.target] \in {None, m.session} =>
                 (s \in ContextsAfter(se, co, m) <=> s \in co /\ s # m.session)
           /\ m.kind = "reply" => (s \in ContextsAfter(se, co, m) <=> s \in co)
BY DEF ContextsAfter

LEMMA FirstTalk ==
    ASSUME NEW q \in Seq(Lines), q # <<>>, NEW se, TalkShown(q, se), NEW t \in Targets, NEW s \in Sessions,
           Talks(q, 1, t, s)
    PROVE  se[t] = s
<1>1. Newest(q, se, t, 1, s)
  BY DEF TalkShown, Shows
<1>2. \A i : Attaches(q, i, t) => ~(i < 1)
  BY Places
<1> QED
  BY <1>1, <1>2 DEF Newest

\* The parts of View, one by one, through the reading of a line.
LEMMA ReadOneTab ==
    ASSUME NEW q \in Seq(Lines), q # <<>>, NEW se \in [Targets -> Sessions \union {None}], NEW pg,
           OneTab(q, se, pg)
    PROVE  OneTab(Tail(q), SessionsAfter(se, Head(q)), pg)
<1> DEFINE m == Head(q)
           se2 == SessionsAfter(se, m)
<1>1. m = q[1] /\ m \in Lines /\ 1 \in DOMAIN q /\ None \notin Sessions
  BY TailFacts, TabsAssumption DEF Sessions
<1>2. ASSUME NEW t \in Targets, NEW s \in Sessions, Holds(Tail(q), se2, pg, t, s)
      PROVE  Holds(q, se, pg, t, s)
  <2>1. CASE se2[t] = s
    <3>1. se[t] = s \/ (m.kind = "attached" /\ m.target = t /\ m.session = s)
      <4>1. CASE m.kind = "attached" /\ m.target = t
        BY <1>1, <2>1, <4>1, SessionAfter
      <4>2. CASE m.kind = "detached" /\ m.target = t
        BY <1>1, <2>1, <4>2, SessionAfter
      <4>3. CASE ~(m.kind \in {"attached", "detached"} /\ m.target = t)
        BY <1>1, <2>1, <4>3, SessionAfter
      <4> QED
        BY <4>1, <4>2, <4>3
    <3>2. m.kind = "attached" /\ m.target = t /\ m.session = s => About(q, 1, t, s)
      BY <1>1 DEF About
    <3> QED
      BY <3>1, <3>2 DEF Holds
  <2>2. CASE \E i : About(Tail(q), i, t, s)
    BY <2>2, Shift DEF Holds
  <2> QED
    BY <1>2, <2>1, <2>2 DEF Holds
<1> QED
  BY <1>2 DEF OneTab

LEMMA ReadNews ==
    ASSUME NEW q \in Seq(Lines), q # <<>>, NEW se \in [Targets -> Sessions \union {None}], NEW co,
           News(q, se, co)
    PROVE  News(Tail(q), SessionsAfter(se, Head(q)), ContextsAfter(se, co, Head(q)))
<1> DEFINE m == Head(q)
           r == Tail(q)
           se2 == SessionsAfter(se, m)
           co2 == ContextsAfter(se, co, m)
<1>1. m = q[1] /\ m \in Lines /\ 1 \in DOMAIN q /\ None \notin Sessions
  BY TailFacts, TabsAssumption DEF Sessions
<1>2. ASSUME NEW i \in DOMAIN r, r[i].kind = "attached"
      PROVE  /\ r[i].session \notin co2
             /\ \A u \in Targets : se2[u] # r[i].session /\ \A j : About(r, j, u, r[i].session) => j >= i
  <2> DEFINE s == r[i].session
  <2>1. i \in Nat \ {0} /\ i + 1 \in DOMAIN q /\ q[i + 1] = r[i] /\ r[i] \in Lines
    BY TailFacts
  <2>2. s \in Sessions
    BY <2>1, <1>2 DEF Lines, EventLine, ReplyLine
  <2>3. s \notin co /\ \A u \in Targets : se[u] # s /\ \A j : About(q, j, u, s) => j >= i + 1
    BY <2>1, <1>2 DEF News
  <2> HIDE DEF s, r
  <2>4. ~(m.kind # "reply" /\ m.session = s)
    <3>1. m.kind # "reply" => m.target \in Targets /\ (m.session = s => About(q, 1, m.target, s))
      BY <1>1 DEF About, Lines, EventLine, ReplyLine
    <3> QED
      BY <3>1, <2>1, <2>3
  <2>5. s \notin co2
    BY <1>1, <2>2, <2>3, <2>4, ContextAfter DEF Lines, EventLine, ReplyLine
  <2>6. ASSUME NEW u \in Targets PROVE se2[u] # s
    <3>1. CASE m.kind = "attached" /\ m.target = u
      BY <1>1, <3>1, <2>4, SessionAfter
    <3>2. CASE m.kind = "detached" /\ m.target = u
      BY <1>1, <3>2, <2>2, <2>3, SessionAfter
    <3>3. CASE ~(m.kind \in {"attached", "detached"} /\ m.target = u)
      BY <1>1, <3>3, <2>3, SessionAfter
    <3> QED
      BY <3>1, <3>2, <3>3
  <2>7. ASSUME NEW u \in Targets, NEW j, About(r, j, u, s) PROVE j >= i
    <3>1. j \in Nat \ {0} /\ j + 1 >= i + 1
      BY <2>7, <2>3, Shift DEF r
    <3> QED
      BY <3>1, <2>1
  <2> QED
    BY <2>5, <2>6, <2>7 DEF s
<1> QED
  BY <1>2 DEF News

LEMMA ReadShown ==
    ASSUME NEW q \in Seq(Lines), q # <<>>, NEW se \in [Targets -> Sessions \union {None}], NEW co, NEW pg,
           News(q, se, co), PagesShown(q, se, pg), TalkShown(q, se)
    PROVE  PagesShown(Tail(q), SessionsAfter(se, Head(q)), pg) /\ TalkShown(Tail(q), SessionsAfter(se, Head(q)))
<1>1. Len(Tail(q)) + 1 = Len(q) /\ Len(q) \in Nat /\ Len(q) >= 1
  BY TailFacts
<1>2. PagesShown(Tail(q), SessionsAfter(se, Head(q)), pg)
  BY <1>1, ReadShows DEF PagesShown
<1>3. ASSUME NEW t \in Targets, NEW s \in Sessions, NEW i, Talks(Tail(q), i, t, s)
      PROVE  Shows(Tail(q), SessionsAfter(se, Head(q)), t, i, s)
  <2>1. i \in Nat \ {0} /\ Talks(q, i + 1, t, s)
    BY <1>3, Shift
  <2>2. Shows(q, se, t, i + 1, s)
    BY <2>1 DEF TalkShown
  <2> QED
    BY <2>1, <2>2, ReadShows
<1> QED
  BY <1>2, <1>3 DEF TalkShown

LEMMA ReadContexts ==
    ASSUME NEW q \in Seq(Lines), q # <<>>, NEW se \in [Targets -> Sessions \union {None}],
           NEW co \in SUBSET Sessions, TalkShown(q, se), ContextsKnown(se, co)
    PROVE  /\ ContextsAfter(se, co, Head(q)) \in SUBSET Sessions
           /\ ContextsKnown(SessionsAfter(se, Head(q)), ContextsAfter(se, co, Head(q)))
<1> DEFINE m == Head(q)
           se2 == SessionsAfter(se, m)
           co2 == ContextsAfter(se, co, m)
<1>1. m = q[1] /\ m \in Lines /\ 1 \in DOMAIN q /\ None \notin Sessions
  BY TailFacts, TabsAssumption DEF Sessions
<1>2. co2 \in SUBSET Sessions
  BY <1>1 DEF ContextsAfter, Lines, EventLine, ReplyLine
<1>3. ASSUME NEW s \in co2 PROVE \E t \in Targets : se2[t] = s
  <2>0. s \in Sessions
    BY <1>2
  <2>1. CASE m.kind \in {"context", "cleared"} /\ m.session = s
    <3>1. m.target \in Targets /\ Talks(q, 1, m.target, s)
      BY <1>1, <2>1 DEF Talks, Lines, EventLine, ReplyLine
    <3>2. se[m.target] = s /\ se2[m.target] = se[m.target]
      BY <1>1, <2>0, <2>1, <3>1, FirstTalk, SessionAfter
    <3> QED
      BY <3>1, <3>2
  <2>2. CASE ~(m.kind \in {"context", "cleared"} /\ m.session = s)
    <3>1. s \in co
      BY <2>0, <1>1, <2>2, ContextAfter DEF Lines, EventLine, ReplyLine
    <3>2. PICK t \in Targets : se[t] = s
      BY <3>1 DEF ContextsKnown
    <3>3. CASE m.kind = "attached"
      <4>1. s # se[m.target]
        BY <1>1, <2>0, <3>3, ContextAfter
      <4> QED
        BY <1>1, <3>2, <3>3, <4>1, SessionAfter
    <3>4. CASE m.kind = "detached"
      <4>1. se[m.target] \in {None, m.session} => s # m.session
        BY <1>1, <2>0, <3>4, ContextAfter
      <4>2. m.target = t => se2[t] = s
        BY <1>1, <3>2, <3>4, <4>1, <2>0, SessionAfter
      <4>3. m.target # t => se2[t] = s
        BY <1>1, <3>2, <3>4, SessionAfter
      <4> QED
        BY <4>2, <4>3
    <3>5. CASE m.kind \notin {"attached", "detached"}
      BY <1>1, <3>2, <3>5, SessionAfter
    <3> QED
      BY <3>3, <3>4, <3>5
  <2> QED
    BY <2>1, <2>2
<1> QED
  BY <1>2, <1>3 DEF ContextsKnown

\* A line about another session, or one that ends this one, does not count.
LEMMA ReadHears ==
    ASSUME NEW q \in Seq(Lines), q # <<>>, NEW t, NEW s, NEW co, NEW co2,
           Talks(q, 1, t, s) => (s \in co2 <=> q[1].kind = "context"),
           ~Talks(q, 1, t, s) => (s \in co2 <=> s \in co)
    PROVE  Hears(Tail(q), co2, t, s) <=> Hears(q, co, t, s)
<1> DEFINE r == Tail(q)
<1>1. \A i : Talks(r, i, t, s) => i \in Nat \ {0} /\ Talks(q, i + 1, t, s) /\ q[i + 1] = r[i]
  BY Shift
<1>2. \A i : Talks(q, i, t, s) => i \in Nat \ {0}
  BY Places
<1>3. \A i : Talks(q, i, t, s) /\ i # 1 =>
         i - 1 \in Nat \ {0} /\ Talks(r, i - 1, t, s) /\ r[i - 1] = q[i]
  <2>1. \A i \in DOMAIN q : i # 1 => i - 1 \in Nat \ {0} /\ i - 1 \in DOMAIN r /\ r[i - 1] = q[i]
    BY TailFacts
  <2> HIDE DEF r
  <2> QED
    BY <2>1 DEF Talks
<1> HIDE DEF r
<1> SUFFICES Hears(r, co2, t, s) <=> Hears(q, co, t, s)
  BY DEF r
<1>4. ASSUME NEW i, Talks(r, i, t, s), r[i].kind = "context", \A j : Talks(r, j, t, s) => j <= i
      PROVE  Hears(q, co, t, s)
  <2>1. i \in Nat \ {0} /\ Talks(q, i + 1, t, s) /\ q[i + 1].kind = "context"
    BY <1>1, <1>4
  <2>2. ASSUME NEW j, Talks(q, j, t, s) PROVE j <= i + 1
    <3>1. j \in Nat \ {0} /\ (j # 1 => j - 1 <= i)
      BY <2>2, <1>2, <1>3, <1>4
    <3> QED
      BY <3>1, <2>1
  <2> QED
    BY <2>1, <2>2 DEF Hears
<1>5. ASSUME s \in co2, \A i : ~Talks(r, i, t, s) PROVE Hears(q, co, t, s)
  <2>1. \A j : Talks(q, j, t, s) => j = 1
    BY <1>3, <1>5
  <2> QED
    BY <2>1, <1>5 DEF Hears
<1>6. ASSUME NEW i, Talks(q, i, t, s), q[i].kind = "context", \A j : Talks(q, j, t, s) => j <= i
      PROVE  Hears(r, co2, t, s)
  <2>1. CASE i = 1
    <3>1. ASSUME NEW j, Talks(r, j, t, s) PROVE FALSE
      <4>1. j \in Nat \ {0} /\ j + 1 <= 1
        BY <3>1, <1>1, <1>6, <2>1
      <4> QED
        BY <4>1
    <3>2. s \in co2
      BY <1>6, <2>1
    <3> QED
      BY <3>1, <3>2 DEF Hears
  <2>2. CASE i # 1
    <3>1. i \in Nat /\ i - 1 \in Nat \ {0} /\ Talks(r, i - 1, t, s) /\ r[i - 1].kind = "context"
      BY <1>2, <1>3, <1>6, <2>2
    <3>2. ASSUME NEW j, Talks(r, j, t, s) PROVE j <= i - 1
      <4>1. j \in Nat \ {0} /\ j + 1 <= i
        BY <3>2, <1>1, <1>6
      <4> QED
        BY <4>1, <3>1
    <3> QED
      BY <3>1, <3>2 DEF Hears
  <2> QED
    BY <2>1, <2>2
<1>7. ASSUME s \in co, \A i : ~Talks(q, i, t, s) PROVE Hears(r, co2, t, s)
  <2>1. \A i : ~Talks(r, i, t, s)
    BY <1>1, <1>7
  <2> QED
    BY <2>1, <1>7 DEF Hears
<1> QED
  BY <1>4, <1>5, <1>6, <1>7 DEF Hears

LEMMA ReadView ==
    ASSUME NEW q \in Seq(Lines), q # <<>>, NEW se \in [Targets -> Sessions \union {None}],
           NEW co \in SUBSET Sessions, NEW pg \in [Targets -> Sessions \union {None}], NEW wo,
           View(q, se, co, pg, wo)
    PROVE  View(Tail(q), SessionsAfter(se, Head(q)), ContextsAfter(se, co, Head(q)), pg, wo)
<1> DEFINE m == Head(q)
           se2 == SessionsAfter(se, m)
           co2 == ContextsAfter(se, co, m)
<1>1. m = q[1] /\ m \in Lines /\ 1 \in DOMAIN q /\ None \notin Sessions
  BY TailFacts, TabsAssumption DEF Sessions
<1>2. OneTab(Tail(q), se2, pg) /\ News(Tail(q), se2, co2)
  BY ReadOneTab, ReadNews DEF View
<1>3. PagesShown(Tail(q), se2, pg) /\ TalkShown(Tail(q), se2)
  BY ReadShown DEF View
<1>4. ContextsKnown(se2, co2)
  BY ReadContexts DEF View
<1>5. ASSUME NEW t \in Targets, NEW s \in Sessions, pg[t] = s
      PROVE  s \in wo <=> Hears(Tail(q), co2, t, s)
  <2>1. s \in wo <=> Hears(q, co, t, s)
    BY <1>5 DEF View, WorldsHeard
  <2>2. Shows(q, se, t, Len(q) + 1, s)
    BY <1>5 DEF View, PagesShown
  <2>3. \A u \in Targets : se[u] = s \/ About(q, 1, u, s) => u = t
    BY <1>5 DEF View, OneTab, Holds
  <2>4. Talks(q, 1, t, s) => (s \in co2 <=> q[1].kind = "context")
    BY <1>1, ContextAfter DEF Talks
  <2>5. ASSUME ~Talks(q, 1, t, s) PROVE s \in co2 <=> s \in co
    <3>1. m.kind # "reply" => m.target \in Targets /\ (m.session = s => About(q, 1, m.target, s))
      BY <1>1 DEF About, Lines, EventLine, ReplyLine
    <3>2. CASE m.kind \in {"context", "cleared"}
      <4>1. m.session # s
        BY <1>1, <2>3, <2>5, <3>1, <3>2 DEF Talks
      <4> QED
        BY <1>1, <3>2, <4>1, ContextAfter
    <3>3. CASE m.kind = "detached"
      <4>1. m.session # s
        <5>1. m.session = s => Detaches(q, 1, t, s) /\ 1 < Len(q) + 1
          BY <1>1, <2>3, <3>1, <3>3, TailFacts DEF Detaches
        <5> QED
          BY <5>1, <2>2 DEF Shows, Gone
      <4> QED
        BY <1>1, <3>3, <4>1, ContextAfter
    <3>4. CASE m.kind = "attached"
      <4>1. m.session = s => s \notin co
        BY <1>1, <3>4 DEF View, News
      <4>2. se[m.target] # s
        <5> SUFFICES ASSUME se[m.target] = s PROVE FALSE
          OBVIOUS
        <5>1. Attaches(q, 1, t) /\ se[t] = s
          BY <1>1, <2>3, <3>1, <3>4 DEF Attaches
        <5>2. PICK i : Attaches(q, i, t) /\ q[i].session = s
          BY <5>1, <2>2, TailFacts DEF Shows, Newest
        <5>3. i \in DOMAIN q /\ q[i].kind = "attached"
          BY <5>2 DEF Attaches
        <5> QED
          BY <5>1, <5>2, <5>3 DEF View, News
      <4> QED
        BY <1>1, <3>4, <4>1, <4>2, ContextAfter
    <3>5. CASE m.kind = "reply"
      BY <1>1, <3>5, ContextAfter
    <3> QED
      BY <1>1, <3>2, <3>3, <3>4, <3>5 DEF Lines, EventLine, ReplyLine
  <2> HIDE DEF co2
  <2>6. Hears(Tail(q), co2, t, s) <=> Hears(q, co, t, s)
    BY <2>4, <2>5, ReadHears
  <2> QED
    BY <2>1, <2>6
<1>6. WorldsHeard(Tail(q), co2, pg, wo)
  BY <1>5 DEF WorldsHeard
<1> QED
  BY <1>2, <1>3, <1>4, <1>6 DEF View

-----------------------------------------------------------------------------
(* Writing a line                                                          *)

LEMMA AppendFacts ==
    ASSUME NEW q \in Seq(Lines), NEW m \in Lines
    PROVE  /\ Append(q, m) \in Seq(Lines) /\ Len(Append(q, m)) = Len(q) + 1 /\ Len(q) \in Nat
           /\ DOMAIN q = 1 .. Len(q) /\ DOMAIN Append(q, m) = 1 .. Len(q) + 1
           /\ \A i \in 1 .. Len(q) : Append(q, m)[i] = q[i]
           /\ Append(q, m)[Len(q) + 1] = m
OBVIOUS

LEMMA AppendPlaces ==
    ASSUME NEW q \in Seq(Lines), NEW m \in Lines, NEW t, NEW s
    PROVE  /\ \A i : Attaches(Append(q, m), i, t) <=>
                 Attaches(q, i, t) \/ (i = Len(q) + 1 /\ m.kind = "attached" /\ m.target = t)
           /\ \A i : Detaches(Append(q, m), i, t, s) <=>
                 \/ Detaches(q, i, t, s)
                 \/ i = Len(q) + 1 /\ m.kind = "detached" /\ m.target = t /\ m.session = s
           /\ \A i : Talks(Append(q, m), i, t, s) <=>
                 \/ Talks(q, i, t, s)
                 \/ i = Len(q) + 1 /\ m.kind \in {"context", "cleared"} /\ m.target = t /\ m.session = s
           /\ \A i : About(Append(q, m), i, t, s) <=>
                 \/ About(q, i, t, s)
                 \/ i = Len(q) + 1 /\ m.kind # "reply" /\ m.target = t /\ m.session = s
<1> DEFINE r == Append(q, m)
           n == Len(q)
<1>1. n \in Nat /\ DOMAIN q = 1 .. n /\ DOMAIN r = 1 .. n + 1 /\ r[n + 1] = m
      /\ \A i \in 1 .. n : r[i] = q[i]
  BY AppendFacts
<1> HIDE DEF r, n
<1>2. \A i : (i \in DOMAIN r <=> i \in DOMAIN q \/ i = n + 1) /\ (i \in DOMAIN q => r[i] = q[i])
      /\ n + 1 \notin DOMAIN q
  BY <1>1
<1>3. \A i : Attaches(r, i, t) <=> Attaches(q, i, t) \/ (i = n + 1 /\ m.kind = "attached" /\ m.target = t)
  BY <1>1, <1>2 DEF Attaches
<1>4. \A i : Detaches(r, i, t, s) <=>
         Detaches(q, i, t, s) \/ (i = n + 1 /\ m.kind = "detached" /\ m.target = t /\ m.session = s)
  BY <1>1, <1>2 DEF Detaches
<1>5. \A i : Talks(r, i, t, s) <=>
         Talks(q, i, t, s) \/ (i = n + 1 /\ m.kind \in {"context", "cleared"} /\ m.target = t /\ m.session = s)
  BY <1>1, <1>2 DEF Talks
<1>6. \A i : About(r, i, t, s) <=>
         About(q, i, t, s) \/ (i = n + 1 /\ m.kind # "reply" /\ m.target = t /\ m.session = s)
  BY <1>1, <1>2 DEF About
<1> QED
  BY <1>3, <1>4, <1>5, <1>6 DEF r, n

\* What is shown before a place does not depend on what is written after it.
LEMMA AppendShows ==
    ASSUME NEW q \in Seq(Lines), NEW m \in Lines, NEW se, NEW t, NEW s, NEW n \in Nat, n <= Len(q) + 1
    PROVE  Shows(Append(q, m), se, t, n, s) <=> Shows(q, se, t, n, s)
<1> DEFINE r == Append(q, m)
           k == Len(q) + 1
<1>1. k \in Nat /\ n <= k /\ \A i : Attaches(q, i, t) => i \in DOMAIN q /\ r[i] = q[i] /\ i \in Nat
  BY AppendFacts, Places DEF Attaches
<1>2. \A i : Attaches(r, i, t) => Attaches(q, i, t) \/ i = k
  BY AppendPlaces
<1>3. \A i : Attaches(q, i, t) => Attaches(r, i, t)
  BY AppendPlaces
<1>4. \A i : Detaches(r, i, t, s) => Detaches(q, i, t, s) \/ i = k
  BY AppendPlaces
<1>5. \A i : Detaches(q, i, t, s) => Detaches(r, i, t, s)
  BY AppendPlaces
<1> HIDE DEF r, k
<1>6. Gone(r, t, n, s) <=> Gone(q, t, n, s)
  BY <1>1, <1>4, <1>5 DEF Gone
<1>7. Newest(q, se, t, n, s) => Newest(r, se, t, n, s)
  BY <1>1, <1>2, <1>3 DEF Newest
<1>8. Newest(r, se, t, n, s) => Newest(q, se, t, n, s)
  <2>1. ASSUME NEW i, Attaches(r, i, t), i < n, r[i].session = s,
               \A j : Attaches(r, j, t) /\ j < n => j <= i
        PROVE  Newest(q, se, t, n, s)
    <3>1. Attaches(q, i, t) /\ q[i].session = s
      BY <2>1, <1>1, <1>2
    <3>2. \A j : Attaches(q, j, t) /\ j < n => j <= i
      BY <2>1, <1>3
    <3> QED
      BY <2>1, <3>1, <3>2 DEF Newest
  <2>2. (\A i : Attaches(r, i, t) => i >= n) => \A i : Attaches(q, i, t) => i >= n
    BY <1>3
  <2> QED
    BY <2>1, <2>2 DEF Newest
<1> QED
  BY <1>6, <1>7, <1>8 DEF Shows, r

\* What is shown when the new line is read, too.
LEMMA AppendedShows ==
    ASSUME NEW q \in Seq(Lines), NEW m \in Lines, NEW se, NEW t, NEW s
    PROVE  LET all == Len(Append(q, m)) + 1
               about(kind) == m.kind = kind /\ m.target = t
           IN  /\ about("attached") =>
                     (Shows(Append(q, m), se, t, all, s) <=> s = m.session /\ ~Gone(q, t, Len(q) + 1, s))
               /\ about("detached") =>
                     (Shows(Append(q, m), se, t, all, s) <=> Shows(q, se, t, Len(q) + 1, s) /\ s # m.session)
               /\ ~about("attached") /\ ~about("detached") =>
                     (Shows(Append(q, m), se, t, all, s) <=> Shows(q, se, t, Len(q) + 1, s))
<1> DEFINE r == Append(q, m)
           n == Len(q)
           att == m.kind = "attached" /\ m.target = t
           det == m.kind = "detached" /\ m.target = t
<1>1. n \in Nat /\ Len(r) + 1 = n + 2 /\ r[n + 1] = m
  BY AppendFacts
<1>2. \A i : Attaches(q, i, t) => i \in Nat /\ i <= n /\ i \in DOMAIN q /\ r[i] = q[i]
  BY AppendFacts, Places DEF Attaches
<1>3. \A i : Attaches(r, i, t) <=> Attaches(q, i, t) \/ (i = n + 1 /\ att)
  BY AppendPlaces
<1>4. \A i : Detaches(r, i, t, s) <=> Detaches(q, i, t, s) \/ (i = n + 1 /\ det /\ m.session = s)
  BY AppendPlaces
<1>5. \A i : Detaches(q, i, t, s) => i \in Nat /\ i <= n
  BY Places
<1>6. ~(att /\ det)
  OBVIOUS
<1> HIDE DEF r, n, att, det
<1>7. Gone(r, t, n + 2, s) <=> Gone(q, t, n + 1, s) \/ (det /\ m.session = s)
  <2>1. Gone(r, t, n + 2, s) => Gone(q, t, n + 1, s) \/ (det /\ m.session = s)
    BY <1>1, <1>4, <1>5 DEF Gone
  <2>2. Gone(q, t, n + 1, s) => Gone(r, t, n + 2, s)
    BY <1>1, <1>4, <1>5 DEF Gone
  <2>3. ASSUME det, m.session = s PROVE Gone(r, t, n + 2, s)
    <3>1. Detaches(r, n + 1, t, s) /\ n + 1 < n + 2
      BY <1>1, <1>4, <2>3
    <3> QED
      BY <3>1 DEF Gone
  <2> QED
    BY <2>1, <2>2, <2>3
<1>8. att => (Newest(r, se, t, n + 2, s) <=> s = m.session)
  <2> SUFFICES ASSUME att PROVE Newest(r, se, t, n + 2, s) <=> s = m.session
    OBVIOUS
  <2>1. Attaches(r, n + 1, t) /\ ~(n + 1 >= n + 2) /\ n + 1 < n + 2
    BY <1>1, <1>3
  <2>2. \A i : Attaches(r, i, t) => i <= n + 1 /\ i \in Nat
    BY <1>1, <1>2, <1>3
  <2>3. ASSUME Newest(r, se, t, n + 2, s) PROVE s = m.session
    <3>1. PICK i : /\ Attaches(r, i, t) /\ r[i].session = s
                   /\ \A j : Attaches(r, j, t) /\ j < n + 2 => j <= i
      BY <2>1, <2>3 DEF Newest
    <3>2. i = n + 1
      BY <1>1, <2>1, <2>2, <3>1
    <3> QED
      BY <1>1, <3>1, <3>2
  <2>4. ASSUME s = m.session PROVE Newest(r, se, t, n + 2, s)
    BY <1>1, <2>1, <2>2, <2>4 DEF Newest
  <2> QED
    BY <2>3, <2>4
<1>9. ~att => (Newest(r, se, t, n + 2, s) <=> Newest(q, se, t, n + 1, s))
  <2> SUFFICES ASSUME ~att PROVE Newest(r, se, t, n + 2, s) <=> Newest(q, se, t, n + 1, s)
    OBVIOUS
  <2>1. \A i : Attaches(r, i, t) <=> Attaches(q, i, t)
    BY <1>3
  <2>2. \A i : Attaches(q, i, t) => i < n + 1 /\ i < n + 2 /\ ~(i >= n + 1) /\ ~(i >= n + 2)
    BY <1>1, <1>2
  <2>3. \A i : Attaches(q, i, t) => r[i] = q[i]
    BY <1>2
  <2> QED
    BY <2>1, <2>2, <2>3 DEF Newest
<1>10. /\ att => (Shows(r, se, t, n + 2, s) <=> s = m.session /\ ~Gone(q, t, n + 1, s))
       /\ det => (Shows(r, se, t, n + 2, s) <=> Shows(q, se, t, n + 1, s) /\ s # m.session)
       /\ ~att /\ ~det => (Shows(r, se, t, n + 2, s) <=> Shows(q, se, t, n + 1, s))
  BY <1>6, <1>7, <1>8, <1>9 DEF Shows
<1>11. Len(Append(q, m)) + 1 = n + 2
  BY <1>1 DEF r
<1> QED
  BY <1>10, <1>11 DEF att, det, r, n

\* What is shown was announced.
LEMMA ShownIsHeld ==
    ASSUME NEW q \in Seq(Lines), NEW se, NEW t, NEW s, NEW n, Shows(q, se, t, n, s)
    PROVE  se[t] = s \/ \E i : About(q, i, t, s)
<1>1. \A i : Attaches(q, i, t) /\ q[i].session = s => About(q, i, t, s)
  BY DEF Attaches, About
<1> QED
  BY <1>1 DEF Shows, Newest

LEMMA AppendHears ==
    ASSUME NEW q \in Seq(Lines), NEW m \in Lines, NEW co, NEW t, NEW s
    PROVE  LET about == m.kind \in {"context", "cleared"} /\ m.target = t /\ m.session = s
           IN  /\ about => (Hears(Append(q, m), co, t, s) <=> m.kind = "context")
               /\ ~about => (Hears(Append(q, m), co, t, s) <=> Hears(q, co, t, s))
<1> DEFINE r == Append(q, m)
           n == Len(q)
           about == m.kind \in {"context", "cleared"} /\ m.target = t /\ m.session = s
<1>1. n \in Nat /\ r[n + 1] = m
  BY AppendFacts
<1>2. \A i : Talks(q, i, t, s) => i \in Nat /\ i <= n /\ i \in DOMAIN q /\ r[i] = q[i]
  BY AppendFacts, Places DEF Talks
<1>3. \A i : Talks(r, i, t, s) <=> Talks(q, i, t, s) \/ (i = n + 1 /\ about)
  BY AppendPlaces
<1> HIDE DEF r, n, about
<1>4. ASSUME about PROVE Hears(r, co, t, s) <=> m.kind = "context"
  <2>1. Talks(r, n + 1, t, s) /\ \A i : Talks(r, i, t, s) => i <= n + 1 /\ i \in Nat
    BY <1>1, <1>2, <1>3, <1>4
  <2>2. \A i : Talks(r, i, t, s) /\ (\A j : Talks(r, j, t, s) => j <= i) => i = n + 1
    BY <2>1, <1>1
  <2>3. Hears(r, co, t, s) => m.kind = "context"
    BY <2>1, <2>2, <1>1 DEF Hears
  <2>4. m.kind = "context" => Hears(r, co, t, s)
    BY <2>1, <1>1 DEF Hears
  <2> QED
    BY <2>3, <2>4
<1>5. ASSUME ~about PROVE Hears(r, co, t, s) <=> Hears(q, co, t, s)
  <2>1. \A i : (Talks(r, i, t, s) <=> Talks(q, i, t, s)) /\ (Talks(q, i, t, s) => r[i] = q[i])
    BY <1>2, <1>3, <1>5
  <2> QED
    BY <2>1 DEF Hears
<1> QED
  BY <1>4, <1>5 DEF r, about

\* The parts of View that depend on the lines, the sessions and the contexts alone.
LEMMA AppendNews ==
    ASSUME NEW q \in Seq(Lines), NEW m \in Lines, NEW se, NEW co, News(q, se, co),
           m.kind = "attached" =>
              /\ m.session \notin co
              /\ \A u \in Targets : se[u] # m.session /\ \A j : ~About(q, j, u, m.session)
    PROVE  News(Append(q, m), se, co)
<1> DEFINE r == Append(q, m)
           n == Len(q)
<1>1. n \in Nat /\ r[n + 1] = m /\ DOMAIN q = 1 .. n /\ DOMAIN r = 1 .. n + 1 /\ \A i \in 1 .. n : r[i] = q[i]
  BY AppendFacts
<1>2. \A u, s, j : About(r, j, u, s) <=>
         About(q, j, u, s) \/ (j = n + 1 /\ m.kind # "reply" /\ m.target = u /\ m.session = s)
  BY AppendPlaces
<1> HIDE DEF r, n
<1>3. ASSUME NEW i \in DOMAIN r, r[i].kind = "attached"
      PROVE  /\ r[i].session \notin co
             /\ \A u \in Targets : se[u] # r[i].session /\ \A j : About(r, j, u, r[i].session) => j >= i
  <2>1. CASE i \in DOMAIN q
    <3>1. r[i] = q[i] /\ i \in Nat /\ n + 1 >= i
      BY <1>1, <2>1
    <3>2. /\ r[i].session \notin co
          /\ \A u \in Targets : se[u] # r[i].session /\ \A j : About(q, j, u, r[i].session) => j >= i
      BY <1>3, <2>1, <3>1 DEF News
    <3> QED
      BY <1>2, <3>1, <3>2
  <2>2. CASE i = n + 1
    <3>1. r[i] = m /\ n + 1 >= i
      BY <1>1, <2>2
    <3> QED
      BY <1>2, <1>3, <2>2, <3>1
  <2> QED
    BY <1>1, <2>1, <2>2
<1> QED
  BY <1>3 DEF News, r

LEMMA AppendTalkShown ==
    ASSUME NEW q \in Seq(Lines), NEW m \in Lines, NEW se, TalkShown(q, se),
           m.kind \in {"context", "cleared"} => Shows(q, se, m.target, Len(q) + 1, m.session)
    PROVE  TalkShown(Append(q, m), se)
<1>1. ASSUME NEW t \in Targets, NEW s \in Sessions, NEW i, Talks(Append(q, m), i, t, s)
      PROVE  Shows(Append(q, m), se, t, i, s)
  <2>1. \/ Talks(q, i, t, s)
        \/ i = Len(q) + 1 /\ m.kind \in {"context", "cleared"} /\ m.target = t /\ m.session = s
    BY <1>1, AppendPlaces
  <2>2. Shows(q, se, t, i, s)
    BY <2>1 DEF TalkShown
  <2>3. i \in Nat /\ i <= Len(q) + 1
    <3>1. Talks(q, i, t, s) => i \in Nat /\ i <= Len(q)
      BY Places
    <3>2. Len(q) \in Nat
      BY AppendFacts
    <3> QED
      BY <2>1, <3>1, <3>2
  <2> QED
    BY <2>2, <2>3, AppendShows
<1> QED
  BY <1>1 DEF TalkShown

\* A reply says nothing of tabs.
LEMMA WriteReply ==
    ASSUME NEW q \in Seq(Lines), NEW m \in Lines, NEW se, NEW co, NEW pg, NEW wo,
           View(q, se, co, pg, wo), m.kind = "reply"
    PROVE  View(Append(q, m), se, co, pg, wo)
<1>1. OneTab(Append(q, m), se, pg)
  <2>1. \A t, s : Holds(Append(q, m), se, pg, t, s) => Holds(q, se, pg, t, s)
    BY AppendPlaces DEF Holds
  <2> QED
    BY <2>1 DEF View, OneTab
<1>2. News(Append(q, m), se, co) /\ TalkShown(Append(q, m), se)
  BY AppendNews, AppendTalkShown DEF View
<1>3. PagesShown(Append(q, m), se, pg)
  BY AppendedShows DEF View, PagesShown
<1>4. WorldsHeard(Append(q, m), co, pg, wo)
  BY AppendHears DEF View, WorldsHeard
<1> QED
  BY <1>1, <1>2, <1>3, <1>4 DEF View

\* A context of a tab that is shown, or its end.
LEMMA WriteTalk ==
    ASSUME NEW q \in Seq(Lines), NEW m \in Lines, NEW se, NEW co, NEW pg, NEW wo,
           View(q, se, co, pg, wo), m.kind \in {"context", "cleared"}, pg[m.target] = m.session
    PROVE  View(Append(q, m), se, co, pg,
                IF m.kind = "context" THEN wo \union {m.session} ELSE wo \ {m.session})
<1> DEFINE wo2 == IF m.kind = "context" THEN wo \union {m.session} ELSE wo \ {m.session}
<1>0. m.target \in Targets /\ m.session \in Sessions
  BY DEF Lines, EventLine, ReplyLine
<1>1. OneTab(Append(q, m), se, pg)
  <2>1. ASSUME NEW t, NEW s, Holds(Append(q, m), se, pg, t, s) PROVE Holds(q, se, pg, t, s)
    <3>1. \A i : About(Append(q, m), i, t, s) => About(q, i, t, s) \/ (m.target = t /\ m.session = s)
      BY AppendPlaces
    <3> QED
      BY <2>1, <3>1 DEF Holds
  <2> QED
    BY <2>1 DEF View, OneTab
<1>2. News(Append(q, m), se, co) /\ TalkShown(Append(q, m), se)
  <2>1. Shows(q, se, m.target, Len(q) + 1, m.session)
    BY <1>0 DEF View, PagesShown
  <2> QED
    BY <2>1, AppendNews, AppendTalkShown DEF View
<1>3. PagesShown(Append(q, m), se, pg)
  BY AppendedShows DEF View, PagesShown
<1>4. ASSUME NEW t \in Targets, NEW s \in Sessions, pg[t] = s
      PROVE  s \in wo2 <=> Hears(Append(q, m), co, t, s)
  <2>1. s \in wo <=> Hears(q, co, t, s)
    BY <1>4 DEF View, WorldsHeard
  <2>2. CASE s = m.session
    <3>1. t = m.target
      BY <1>0, <1>4, <2>2 DEF View, OneTab, Holds
    <3>2. Hears(Append(q, m), co, t, s) <=> m.kind = "context"
      BY <2>2, <3>1, AppendHears
    <3> QED
      BY <2>2, <3>2
  <2>3. CASE s # m.session
    <3>1. Hears(Append(q, m), co, t, s) <=> Hears(q, co, t, s)
      BY <2>3, AppendHears
    <3> QED
      BY <2>1, <2>3, <3>1
  <2> QED
    BY <2>2, <2>3
<1>5. WorldsLive(pg, wo2)
  BY <1>0 DEF View, WorldsLive
<1> HIDE DEF wo2
<1>6. View(Append(q, m), se, co, pg, wo2)
  BY <1>1, <1>2, <1>3, <1>4, <1>5 DEF View, WorldsHeard
<1> QED
  BY <1>6 DEF wo2

\* A new session of a tab.
LEMMA WriteAttached ==
    ASSUME NEW q \in Seq(Lines), NEW m \in Lines, NEW se, NEW co,
           NEW pg \in [Targets -> Sessions \union {None}], NEW wo,
           View(q, se, co, pg, wo), m.kind = "attached", m.session \notin co,
           \A u \in Targets : ~Holds(q, se, pg, u, m.session)
    PROVE  View(Append(q, m), se, co, [pg EXCEPT ![m.target] = m.session], wo \ {pg[m.target]})
<1> DEFINE t0 == m.target
           s0 == m.session
           pg2 == [pg EXCEPT ![t0] = s0]
           wo2 == wo \ {pg[t0]}
<1>0. t0 \in Targets /\ s0 \in Sessions
  BY DEF Lines, EventLine, ReplyLine
<1>1. pg2[t0] = s0 /\ \A t \in Targets \ {t0} : pg2[t] = pg[t]
  BY <1>0
<1>2. \A u \in Targets : se[u] # s0 /\ pg[u] # s0 /\ \A i : ~About(q, i, u, s0)
  BY DEF Holds
<1>3. OneTab(Append(q, m), se, pg2)
  <2>1. ASSUME NEW t \in Targets, NEW s \in Sessions, Holds(Append(q, m), se, pg2, t, s)
        PROVE  Holds(q, se, pg, t, s) \/ (t = t0 /\ s = s0)
    <3>1. \A i : About(Append(q, m), i, t, s) => About(q, i, t, s) \/ (t = t0 /\ s = s0)
      BY AppendPlaces
    <3>2. pg2[t] = s => pg[t] = s \/ (t = t0 /\ s = s0)
      BY <1>1
    <3> QED
      BY <2>1, <3>1, <3>2 DEF Holds
  <2> QED
    BY <1>0, <2>1 DEF View, OneTab
<1>4. News(Append(q, m), se, co) /\ TalkShown(Append(q, m), se)
  BY <1>2, AppendNews, AppendTalkShown DEF View
<1>5. ~Gone(q, t0, Len(q) + 1, s0)
  BY <1>0, <1>2, Places DEF Gone
<1>6. ASSUME NEW t \in Targets, NEW s \in Sessions
      PROVE  pg2[t] = s <=> Shows(Append(q, m), se, t, Len(Append(q, m)) + 1, s)
  <2>1. CASE t = t0
    <3>1. Shows(Append(q, m), se, t, Len(Append(q, m)) + 1, s) <=> s = s0
      BY <1>5, <2>1, AppendedShows
    <3> QED
      BY <1>1, <2>1, <3>1
  <2>2. CASE t # t0
    <3>1. Shows(Append(q, m), se, t, Len(Append(q, m)) + 1, s) <=> Shows(q, se, t, Len(q) + 1, s)
      BY <2>2, AppendedShows
    <3> QED
      BY <1>1, <2>2, <3>1 DEF View, PagesShown
  <2> QED
    BY <2>1, <2>2
<1>7. ASSUME NEW t \in Targets, NEW s \in Sessions, pg2[t] = s
      PROVE  s \in wo2 <=> Hears(Append(q, m), co, t, s)
  <2>1. Hears(Append(q, m), co, t, s) <=> Hears(q, co, t, s)
    BY AppendHears
  <2>2. CASE t = t0
    <3>1. s = s0 /\ s \notin wo
      BY <1>1, <1>2, <1>7, <2>2 DEF View, WorldsLive
    <3>2. ~Hears(q, co, t, s)
      BY <1>0, <1>2, <2>2, <3>1, Places DEF Hears
    <3> QED
      BY <2>1, <3>1, <3>2
  <2>3. CASE t # t0
    <3>1. pg[t] = s /\ s # pg[t0]
      BY <1>0, <1>1, <1>7, <2>3 DEF View, OneTab, Holds
    <3> QED
      BY <2>1, <3>1 DEF View, WorldsHeard
  <2> QED
    BY <2>2, <2>3
<1>8. WorldsLive(pg2, wo2)
  <2>1. ASSUME NEW s \in wo2 PROVE \E t \in Targets : pg2[t] = s
    <3>1. PICK t \in Targets : pg[t] = s
      BY DEF View, WorldsLive
    <3> QED
      BY <1>1, <3>1
  <2> QED
    BY <2>1 DEF WorldsLive
<1> HIDE DEF pg2, wo2
<1>9. View(Append(q, m), se, co, pg2, wo2)
  BY <1>3, <1>4, <1>6, <1>7, <1>8 DEF View, PagesShown, WorldsHeard
<1> QED
  BY <1>9 DEF pg2, wo2, t0, s0

\* The end of a session, whether its tab still has it or not.
LEMMA WriteDetached ==
    ASSUME NEW q \in Seq(Lines), NEW m \in Lines, NEW se, NEW co,
           NEW pg \in [Targets -> Sessions \union {None}], NEW wo,
           View(q, se, co, pg, wo), m.kind = "detached", Holds(q, se, pg, m.target, m.session)
    PROVE  View(Append(q, m), se, co,
                [pg EXCEPT ![m.target] = IF pg[m.target] = m.session THEN None ELSE pg[m.target]],
                wo \ {m.session})
<1> DEFINE t0 == m.target
           s0 == m.session
           left == IF pg[t0] = s0 THEN None ELSE pg[t0]
           pg2 == [pg EXCEPT ![t0] = left]
           wo2 == wo \ {s0}
<1>0. t0 \in Targets /\ s0 \in Sessions /\ None \notin Sessions
  BY TabsAssumption DEF Lines, EventLine, ReplyLine, Sessions
<1>1. pg2[t0] = left /\ \A t \in Targets \ {t0} : pg2[t] = pg[t]
  BY <1>0
<1>2. \A t \in Targets : pg[t] = s0 => t = t0
  BY <1>0 DEF View, OneTab, Holds
<1>3. \A t \in Targets, s \in Sessions : pg2[t] = s <=> pg[t] = s /\ s # s0
  BY <1>0, <1>1, <1>2
<1> HIDE DEF pg2, wo2
<1>4. OneTab(Append(q, m), se, pg2)
  <2>1. ASSUME NEW t \in Targets, NEW s \in Sessions, Holds(Append(q, m), se, pg2, t, s)
        PROVE  Holds(q, se, pg, t, s)
    <3>1. \A i : About(Append(q, m), i, t, s) => About(q, i, t, s) \/ (t = t0 /\ s = s0)
      BY AppendPlaces
    <3> QED
      BY <1>3, <2>1, <3>1 DEF Holds
  <2> QED
    BY <2>1 DEF View, OneTab
<1>5. News(Append(q, m), se, co) /\ TalkShown(Append(q, m), se)
  BY AppendNews, AppendTalkShown DEF View
<1>6. ASSUME NEW t \in Targets, NEW s \in Sessions
      PROVE  pg2[t] = s <=> Shows(Append(q, m), se, t, Len(Append(q, m)) + 1, s)
  <2>1. pg[t] = s <=> Shows(q, se, t, Len(q) + 1, s)
    BY DEF View, PagesShown
  <2>2. CASE t = t0
    <3>1. Shows(Append(q, m), se, t, Len(Append(q, m)) + 1, s) <=> Shows(q, se, t, Len(q) + 1, s) /\ s # s0
      BY <2>2, AppendedShows
    <3> QED
      BY <1>3, <2>1, <3>1
  <2>3. CASE t # t0
    <3>1. Shows(Append(q, m), se, t, Len(Append(q, m)) + 1, s) <=> Shows(q, se, t, Len(q) + 1, s)
      BY <2>3, AppendedShows
    <3> QED
      BY <1>2, <1>3, <2>1, <2>3, <3>1
  <2> QED
    BY <2>2, <2>3
<1>7. ASSUME NEW t \in Targets, NEW s \in Sessions, pg2[t] = s
      PROVE  s \in wo2 <=> Hears(Append(q, m), co, t, s)
  <2>1. Hears(Append(q, m), co, t, s) <=> Hears(q, co, t, s)
    BY AppendHears
  <2> QED
    BY <1>3, <1>7, <2>1 DEF View, WorldsHeard, wo2
<1>8. WorldsLive(pg2, wo2)
  <2>1. ASSUME NEW s \in wo2 PROVE \E t \in Targets : pg2[t] = s
    <3>1. PICK t \in Targets : pg[t] = s
      BY DEF View, WorldsLive, wo2
    <3>2. s # s0 /\ (t = t0 => left = s)
      BY <3>1 DEF wo2
    <3> QED
      BY <1>1, <3>1, <3>2
  <2> QED
    BY <2>1 DEF WorldsLive
<1>9. View(Append(q, m), se, co, pg2, wo2)
  BY <1>4, <1>5, <1>6, <1>7, <1>8 DEF View, PagesShown, WorldsHeard
<1> QED
  BY <1>9 DEF pg2, wo2, t0, s0

-----------------------------------------------------------------------------
(* Calls                                                                   *)

LEMMA IdFacts == MaxId \in Nat /\ Ids \subseteq Nat \ {0} /\ 0 \notin Ids /\ None \notin Sessions
BY IpcAssumption, TabsAssumption DEF Ids, Sessions

LEMMA NoCallOK == CallOK(NoCall) /\ ~Inside(NoCall) /\ ~Awaits(NoCall)
<1>1. NoCall \in CallRec
  BY IdFacts DEF NoCall, CallRec, Methods, InStates, Ended, Ids
<1> QED
  BY <1>1, IdFacts DEF CallOK, NoCall, Names, Inside, Awaits, InStates

LEMMA RaisedOK ==
    ASSUME NEW k \in CallRec, Names(k)
    PROVE  CallOK(Raised(k)) /\ ~Inside(Raised(k)) /\ ~Awaits(Raised(k))
<1> DEFINE r == Raised(k)
<1>1. k.method \in Methods /\ k.session \in Sessions \union {None}
  BY DEF CallRec
<1>2. r \in CallRec
  BY <1>1, NoCallOK DEF Raised, CallOK, CallRec, Ended
<1>3. r.st = "back" /\ r.id = 0 /\ r.method = k.method /\ r.session = k.session
  BY DEF Raised, NoCall
<1> HIDE DEF r
<1>4. CallOK(r) /\ ~Inside(r) /\ ~Awaits(r)
  BY <1>2, <1>3, IdFacts DEF CallOK, Names, Inside, Awaits, InStates
<1> QED
  BY <1>4 DEF r

\* The ids somebody else waits for.
Elsewhere(c, id) == \E d \in Callers \ {c} : Awaits(call[d]) /\ call[d].id = id

LEMMA Rest ==
    ASSUME Table, NEW c \in Callers
    PROVE  /\ \A id : id \in pending <=> (Awaits(call[c]) /\ call[c].id = id) \/ Elsewhere(c, id)
           /\ \A id : id \in pending \ {call[c].id} <=> Elsewhere(c, id)
<1>1. \A id : id \in pending <=> (Awaits(call[c]) /\ call[c].id = id) \/ Elsewhere(c, id)
  BY DEF Table, Exact, Elsewhere
<1>2. ~Elsewhere(c, call[c].id)
  <2> SUFFICES ASSUME NEW d \in Callers \ {c}, Awaits(call[d]), call[d].id = call[c].id PROVE FALSE
    BY DEF Elsewhere
  <2>1. Inside(call[d]) /\ Inside(call[c])
    BY DEF Table, Calls, CallOK, Awaits
  <2> QED
    BY <2>1 DEF Table, OwnIds
<1> QED
  BY <1>1, <1>2

\* One call changes, and the table with it.
LEMMA OneCall ==
    ASSUME Table, NEW c \in Callers, NEW k, CallOK(k), call' = [call EXCEPT ![c] = k],
           Inside(k) => \A d \in Callers \ {c} : Inside(call[d]) => call[d].id # k.id,
           \A id : id \in pending' <=> (Awaits(k) /\ k.id = id) \/ Elsewhere(c, id)
    PROVE  Table' /\ call'[c] = k /\ \A d \in Callers \ {c} : call'[d] = call[d]
<1>1. call \in [Callers -> CallRec] /\ k \in CallRec
  BY DEF Table, Calls, CallOK
<1>2. call'[c] = k /\ \A d \in Callers \ {c} : call'[d] = call[d]
  BY <1>1
<1>3. Calls'
  BY <1>1, <1>2 DEF Table, Calls
<1>4. OwnIds'
  BY <1>2 DEF Table, OwnIds
<1>5. Exact'
  BY <1>2 DEF Exact, Elsewhere
<1> QED
  BY <1>2, <1>3, <1>4, <1>5 DEF Table

LEMMA EngineStays ==
    ASSUME Engine, UNCHANGED engineVars, writer' \in Callers \union {None}, reader = "ended" => pending' = {}
    PROVE  Engine'
BY DEF Engine, engineVars

LEMMA WrittenKeeps ==
    ASSUME IpcInv, NEW c \in Callers, NEW k \in CallRec, Names(k), k.id \in Ids,
           \A d \in Callers \ {c} : Inside(call[d]) => call[d].id # k.id, NEW ids,
           \A id : id \in ids <=> (k.fut = "open" /\ k.id = id) \/ Elsewhere(c, id),
           reader = "ended" => ids = {}, Written(c, k, ids), UNCHANGED engineVars
    PROVE  IpcInv' /\ \A d \in Callers \ {c} : call'[d] = call[d]
<1>1. CASE handle /\ call' = [call EXCEPT ![c] = [k EXCEPT !.st = IF sidecar = "stuck" THEN "writing" ELSE "waiting"]]
           /\ pending' = ids /\ writer' = (IF sidecar = "stuck" THEN c ELSE None)
           /\ asked' = IF sidecar = "gone" \/ reader # "reads" THEN asked ELSE asked \union {Line(k)}
  <2> DEFINE w == IF sidecar = "stuck" THEN "writing" ELSE "waiting"
             n == [k EXCEPT !.st = w]
  <2>1. w \in InStates
    BY DEF InStates
  <2> HIDE DEF w
  <2>2. n \in CallRec /\ n.st = w /\ n.id = k.id /\ n.fut = k.fut /\ n.method = k.method /\ n.session = k.session
    BY <2>1 DEF CallRec
  <2> HIDE DEF n
  <2>3. CallOK(n) /\ Inside(n) /\ (Awaits(n) <=> k.fut = "open")
    BY <2>1, <2>2 DEF CallOK, Names, Inside, Awaits
  <2>4. call' = [call EXCEPT ![c] = n]
    BY <1>1 DEF n, w
  <2>5. Table' /\ \A d \in Callers \ {c} : call'[d] = call[d]
    <3>1. \A id : id \in pending' <=> (Awaits(n) /\ n.id = id) \/ Elsewhere(c, id)
      BY <1>1, <2>2, <2>3
    <3>2. \A d \in Callers \ {c} : Inside(call[d]) => call[d].id # n.id
      BY <2>2
    <3> QED
      BY <2>3, <2>4, <3>1, <3>2, OneCall DEF IpcInv
  <2>6. Line(k) \in AskRec /\ Names(Line(k))
    BY DEF Line, AskRec, CallRec, Names
  <2>7. Asks'
    BY <1>1, <2>6 DEF IpcInv, Asks
  <2>8. Engine'
    <3>1. writer' \in Callers \union {None}
      BY <1>1
    <3> QED
      BY <1>1, <3>1, EngineStays DEF IpcInv
  <2> QED
    BY <2>5, <2>7, <2>8 DEF IpcInv
<1>2. CASE call' = [call EXCEPT ![c] = Raised(k)] /\ pending' = ids \ {k.id} /\ writer' = None /\ UNCHANGED asked
  <2>1. CallOK(Raised(k)) /\ ~Inside(Raised(k)) /\ ~Awaits(Raised(k))
    BY RaisedOK
  <2>2. ~Elsewhere(c, k.id)
    BY DEF Elsewhere, Awaits
  <2>3. \A id : id \in pending' <=> Elsewhere(c, id)
    BY <1>2, <2>2
  <2>4. Table' /\ \A d \in Callers \ {c} : call'[d] = call[d]
    BY <1>2, <2>1, <2>3, OneCall DEF IpcInv
  <2>5. Engine'
    BY <1>2, EngineStays DEF IpcInv
  <2> QED
    BY <1>2, <2>4, <2>5 DEF IpcInv, Asks
<1> QED
  BY <1>1, <1>2 DEF Written

LEMMA CallKeeps ==
    ASSUME IpcInv, NEW c \in Callers, ~Awaits(call[c]), NEW m \in Methods, NEW s \in Sessions \union {None},
           m = "close" => s # None, Call(c, m, s), UNCHANGED engineVars
    PROVE  IpcInv' /\ \A d \in Callers \ {c} : call'[d] = call[d]
<1> DEFINE fresh == [NoCall EXCEPT !.method = m, !.session = s]
           k == [fresh EXCEPT !.id = Min(FreeIds)]
<1>1. fresh \in CallRec /\ Names(fresh) /\ fresh.fut = "open" /\ fresh.method = m /\ fresh.session = s
  <2>1. fresh \in CallRec
    BY NoCallOK DEF CallOK, CallRec
  <2>2. fresh.fut = "open" /\ fresh.method = m /\ fresh.session = s
    BY DEF NoCall
  <2> QED
    BY <2>1, <2>2 DEF Names
<1>2. CASE dead \/ ~handle
  <2>1. call' = [call EXCEPT ![c] = Raised(fresh)] /\ UNCHANGED <<pending, writer, asked>>
    BY <1>2 DEF Call
  <2> HIDE DEF fresh
  <2>2. CallOK(Raised(fresh)) /\ ~Inside(Raised(fresh)) /\ ~Awaits(Raised(fresh))
    BY <1>1, RaisedOK
  <2>3. \A id : id \in pending' <=> Elsewhere(c, id)
    BY <2>1, Rest DEF IpcInv
  <2>4. Table' /\ \A d \in Callers \ {c} : call'[d] = call[d]
    BY <2>1, <2>2, <2>3, OneCall DEF IpcInv
  <2>5. Engine'
    BY <2>1, EngineStays DEF IpcInv, Engine
  <2> QED
    BY <2>1, <2>4, <2>5 DEF IpcInv, Asks
<1>3. CASE ~dead /\ handle
  <2>1. /\ FreeIds # {}
        /\ IF writer # None
           THEN /\ call' = [call EXCEPT ![c] = [k EXCEPT !.st = "queued"]]
                /\ pending' = pending \union {k.id}
                /\ UNCHANGED <<writer, asked>>
           ELSE Written(c, k, pending \union {k.id})
    BY <1>3 DEF Call
  <2>2. Min(FreeIds) \in FreeIds
    <3>1. FreeIds \in SUBSET Nat
      BY IdFacts DEF FreeIds
    <3> QED
      BY <2>1, <3>1, MinOfNaturals
  <2>3. Min(FreeIds) \in Ids /\ \A d \in Callers : Inside(call[d]) => call[d].id # Min(FreeIds)
    BY <2>2 DEF FreeIds, IdsInUse, Open, Inside
  <2> HIDE DEF fresh
  <2>4. k \in CallRec /\ k.id = Min(FreeIds) /\ k.fut = "open" /\ Names(k)
    <3>1. Min(FreeIds) \in 0 .. MaxId
      BY <2>3, IdFacts DEF Ids
    <3>2. k \in CallRec
      BY <1>1, <3>1 DEF CallRec
    <3>3. k.id = Min(FreeIds) /\ k.fut = fresh.fut /\ k.method = fresh.method /\ k.session = fresh.session
      BY <1>1 DEF CallRec
    <3> QED
      BY <1>1, <3>2, <3>3 DEF Names
  <2> HIDE DEF k
  <2>5. \A d \in Callers \ {c} : Inside(call[d]) => call[d].id # k.id
    BY <2>3, <2>4
  <2>6. \A id : id \in pending \union {k.id} <=> (k.fut = "open" /\ k.id = id) \/ Elsewhere(c, id)
    BY <2>4, Rest DEF IpcInv
  <2>7. reader # "ended"
    BY <1>3 DEF IpcInv, Engine
  <2>8. CASE writer # None
    <3> DEFINE n == [k EXCEPT !.st = "queued"]
    <3>1. call' = [call EXCEPT ![c] = n] /\ pending' = pending \union {k.id} /\ UNCHANGED <<writer, asked>>
      BY <2>1, <2>8
    <3>2. n \in CallRec /\ n.st = "queued" /\ n.id = k.id /\ n.fut = k.fut /\ n.method = k.method
          /\ n.session = k.session
      BY <2>4 DEF CallRec, InStates
    <3> HIDE DEF n
    <3>3. CallOK(n) /\ Inside(n) /\ Awaits(n)
      BY <2>3, <2>4, <3>2 DEF CallOK, Names, Inside, Awaits, InStates
    <3>4. \A id : id \in pending' <=> (Awaits(n) /\ n.id = id) \/ Elsewhere(c, id)
      BY <2>4, <2>6, <3>1, <3>2, <3>3
    <3>7. \A d \in Callers \ {c} : Inside(call[d]) => call[d].id # n.id
      BY <2>5, <3>2
    <3>5. Table' /\ \A d \in Callers \ {c} : call'[d] = call[d]
      BY <3>1, <3>3, <3>4, <3>7, OneCall DEF IpcInv
    <3>6. Engine'
      BY <2>7, <3>1, EngineStays DEF IpcInv, Engine
    <3> QED
      BY <3>1, <3>5, <3>6 DEF IpcInv, Asks
  <2>9. CASE writer = None
    BY <2>1, <2>3, <2>4, <2>5, <2>6, <2>7, <2>9, WrittenKeeps
  <2> QED
    BY <2>8, <2>9
<1> QED
  BY <1>2, <1>3

LEMMA TakenKeeps ==
    ASSUME IpcInv, NEW c \in Callers, ~Awaits(call[c]), Taken(c), UNCHANGED engineVars
    PROVE  IpcInv' /\ call'[c] = NoCall /\ \A d \in Callers \ {c} : call'[d] = call[d]
<1>1. call' = [call EXCEPT ![c] = NoCall] /\ UNCHANGED <<pending, writer, asked>>
  BY DEF Taken
<1>2. \A id : id \in pending' <=> Elsewhere(c, id)
  BY <1>1, Rest DEF IpcInv
<1>3. Table' /\ call'[c] = NoCall /\ \A d \in Callers \ {c} : call'[d] = call[d]
  BY <1>1, <1>2, NoCallOK, OneCall DEF IpcInv
<1>4. Engine'
  BY <1>1, EngineStays DEF IpcInv, Engine
<1> QED
  BY <1>1, <1>3, <1>4 DEF IpcInv, Asks

LEMMA AbandonedKeeps ==
    ASSUME IpcInv, NEW c \in Callers, Abandoned(c), UNCHANGED asked, UNCHANGED engineVars
    PROVE  IpcInv' /\ call'[c] = NoCall /\ \A d \in Callers \ {c} : call'[d] = call[d]
<1>1. /\ call' = [call EXCEPT ![c] = NoCall] /\ pending' = pending \ {call[c].id}
      /\ writer' = IF writer = c THEN None ELSE writer
  BY DEF Abandoned
<1>2. \A id : id \in pending' <=> Elsewhere(c, id)
  BY <1>1, Rest DEF IpcInv
<1>3. Table' /\ call'[c] = NoCall /\ \A d \in Callers \ {c} : call'[d] = call[d]
  BY <1>1, <1>2, NoCallOK, OneCall DEF IpcInv
<1>4. Engine'
  <2>1. writer' \in Callers \union {None}
    BY <1>1 DEF IpcInv, Engine
  <2> QED
    BY <1>1, <2>1, EngineStays DEF IpcInv, Engine
<1> QED
  BY <1>3, <1>4 DEF IpcInv, Asks

\* A call that nobody is inside of stays as it is.
OnlyInside == \A d \in Callers : ~Inside(call[d]) => call'[d] = call[d]

\* The futures end, whatever else is left as it was.
LEMMA Answers ==
    ASSUME Table, call' \in [Callers -> CallRec], pending' \subseteq pending,
           \A c \in Callers : /\ call'[c].st = call[c].st /\ call'[c].id = call[c].id
                              /\ call'[c].method = call[c].method /\ call'[c].session = call[c].session
                              /\ Awaits(call'[c]) <=> Awaits(call[c]) /\ call[c].id \in pending'
    PROVE  Table'
<1>1. Calls'
  BY DEF Table, Calls, CallOK, Names, Inside
<1>2. OwnIds'
  BY DEF Table, OwnIds, Inside
<1>3. Exact'
  <2>1. ASSUME NEW id \in pending' PROVE \E c \in Callers : Awaits(call'[c]) /\ call'[c].id = id
    <3>1. PICK c \in Callers : Awaits(call[c]) /\ call[c].id = id
      BY <2>1 DEF Table, Exact
    <3> QED
      BY <3>1
  <2>2. ASSUME NEW c \in Callers, Awaits(call'[c]) PROVE call'[c].id \in pending'
    BY <2>2
  <2> QED
    BY <2>1, <2>2 DEF Exact
<1> QED
  BY <1>1, <1>2, <1>3 DEF Table

LEMMA TakeReplyKeeps ==
    ASSUME IpcInv, NEW m \in ReplyLine, TakeReply(m), UNCHANGED <<writer, asked>>, UNCHANGED engineVars
    PROVE  IpcInv' /\ OnlyInside
<1> DEFINE got(c) == m.id \in pending /\ c \in Owner(m.id) /\ call[c].fut = "open"
           how == IF m.ok THEN "ok" ELSE "error"
           told(c) == [call[c] EXCEPT !.fut = how, !.page = m.page]
<1>1. \A c \in Callers : call'[c] = IF got(c) THEN told(c) ELSE call[c]
  BY DEF TakeReply
<1>2. DOMAIN call' = Callers /\ pending' = pending \ {m.id}
  BY DEF TakeReply
<1>3. how \in Ended /\ m.page \in Targets \union {None}
  BY DEF Ended, ReplyLine
<1> HIDE DEF how
<1>4. \A c \in Callers : got(c) <=> Awaits(call[c]) /\ call[c].id = m.id
  BY DEF IpcInv, Table, Exact, Owner, Open, Awaits, Inside
<1> HIDE DEF got
<1>5. \A c \in Callers : /\ told(c) \in CallRec /\ told(c).st = call[c].st /\ told(c).id = call[c].id
                         /\ told(c).method = call[c].method /\ told(c).session = call[c].session
                         /\ told(c).fut = how
  BY <1>3 DEF IpcInv, Table, Calls, CallRec
<1>6. how # "open"
  BY <1>3 DEF Ended
<1>7. \A c \in Callers : ~Awaits(told(c))
  BY <1>5, <1>6 DEF Awaits
<1> HIDE DEF told
<1>8. ASSUME NEW c \in Callers
      PROVE  /\ call'[c] \in CallRec /\ call'[c].st = call[c].st /\ call'[c].id = call[c].id
             /\ call'[c].method = call[c].method /\ call'[c].session = call[c].session
             /\ Awaits(call'[c]) <=> Awaits(call[c]) /\ call[c].id \in pending'
  <2>1. CASE got(c)
    BY <1>1, <1>2, <1>4, <1>5, <1>7, <2>1
  <2>2. CASE ~got(c)
    <3>1. call'[c] = call[c] /\ call[c] \in CallRec /\ (Awaits(call[c]) => call[c].id # m.id)
      BY <1>1, <1>4, <2>2 DEF IpcInv, Table, Calls
    <3>2. Awaits(call[c]) => call[c].id \in pending
      BY DEF IpcInv, Table, Exact
    <3> QED
      BY <1>2, <3>1, <3>2
  <2> QED
    BY <2>1, <2>2
<1>9. call' \in [Callers -> CallRec]
  <2>1. call' = [c \in Callers |-> call'[c]]
    BY DEF TakeReply
  <2> QED
    BY <1>8, <2>1
<1>10. Table'
  BY <1>2, <1>8, <1>9, Answers DEF IpcInv
<1>11. Engine'
  BY <1>2, EngineStays DEF IpcInv, Engine
<1>12. OnlyInside
  BY <1>1, <1>4 DEF OnlyInside, Awaits
<1> QED
  BY <1>10, <1>11, <1>12 DEF IpcInv, Asks

LEMMA FailedKeeps ==
    ASSUME IpcInv, NEW how \in {"exited", "cancelled"}, call' = Failed(how), pending' = {}
    PROVE  Table' /\ OnlyInside
<1> DEFINE hit(c) == Open(c) /\ call[c].id \in pending /\ call[c].fut = "open"
           told(c) == [call[c] EXCEPT !.fut = how]
<1>1. \A c \in Callers : call'[c] = IF hit(c) THEN told(c) ELSE call[c]
  BY DEF Failed
<1>2. \A c \in Callers : hit(c) <=> Awaits(call[c])
  BY DEF IpcInv, Table, Exact, Open, Awaits, Inside
<1> HIDE DEF hit
<1>3. \A c \in Callers : /\ told(c) \in CallRec /\ told(c).st = call[c].st /\ told(c).id = call[c].id
                         /\ told(c).method = call[c].method /\ told(c).session = call[c].session
                         /\ told(c).fut = how
  BY DEF IpcInv, Table, Calls, CallRec, Ended
<1>4. \A c \in Callers : ~Awaits(told(c))
  BY <1>3 DEF Awaits
<1> HIDE DEF told
<1>5. ASSUME NEW c \in Callers
      PROVE  /\ call'[c] \in CallRec /\ call'[c].st = call[c].st /\ call'[c].id = call[c].id
             /\ call'[c].method = call[c].method /\ call'[c].session = call[c].session
             /\ ~Awaits(call'[c])
  <2>1. CASE hit(c)
    BY <1>1, <1>3, <1>4, <2>1
  <2>2. CASE ~hit(c)
    BY <1>1, <1>2, <2>2 DEF IpcInv, Table, Calls
  <2> QED
    BY <2>1, <2>2
<1>6. call' \in [Callers -> CallRec]
  <2>1. call' = [c \in Callers |-> call'[c]]
    BY DEF Failed
  <2> QED
    BY <1>5, <2>1
<1>7. Table'
  BY <1>5, <1>6, Answers DEF IpcInv
<1> QED
  BY <1>1, <1>2, <1>7 DEF OnlyInside, Awaits

\* Raises forgets the id and leaves the lock.
LEMMA RaisesKeeps ==
    ASSUME IpcInv, NEW c \in Callers, NEW k \in CallRec, Names(k), call' = [call EXCEPT ![c] = Raised(k)],
           pending' = pending \ {call[c].id}
    PROVE  Table' /\ \A d \in Callers \ {c} : call'[d] = call[d]
<1>1. CallOK(Raised(k)) /\ ~Inside(Raised(k)) /\ ~Awaits(Raised(k))
  BY RaisedOK
<1>2. \A id : id \in pending' <=> Elsewhere(c, id)
  BY Rest DEF IpcInv
<1> QED
  BY <1>1, <1>2, OneCall DEF IpcInv

LEMMA CallStepKeeps ==
    ASSUME IpcInv, NEW c \in Callers, CallStep(c)
    PROVE  IpcInv' /\ OnlyInside /\ UNCHANGED <<inbox, reader, stopping>>
<1>1. call[c] \in CallRec /\ Names(call[c]) /\ (Inside(call[c]) <=> call[c].id \in Ids)
  BY DEF IpcInv, Table, Calls, CallOK
<1>2. CASE Write(c)
  <2>1. Inside(call[c]) /\ Written(c, call[c], pending) /\ UNCHANGED engineVars /\ UNCHANGED inbox
    BY <1>2 DEF Write, Inside, InStates
  <2>2. \A d \in Callers \ {c} : Inside(call[d]) => call[d].id # call[c].id
    BY <2>1 DEF IpcInv, Table, OwnIds
  <2>3. \A id : id \in pending <=> (call[c].fut = "open" /\ call[c].id = id) \/ Elsewhere(c, id)
    BY <2>1, Rest DEF IpcInv, Awaits
  <2>4. reader = "ended" => pending = {}
    BY DEF IpcInv, Engine
  <2>5. IpcInv' /\ \A d \in Callers \ {c} : call'[d] = call[d]
    BY <1>1, <2>1, <2>2, <2>3, <2>4, WrittenKeeps
  <2> QED
    BY <2>1, <2>5 DEF OnlyInside, engineVars
<1>3. CASE Drained(c)
  <2> DEFINE n == [call[c] EXCEPT !.st = "waiting"]
  <2>1. call' = [call EXCEPT ![c] = n] /\ call[c].st = "writing" /\ writer' = None
        /\ UNCHANGED <<pending, asked, inbox>> /\ UNCHANGED engineVars
    BY <1>3 DEF Drained
  <2>2. n \in CallRec /\ n.st = "waiting" /\ n.id = call[c].id /\ n.fut = call[c].fut
        /\ n.method = call[c].method /\ n.session = call[c].session
    BY <1>1 DEF CallRec, InStates
  <2> HIDE DEF n
  <2>3. Inside(call[c]) /\ Inside(n) /\ CallOK(n) /\ (Awaits(n) <=> Awaits(call[c]))
    BY <1>1, <2>1, <2>2 DEF Inside, InStates, CallOK, Awaits, Names
  <2>4. \A d \in Callers \ {c} : Inside(call[d]) => call[d].id # n.id
    BY <2>2, <2>3 DEF IpcInv, Table, OwnIds
  <2>5. \A id : id \in pending' <=> (Awaits(n) /\ n.id = id) \/ Elsewhere(c, id)
    BY <2>1, <2>2, <2>3, Rest DEF IpcInv
  <2>6. Table' /\ \A d \in Callers \ {c} : call'[d] = call[d]
    BY <2>1, <2>3, <2>4, <2>5, OneCall DEF IpcInv
  <2>7. Engine'
    BY <2>1, EngineStays DEF IpcInv, Engine
  <2> QED
    BY <2>1, <2>3, <2>6, <2>7 DEF IpcInv, Asks, OnlyInside, engineVars
<1>4. CASE WriteFails(c) \/ WriteTimesOut(c)
  <2>1. /\ call' = [call EXCEPT ![c] = Raised(call[c])] /\ pending' = pending \ {call[c].id}
        /\ writer' = (IF writer = c THEN None ELSE writer) /\ call[c].st = "writing"
        /\ dead' \in {dead, TRUE} /\ UNCHANGED <<asked, inbox, handle, reader, stopping, sidecar>>
    BY <1>4 DEF WriteFails, WriteTimesOut, Raises, engineVars
  <2>2. Table' /\ \A d \in Callers \ {c} : call'[d] = call[d]
    BY <1>1, <2>1, RaisesKeeps
  <2>3. Engine'
    BY <2>1 DEF IpcInv, Engine
  <2>4. Inside(call[c])
    BY <2>1 DEF Inside, InStates
  <2> QED
    BY <2>1, <2>2, <2>3, <2>4 DEF IpcInv, Asks, OnlyInside
<1>5. CASE ResponseTimesOut(c)
  <2> DEFINE n == [Raised(call[c]) EXCEPT !.fut = "timeout"]
  <2>1. /\ call' = [call EXCEPT ![c] = n] /\ pending' = pending \ {call[c].id} /\ call[c].st = "waiting"
        /\ UNCHANGED <<writer, asked, inbox>> /\ UNCHANGED engineVars
    BY <1>5 DEF ResponseTimesOut
  <2>2. CallOK(Raised(call[c])) /\ ~Inside(Raised(call[c]))
    BY <1>1, RaisedOK
  <2>3. n \in CallRec /\ n.st = Raised(call[c]).st /\ n.id = Raised(call[c]).id
        /\ n.method = Raised(call[c]).method /\ n.session = Raised(call[c]).session
    BY <2>2 DEF CallOK, CallRec
  <2> HIDE DEF n
  <2>4. CallOK(n) /\ ~Inside(n) /\ ~Awaits(n)
    BY <2>2, <2>3 DEF CallOK, Names, Inside, Awaits
  <2>5. \A id : id \in pending' <=> Elsewhere(c, id)
    BY <2>1, Rest DEF IpcInv
  <2>6. Table' /\ \A d \in Callers \ {c} : call'[d] = call[d]
    BY <2>1, <2>4, <2>5, OneCall DEF IpcInv
  <2>7. Engine'
    BY <2>1, EngineStays DEF IpcInv, Engine
  <2>8. Inside(call[c])
    BY <2>1 DEF Inside, InStates
  <2> QED
    BY <2>1, <2>6, <2>7, <2>8 DEF IpcInv, Asks, OnlyInside, engineVars
<1> QED
  BY <1>2, <1>3, <1>4, <1>5 DEF CallStep

\* The reader's end, a stop, and what befalls the sidecar.
LEMMA EngineKeeps ==
    ASSUME IpcInv,
           ReaderEnds \/ StopBegins \/ StopTakes \/ StopEnds \/ SidecarSticks \/ SidecarExits
    PROVE  /\ IpcInv' /\ OnlyInside
           /\ inbox' = inbox \/ inbox' = <<>>
           /\ reader' = "reads" => reader = "reads" /\ inbox' = inbox /\ stopping' = "no"
<1>1. CASE ReaderEnds
  <2>1. call' = Failed("exited") /\ pending' = {} /\ asked' = {} /\ inbox' = <<>> /\ reader' = "ended"
        /\ dead' = TRUE /\ UNCHANGED <<writer, handle, stopping, sidecar>>
    BY <1>1 DEF ReaderEnds
  <2>2. Table' /\ OnlyInside
    BY <2>1, FailedKeeps
  <2> QED
    BY <2>1, <2>2 DEF IpcInv, Asks, Engine
<1>2. CASE StopTakes
  <2>1. call' = Failed("cancelled") /\ pending' = {} /\ stopping = "begun" /\ stopping' = "taken"
        /\ handle' = FALSE /\ UNCHANGED <<writer, dead, reader, sidecar, asked, inbox>>
    BY <1>2 DEF StopTakes
  <2>2. Table' /\ OnlyInside
    BY <2>1, FailedKeeps
  <2> QED
    BY <2>1, <2>2 DEF IpcInv, Asks, Engine
<1>3. CASE StopBegins
  <2>1. stopping' = "begun" /\ reader' = (IF reader = "reads" THEN "cancelled" ELSE reader) /\ inbox' = <<>>
        /\ asked' = {} /\ UNCHANGED <<call, pending, writer, handle, dead, sidecar>>
    BY <1>3 DEF StopBegins
  <2>2. Table' /\ OnlyInside
    BY <2>1 DEF IpcInv, Table, Calls, OwnIds, Exact, OnlyInside
  <2> QED
    BY <2>1, <2>2 DEF IpcInv, Asks, Engine
<1>4. CASE StopEnds \/ SidecarSticks \/ SidecarExits
  <2>1. /\ asked' \subseteq asked /\ UNCHANGED <<call, pending, writer, handle, dead, reader, inbox>>
        /\ sidecar' \in {"stuck", "gone"}
        /\ stopping' = stopping \/ (stopping = "taken" /\ stopping' = "done")
    BY <1>4 DEF StopEnds, SidecarSticks, SidecarExits
  <2>2. Table' /\ OnlyInside
    BY <2>1 DEF IpcInv, Table, Calls, OwnIds, Exact, OnlyInside
  <2> QED
    BY <2>1, <2>2 DEF IpcInv, Asks, Engine
<1> QED
  BY <1>1, <1>2, <1>3, <1>4

-----------------------------------------------------------------------------
(* Tools                                                                   *)

LEMMA ToolsStay ==
    ASSUME ToolInv, OnlyInside, UNCHANGED <<tool, pageLock>>
    PROVE  ToolInv'
<1>1. \A c \in Callers : call[c] = NoCall => call'[c] = NoCall
  BY NoCallOK DEF OnlyInside
<1> QED
  BY <1>1 DEF ToolInv, ToolOK, Fits

\* The lock is left alone, taken while it is free, or given back.
LockMoves(c) ==
    \/ pageLock' = pageLock
    \/ pageLock = None /\ pageLock' = c
    \/ pageLock = c /\ pageLock' = None

LEMMA ReleasedMoves ==
    ASSUME ToolInv, NEW c \in Callers, pageLock' = Released(c)
    PROVE  LockMoves(c) /\ pageLock' # c
BY IpcAssumption DEF Released, LockMoves, ToolInv

LEMMA ToolMoves ==
    ASSUME ToolInv, NEW c \in Callers, \A d \in Callers \ {c} : call'[d] = call[d],
           NEW w \in ToolRec, tool' = [tool EXCEPT ![c] = w], LockMoves(c), ToolOK(c, w, call'[c], pageLock')
    PROVE  ToolInv'
<1>1. None \notin Callers
  BY IpcAssumption
<1>2. \A d \in Callers \ {c} : pageLock' = d <=> pageLock = d
  BY <1>1 DEF LockMoves
<1>3. pageLock' \in Callers \union {None} /\ tool' \in [Callers -> ToolRec]
  BY DEF LockMoves, ToolInv
<1>4. tool'[c] = w /\ \A d \in Callers \ {c} : tool'[d] = tool[d]
  BY DEF ToolInv
<1>5. ASSUME NEW d \in Callers \ {c} PROVE ToolOK(d, tool'[d], call'[d], pageLock')
  <2>1. ToolOK(d, tool[d], call[d], pageLock)
    BY DEF ToolInv
  <2> QED
    BY <1>2, <1>4, <2>1 DEF ToolOK, Fits
<1> QED
  BY <1>3, <1>4, <1>5 DEF ToolInv

\* The ways in which a tool goes on: with a call, with its call taken, with its call cut short.
LEMMA Calling ==
    ASSUME IpcInv, ToolInv, NEW c \in Callers, ~Awaits(call[c]), NEW m \in Methods,
           NEW s \in Sessions \union {None}, m = "close" => s # None, Call(c, m, s), UNCHANGED engineVars,
           NEW w \in ToolRec, tool' = [tool EXCEPT ![c] = w], LockMoves(c), Fits(c, w, pageLock'),
           w.pc \notin Resting
    PROVE  IpcInv' /\ ToolInv'
<1>1. IpcInv' /\ \A d \in Callers \ {c} : call'[d] = call[d]
  BY CallKeeps
<1> QED
  BY <1>1, ToolMoves DEF ToolOK

LEMMA Ceasing ==
    ASSUME IpcInv, ToolInv, NEW c \in Callers, ~Awaits(call[c]), Taken(c), UNCHANGED engineVars,
           NEW w \in ToolRec, tool' = [tool EXCEPT ![c] = w], LockMoves(c), Fits(c, w, pageLock')
    PROVE  IpcInv' /\ ToolInv'
<1>1. IpcInv' /\ call'[c] = NoCall /\ \A d \in Callers \ {c} : call'[d] = call[d]
  BY TakenKeeps
<1> QED
  BY <1>1, ToolMoves DEF ToolOK

LEMMA Cutting ==
    ASSUME IpcInv, ToolInv, NEW c \in Callers, Abandoned(c), UNCHANGED asked, UNCHANGED engineVars,
           NEW w \in ToolRec, tool' = [tool EXCEPT ![c] = w], LockMoves(c), Fits(c, w, pageLock')
    PROVE  IpcInv' /\ ToolInv'
<1>1. IpcInv' /\ call'[c] = NoCall /\ \A d \in Callers \ {c} : call'[d] = call[d]
  BY AbandonedKeeps
<1> QED
  BY <1>1, ToolMoves DEF ToolOK

LEMMA Standing ==
    ASSUME IpcInv, ToolInv, NEW c \in Callers, call[c] = NoCall, UNCHANGED <<call, pending, writer, asked>>,
           UNCHANGED engineVars,
           NEW w \in ToolRec, tool' = [tool EXCEPT ![c] = w], LockMoves(c), Fits(c, w, pageLock')
    PROVE  IpcInv' /\ ToolInv'
<1>1. Table' /\ Asks'
  BY DEF IpcInv, Table, Calls, OwnIds, Exact, Asks
<1>2. Engine'
  BY EngineStays DEF IpcInv, Engine
<1> QED
  BY <1>1, <1>2, ToolMoves DEF ToolOK, IpcInv

\* The records tools go on with.
LEMMA GotoRec ==
    ASSUME ToolInv, NEW c \in Callers, NEW p \in Pcs, NEW h \in Thens
    PROVE  \E w \in ToolRec : Goto(c, p, h) = [tool EXCEPT ![c] = w] /\ w.pc = p /\ w.then = h
<1> DEFINE w == [tool[c] EXCEPT !.pc = p, !.then = h]
<1>1. tool[c] \in ToolRec /\ tool \in [Callers -> ToolRec]
  BY DEF ToolInv
<1>2. Goto(c, p, h) = [tool EXCEPT ![c] = w]
  BY DEF Goto
<1>3. w \in ToolRec /\ w.pc = p /\ w.then = h
  BY <1>1 DEF ToolRec
<1> QED
  BY <1>2, <1>3

Done == [Idle EXCEPT !.pc = "done"]

LEMMA DoneRec ==
    /\ Idle \in ToolRec /\ Idle.pc = "idle"
    /\ Done \in ToolRec /\ Done.pc = "done"
    /\ \A c, lock : lock # c => Fits(c, Done, lock) /\ Fits(c, Idle, lock)
<1>1. Idle \in ToolRec /\ Idle.pc = "idle"
  BY DEF Idle, ToolRec, Pcs, Thens, Opening
<1>2. Done \in ToolRec /\ Done.pc = "done"
  BY <1>1 DEF Done, ToolRec, Pcs
<1> QED
  BY <1>1, <1>2 DEF Fits, Opening

\* Finish leaves nothing of a tool; Goto to ensure_page is always in order.
LEMMA FinishFits ==
    ASSUME NEW c \in Callers, Finish(c), pageLock' # c
    PROVE  Done \in ToolRec /\ tool' = [tool EXCEPT ![c] = Done] /\ Fits(c, Done, pageLock')
BY DoneRec DEF Finish, Done

\* What is at hand of a caller.
LEMMA Now ==
    ASSUME IpcInv, ToolInv, NEW c \in Callers
    PROVE  /\ tool[c] \in ToolRec /\ Fits(c, tool[c], pageLock) /\ call[c] \in CallRec
           /\ tool[c].pc \in Resting => call[c] = NoCall /\ ~Awaits(call[c])
           /\ Back(c) => ~Awaits(call[c])
BY NoCallOK DEF IpcInv, Table, Calls, ToolInv, ToolOK, Back, Awaits, Inside, InStates

\* What every step of a tool keeps, and the only ways in which it chooses a tab.
ToolNext == IpcInv' /\ ToolInv' /\ current' \in {current, None} \union Known

LEMMA KnownFacts ==
    ASSUME TabTypes
    PROVE  /\ Known \subseteq Targets /\ \A t \in Known : sessions[t] \in Sessions /\ sessions[t] # None
           /\ \A t \in Targets : sessions[t] \in Sessions \union {None}
BY DEF TabTypes, Known

LEMMA CreateFailsKeeps ==
    ASSUME IpcInv, ToolInv, NEW c \in Callers, CreateFails(c), UNCHANGED engineVars,
           (Taken(c) /\ ~Awaits(call[c])) \/ (Abandoned(c) /\ UNCHANGED asked)
    PROVE  ToolNext
<1>1. LockMoves(c) /\ pageLock' # c /\ current' = current
  BY ReleasedMoves DEF CreateFails
<1>2. CASE tool[c].then = "quiet"
  <2>0. tool' = Goto(c, "ensure", "go") /\ "ensure" \in Pcs /\ "go" \in Thens
    BY <1>2 DEF CreateFails, Pcs, Thens
  <2>1. PICK w \in ToolRec : tool' = [tool EXCEPT ![c] = w] /\ w.pc = "ensure" /\ w.then = "go"
    BY <2>0, GotoRec
  <2>2. Fits(c, w, pageLock')
    BY <1>1, <2>1 DEF Fits, Goals, Opening
  <2> QED
    BY <1>1, <2>1, <2>2, Ceasing, Cutting DEF ToolNext
<1>3. CASE tool[c].then # "quiet"
  <2>1. Done \in ToolRec /\ tool' = [tool EXCEPT ![c] = Done] /\ Fits(c, Done, pageLock')
    BY <1>1, <1>3, FinishFits DEF CreateFails
  <2> QED
    BY <1>1, <2>1, Ceasing, Cutting DEF ToolNext
<1> QED
  BY <1>2, <1>3

LEMMA ProceedKeeps ==
    ASSUME IpcInv, ToolInv, NEW c \in Callers, ~Awaits(call[c]), NEW h \in Goals,
           NEW t \in Targets \union {None}, NEW s \in Sessions, Proceed(c, h, t, s), LockMoves(c),
           pageLock' # c, UNCHANGED engineVars
    PROVE  IpcInv' /\ ToolInv'
<1>1. CASE h = "result"
  <2>1. Finish(c) /\ Taken(c)
    BY <1>1 DEF Proceed
  <2> QED
    BY <2>1, FinishFits, Ceasing
<1>2. CASE h # "result"
  <2> DEFINE w == [tool[c] EXCEPT !.pc = h, !.then = "none", !.target = t, !.session = s]
  <2>1. Call(c, Method(h), s) /\ tool' = [tool EXCEPT ![c] = w]
    BY <1>2 DEF Proceed
  <2>2. h \in Pcs /\ h \notin Resting /\ h \notin Opening
    BY <1>2 DEF Goals, Pcs, Resting, Opening
  <2>3. w \in ToolRec /\ w.pc = h
    <3>1. tool[c] \in ToolRec /\ "none" \in Thens
      BY Now DEF Thens
    <3> QED
      BY <2>2, <3>1 DEF ToolRec
  <2> HIDE DEF w
  <2>4. Fits(c, w, pageLock')
    BY <2>2, <2>3 DEF Fits, Resting, Opening
  <2>5. Method(h) \in Methods /\ s # None
    BY IdFacts DEF Method, Methods
  <2> QED
    BY <2>1, <2>2, <2>3, <2>4, <2>5, Calling
<1> QED
  BY <1>1, <1>2

LEMMA EnsurePageKeeps ==
    ASSUME IpcInv, ToolInv, TabTypes, NEW c \in Callers, EnsurePage(c), UNCHANGED engineVars
    PROVE  ToolNext
<1>1. /\ tool[c].pc = "ensure" /\ tool[c].then \in Goals /\ ~Awaits(call[c]) /\ tool[c] \in ToolRec
      /\ pageLock = None /\ pageLock # c
  BY Now, IpcAssumption DEF EnsurePage, Fits, Resting
<1>2. CASE Known # {}
  <2>1. /\ current' \in Known /\ pageLock' = pageLock
        /\ Proceed(c, tool[c].then, current', sessions[current'])
    BY <1>2 DEF EnsurePage
  <2>2. current' \in Targets /\ sessions[current'] \in Sessions
    BY <2>1, KnownFacts
  <2>3. IpcInv' /\ ToolInv'
    BY <1>1, <2>1, <2>2, ProceedKeeps DEF LockMoves
  <2> QED
    BY <2>1, <2>3 DEF ToolNext
<1>3. CASE Known = {}
  <2> DEFINE w == [tool[c] EXCEPT !.pc = "adopt"]
  <2>1. /\ pageLock' = c /\ Call(c, "getTargets", None) /\ tool' = [tool EXCEPT ![c] = w]
        /\ current' = current
    BY <1>3 DEF EnsurePage
  <2>2. w \in ToolRec /\ w.pc = "adopt" /\ w.then = tool[c].then
    BY <1>1 DEF ToolRec, Pcs, Opening
  <2> HIDE DEF w
  <2>3. Fits(c, w, pageLock') /\ w.pc \notin Resting
    BY <1>1, <2>1, <2>2 DEF Fits, Opening, Resting
  <2>4. LockMoves(c) /\ "getTargets" \in Methods
    BY <1>1, <2>1 DEF LockMoves, Methods
  <2>5. IpcInv' /\ ToolInv'
    BY <1>1, <2>1, <2>2, <2>3, <2>4, Calling
  <2> QED
    BY <2>1, <2>5 DEF ToolNext
<1> QED
  BY <1>2, <1>3

LEMMA AdoptsNothingKeeps ==
    ASSUME IpcInv, ToolInv, NEW c \in Callers, AdoptsNothing(c), UNCHANGED engineVars
    PROVE  ToolNext
<1> DEFINE w == [tool[c] EXCEPT !.pc = "open"]
<1>1. tool[c].pc = "adopt" /\ ~Awaits(call[c]) /\ tool[c] \in ToolRec /\ Fits(c, tool[c], pageLock)
  BY Now DEF AdoptsNothing, At
<1>2. Call(c, "newPage", None) /\ tool' = [tool EXCEPT ![c] = w] /\ UNCHANGED <<current, pageLock>>
  BY DEF AdoptsNothing
<1>3. w \in ToolRec /\ w.pc = "open" /\ w.then = tool[c].then
  BY <1>1 DEF ToolRec, Pcs, Opening
<1> HIDE DEF w
<1>4. Fits(c, w, pageLock') /\ w.pc \notin Resting
  BY <1>1, <1>2, <1>3 DEF Fits, Opening, Resting
<1>5. LockMoves(c) /\ "newPage" \in Methods
  BY <1>2 DEF LockMoves, Methods
<1>6. IpcInv' /\ ToolInv'
  BY <1>1, <1>2, <1>3, <1>4, <1>5, Calling
<1> QED
  BY <1>2, <1>6 DEF ToolNext

LEMMA PageOpenedKeeps ==
    ASSUME IpcInv, ToolInv, NEW c \in Callers, PageOpened(c), UNCHANGED engineVars
    PROVE  ToolNext
<1> DEFINE w == [tool[c] EXCEPT !.pc = "attach", !.target = call[c].page]
<1>1. tool[c].pc = "open" /\ ~Awaits(call[c]) /\ tool[c] \in ToolRec /\ Fits(c, tool[c], pageLock)
      /\ call[c] \in CallRec
  BY Now DEF PageOpened, At
<1>2. Taken(c) /\ tool' = [tool EXCEPT ![c] = w] /\ UNCHANGED <<current, pageLock>>
  BY DEF PageOpened
<1>3. w \in ToolRec /\ w.pc = "attach" /\ w.then = tool[c].then
  <2>1. call[c].page \in Targets \union {None} /\ "attach" \in Pcs
    BY <1>1 DEF CallRec, Pcs, Opening
  <2> QED
    BY <1>1, <2>1 DEF ToolRec
<1> HIDE DEF w
<1>4. Fits(c, w, pageLock')
  BY <1>1, <1>2, <1>3 DEF Fits, Opening
<1>5. IpcInv' /\ ToolInv'
  BY <1>1, <1>2, <1>3, <1>4, Ceasing DEF LockMoves
<1> QED
  BY <1>2, <1>5 DEF ToolNext

LEMMA PageAttachedKeeps ==
    ASSUME IpcInv, ToolInv, TabTypes, NEW c \in Callers, PageAttached(c), UNCHANGED engineVars
    PROVE  ToolNext
<1> DEFINE s == sessions[tool[c].target]
           w == [tool[c] EXCEPT !.pc = "frame", !.session = s]
<1>1. tool[c].pc = "attach" /\ ~Awaits(call[c]) /\ tool[c] \in ToolRec /\ Fits(c, tool[c], pageLock)
  BY Now DEF PageAttached, Resting
<1>2. /\ Call(c, "getFrameTree", s) /\ tool' = [tool EXCEPT ![c] = w] /\ UNCHANGED pageLock
      /\ tool[c].target \in Known /\ current' = tool[c].target
  BY DEF PageAttached
<1>3. s \in Sessions /\ s # None
  BY <1>2, KnownFacts
<1> HIDE DEF s
<1>4. w \in ToolRec /\ w.pc = "frame" /\ w.then = tool[c].then /\ w.session = s
  BY <1>1, <1>3 DEF ToolRec, Pcs, Opening
<1> HIDE DEF w
<1>5. Fits(c, w, pageLock') /\ w.pc \notin Resting
  BY <1>1, <1>2, <1>3, <1>4 DEF Fits, Opening, Resting
<1>6. LockMoves(c) /\ "getFrameTree" \in Methods
  BY <1>2 DEF LockMoves, Methods
<1>7. IpcInv' /\ ToolInv'
  BY <1>1, <1>2, <1>3, <1>4, <1>5, <1>6, Calling
<1> QED
  BY <1>2, <1>7 DEF ToolNext

\* Goto another place, with the call taken.
LEMMA GotoKeeps ==
    ASSUME IpcInv, ToolInv, NEW c \in Callers, ~Awaits(call[c]), Taken(c), UNCHANGED engineVars,
           NEW h \in Goals, tool' = Goto(c, "ensure", h), LockMoves(c), pageLock' # c
    PROVE  IpcInv' /\ ToolInv'
<1>1. "ensure" \in Pcs /\ h \in Thens
  BY DEF Pcs, Thens, Goals
<1>2. PICK w \in ToolRec : tool' = [tool EXCEPT ![c] = w] /\ w.pc = "ensure" /\ w.then = h
  BY <1>1, GotoRec
<1>3. Fits(c, w, pageLock')
  BY <1>2 DEF Fits, Opening
<1> QED
  BY <1>2, <1>3, Ceasing

LEMMA FinishKeeps ==
    ASSUME IpcInv, ToolInv, NEW c \in Callers, ~Awaits(call[c]), Taken(c), UNCHANGED engineVars,
           Finish(c), LockMoves(c), pageLock' # c
    PROVE  IpcInv' /\ ToolInv'
BY FinishFits, Ceasing

LEMMA TidiesKeeps ==
    ASSUME IpcInv, ToolInv, TabTypes, NEW c \in Callers, ~Awaits(call[c]), Tidies(c), UNCHANGED engineVars,
           LockMoves(c), pageLock' # c
    PROVE  IpcInv' /\ ToolInv'
<1> DEFINE old == tool[c].old
           w == [tool[c] EXCEPT !.pc = "close", !.then = "tidy", !.target = old]
<1>1. CASE old \in Known /\ old # current
  <2>1. Call(c, "close", sessions[old]) /\ tool' = [tool EXCEPT ![c] = w]
    BY <1>1 DEF Tidies
  <2>2. w \in ToolRec /\ w.pc = "close"
    <3>1. tool[c] \in ToolRec /\ "close" \in Pcs /\ "tidy" \in Thens
      BY Now DEF Pcs, Thens
    <3>2. old \in Targets \union {None}
      BY <3>1 DEF ToolRec
    <3> QED
      BY <3>1, <3>2 DEF ToolRec
  <2>3. sessions[old] \in Sessions /\ sessions[old] # None
    BY <1>1, KnownFacts
  <2> HIDE DEF w, old
  <2>4. Fits(c, w, pageLock') /\ w.pc \notin Resting /\ "close" \in Methods
    BY <2>2 DEF Fits, Opening, Resting, Methods
  <2> QED
    BY <2>1, <2>2, <2>3, <2>4, Calling
<1>2. CASE ~(old \in Known /\ old # current)
  <2>1. tool' = Goto(c, "ensure", "go") /\ Taken(c) /\ "go" \in Goals
    BY <1>2 DEF Tidies, Goals
  <2> QED
    BY <2>1, GotoKeeps
<1> QED
  BY <1>1, <1>2

LEMMA CreateReturnsKeeps ==
    ASSUME IpcInv, ToolInv, TabTypes, NEW c \in Callers, CreateReturns(c), UNCHANGED engineVars
    PROVE  ToolNext
<1>1. /\ tool[c].pc = "frame" /\ ~Awaits(call[c]) /\ tool[c] \in ToolRec /\ Fits(c, tool[c], pageLock)
      /\ current' = current
  BY Now DEF CreateReturns, At
<1>2. LockMoves(c) /\ pageLock' # c
  BY ReleasedMoves DEF CreateReturns
<1>3. CASE pageLock = c
  <2>1. tool[c].then \in Goals /\ tool[c].then \notin {"recovered", "made"}
    BY <1>1, <1>3 DEF Fits, Goals
  <2>2. Proceed(c, tool[c].then, tool[c].target, tool[c].session)
    BY <1>3, <2>1 DEF CreateReturns
  <2>3. tool[c].target \in Targets \union {None} /\ tool[c].session \in Sessions
    BY <1>1 DEF ToolRec, Fits
  <2>4. IpcInv' /\ ToolInv'
    BY <1>1, <1>2, <2>1, <2>2, <2>3, ProceedKeeps
  <2> QED
    BY <1>1, <2>4 DEF ToolNext
<1>4. CASE pageLock # c /\ tool[c].then = "recovered"
  <2>1. Tidies(c)
    BY <1>4 DEF CreateReturns
  <2> QED
    BY <1>1, <1>2, <2>1, TidiesKeeps DEF ToolNext
<1>5. CASE pageLock # c /\ tool[c].then = "made"
  <2>1. Taken(c) /\ IF tool[c].name = "newUrl" THEN tool' = Goto(c, "ensure", "quiet") ELSE Finish(c)
    BY <1>5 DEF CreateReturns
  <2>2. "quiet" \in Goals
    BY DEF Goals
  <2> QED
    BY <1>1, <1>2, <2>1, <2>2, GotoKeeps, FinishKeeps DEF ToolNext
<1>6. pageLock # c => tool[c].then \in {"recovered", "made"}
  BY <1>1 DEF Fits, Opening
<1> QED
  BY <1>3, <1>4, <1>5, <1>6

LEMMA CreatesKeeps ==
    ASSUME IpcInv, ToolInv, TabTypes, NEW c \in Callers, Creates(c), UNCHANGED engineVars
    PROVE  ToolNext
<1>1. CASE OpenFails(c)
  BY <1>1, Now, CreateFailsKeeps DEF OpenFails, At
<1>2. CASE FrameRaises(c)
  BY <1>2, CreateFailsKeeps DEF FrameRaises
<1>3. CASE AttachGivesUp(c)
  BY <1>3, Now, CreateFailsKeeps DEF AttachGivesUp, Resting
<1> QED
  BY <1>1, <1>2, <1>3, EnsurePageKeeps, AdoptsNothingKeeps, PageOpenedKeeps, PageAttachedKeeps,
     CreateReturnsKeeps DEF Creates

\* After a close, and when a navigation starts over: the call for a new tab.
LEMMA OpensAnother ==
    ASSUME IpcInv, ToolInv, NEW c \in Callers, ~Awaits(call[c]), Call(c, "newPage", None), UNCHANGED engineVars,
           NEW w \in ToolRec, tool' = [tool EXCEPT ![c] = w], w.pc = "open", w.then \in {"recovered", "made"},
           LockMoves(c), pageLock' # c
    PROVE  IpcInv' /\ ToolInv'
<1>1. Fits(c, w, pageLock') /\ w.pc \notin Resting /\ "newPage" \in Methods
  BY DEF Fits, Opening, Resting, Methods
<1> QED
  BY <1>1, Calling

\* A tool that is not opening anything does not hold the page lock.
LEMMA LockElsewhere ==
    ASSUME ToolInv, NEW c \in Callers, tool[c].pc \notin Opening
    PROVE  pageLock # c
BY DEF ToolInv, ToolOK, Fits

LEMMA CloseEndsKeeps ==
    ASSUME IpcInv, ToolInv, NEW c \in Callers, ~Awaits(call[c]), CloseEnds(c), UNCHANGED engineVars,
           UNCHANGED pageLock, pageLock # c
    PROVE  IpcInv' /\ ToolInv'
<1>1. CASE tool[c].then = "recover"
  <2>1. Call(c, "newPage", None) /\ tool' = Goto(c, "open", "recovered")
    BY <1>1 DEF CloseEnds
  <2>2. "open" \in Pcs /\ "recovered" \in Thens
    BY DEF Pcs, Opening, Thens
  <2>3. PICK w \in ToolRec : tool' = [tool EXCEPT ![c] = w] /\ w.pc = "open" /\ w.then = "recovered"
    BY <2>1, <2>2, GotoRec
  <2> QED
    BY <2>1, <2>3, OpensAnother DEF LockMoves
<1>2. CASE tool[c].then = "tidy"
  <2>1. Taken(c) /\ tool' = Goto(c, "ensure", "go") /\ "go" \in Goals /\ LockMoves(c)
    BY <1>2 DEF CloseEnds, Goals, LockMoves
  <2> QED
    BY <2>1, GotoKeeps
<1>3. CASE tool[c].then \notin {"recover", "tidy"}
  <2>1. Taken(c) /\ Finish(c) /\ LockMoves(c)
    BY <1>3 DEF CloseEnds, LockMoves
  <2> QED
    BY <2>1, FinishKeeps
<1> QED
  BY <1>1, <1>2, <1>3

LEMMA ClosesKeeps ==
    ASSUME IpcInv, ToolInv, NEW c \in Callers, Closes(c), UNCHANGED engineVars
    PROVE  ToolNext
<1>1. /\ tool[c].pc \in {"close", "closing"} /\ ~Awaits(call[c]) /\ tool[c] \in ToolRec
      /\ UNCHANGED pageLock /\ pageLock # c
  <2>1. tool[c].pc \in {"close", "closing"} /\ ~Awaits(call[c]) /\ tool[c] \in ToolRec /\ UNCHANGED pageLock
    BY Now DEF Closes, CloseAnswered, Closed, CloseGivesUp, At, Resting
  <2>2. tool[c].pc \notin Opening
    BY <2>1 DEF Opening
  <2> QED
    BY <2>1, <2>2, LockElsewhere
<1>2. CASE CloseAnswered(c)
  <2>1. CASE Good(c)
    <3> DEFINE w == [tool[c] EXCEPT !.pc = "closing"]
    <3>1. tool' = [tool EXCEPT ![c] = w] /\ Taken(c) /\ current' = current
      BY <1>2, <2>1 DEF CloseAnswered
    <3>2. w \in ToolRec /\ w.pc = "closing"
      BY <1>1 DEF ToolRec, Pcs
    <3> HIDE DEF w
    <3>3. Fits(c, w, pageLock') /\ LockMoves(c)
      BY <1>1, <3>2 DEF Fits, Opening, LockMoves
    <3>4. IpcInv' /\ ToolInv'
      BY <1>1, <3>1, <3>2, <3>3, Ceasing
    <3> QED
      BY <3>1, <3>4 DEF ToolNext
  <2>2. CASE ~Good(c)
    BY <1>1, <1>2, <2>2, CloseEndsKeeps DEF CloseAnswered, ToolNext
  <2> QED
    BY <2>1, <2>2
<1>3. CASE Closed(c)
  <2>1. CloseEnds(c) /\ current' \in {current, None} \union Known
    BY <1>3 DEF Closed
  <2> QED
    BY <1>1, <2>1, CloseEndsKeeps DEF ToolNext
<1>4. CASE CloseGivesUp(c)
  BY <1>1, <1>4, CloseEndsKeeps DEF CloseGivesUp, ToolNext
<1> QED
  BY <1>2, <1>3, <1>4 DEF Closes

LEMMA NavigateAbortedKeeps ==
    ASSUME IpcInv, ToolInv, NEW c \in Callers, NavigateAborted(c), UNCHANGED engineVars
    PROVE  ToolNext
<1> DEFINE w == [tool[c] EXCEPT !.retried = TRUE, !.pc = "ensure", !.then = "quiet"]
<1>1. ~Awaits(call[c]) /\ tool[c] \in ToolRec /\ tool \in [Callers -> ToolRec]
  BY Now DEF NavigateAborted, Navigating, At, ToolInv
<1>2. LockMoves(c) /\ pageLock' # c
  BY ReleasedMoves DEF NavigateAborted
<1>3. tool' = [tool EXCEPT ![c] = w]
  BY <1>1 DEF NavigateAborted, Again
<1>4. Taken(c) /\ UNCHANGED current
  BY DEF NavigateAborted
<1>5. w \in ToolRec /\ w.pc = "ensure" /\ w.then = "quiet"
  BY <1>1 DEF ToolRec, Pcs, Thens
<1> HIDE DEF w
<1>6. Fits(c, w, pageLock')
  BY <1>2, <1>5 DEF Fits, Goals, Opening
<1>7. IpcInv' /\ ToolInv'
  BY <1>1, <1>2, <1>3, <1>4, <1>5, <1>6, Ceasing
<1> QED
  BY <1>4, <1>7 DEF ToolNext

LEMMA RecoverTargetKeeps ==
    ASSUME IpcInv, ToolInv, TabTypes, NEW c \in Callers, RecoverTarget(c), UNCHANGED engineVars
    PROVE  ToolNext
<1>1. ~Awaits(call[c]) /\ tool[c] \in ToolRec /\ tool \in [Callers -> ToolRec] /\ UNCHANGED current
  BY Now DEF RecoverTarget, Navigating, At, ToolInv
<1>2. LockMoves(c) /\ pageLock' # c
  BY ReleasedMoves DEF RecoverTarget
<1>3. CASE current \in Known
  <2> DEFINE w == [tool[c] EXCEPT !.retried = TRUE, !.pc = "close", !.then = "recover",
                                  !.target = current, !.old = current]
  <2>1. Call(c, "close", sessions[current])
    BY <1>3 DEF RecoverTarget
  <2>2. tool' = [tool EXCEPT ![c] = w]
    BY <1>1, <1>3 DEF RecoverTarget, Again
  <2>3. current \in Targets /\ sessions[current] \in Sessions /\ sessions[current] # None
    BY <1>3, KnownFacts
  <2>4. w \in ToolRec /\ w.pc = "close"
    <3>1. "close" \in Pcs /\ "recover" \in Thens
      BY DEF Pcs, Thens
    <3> QED
      BY <1>1, <2>3, <3>1 DEF ToolRec
  <2> HIDE DEF w
  <2>5. Fits(c, w, pageLock') /\ w.pc \notin Resting /\ "close" \in Methods
    BY <1>2, <2>4 DEF Fits, Opening, Resting, Methods
  <2>6. IpcInv' /\ ToolInv'
    BY <1>1, <1>2, <2>1, <2>2, <2>3, <2>4, <2>5, Calling
  <2> QED
    BY <1>1, <2>6 DEF ToolNext
<1>4. CASE current \notin Known
  <2> DEFINE w == [tool[c] EXCEPT !.retried = TRUE, !.pc = "open", !.then = "recovered"]
  <2>1. Call(c, "newPage", None)
    BY <1>4 DEF RecoverTarget
  <2>2. tool' = [tool EXCEPT ![c] = w]
    BY <1>1, <1>4 DEF RecoverTarget, Again
  <2>3. w \in ToolRec /\ w.pc = "open" /\ w.then = "recovered"
    BY <1>1 DEF ToolRec, Pcs, Opening, Thens
  <2> HIDE DEF w
  <2>4. IpcInv' /\ ToolInv'
    BY <1>1, <1>2, <2>1, <2>2, <2>3, OpensAnother
  <2> QED
    BY <1>1, <2>4 DEF ToolNext
<1> QED
  BY <1>3, <1>4

LEMMA RunsKeeps ==
    ASSUME IpcInv, ToolInv, TabTypes, NEW c \in Callers, Runs(c), UNCHANGED engineVars
    PROVE  ToolNext
<1>1. CASE ActReturns(c) \/ NavigateFails(c)
  <2>1. /\ tool[c].pc \notin Opening /\ ~Awaits(call[c]) /\ Finish(c) /\ Taken(c)
        /\ UNCHANGED <<current, pageLock>>
    BY <1>1, Now DEF ActReturns, NavigateFails, At, Opening
  <2> QED
    BY <2>1, LockElsewhere, FinishKeeps DEF LockMoves, ToolNext
<1>2. CASE WaitReturns(c)
  <2>1. /\ tool[c].pc \notin Opening /\ ~Awaits(call[c]) /\ Taken(c) /\ UNCHANGED <<current, pageLock>>
        /\ (tool' = Goto(c, "ensure", "result") \/ Finish(c)) /\ "result" \in Goals
    BY <1>2, Now DEF WaitReturns, At, Opening, Goals
  <2> QED
    BY <2>1, LockElsewhere, FinishKeeps, GotoKeeps DEF LockMoves, ToolNext
<1>3. CASE Quieted(c) \/ Navigated(c)
  <2>1. /\ tool[c].pc \notin Opening /\ ~Awaits(call[c]) /\ Taken(c) /\ UNCHANGED <<current, pageLock>>
        /\ (tool' = Goto(c, "ensure", "go") \/ tool' = Goto(c, "ensure", "landed"))
        /\ "go" \in Goals /\ "landed" \in Goals
    BY <1>3, Now DEF Quieted, Navigated, At, Opening, Goals
  <2> QED
    BY <2>1, LockElsewhere, GotoKeeps DEF LockMoves, ToolNext
<1>4. CASE Renews(c)
  <2> DEFINE w == [tool[c] EXCEPT !.pc = "open"]
  <2>1. /\ tool[c].pc = "renew" /\ ~Awaits(call[c]) /\ tool[c] \in ToolRec /\ tool[c].then = "recovered"
        /\ Call(c, "newPage", None) /\ tool' = [tool EXCEPT ![c] = w] /\ UNCHANGED <<current, pageLock>>
    BY <1>4, Now DEF Renews, Resting, Fits
  <2>2. w \in ToolRec /\ w.pc = "open" /\ w.then = "recovered"
    BY <2>1 DEF ToolRec, Pcs, Opening
  <2> HIDE DEF w
  <2>3. pageLock # c
    BY <2>1, LockElsewhere DEF Opening
  <2>4. IpcInv' /\ ToolInv'
    BY <2>1, <2>2, <2>3, OpensAnother DEF LockMoves
  <2> QED
    BY <2>1, <2>4 DEF ToolNext
<1>5. CASE ToolCancelled(c)
  <2>1. /\ ~Awaits(call[c]) /\ Finish(c) /\ Taken(c) /\ UNCHANGED current
        /\ LockMoves(c) /\ pageLock' # c
    BY <1>5, Now, ReleasedMoves DEF ToolCancelled
  <2> QED
    BY <2>1, FinishKeeps DEF ToolNext
<1> QED
  BY <1>1, <1>2, <1>3, <1>4, <1>5, NavigateAbortedKeeps, RecoverTargetKeeps, CreatesKeeps, ClosesKeeps DEF Runs

\* A tool sets off without the page lock.
LEMMA FirstRec ==
    ASSUME NEW n \in ToolKinds, NEW p \in Pcs, NEW h \in Thens
    PROVE  /\ First(n, p, h) \in ToolRec /\ First(n, p, h).pc = p /\ First(n, p, h).then = h
BY DoneRec DEF First, ToolRec

LEMMA StartToolKeeps ==
    ASSUME IpcInv, ToolInv, TabTypes, NEW c \in Callers, StartTool(c), UNCHANGED engineVars
    PROVE  ToolNext
<1>1. tool[c].pc = "idle" /\ ~Awaits(call[c]) /\ call[c] = NoCall /\ UNCHANGED pageLock /\ pageLock # c
  BY Now, LockElsewhere DEF StartTool, Resting, Opening
<1>2. PICK name \in ToolKinds :
          CASE name \in {"act", "navigate", "closeCurrent"} -> StartOnPage(c, name)
            [] name \in {"new", "newUrl"} -> StartNew(c, name)
            [] name = "switch"            -> \E t \in Known : Switch(c, t)
            [] name = "front"             -> \E t \in Known : BringToFront(c, t)
            [] name = "close"             -> \E t \in Known : StartClose(c, t)
  BY TabsAssumption DEF StartTool
<1>3. LockMoves(c) /\ {"eval", "newPage", "close"} \subseteq Methods
  BY <1>1 DEF LockMoves, Methods
<1>4. CASE name \in {"act", "navigate", "closeCurrent"}
  <2> DEFINE h == CASE name = "act" -> "act" [] name = "navigate" -> "quiet" [] OTHER -> "close"
             w == First(name, "ensure", h)
  <2>1. StartOnPage(c, name)
    BY <1>2, <1>4
  <2>2. h \in Goals /\ h \in Thens /\ "ensure" \in Pcs
    BY DEF Goals, Thens, Pcs
  <2>3. tool' = [tool EXCEPT ![c] = w] /\ UNCHANGED <<call, pending, writer, asked, current>>
    BY <2>1 DEF StartOnPage
  <2> HIDE DEF h
  <2>4. w \in ToolRec /\ w.pc = "ensure" /\ w.then = h
    BY <2>2, FirstRec
  <2> HIDE DEF w
  <2>5. Fits(c, w, pageLock')
    BY <1>1, <2>2, <2>4 DEF Fits, Opening
  <2>6. IpcInv' /\ ToolInv'
    BY <1>1, <1>3, <2>3, <2>4, <2>5, Standing
  <2> QED
    BY <2>3, <2>6 DEF ToolNext
<1>5. CASE name \in {"new", "newUrl"}
  <2> DEFINE w == First(name, "open", "made")
  <2>1. StartNew(c, name)
    BY <1>2, <1>5
  <2>2. Call(c, "newPage", None) /\ tool' = [tool EXCEPT ![c] = w] /\ current' = current
    BY <2>1 DEF StartNew
  <2>3. w \in ToolRec /\ w.pc = "open" /\ w.then = "made"
    BY FirstRec DEF Pcs, Opening, Thens
  <2> HIDE DEF w
  <2>4. IpcInv' /\ ToolInv'
    BY <1>1, <2>2, <2>3, OpensAnother DEF LockMoves
  <2> QED
    BY <2>2, <2>4 DEF ToolNext
<1>6. CASE name = "switch"
  <2>1. PICK t \in Known : Switch(c, t)
    BY <1>2, <1>6
  <2>2. tool' = [tool EXCEPT ![c] = Done] /\ Done \in ToolRec /\ Fits(c, Done, pageLock')
    BY <1>1, <2>1, FinishFits DEF Switch
  <2>3. UNCHANGED <<call, pending, writer, asked>> /\ current' = t
    BY <2>1 DEF Switch
  <2>4. IpcInv' /\ ToolInv'
    BY <1>1, <1>3, <2>2, <2>3, Standing
  <2> QED
    BY <2>3, <2>4 DEF ToolNext
<1>7. CASE name = "front"
  <2> DEFINE w == First("front", "act", "none")
  <2>1. PICK t \in Known : BringToFront(c, t)
    BY <1>2, <1>7
  <2>2. Call(c, "eval", sessions[t]) /\ tool' = [tool EXCEPT ![c] = w] /\ current' = t
    BY <2>1 DEF BringToFront
  <2>3. w \in ToolRec /\ w.pc = "act"
    BY <1>7, FirstRec DEF Pcs, Thens
  <2> HIDE DEF w
  <2>4. Fits(c, w, pageLock') /\ w.pc \notin Resting /\ sessions[t] \in Sessions
    BY <1>1, <2>3, KnownFacts DEF Fits, Opening, Resting
  <2>5. IpcInv' /\ ToolInv'
    BY <1>1, <1>3, <2>2, <2>3, <2>4, Calling
  <2> QED
    BY <2>2, <2>5 DEF ToolNext
<1>8. CASE name = "close"
  <2>1. PICK t \in Known : StartClose(c, t)
    BY <1>2, <1>8
  <2> DEFINE w == [First("close", "close", "none") EXCEPT !.target = t]
  <2>2. Call(c, "close", sessions[t]) /\ tool' = [tool EXCEPT ![c] = w] /\ current' = current
    BY <2>1 DEF StartClose
  <2>3. t \in Targets /\ sessions[t] \in Sessions /\ sessions[t] # None
    BY KnownFacts
  <2>4. w \in ToolRec /\ w.pc = "close"
    <3>1. First("close", "close", "none") \in ToolRec /\ First("close", "close", "none").pc = "close"
      BY <1>8, FirstRec DEF Pcs, Thens
    <3> QED
      BY <2>3, <3>1 DEF ToolRec
  <2> HIDE DEF w
  <2>5. Fits(c, w, pageLock') /\ w.pc \notin Resting
    BY <1>1, <2>4 DEF Fits, Opening, Resting
  <2>6. IpcInv' /\ ToolInv'
    BY <1>1, <1>3, <2>2, <2>3, <2>4, <2>5, Calling
  <2> QED
    BY <2>2, <2>6 DEF ToolNext
<1> QED
  BY <1>4, <1>5, <1>6, <1>7, <1>8 DEF ToolKinds

LEMMA AbandonsKeeps ==
    ASSUME IpcInv, ToolInv, NEW c \in Callers, Abandons(c), UNCHANGED asked, UNCHANGED engineVars
    PROVE  ToolNext
<1>1. LockMoves(c) /\ pageLock' # c /\ Abandoned(c) /\ current' = current
  BY ReleasedMoves DEF Abandons
<1>2. CASE tool[c].then = "recovered"
  <2>1. Done \in ToolRec /\ tool' = [tool EXCEPT ![c] = Done] /\ Fits(c, Done, pageLock')
    BY <1>1, <1>2, FinishFits DEF Abandons
  <2> QED
    BY <1>1, <2>1, Cutting DEF ToolNext
<1>3. CASE tool[c].then = "recover"
  <2>1. tool' = Goto(c, "renew", "recovered") /\ "renew" \in Pcs /\ "recovered" \in Thens
    BY <1>3 DEF Abandons, Pcs, Thens
  <2>2. PICK w \in ToolRec : tool' = [tool EXCEPT ![c] = w] /\ w.pc = "renew" /\ w.then = "recovered"
    BY <2>1, GotoRec
  <2>3. Fits(c, w, pageLock')
    BY <1>1, <2>2 DEF Fits, Opening
  <2> QED
    BY <1>1, <2>2, <2>3, Cutting DEF ToolNext
<1>4. CASE tool[c].then \notin {"recovered", "recover"}
  <2>1. tool' = Goto(c, "ensure", "go") /\ "ensure" \in Pcs /\ "go" \in Thens
    BY <1>4 DEF Abandons, Pcs, Thens
  <2>2. PICK w \in ToolRec : tool' = [tool EXCEPT ![c] = w] /\ w.pc = "ensure" /\ w.then = "go"
    BY <2>1, GotoRec
  <2>3. Fits(c, w, pageLock')
    BY <1>1, <2>2 DEF Fits, Opening, Goals
  <2> QED
    BY <1>1, <2>2, <2>3, Cutting DEF ToolNext
<1> QED
  BY <1>2, <1>3, <1>4

-----------------------------------------------------------------------------
(* The browser                                                             *)

LEMMA Concats ==
    ASSUME NEW q \in Seq(Lines), NEW a \in Lines, NEW b \in Lines
    PROVE  q \o <<a>> = Append(q, a) /\ q \o <<a, b>> = Append(Append(q, a), b)
           /\ Append(q, a) \in Seq(Lines) /\ Append(Append(q, a), b) \in Seq(Lines)
<1>1. q \o <<a>> = Append(q, a)
  OBVIOUS
<1>2. q \o <<a, b>> = Append(Append(q, a), b)
  OBVIOUS
<1> QED
  BY <1>1, <1>2

LEMMA EventLines ==
    ASSUME NEW t \in Targets, NEW s \in Sessions
    PROVE  /\ Attach(t, s) \in Lines /\ Attach(t, s).kind = "attached"
           /\ Attach(t, s).target = t /\ Attach(t, s).session = s
           /\ Detach(t, s) \in Lines /\ Detach(t, s).kind = "detached"
           /\ Detach(t, s).target = t /\ Detach(t, s).session = s
           /\ Context(t, s) \in Lines /\ Context(t, s).kind = "context"
           /\ Context(t, s).target = t /\ Context(t, s).session = s
           /\ Cleared(t, s) \in Lines /\ Cleared(t, s).kind = "cleared"
           /\ Cleared(t, s).target = t /\ Cleared(t, s).session = s
BY DEF Attach, Detach, Context, Cleared, Lines, EventLine

LEMMA ReplyLines ==
    ASSUME NEW r \in AskRec, NEW ok \in BOOLEAN, NEW t \in Targets \union {None}
    PROVE  Reply(r, ok, t) \in Lines /\ Reply(r, ok, t).kind = "reply"
BY DEF Reply, Lines, ReplyLine, AskRec

\* A new name is one that nothing holds.
LEMMA FreshSession ==
    ASSUME TabTypes, FreeSessions # {}
    PROVE  /\ Min(FreeSessions) \in Sessions /\ Min(FreeSessions) \notin contexts
           /\ \A u \in Targets : ~Holds(inbox, sessions, page, u, Min(FreeSessions))
<1>1. FreeSessions \in SUBSET Nat
  BY DEF FreeSessions, Sessions
<1>2. PICK s : s = Min(FreeSessions) /\ s \in FreeSessions
  BY <1>1, MinOfNaturals
<1>3. s \in Sessions /\ s \notin contexts /\ s \notin InboxSessions /\ s \notin Live
      /\ s \notin {sessions[t] : t \in Targets}
  BY <1>2 DEF FreeSessions
<1>4. s # None
  BY <1>3, IdFacts
<1>5. \A u \in Targets : sessions[u] # s /\ page[u] # s
  BY <1>3, <1>4 DEF Live
<1>6. ASSUME NEW u, NEW i, About(inbox, i, u, s) PROVE FALSE
  BY <1>3, <1>6 DEF About, InboxSessions
<1> QED
  BY <1>2, <1>3, <1>5, <1>6 DEF Holds

LEMMA FreshTarget ==
    ASSUME FreeTargets # {}
    PROVE  Min(FreeTargets) \in Targets /\ page[Min(FreeTargets)] = None
<1>1. FreeTargets \in SUBSET Nat
  BY DEF FreeTargets, Targets
<1>2. Min(FreeTargets) \in FreeTargets
  BY <1>1, MinOfNaturals
<1> QED
  BY <1>2 DEF FreeTargets

LEMMA ReplyHolds ==
    ASSUME NEW q \in Seq(Lines), NEW m \in Lines, m.kind = "reply", NEW se, NEW pg, NEW t, NEW s
    PROVE  Holds(Append(q, m), se, pg, t, s) <=> Holds(q, se, pg, t, s)
BY AppendPlaces DEF Holds

\* What a step of the browser keeps.
BrowserNext ==
    /\ page' \in [Targets -> Sessions \union {None}] /\ worlds' \subseteq Sessions
    /\ inbox' \in Seq(Lines)
    /\ View(inbox', sessions, contexts, page', worlds')

ViewNow == TabTypes /\ View(inbox, sessions, contexts, page, worlds)

\* A new tab, with the reply to the call that asked for it, in either order, or without one.
LEMMA OpensKeeps ==
    ASSUME ViewNow, NEW t \in Targets, page[t] = None, NEW s \in Sessions, s \notin contexts,
           \A u \in Targets : ~Holds(inbox, sessions, page, u, s), NEW m,
           page' = [page EXCEPT ![t] = s], worlds' = worlds,
           Says(<<Attach(t, s)>>) \/ (m \in Lines /\ m.kind = "reply" /\ SaysBoth(Attach(t, s), m))
    PROVE  BrowserNext
<1> DEFINE a == Attach(t, s)
<1>1. a \in Lines /\ a.kind = "attached" /\ a.target = t /\ a.session = s
  BY EventLines
<1>2. /\ inbox \in Seq(Lines) /\ page \in [Targets -> Sessions \union {None}] /\ worlds \subseteq Sessions
      /\ View(inbox, sessions, contexts, page, worlds) /\ worlds \ {page[t]} = worlds
  BY IdFacts DEF ViewNow, TabTypes
<1> HIDE DEF a
<1>3. page' \in [Targets -> Sessions \union {None}] /\ worlds' \subseteq Sessions
  BY <1>2
<1>4. \/ inbox' = Append(inbox, a)
      \/ /\ m \in Lines /\ m.kind = "reply"
         /\ inbox' = Append(Append(inbox, a), m) \/ inbox' = Append(Append(inbox, m), a)
  BY <1>1, <1>2, Concats DEF Says, SaysBoth, a
<1>5. inbox' \in Seq(Lines)
  <2>1. Append(inbox, a) \in Seq(Lines)
    BY <1>1, <1>2, AppendFacts
  <2>2. ASSUME m \in Lines
        PROVE  Append(Append(inbox, a), m) \in Seq(Lines) /\ Append(Append(inbox, m), a) \in Seq(Lines)
    BY <1>1, <1>2, <2>2, Concats
  <2> QED
    BY <1>4, <2>1, <2>2
<1>6. View(Append(inbox, a), sessions, contexts, page', worlds')
  <2>1. View(Append(inbox, a), sessions, contexts, [page EXCEPT ![a.target] = a.session],
             worlds \ {page[a.target]})
    BY <1>1, <1>2, WriteAttached
  <2> QED
    BY <1>1, <1>2, <2>1
<1>7. ASSUME m \in Lines, m.kind = "reply"
      PROVE  View(Append(Append(inbox, a), m), sessions, contexts, page', worlds')
  BY <1>1, <1>2, <1>6, <1>7, AppendFacts, WriteReply
<1>8. ASSUME m \in Lines, m.kind = "reply"
      PROVE  View(Append(Append(inbox, m), a), sessions, contexts, page', worlds')
  <2>1. View(Append(inbox, m), sessions, contexts, page, worlds) /\ Append(inbox, m) \in Seq(Lines)
    BY <1>2, <1>8, AppendFacts, WriteReply
  <2>2. \A u \in Targets : ~Holds(Append(inbox, m), sessions, page, u, s)
    BY <1>2, <1>8, ReplyHolds
  <2>3. View(Append(Append(inbox, m), a), sessions, contexts, [page EXCEPT ![a.target] = a.session],
             worlds \ {page[a.target]})
    BY <1>1, <1>2, <2>1, <2>2, WriteAttached
  <2> QED
    BY <1>1, <1>2, <2>3
<1> QED
  BY <1>3, <1>4, <1>5, <1>6, <1>7, <1>8 DEF BrowserNext

LEMMA ClosesTab ==
    ASSUME ViewNow, NEW t \in Targets, NEW s \in Sessions, page[t] = s, NEW m,
           page' = [page EXCEPT ![t] = None], worlds' = worlds \ {s},
           Says(<<Detach(t, s)>>) \/ (m \in Lines /\ m.kind = "reply" /\ SaysBoth(Detach(t, s), m))
    PROVE  BrowserNext
<1> DEFINE a == Detach(t, s)
<1>1. a \in Lines /\ a.kind = "detached" /\ a.target = t /\ a.session = s
  BY EventLines
<1>2. /\ inbox \in Seq(Lines) /\ page \in [Targets -> Sessions \union {None}] /\ worlds \subseteq Sessions
      /\ View(inbox, sessions, contexts, page, worlds)
  BY DEF ViewNow, TabTypes
<1> HIDE DEF a
<1>3. page' \in [Targets -> Sessions \union {None}] /\ worlds' \subseteq Sessions
  BY <1>2
<1>4. \/ inbox' = Append(inbox, a)
      \/ /\ m \in Lines /\ m.kind = "reply"
         /\ inbox' = Append(Append(inbox, a), m) \/ inbox' = Append(Append(inbox, m), a)
  BY <1>1, <1>2, Concats DEF Says, SaysBoth, a
<1>5. inbox' \in Seq(Lines)
  <2>1. Append(inbox, a) \in Seq(Lines)
    BY <1>1, <1>2, AppendFacts
  <2>2. ASSUME m \in Lines
        PROVE  Append(Append(inbox, a), m) \in Seq(Lines) /\ Append(Append(inbox, m), a) \in Seq(Lines)
    BY <1>1, <1>2, <2>2, Concats
  <2> QED
    BY <1>4, <2>1, <2>2
<1>6. ASSUME NEW q \in Seq(Lines), View(q, sessions, contexts, page, worlds)
      PROVE  View(Append(q, a), sessions, contexts, page', worlds')
  <2>1. Holds(q, sessions, page, a.target, a.session)
    BY <1>1 DEF Holds
  <2>2. View(Append(q, a), sessions, contexts,
             [page EXCEPT ![a.target] = IF page[a.target] = a.session THEN None ELSE page[a.target]],
             worlds \ {a.session})
    BY <1>1, <1>2, <1>6, <2>1, WriteDetached
  <2> QED
    BY <1>1, <2>2
<1>7. View(Append(inbox, a), sessions, contexts, page', worlds')
  BY <1>2, <1>6
<1>8. ASSUME m \in Lines, m.kind = "reply"
      PROVE  View(Append(Append(inbox, a), m), sessions, contexts, page', worlds')
  BY <1>1, <1>2, <1>7, <1>8, AppendFacts, WriteReply
<1>9. ASSUME m \in Lines, m.kind = "reply"
      PROVE  View(Append(Append(inbox, m), a), sessions, contexts, page', worlds')
  <2>1. View(Append(inbox, m), sessions, contexts, page, worlds) /\ Append(inbox, m) \in Seq(Lines)
    BY <1>2, <1>9, AppendFacts, WriteReply
  <2> QED
    BY <1>6, <2>1
<1> QED
  BY <1>3, <1>4, <1>5, <1>7, <1>8, <1>9 DEF BrowserNext

\* The end of the old session may be announced on either side of the new one.
LEMMA ReattachesKeeps ==
    ASSUME ViewNow, NEW t \in Targets, page[t] # None, NEW s \in Sessions, s \notin contexts,
           \A u \in Targets : ~Holds(inbox, sessions, page, u, s),
           page' = [page EXCEPT ![t] = s], worlds' = worlds \ {page[t]},
           SaysBoth(Attach(t, s), Detach(t, page[t]))
    PROVE  BrowserNext
<1> DEFINE old == page[t]
           a == Attach(t, s)
           b == Detach(t, old)
<1>1. /\ inbox \in Seq(Lines) /\ page \in [Targets -> Sessions \union {None}] /\ worlds \subseteq Sessions
      /\ View(inbox, sessions, contexts, page, worlds)
  BY DEF ViewNow, TabTypes
<1>2. old \in Sessions /\ old # s /\ s # None
  BY <1>1, IdFacts DEF Holds
<1>3. a \in Lines /\ a.kind = "attached" /\ a.target = t /\ a.session = s
  BY EventLines
<1>4. b \in Lines /\ b.kind = "detached" /\ b.target = t /\ b.session = old
  BY <1>2, EventLines
<1>5. inbox' = Append(Append(inbox, a), b) \/ inbox' = Append(Append(inbox, b), a)
  BY <1>1, <1>3, <1>4, Concats DEF Says, SaysBoth
<1>6. worlds' = worlds \ {old} /\ page' = [page EXCEPT ![t] = s]
  OBVIOUS
<1>11. Holds(inbox, sessions, page, t, old)
  BY DEF Holds
<1>10. Shows(inbox, sessions, t, Len(inbox) + 1, old)
  BY <1>1, <1>2 DEF View, PagesShown
<1> HIDE DEF a, b, old
<1>7. page' \in [Targets -> Sessions \union {None}] /\ worlds' \subseteq Sessions /\ inbox' \in Seq(Lines)
  <2>1. Append(Append(inbox, a), b) \in Seq(Lines) /\ Append(Append(inbox, b), a) \in Seq(Lines)
    BY <1>1, <1>3, <1>4, Concats
  <2>2. inbox' \in Seq(Lines)
    BY <1>5, <2>1
  <2> QED
    BY <1>1, <1>6, <2>2
<1>8. View(Append(Append(inbox, a), b), sessions, contexts, page', worlds')
  <2> DEFINE q == Append(inbox, a)
  <2>1. View(q, sessions, contexts, page', worlds')
    <3>1. View(q, sessions, contexts, [page EXCEPT ![a.target] = a.session], worlds \ {page[a.target]})
      BY <1>1, <1>3, WriteAttached
    <3> QED
      BY <1>3, <3>1 DEF old
  <2>2. q \in Seq(Lines)
    BY <1>1, <1>3, AppendFacts
  <2>3. sessions[t] = old \/ \E i : About(q, i, t, old)
    <3>1. sessions[t] = old \/ \E i : About(inbox, i, t, old)
      BY <1>1, <1>10, ShownIsHeld
    <3>2. \A i : About(inbox, i, t, old) => About(q, i, t, old)
      BY <1>1, <1>3, AppendPlaces
    <3> QED
      BY <3>1, <3>2
  <2> HIDE DEF q
  <2>4. Holds(q, sessions, page', b.target, b.session)
    BY <1>4, <2>3 DEF Holds
  <2>5. View(Append(q, b), sessions, contexts,
             [page' EXCEPT ![b.target] = IF page'[b.target] = b.session THEN None ELSE page'[b.target]],
             worlds' \ {b.session})
    BY <1>4, <1>7, <2>1, <2>2, <2>4, WriteDetached
  <2>6. page'[t] = s
    BY <1>1, <1>6
  <2>7. [page' EXCEPT ![b.target] = IF page'[b.target] = b.session THEN None ELSE page'[b.target]] = page'
    BY <1>2, <1>4, <1>7, <2>6
  <2>8. worlds' \ {b.session} = worlds'
    BY <1>4, <1>6
  <2> QED
    BY <2>5, <2>7, <2>8 DEF q
<1>9. View(Append(Append(inbox, b), a), sessions, contexts, page', worlds')
  <2> DEFINE q == Append(inbox, b)
             pg == [page EXCEPT ![t] = None]
             wo == worlds \ {old}
  <2>1. View(q, sessions, contexts, pg, wo)
    <3>1. View(q, sessions, contexts,
               [page EXCEPT ![b.target] = IF page[b.target] = b.session THEN None ELSE page[b.target]],
               worlds \ {b.session})
      BY <1>1, <1>4, <1>11, WriteDetached
    <3> QED
      BY <1>4, <3>1 DEF old
  <2>2. q \in Seq(Lines) /\ pg \in [Targets -> Sessions \union {None}]
    BY <1>1, <1>4, AppendFacts
  <2>3. ASSUME NEW u \in Targets PROVE ~Holds(q, sessions, pg, u, s)
    <3>1. \A i : About(q, i, u, s) => About(inbox, i, u, s)
      BY <1>1, <1>2, <1>4, AppendPlaces
    <3>2. pg[u] # s
      BY <1>1, <1>2 DEF Holds
    <3> QED
      BY <3>1, <3>2 DEF Holds
  <2>4. View(Append(q, a), sessions, contexts, [pg EXCEPT ![a.target] = a.session], wo \ {pg[a.target]})
    <3> HIDE DEF q, pg, wo
    <3> QED
      BY <1>3, <2>1, <2>2, <2>3, WriteAttached
  <2>5. [pg EXCEPT ![a.target] = a.session] = page'
    BY <1>1, <1>3, <1>6
  <2>6. wo \ {pg[a.target]} = worlds'
    BY <1>1, <1>3, <1>6, IdFacts
  <2> QED
    BY <2>4, <2>5, <2>6
<1> QED
  BY <1>5, <1>7, <1>8, <1>9 DEF BrowserNext

LEMMA TalksKeeps ==
    ASSUME ViewNow, NEW t \in Targets, NEW s \in Sessions, page[t] = s, page' = page,
           \/ worlds' = worlds \union {s} /\ Says(<<Context(t, s)>>)
           \/ worlds' = worlds \ {s} /\ Says(<<Cleared(t, s)>>)
    PROVE  BrowserNext
<1>1. /\ inbox \in Seq(Lines) /\ page \in [Targets -> Sessions \union {None}] /\ worlds \subseteq Sessions
      /\ View(inbox, sessions, contexts, page, worlds)
  BY DEF ViewNow, TabTypes
<1>2. PICK m \in Lines : /\ m.kind \in {"context", "cleared"} /\ m.target = t /\ m.session = s
                         /\ inbox' = Append(inbox, m)
                         /\ worlds' = IF m.kind = "context" THEN worlds \union {s} ELSE worlds \ {s}
  <2>1. CASE worlds' = worlds \union {s} /\ Says(<<Context(t, s)>>)
    <3>1. Context(t, s) \in Lines /\ Context(t, s).kind = "context" /\ Context(t, s).target = t
          /\ Context(t, s).session = s
      BY EventLines
    <3>2. inbox' = Append(inbox, Context(t, s))
      BY <1>1, <2>1, <3>1, Concats DEF Says
    <3> QED
      BY <2>1, <3>1, <3>2
  <2>2. CASE worlds' = worlds \ {s} /\ Says(<<Cleared(t, s)>>)
    <3>1. Cleared(t, s) \in Lines /\ Cleared(t, s).kind = "cleared" /\ Cleared(t, s).target = t
          /\ Cleared(t, s).session = s
      BY EventLines
    <3>2. inbox' = Append(inbox, Cleared(t, s))
      BY <1>1, <2>2, <3>1, Concats DEF Says
    <3> QED
      BY <2>2, <3>1, <3>2
  <2> QED
    BY <2>1, <2>2
<1>3. View(Append(inbox, m), sessions, contexts, page,
           IF m.kind = "context" THEN worlds \union {m.session} ELSE worlds \ {m.session})
  BY <1>1, <1>2, WriteTalk
<1>4. inbox' \in Seq(Lines)
  BY <1>1, <1>2, AppendFacts
<1>5. worlds' \subseteq Sessions
  BY <1>1, <1>2
<1> QED
  BY <1>1, <1>2, <1>3, <1>4, <1>5 DEF BrowserNext

LEMMA RepliesKeeps ==
    ASSUME ViewNow, NEW m \in Lines, m.kind = "reply", Says(<<m>>), UNCHANGED <<page, worlds>>
    PROVE  BrowserNext
<1>1. /\ inbox \in Seq(Lines) /\ page \in [Targets -> Sessions \union {None}] /\ worlds \subseteq Sessions
      /\ View(inbox, sessions, contexts, page, worlds)
  BY DEF ViewNow, TabTypes
<1>2. inbox' = Append(inbox, m) /\ inbox' \in Seq(Lines)
  BY <1>1, Concats DEF Says
<1> QED
  BY <1>1, <1>2, WriteReply DEF BrowserNext

\* The browser answers calls, and does things by itself.
LEMMA ServesKeeps ==
    ASSUME IpcInv, ViewNow, Serves
    PROVE  BrowserNext /\ IpcInv' /\ UNCHANGED <<call, engineVars, pythonVars>>
<1>1. PICK r \in asked : /\ asked' = asked \ {r}
                         /\ Refuses(r) \/ OpensPage(r) \/ ClosesPage(r) \/ ServesPage(r)
  BY DEF Serves
<1>2. r \in AskRec /\ Names(r)
  BY DEF IpcInv, Asks
<1>3. UNCHANGED <<call, pending, writer, engineVars, pythonVars>>
  BY DEF Serves
<1>4. IpcInv'
  <2>1. Table' /\ Asks'
    BY <1>1, <1>3 DEF IpcInv, Table, Calls, OwnIds, Exact, Asks
  <2>2. Engine'
    BY <1>3, EngineStays DEF IpcInv, Engine
  <2> QED
    BY <2>1, <2>2 DEF IpcInv
<1>5. CASE Refuses(r) \/ ServesPage(r)
  <2>1. PICK ok \in BOOLEAN : Says(<<Reply(r, ok, None)>>) /\ UNCHANGED <<page, worlds>>
    BY <1>5 DEF Refuses, ServesPage
  <2>2. Reply(r, ok, None) \in Lines /\ Reply(r, ok, None).kind = "reply"
    BY <1>2, ReplyLines
  <2> QED
    BY <1>3, <1>4, <2>1, <2>2, RepliesKeeps
<1>6. CASE OpensPage(r)
  <2> DEFINE t == Min(FreeTargets)
             s == Min(FreeSessions)
             m == Reply(r, TRUE, t)
  <2>1. /\ FreeSessions # {} /\ FreeTargets # {} /\ page' = [page EXCEPT ![t] = s] /\ worlds' = worlds
        /\ SaysBoth(Attach(t, s), m)
    BY <1>6 DEF OpensPage
  <2>2. s \in Sessions /\ s \notin contexts /\ \A u \in Targets : ~Holds(inbox, sessions, page, u, s)
    BY <2>1, FreshSession DEF ViewNow
  <2>3. t \in Targets /\ page[t] = None
    BY <2>1, FreshTarget
  <2>4. m \in Lines /\ m.kind = "reply"
    BY <1>2, <2>3, ReplyLines
  <2> HIDE DEF t, s, m
  <2>5. BrowserNext
    BY <2>1, <2>2, <2>3, <2>4, OpensKeeps
  <2> QED
    BY <1>3, <1>4, <2>5
<1>7. CASE ClosesPage(r)
  <2>1. PICK t \in Targets : /\ page[t] = r.session /\ page' = [page EXCEPT ![t] = None]
                             /\ worlds' = worlds \ {r.session}
                             /\ SaysBoth(Detach(t, r.session), Reply(r, TRUE, None))
    BY <1>7 DEF ClosesPage
  <2>2. r.session \in Sessions
    BY <1>2, <1>7 DEF ClosesPage, Names, AskRec
  <2>3. Reply(r, TRUE, None) \in Lines /\ Reply(r, TRUE, None).kind = "reply"
    BY <1>2, ReplyLines
  <2>4. BrowserNext
    BY <2>1, <2>2, <2>3, ClosesTab
  <2> QED
    BY <1>3, <1>4, <2>4
<1> QED
  BY <1>1, <1>5, <1>6, <1>7

LEMMA BrowserStepKeeps ==
    ASSUME IpcInv, ViewNow, BrowserStep
    PROVE  BrowserNext /\ IpcInv' /\ UNCHANGED <<call, engineVars, pythonVars>>
<1>1. UNCHANGED <<call, pending, writer, asked, engineVars, pythonVars>>
  BY DEF BrowserStep
<1>2. IpcInv'
  <2>1. Table' /\ Asks'
    BY <1>1 DEF IpcInv, Table, Calls, OwnIds, Exact, Asks
  <2>2. Engine'
    BY <1>1, EngineStays DEF IpcInv, Engine
  <2> QED
    BY <2>1, <2>2 DEF IpcInv
<1>3. page \in [Targets -> Sessions \union {None}]
  BY DEF ViewNow, TabTypes
<1>4. CASE Loads
  <2>1. PICK t \in Targets : /\ page[t] \in Sessions \ worlds /\ worlds' = worlds \union {page[t]}
                             /\ Says(<<Context(t, page[t])>>) /\ page' = page
    BY <1>4 DEF Loads
  <2>2. BrowserNext
    BY <2>1, TalksKeeps
  <2> QED
    BY <1>1, <1>2, <2>2
<1>5. CASE Popup
  <2> DEFINE t == Min(FreeTargets)
             s == Min(FreeSessions)
  <2>1. /\ FreeSessions # {} /\ FreeTargets # {} /\ page' = [page EXCEPT ![t] = s] /\ worlds' = worlds
        /\ Says(<<Attach(t, s)>>)
    BY <1>5 DEF Popup
  <2>2. s \in Sessions /\ s \notin contexts /\ \A u \in Targets : ~Holds(inbox, sessions, page, u, s)
    BY <2>1, FreshSession DEF ViewNow
  <2>3. t \in Targets /\ page[t] = None
    BY <2>1, FreshTarget
  <2> HIDE DEF t, s
  <2>4. BrowserNext
    BY <2>1, <2>2, <2>3, OpensKeeps
  <2> QED
    BY <1>1, <1>2, <2>4
<1>6. ASSUME NEW t \in Targets, page[t] # None, PageCloses(t) PROVE BrowserNext
  <2>1. page[t] \in Sessions
    BY <1>3, <1>6
  <2>2. page' = [page EXCEPT ![t] = None] /\ worlds' = worlds \ {page[t]} /\ Says(<<Detach(t, page[t])>>)
    BY <1>6 DEF PageCloses
  <2> QED
    BY <2>1, <2>2, ClosesTab
<1>7. ASSUME NEW t \in Targets, page[t] # None, Reattaches(t) PROVE BrowserNext
  <2> DEFINE s == Min(FreeSessions)
  <2>1. /\ FreeSessions # {} /\ page' = [page EXCEPT ![t] = s] /\ worlds' = worlds \ {page[t]}
        /\ SaysBoth(Attach(t, s), Detach(t, page[t]))
    BY <1>7 DEF Reattaches
  <2>2. s \in Sessions /\ s \notin contexts /\ \A u \in Targets : ~Holds(inbox, sessions, page, u, s)
    BY <2>1, FreshSession DEF ViewNow
  <2> HIDE DEF s
  <2> QED
    BY <1>7, <2>1, <2>2, ReattachesKeeps
<1>8. ASSUME NEW t \in Targets, page[t] # None, Reloads(t) PROVE BrowserNext
  <2>1. page[t] \in Sessions
    BY <1>3, <1>8
  <2>2. page' = page /\ worlds' = worlds \ {page[t]} /\ Says(<<Cleared(t, page[t])>>)
    BY <1>8 DEF Reloads
  <2> QED
    BY <2>1, <2>2, TalksKeeps
<1> QED
  BY <1>1, <1>2, <1>4, <1>5, <1>6, <1>7, <1>8 DEF BrowserStep, ByItself

-----------------------------------------------------------------------------
(* All of it                                                               *)

Inv == IpcInv /\ ToolInv /\ TabsInv

LEMMA EmptyView ==
    ASSUME NEW se \in [Targets -> Sessions \union {None}],
           \A t, u \in Targets : se[t] = se[u] /\ se[t] # None => t = u
    PROVE  View(<<>>, se, {}, se, {})
<1>1. /\ \A i, t : ~Attaches(<<>>, i, t)
      /\ \A i, t, s : ~Detaches(<<>>, i, t, s) /\ ~Talks(<<>>, i, t, s) /\ ~About(<<>>, i, t, s)
  BY DEF Attaches, Detaches, Talks, About
<1>2. OneTab(<<>>, se, se)
  BY <1>1, IdFacts DEF OneTab, Holds
<1>3. News(<<>>, se, {}) /\ TalkShown(<<>>, se) /\ ContextsKnown(se, {}) /\ WorldsLive(se, {})
  BY <1>1 DEF News, TalkShown, ContextsKnown, WorldsLive
<1>4. PagesShown(<<>>, se, se)
  BY <1>1 DEF PagesShown, Shows, Newest, Gone
<1>5. WorldsHeard(<<>>, {}, se, {})
  BY <1>1 DEF WorldsHeard, Hears
<1> QED
  BY <1>2, <1>3, <1>4, <1>5 DEF View

LEMMA InitInv ==
    ASSUME InitTabs
    PROVE  Inv
<1>1. IpcInv
  <2>1. call \in [Callers -> CallRec] /\ \A c \in Callers : call[c] = NoCall
    BY NoCallOK DEF InitTabs, InitIpc, CallOK
  <2>2. Table
    BY <2>1, NoCallOK DEF Table, Calls, OwnIds, Exact, InitTabs, InitIpc
  <2> QED
    BY <2>2 DEF IpcInv, Asks, Engine, InitTabs, InitIpc
<1>2. ToolInv
  <2>1. tool = [c \in Callers |-> Idle] /\ pageLock = None /\ call = [c \in Callers |-> NoCall]
    BY DEF InitTabs, InitIpc
  <2> QED
    BY <2>1, DoneRec, IpcAssumption DEF ToolInv, ToolOK
<1>3. TabsInv
  <2> DEFINE none == [t \in Targets |-> None]
             boot == [t \in Targets |-> IF t = 1 THEN 1 ELSE None]
             m == Attach(1, 1)
  <2>1. 1 \in Targets /\ 1 \in Sessions /\ None \notin Sessions
    BY IdFacts, TabsAssumption DEF Targets, Sessions
  <2>2. none \in [Targets -> Sessions \union {None}] /\ boot \in [Targets -> Sessions \union {None}]
    BY <2>1
  <2>3. View(<<>>, none, {}, none, {}) /\ View(<<>>, boot, {}, boot, {})
    BY <2>1, <2>2, EmptyView
  <2>4. m \in Lines /\ m.kind = "attached" /\ m.target = 1 /\ m.session = 1
    BY <2>1, EventLines
  <2>5. View(<<m>>, none, {}, boot, {})
    <3>1. <<>> \in Seq(Lines) /\ Append(<<>>, m) = <<m>>
      BY <2>4
    <3>2. \A u \in Targets : ~Holds(<<>>, none, none, u, m.session)
      BY <2>1, <2>4 DEF Holds, About
    <3> HIDE DEF none, m
    <3>3. View(Append(<<>>, m), none, {}, [none EXCEPT ![m.target] = m.session], {} \ {none[m.target]})
      BY <2>2, <2>3, <2>4, <3>1, <3>2, WriteAttached
    <3>4. [none EXCEPT ![m.target] = m.session] = boot
      BY <2>1, <2>4 DEF none
    <3>5. {} \ {none[m.target]} = {}
      OBVIOUS
    <3> QED
      BY <3>1, <3>3, <3>4, <3>5
  <2>6. contexts = {} /\ current = None /\ worlds = {}
    BY DEF InitTabs
  <2>7. CASE page = none /\ sessions = none /\ inbox = <<>>
    BY <2>2, <2>3, <2>6, <2>7 DEF TabsInv, TabTypes, CurrentAttached
  <2>8. CASE page = boot /\ sessions = boot /\ inbox = <<>>
    BY <2>2, <2>3, <2>6, <2>8 DEF TabsInv, TabTypes, CurrentAttached
  <2>9. CASE page = boot /\ sessions = none /\ inbox = <<m>>
    <3>1. inbox \in Seq(Lines)
      BY <2>4, <2>9
    <3> HIDE DEF boot, none, m
    <3> QED
      BY <2>2, <2>5, <2>6, <2>9, <3>1 DEF TabsInv, TabTypes, CurrentAttached
  <2> QED
    BY <2>7, <2>8, <2>9 DEF InitTabs, Attach
<1> QED
  BY <1>1, <1>2, <1>3 DEF Inv

\* The tools leave the tabs to the reader.
LEMMA ToolsLeaveTabs ==
    ASSUME NEW c \in Callers, Runs(c) \/ StartTool(c) \/ Abandons(c)
    PROVE  UNCHANGED <<sessions, contexts>>
<1>1. Creates(c) => UNCHANGED <<sessions, contexts>>
  BY DEF Creates, EnsurePage, AdoptsNothing, PageOpened, PageAttached, CreateReturns, OpenFails, FrameRaises,
         AttachGivesUp, CreateFails
<1>2. Closes(c) => UNCHANGED <<sessions, contexts>>
  BY DEF Closes, CloseAnswered, Closed, CloseGivesUp
<1>3. Runs(c) => UNCHANGED <<sessions, contexts>>
  BY <1>1, <1>2 DEF Runs, ToolCancelled, ActReturns, WaitReturns, Quieted, Navigated, NavigateAborted, RecoverTarget,
         NavigateFails, Renews
<1> QED
  BY <1>3 DEF StartTool, Abandons

LEMMA ToolStepInv ==
    ASSUME Inv, NEW c \in Callers, ToolStep(c) \/ ToolCut(c)
    PROVE  Inv'
<1>1. ToolNext /\ UNCHANGED <<inbox, page, worlds>> /\ UNCHANGED engineVars
  <2>1. CASE ToolStep(c)
    <3>1. (Runs(c) \/ StartTool(c)) /\ UNCHANGED <<inbox, page, worlds>> /\ UNCHANGED engineVars
      BY <2>1 DEF ToolStep, browserVars
    <3> QED
      BY <3>1, RunsKeeps, StartToolKeeps DEF Inv, TabsInv
  <2>2. CASE ToolCut(c)
    <3>1. Abandons(c) /\ UNCHANGED asked /\ UNCHANGED <<inbox, page, worlds>> /\ UNCHANGED engineVars
      BY <2>2 DEF ToolCut, browserVars
    <3> QED
      BY <3>1, AbandonsKeeps DEF Inv
  <2> QED
    BY <2>1, <2>2
<1>2. UNCHANGED <<sessions, contexts>>
  BY ToolsLeaveTabs DEF ToolStep, ToolCut
<1>3. TabTypes' /\ CurrentAttached'
  BY <1>1, <1>2, KnownFacts DEF ToolNext, Inv, TabsInv, TabTypes, CurrentAttached, Known
<1>4. reader' = "reads" => View(inbox', sessions', contexts', page', worlds')
  BY <1>1, <1>2 DEF Inv, TabsInv, engineVars
<1> QED
  BY <1>1, <1>3, <1>4 DEF Inv, TabsInv, ToolNext

LEMMA ReadLineInv ==
    ASSUME Inv, ReadLine
    PROVE  Inv'
<1> DEFINE m == Head(inbox)
<1>1. /\ reader = "reads" /\ inbox # <<>> /\ inbox' = Tail(inbox)
      /\ UNCHANGED <<writer, asked, pageLock, tool, page, worlds>> /\ UNCHANGED engineVars
      /\ m.kind = "reply" => TakeReply(m) /\ UNCHANGED <<sessions, contexts, current>>
      /\ m.kind = "attached" => TrackAttached(m) /\ UNCHANGED <<call, pending>>
      /\ m.kind = "detached" => TrackDetached(m) /\ UNCHANGED <<call, pending>>
      /\ m.kind \notin {"reply", "attached", "detached"} => TrackContext(m) /\ UNCHANGED <<call, pending>>
  BY DEF ReadLine, browserVars
<1>2. TabTypes /\ View(inbox, sessions, contexts, page, worlds)
  BY <1>1 DEF Inv, TabsInv
<1>3. m \in Lines /\ inbox' \in Seq(Lines)
  BY <1>1, <1>2, TailFacts DEF TabTypes
<1> HIDE DEF m
<1>4. IpcInv' /\ OnlyInside
  <2>1. CASE m.kind = "reply"
    <3>1. m \in ReplyLine
      BY <1>3, <2>1 DEF Lines, EventLine
    <3> QED
      BY <1>1, <2>1, <3>1, TakeReplyKeeps DEF Inv
  <2>2. CASE m.kind # "reply"
    <3>1. UNCHANGED <<call, pending, writer, asked>>
      BY <1>1, <2>2
    <3>2. Table' /\ Asks' /\ OnlyInside
      BY <3>1 DEF Inv, IpcInv, Table, Calls, OwnIds, Exact, Asks, OnlyInside
    <3>3. Engine'
      BY <1>1, <3>1, EngineStays DEF Inv, IpcInv, Engine
    <3> QED
      BY <3>2, <3>3 DEF IpcInv
  <2> QED
    BY <2>1, <2>2
<1>5. ToolInv'
  BY <1>1, <1>4, ToolsStay DEF Inv
<1>6. /\ sessions' = SessionsAfter(sessions, m) /\ contexts' = ContextsAfter(sessions, contexts, m)
      /\ current' \in Targets \union {None} /\ CurrentAttached'
  <2>0. current \in Targets \union {None} /\ CurrentAttached /\ None \notin Targets
        /\ sessions \in [Targets -> Sessions \union {None}] /\ None \notin Sessions
    BY <1>2, TabsAssumption, IdFacts DEF TabTypes, Inv, TabsInv, Targets
  <2>1. CASE m.kind = "reply"
    BY <1>1, <2>0, <2>1 DEF SessionsAfter, ContextsAfter, CurrentAttached, Known
  <2>2. CASE m.kind = "attached"
    <3>1. m.target \in Targets /\ m.session \in Sessions
      BY <1>3, <2>2 DEF Lines, EventLine, ReplyLine
    <3>2. /\ contexts' = contexts \ {sessions[m.target], m.session}
          /\ sessions' = [sessions EXCEPT ![m.target] = m.session] /\ current' = current
      BY <1>1, <2>2 DEF TrackAttached
    <3>3. CurrentAttached'
      BY <2>0, <3>1, <3>2 DEF CurrentAttached, Known
    <3> QED
      BY <2>0, <2>2, <3>2, <3>3 DEF SessionsAfter, ContextsAfter
  <2>3. CASE m.kind = "detached"
    <3>1. m.target \in Targets /\ m.session \in Sessions
      BY <1>3, <2>3 DEF Lines, EventLine, ReplyLine
    <3>2. CASE Stale(m)
      <4>1. UNCHANGED <<sessions, contexts, current>>
        BY <1>1, <2>3, <3>2 DEF TrackDetached
      <4>2. sessions[m.target] \notin {None, m.session}
        BY <3>2 DEF Stale
      <4> QED
        BY <2>0, <2>3, <4>1, <4>2 DEF SessionsAfter, ContextsAfter, CurrentAttached, Known
    <3>3. CASE ~Stale(m)
      <4>1. /\ contexts' = contexts \ {m.session} /\ sessions' = [sessions EXCEPT ![m.target] = None]
            /\ IF current # m.target THEN current' = current
               ELSE current' \in IF Known \ {m.target} = {} THEN {None} ELSE Known \ {m.target}
        BY <1>1, <2>3, <3>3 DEF TrackDetached
      <4>2. ~(sessions[m.target] \notin {None, m.session})
        BY <3>3 DEF Stale
      <4>3. Known' = Known \ {m.target}
        BY <2>0, <3>1, <4>1 DEF Known
      <4>4. CurrentAttached' /\ current' \in Targets \union {None}
        BY <2>0, <4>1, <4>3 DEF CurrentAttached, Known
      <4> QED
        BY <2>3, <4>1, <4>2, <4>4 DEF SessionsAfter, ContextsAfter
    <3> QED
      BY <3>2, <3>3
  <2>4. CASE m.kind \in {"context", "cleared"}
    <3>1. TrackContext(m)
      BY <1>1, <2>4
    <3> QED
      BY <2>0, <2>4, <3>1 DEF TrackContext, SessionsAfter, ContextsAfter, CurrentAttached, Known
  <2> QED
    BY <1>3, <2>1, <2>2, <2>3, <2>4 DEF Lines, EventLine, ReplyLine
<1>7. inbox \in Seq(Lines) /\ sessions \in [Targets -> Sessions \union {None}] /\ contexts \in SUBSET Sessions
      /\ page \in [Targets -> Sessions \union {None}] /\ worlds \subseteq Sessions
  BY <1>2 DEF TabTypes
<1>8. View(inbox', sessions', contexts', page', worlds')
  <2>1. View(Tail(inbox), SessionsAfter(sessions, m), ContextsAfter(sessions, contexts, m), page, worlds)
    BY <1>1, <1>2, <1>7, ReadView DEF m
  <2> QED
    BY <1>1, <1>6, <2>1
<1>9. TabTypes'
  <2>1. sessions' \in [Targets -> Sessions \union {None}]
    <3>1. SessionsAfter(sessions, m) \in [Targets -> Sessions \union {None}]
      <4>1. 1 \in Targets
        BY TabsAssumption DEF Targets
      <4> QED
        BY <1>3, <1>7, <4>1, SessionAfter
    <3> QED
      BY <1>6, <3>1
  <2>2. contexts' \in SUBSET Sessions
    <3>1. ContextsAfter(sessions, contexts, m) \in SUBSET Sessions
      BY <1>1, <1>2, <1>7, ReadContexts DEF View, m
    <3> QED
      BY <1>6, <3>1
  <2> QED
    BY <1>1, <1>3, <1>6, <1>7, <2>1, <2>2 DEF TabTypes
<1> QED
  BY <1>4, <1>5, <1>6, <1>8, <1>9 DEF Inv, TabsInv

LEMMA BrowserInv ==
    ASSUME Inv, Serves \/ BrowserStep
    PROVE  Inv'
<1>1. ViewNow
  BY DEF Serves, BrowserStep, Loads, ByItself, Inv, TabsInv, ViewNow
<1>2. BrowserNext /\ IpcInv' /\ UNCHANGED <<call, engineVars, pythonVars>>
  BY <1>1, ServesKeeps, BrowserStepKeeps DEF Inv
<1>3. ToolInv'
  BY <1>2, ToolsStay DEF Inv, OnlyInside, pythonVars
<1>4. TabTypes' /\ CurrentAttached'
  BY <1>1, <1>2 DEF BrowserNext, ViewNow, TabTypes, pythonVars, Inv, TabsInv, CurrentAttached, Known
<1>5. View(inbox', sessions', contexts', page', worlds')
  BY <1>2 DEF BrowserNext, pythonVars
<1> QED
  BY <1>2, <1>3, <1>4, <1>5 DEF Inv, TabsInv

LEMMA EmptyLines == <<>> \in Seq(Lines)
OBVIOUS

LEMMA EngineInv ==
    ASSUME Inv, EngineStops \/ IpcStep
    PROVE  Inv'
<1>1. CASE EngineStops
  <2>1. /\ StopEnds /\ sessions' = [t \in Targets |-> None] /\ contexts' = {} /\ current' = None
        /\ UNCHANGED <<pageLock, tool, page, worlds>>
    BY <1>1 DEF EngineStops, browserVars
  <2>2. IpcInv' /\ OnlyInside /\ (inbox' = inbox \/ inbox' = <<>>)
    BY <2>1, EngineKeeps DEF Inv
  <2>3. ToolInv'
    BY <2>1, <2>2, ToolsStay DEF Inv
  <2>4. reader' # "reads"
    BY <2>1 DEF StopEnds, Inv, IpcInv, Engine
  <2>5. TabTypes' /\ CurrentAttached'
    <3>1. inbox' \in Seq(Lines)
      BY <2>2, EmptyLines DEF Inv, TabsInv, TabTypes
    <3> QED
      BY <2>1, <3>1 DEF Inv, TabsInv, TabTypes, CurrentAttached
  <2> QED
    BY <2>2, <2>3, <2>4, <2>5 DEF Inv, TabsInv
<1>2. CASE IpcStep
  <2>1. UNCHANGED <<sessions, contexts, current, pageLock, tool, page, worlds>>
    BY <1>2 DEF IpcStep, pythonVars, browserVars
  <2>2. /\ IpcInv' /\ OnlyInside /\ (inbox' = inbox \/ inbox' = <<>>)
        /\ reader' = "reads" => reader = "reads" /\ inbox' = inbox
    BY <1>2, CallStepKeeps, EngineKeeps DEF Inv, IpcStep
  <2>3. ToolInv'
    BY <2>1, <2>2, ToolsStay DEF Inv
  <2>4. TabTypes' /\ CurrentAttached'
    <3>1. inbox' \in Seq(Lines)
      BY <2>2, EmptyLines DEF Inv, TabsInv, TabTypes
    <3> QED
      BY <2>1, <3>1 DEF Inv, TabsInv, TabTypes, CurrentAttached, Known
  <2>5. reader' = "reads" => View(inbox', sessions', contexts', page', worlds')
    BY <2>1, <2>2 DEF Inv, TabsInv
  <2> QED
    BY <2>2, <2>3, <2>4, <2>5 DEF Inv, TabsInv
<1> QED
  BY <1>1, <1>2

LEMMA InvAlways == Spec => []Inv
<1>1. InitTabs => Inv
  BY InitInv
<1>2. Inv /\ [Next]_vars => Inv'
  <2> SUFFICES ASSUME Inv, [Next]_vars PROVE Inv'
    OBVIOUS
  <2>1. CASE UNCHANGED vars
    <3>1. IpcInv'
      BY <2>1 DEF vars, ipcVars, engineVars, Inv, IpcInv, Table, Calls, OwnIds, Exact, Asks, Engine
    <3>2. ToolInv'
      BY <2>1 DEF vars, ipcVars, Inv, ToolInv
    <3>3. TabsInv'
      BY <2>1 DEF vars, ipcVars, engineVars, Inv, TabsInv, TabTypes, CurrentAttached, Known
    <3> QED
      BY <3>1, <3>2, <3>3 DEF Inv
  <2> QED
    BY <2>1, ToolStepInv, ReadLineInv, BrowserInv, EngineInv DEF Next
<1> QED
  BY <1>1, <1>2, PTL DEF Spec

\* Every field of the calls, the engine and the tabs keeps its type.
THEOREM TypesOK == Spec => []TypeOK
<1>1. Inv => TypeOK
  <2> SUFFICES ASSUME Inv PROVE TypeOK
    OBVIOUS
  <2>1. pending \subseteq Ids
    BY DEF Inv, IpcInv, Table, Calls, CallOK, Exact, Awaits
  <2>2. call \in [Callers -> CallRec]
    BY DEF Inv, IpcInv, Table, Calls
  <2> QED
    BY <2>1, <2>2 DEF Inv, IpcInv, Engine, ToolInv, TabsInv, TabTypes, TypeOK, CallRec, Methods
<1> QED
  BY <1>1, InvAlways, PTL

\* The pending table holds exactly the ids of the calls that wait for a reply, and none once the
\* reader has ended (call(), _read_loop, stop()); the page lock is held only by a tool that is opening
\* the first tab (ensure_page), also when it is cancelled.
THEOREM NothingIsLeftOver == Spec => []NothingLeftOver
<1>1. Inv => NothingLeftOver
  <2> SUFFICES ASSUME Inv PROVE NothingLeftOver
    OBVIOUS
  <2>1. pending = {call[c].id : c \in {d \in Callers : Open(d) /\ call[d].fut = "open"}}
    BY DEF Inv, IpcInv, Table, Exact, Awaits, Inside, Open
  <2>2. reader = "ended" => pending = {}
    BY DEF Inv, IpcInv, Engine
  <2>3. PageLockHeld
    BY DEF Inv, ToolInv, ToolOK, Fits, Opening, PageLockHeld
  <2> QED
    BY <2>1, <2>2, <2>3 DEF NothingLeftOver, PendingOwned
<1> QED
  BY <1>1, InvAlways, PTL

\* The current tab is one that is known, and the tabs and contexts Python knows are those the browser
\* has as soon as every line is read (_track_session, _track_context, ensure_page, close_page).
THEOREM TabsAlwaysAgree == Spec => []TabsAgree
<1>1. Inv => TabsAgree
  <2> SUFFICES ASSUME Inv PROVE TabsAgree
    OBVIOUS
  <2>1. ASSUME reader = "reads", inbox = <<>> PROVE sessions = page /\ contexts = worlds
    <3>1. View(<<>>, sessions, contexts, page, worlds) /\ TabTypes
      BY <2>1 DEF Inv, TabsInv
    <3>2. /\ \A i, t : ~Attaches(<<>>, i, t)
          /\ \A i, t, s : ~Detaches(<<>>, i, t, s) /\ ~Talks(<<>>, i, t, s)
      BY DEF Attaches, Detaches, Talks
    <3>3. \A t \in Targets, s \in Sessions : page[t] = s <=> sessions[t] = s
      BY <3>1, <3>2 DEF View, PagesShown, Shows, Newest, Gone
    <3>4. \A t \in Targets : page[t] = sessions[t]
      BY <3>1, <3>3 DEF TabTypes
    <3>5. sessions = page
      BY <3>1, <3>4 DEF TabTypes
    <3>6. \A t \in Targets, s \in Sessions : page[t] = s => (s \in worlds <=> s \in contexts)
      BY <3>1, <3>2 DEF View, WorldsHeard, Hears
    <3>7. \A s \in worlds : s \in contexts
      BY <3>1, <3>6 DEF View, WorldsLive, TabTypes
    <3>8. \A s \in contexts : s \in worlds
      BY <3>1, <3>4, <3>6 DEF View, ContextsKnown, TabTypes
    <3> QED
      BY <3>5, <3>7, <3>8
  <2> QED
    BY <2>1 DEF Inv, TabsInv, TabsAgree, ViewConverges
<1> QED
  BY <1>1, InvAlways, PTL
=============================================================================
