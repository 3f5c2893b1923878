------------------------- MODULE PageActions_proofs -------------------------
(***************************************************************************)
(* What PageActions guarantees for every number of callers and tabs and    *)
(* however often the pages change.                                         *)
(***************************************************************************)
EXTENDS PageActions, FiniteSetTheorems, TLAPS

-----------------------------------------------------------------------------
(* The invariant: what is known of a page, and of a tool and the pages     *)

StepNames == UNION {{Steps[n][i] : i \in DOMAIN Steps[n]} : n \in DOMAIN Steps}
Points == (Elements \cup {"middle", "away"}) \X {1, 2}
Endings == {"none", "ok", "error", "timeout", "unchanged", "blind"}

ToolRec == [name : DOMAIN Steps \cup {"none"}, todo : Seq(StepNames),
            el : Elements, page : Tabs \cup {None}, ref : Nat,
            last : {None} \cup Points, point : {None} \cup Points, goal : {None} \cup Points,
            before : SUBSET Callers, calm : BOOLEAN, alone : BOOLEAN, acted : SUBSET Tabs, missed : BOOLEAN,
            said : Endings]

PageRec == [open : BOOLEAN, fits : BOOLEAN, doc : Nat, shown : [Elements -> Conditions],
            place : [Elements -> Points],
            focus : Elements \cup {None}, text : SUBSET Callers, ticked : BOOLEAN,
            held : SUBSET {"button", "key"}, pressed : Elements \cup {None}]

\* On a page that fits its window every element has places of its own; on another one at most one
\* element is in view.
Placed(p) ==
    IF p.fits THEN \A e \in Elements : p.place[e][1] = e
    ELSE /\ \A e \in Elements : p.place[e] \in {<<"middle", 1>>, <<"away", 1>>}
         /\ \A e, x \in Elements : p.place[e] = <<"middle", 1>> /\ p.place[x] = <<"middle", 1>> => e = x

PageOK(p) == p \in PageRec /\ Placed(p)

\* A tool has the last of its steps to do.
Suffix(s, t) == Len(s) <= Len(t) /\ \A i \in 1..Len(s) : s[i] = t[Len(t) - Len(s) + i]

Course(r) ==
    /\ r.name = "none" => r.todo = <<>> /\ r.said = "none"
    /\ r.name # "none" => r.page \in Tabs /\ Suffix(r.todo, Steps[r.name])
    /\ r.todo # <<>> => r.said = "none"

OneTab(r) ==
    r.name # "load" =>
        /\ \E t \in Tabs : r.acted \subseteq {t}
        /\ r.todo # <<>> => r.acted \subseteq {r.page}

\* The presses to come have been measured.
Measured(r) ==
    /\ r.name # "nodeClick" /\ r.calm
    /\ \E i \in 1..Len(r.todo) : r.todo[i] = "down"
    /\ \A i \in 1..Len(r.todo) : r.todo[i] # "point"

\* They will land as long as the page is as it was.
Aimed(r, F) ==
    Measured(r) /\ (r.name = "drag" => F[r.page].fits) =>
        F[r.page].shown[r.el] = "ok" /\ Hit(F[r.page], r.point) = r.el

Landed(r, F) == r.missed => r.name = "nodeClick" \/ (r.name = "drag" /\ \E t \in Tabs : ~F[t].fits)

\* The text of the field is what the tool noted, unless it has typed.
TextOK(c, r, F) ==
    r.name = "type" /\ r.alone =>
        /\ Len(r.todo) = 2 => F[r.page].text = r.before
        /\ Len(r.todo) = 1 => F[r.page].text = r.before \/ c \in F[r.page].text
        /\ r.said = "ok" => c \in F[r.page].text

\* A box said to be as wanted was seen so, or belongs to an uncheck that got no answer.
TickOK(r, F) ==
    /\ r.said = "blind" => r.name = "uncheck"
    /\ r.name \in {"check", "uncheck"} /\ r.alone /\ r.said = "ok" => F[r.page].ticked = (r.name = "check")

CallerOK(c, r, F) ==
    /\ r \in ToolRec /\ Course(r) /\ OneTab(r)
    /\ Aimed(r, F) /\ Landed(r, F) /\ TextOK(c, r, F) /\ TickOK(r, F)

PagesOK(F) == F \in [Tabs -> PageRec] /\ \A t \in Tabs : PageOK(F[t])

Inv ==
    /\ current \in Tabs
    /\ PagesOK(tab)
    /\ tool \in [Callers -> ToolRec]
    /\ \A c \in Callers : CallerOK(c, tool[c], tab)

SameFits(F, G) == \A t \in Tabs : F[t].fits = G[t].fits

\* The record with one step less to do.
Advanced(s, t) == Len(s) = Len(t) - 1 /\ \A i \in 1..Len(s) : s[i] = t[i + 1]

-----------------------------------------------------------------------------
(* The tools' steps                                                        *)

LEMMA StepsDomain ==
    DOMAIN Steps = {"click", "hover", "dblclick", "humanized", "check", "uncheck", "drag", "select", "type",
                    "focus", "key", "nodeClick", "nodeHover", "fill", "wait", "expect", "read", "history",
                    "save", "load"}
  BY DEF Steps

LEMMA StepsOf ==
    /\ Steps["click"] = Click /\ Steps["hover"] = Hover /\ Steps["dblclick"] = DoubleClick
    /\ Steps["humanized"] = Humanized /\ Steps["check"] = Check /\ Steps["uncheck"] = Check
    /\ Steps["drag"] = Drag /\ Steps["select"] = SelectOption /\ Steps["type"] = Type
    /\ Steps["focus"] = Focus /\ Steps["key"] = KeyPress /\ Steps["nodeClick"] = NodeClick
    /\ Steps["nodeHover"] = NodeHover /\ Steps["fill"] = FillForm /\ Steps["wait"] = WaitFor
    /\ Steps["expect"] = Expect /\ Steps["read"] = Read /\ Steps["history"] = History
    /\ Steps["save"] = StateSave /\ Steps["load"] = StateLoad
  BY DEF Steps

Words ==
    {"attached", "capture", "changed", "down", "drag", "edit", "focus", "goto", "history", "insert",
     "keydown", "keyup", "kind", "look", "move", "point", "pointTo", "poll", "ready", "readyTo", "ref",
     "restore", "select", "up", "verify"}

\* What the proofs need to know of a sequence of steps.
Presses(n, s) ==
    n # "nodeClick" =>
        \A i, j \in 1..Len(s) : i <= j /\ s[j] = "down" =>
            \/ s[i] \in {"move", "pointTo", "down", "up"}
            \/ \E k \in 1..Len(s) : i <= k /\ k <= j /\ s[k] = "point"
PointFirst(n, s) ==
    n # "nodeClick" => \A i, j \in 1..Len(s) : i <= j /\ s[i] = "down" => s[j] # "point"
Sound(n, s) ==
    /\ s \in Seq(Words) /\ Len(s) > 0 /\ s[1] \notin {"move", "pointTo", "down", "up"}
    /\ Presses(n, s) /\ PointFirst(n, s)
    /\ n # "load" => \A i \in 1..Len(s) : s[i] \notin {"goto", "capture", "restore"}
    /\ n # "drag" => \A i \in 1..Len(s) : s[i] \notin {"pointTo", "readyTo", "drag"}
    /\ n \notin {"type"} => \A i \in 1..Len(s) : s[i] \notin {"edit", "changed"}
    /\ n \in {"check", "uncheck"} => s[Len(s)] = "verify"
    /\ n \notin {"check", "uncheck"} => \A i \in 1..Len(s) : s[i] # "verify"

LEMMA Tuples ==
    ASSUME NEW S, NEW a \in S, NEW b \in S, NEW c \in S, NEW d \in S, NEW e \in S, NEW f \in S, NEW g \in S
    PROVE  /\ <<a>> \in Seq(S) /\ <<a, b>> \in Seq(S) /\ <<a, b, c>> \in Seq(S) /\ <<a, b, c, d>> \in Seq(S)
           /\ <<a, b, c, d, e>> \in Seq(S) /\ <<a, b, c, d, e, f>> \in Seq(S) /\ <<a, b, c, d, e, f, g>> \in Seq(S)
  OBVIOUS

LEMMA FewNumbers ==
    /\ 1..1 = {1} /\ 1..2 = {1, 2} /\ 1..3 = {1, 2, 3} /\ 1..4 = {1, 2, 3, 4} /\ 1..5 = {1, 2, 3, 4, 5}
    /\ 1..6 = {1, 2, 3, 4, 5, 6} /\ 1..7 = {1, 2, 3, 4, 5, 6, 7}
  OBVIOUS

LEMMA SoundSteps == \A n \in DOMAIN Steps : Sound(n, Steps[n])
<1>1. Sound("click", Click)
  <2> DEFINE s == Click
  <2>1. Len(s) = 4 /\ s[1] = "ready" /\ s[2] = "point" /\ s[3] = "down" /\ s[4] = "up"
    BY DEF Click
  <2>2. s \in Seq(Words)
    BY Tuples DEF Click, Words
  <2> HIDE DEF s
  <2>3. Sound("click", s)
    BY <2>1, <2>2, FewNumbers DEF Sound, Presses, PointFirst
  <2> QED
    BY <2>3 DEF s
<1>2. Sound("hover", Hover)
  <2> DEFINE s == Hover
  <2>1. Len(s) = 3 /\ s[1] = "ready" /\ s[2] = "point" /\ s[3] = "move"
    BY DEF Hover
  <2>2. s \in Seq(Words)
    BY Tuples DEF Hover, Words
  <2> HIDE DEF s
  <2>3. Sound("hover", s)
    BY <2>1, <2>2, FewNumbers DEF Sound, Presses, PointFirst
  <2> QED
    BY <2>3 DEF s
<1>3. Sound("dblclick", DoubleClick)
  <2> DEFINE s == DoubleClick
  <2>1. Len(s) = 6 /\ s[1] = "ready" /\ s[2] = "point" /\ s[3] = "down" /\ s[4] = "up" /\ s[5] = "down" /\
        s[6] = "up"
    BY DEF DoubleClick
  <2>2. s \in Seq(Words)
    BY Tuples DEF DoubleClick, Words
  <2> HIDE DEF s
  <2>3. Sound("dblclick", s)
    BY <2>1, <2>2, FewNumbers DEF Sound, Presses, PointFirst
  <2> QED
    BY <2>3 DEF s
<1>4. Sound("humanized", Humanized)
  <2> DEFINE s == Humanized
  <2>1. Len(s) = 5 /\ s[1] = "ready" /\ s[2] = "point" /\ s[3] = "move" /\ s[4] = "down" /\ s[5] = "up"
    BY DEF Humanized
  <2>2. s \in Seq(Words)
    BY Tuples DEF Humanized, Words
  <2> HIDE DEF s
  <2>3. Sound("humanized", s)
    BY <2>1, <2>2, FewNumbers DEF Sound, Presses, PointFirst
  <2> QED
    BY <2>3 DEF s
<1>5. Sound("check", Check)
  <2> DEFINE s == Check
  <2>1. Len(s) = 6 /\ s[1] = "ready" /\ s[2] = "kind" /\ s[3] = "point" /\ s[4] = "down" /\ s[5] = "up" /\
        s[6] = "verify"
    BY DEF Check
  <2>2. s \in Seq(Words)
    BY Tuples DEF Check, Words
  <2> HIDE DEF s
  <2>3. Sound("check", s)
    BY <2>1, <2>2, FewNumbers DEF Sound, Presses, PointFirst
  <2> QED
    BY <2>3 DEF s
<1>6. Sound("uncheck", Check)
  <2> DEFINE s == Check
  <2>1. Len(s) = 6 /\ s[1] = "ready" /\ s[2] = "kind" /\ s[3] = "point" /\ s[4] = "down" /\ s[5] = "up" /\
        s[6] = "verify"
    BY DEF Check
  <2>2. s \in Seq(Words)
    BY Tuples DEF Check, Words
  <2> HIDE DEF s
  <2>3. Sound("uncheck", s)
    BY <2>1, <2>2, FewNumbers DEF Sound, Presses, PointFirst
  <2> QED
    BY <2>3 DEF s
<1>7. Sound("drag", Drag)
  <2> DEFINE s == Drag
  <2>1. Len(s) = 7 /\ s[1] = "ready" /\ s[2] = "readyTo" /\ s[3] = "point" /\ s[4] = "pointTo" /\
        s[5] = "down" /\ s[6] = "drag" /\ s[7] = "up"
    BY DEF Drag
  <2>2. s \in Seq(Words)
    BY Tuples DEF Drag, Words
  <2> HIDE DEF s
  <2>3. Sound("drag", s)
    BY <2>1, <2>2, FewNumbers DEF Sound, Presses, PointFirst
  <2> QED
    BY <2>3 DEF s
<1>8. Sound("select", SelectOption)
  <2> DEFINE s == SelectOption
  <2>1. Len(s) = 2 /\ s[1] = "ready" /\ s[2] = "select"
    BY DEF SelectOption
  <2>2. s \in Seq(Words)
    BY Tuples DEF SelectOption, Words
  <2> HIDE DEF s
  <2>3. Sound("select", s)
    BY <2>1, <2>2, FewNumbers DEF Sound, Presses, PointFirst
  <2> QED
    BY <2>3 DEF s
<1>9. Sound("type", Type)
  <2> DEFINE s == Type
  <2>1. Len(s) = 3 /\ s[1] = "edit" /\ s[2] = "insert" /\ s[3] = "changed"
    BY DEF Type
  <2>2. s \in Seq(Words)
    BY Tuples DEF Type, Words
  <2> HIDE DEF s
  <2>3. Sound("type", s)
    BY <2>1, <2>2, FewNumbers DEF Sound, Presses, PointFirst
  <2> QED
    BY <2>3 DEF s
<1>10. Sound("focus", Focus)
  <2> DEFINE s == Focus
  <2>1. Len(s) = 2 /\ s[1] = "attached" /\ s[2] = "focus"
    BY DEF Focus
  <2>2. s \in Seq(Words)
    BY Tuples DEF Focus, Words
  <2> HIDE DEF s
  <2>3. Sound("focus", s)
    BY <2>1, <2>2, FewNumbers DEF Sound, Presses, PointFirst
  <2> QED
    BY <2>3 DEF s
<1>11. Sound("key", KeyPress)
  <2> DEFINE s == KeyPress
  <2>1. Len(s) = 2 /\ s[1] = "keydown" /\ s[2] = "keyup"
    BY DEF KeyPress
  <2>2. s \in Seq(Words)
    BY Tuples DEF KeyPress, Words
  <2> HIDE DEF s
  <2>3. Sound("key", s)
    BY <2>1, <2>2, FewNumbers DEF Sound, Presses, PointFirst
  <2> QED
    BY <2>3 DEF s
<1>12. Sound("nodeClick", NodeClick)
  <2> DEFINE s == NodeClick
  <2>1. Len(s) = 3 /\ s[1] = "ref" /\ s[2] = "down" /\ s[3] = "up"
    BY DEF NodeClick
  <2>2. s \in Seq(Words)
    BY Tuples DEF NodeClick, Words
  <2> HIDE DEF s
  <2>3. Sound("nodeClick", s)
    BY <2>1, <2>2, FewNumbers DEF Sound, Presses, PointFirst
  <2> QED
    BY <2>3 DEF s
<1>13. Sound("nodeHover", NodeHover)
  <2> DEFINE s == NodeHover
  <2>1. Len(s) = 2 /\ s[1] = "ref" /\ s[2] = "move"
    BY DEF NodeHover
  <2>2. s \in Seq(Words)
    BY Tuples DEF NodeHover, Words
  <2> HIDE DEF s
  <2>3. Sound("nodeHover", s)
    BY <2>1, <2>2, FewNumbers DEF Sound, Presses, PointFirst
  <2> QED
    BY <2>3 DEF s
<1>14. Sound("fill", FillForm)
  <2> DEFINE s == FillForm
  <2>1. Len(s) = 4 /\ s[1] = "ref" /\ s[2] = "insert" /\ s[3] = "ref" /\ s[4] = "insert"
    BY DEF FillForm
  <2>2. s \in Seq(Words)
    BY Tuples DEF FillForm, Words
  <2> HIDE DEF s
  <2>3. Sound("fill", s)
    BY <2>1, <2>2, FewNumbers DEF Sound, Presses, PointFirst
  <2> QED
    BY <2>3 DEF s
<1>15. Sound("wait", WaitFor)
  <2> DEFINE s == WaitFor
  <2>1. Len(s) = 1 /\ s[1] = "poll"
    BY DEF WaitFor
  <2>2. s \in Seq(Words)
    BY Tuples DEF WaitFor, Words
  <2> HIDE DEF s
  <2>3. Sound("wait", s)
    BY <2>1, <2>2, FewNumbers DEF Sound, Presses, PointFirst
  <2> QED
    BY <2>3 DEF s
<1>16. Sound("expect", Expect)
  <2> DEFINE s == Expect
  <2>1. Len(s) = 1 /\ s[1] = "poll"
    BY DEF Expect
  <2>2. s \in Seq(Words)
    BY Tuples DEF Expect, Words
  <2> HIDE DEF s
  <2>3. Sound("expect", s)
    BY <2>1, <2>2, FewNumbers DEF Sound, Presses, PointFirst
  <2> QED
    BY <2>3 DEF s
<1>17. Sound("read", Read)
  <2> DEFINE s == Read
  <2>1. Len(s) = 1 /\ s[1] = "look"
    BY DEF Read
  <2>2. s \in Seq(Words)
    BY Tuples DEF Read, Words
  <2> HIDE DEF s
  <2>3. Sound("read", s)
    BY <2>1, <2>2, FewNumbers DEF Sound, Presses, PointFirst
  <2> QED
    BY <2>3 DEF s
<1>18. Sound("history", History)
  <2> DEFINE s == History
  <2>1. Len(s) = 2 /\ s[1] = "look" /\ s[2] = "history"
    BY DEF History
  <2>2. s \in Seq(Words)
    BY Tuples DEF History, Words
  <2> HIDE DEF s
  <2>3. Sound("history", s)
    BY <2>1, <2>2, FewNumbers DEF Sound, Presses, PointFirst
  <2> QED
    BY <2>3 DEF s
<1>19. Sound("save", StateSave)
  <2> DEFINE s == StateSave
  <2>1. Len(s) = 3 /\ s[1] = "look" /\ s[2] = "look" /\ s[3] = "look"
    BY DEF StateSave
  <2>2. s \in Seq(Words)
    BY Tuples DEF StateSave, Words
  <2> HIDE DEF s
  <2>3. Sound("save", s)
    BY <2>1, <2>2, FewNumbers DEF Sound, Presses, PointFirst
  <2> QED
    BY <2>3 DEF s
<1>20. Sound("load", StateLoad)
  <2> DEFINE s == StateLoad
  <2>1. Len(s) = 4 /\ s[1] = "goto" /\ s[2] = "capture" /\ s[3] = "restore" /\ s[4] = "restore"
    BY DEF StateLoad
  <2>2. s \in Seq(Words)
    BY Tuples DEF StateLoad, Words
  <2> HIDE DEF s
  <2>3. Sound("load", s)
    BY <2>1, <2>2, FewNumbers DEF Sound, Presses, PointFirst
  <2> QED
    BY <2>3 DEF s
<1> QED
  BY <1>1, <1>2, <1>3, <1>4, <1>5, <1>6, <1>7, <1>8, <1>9, <1>10, <1>11, <1>12, <1>13, <1>14, <1>15, <1>16,
     <1>17, <1>18, <1>19, <1>20, StepsOf, StepsDomain

LEMMA StepsType == \A n \in DOMAIN Steps : Steps[n] \in Seq(StepNames) /\ Steps[n] # <<>>
<1> SUFFICES ASSUME NEW n \in DOMAIN Steps PROVE Steps[n] \in Seq(StepNames) /\ Steps[n] # <<>>
  OBVIOUS
<1> DEFINE s == Steps[n]
<1>1. s \in Seq(Words) /\ Len(s) > 0
  BY SoundSteps DEF Sound
<1>2. \A i \in DOMAIN s : s[i] \in StepNames
  BY DEF StepNames
<1> HIDE DEF s
<1>3. s \in Seq(StepNames) /\ s # <<>>
  BY <1>1, <1>2
<1> QED
  BY <1>3 DEF s
\* What comes first among the steps a tool has left.
LEMMA FirstStep ==
    ASSUME NEW r \in ToolRec, Course(r), r.todo # <<>>
    PROVE  /\ r.name \in DOMAIN Steps /\ r.name # "none" /\ r.page \in Tabs /\ r.said = "none"
           /\ Len(r.todo) > 0 /\ Head(r.todo) = r.todo[1] /\ Head(r.todo) \in StepNames
           /\ r.name # "load" => Head(r.todo) \notin {"goto", "capture", "restore"}
           /\ r.name # "drag" => Head(r.todo) \notin {"pointTo", "readyTo", "drag"}
           /\ r.name # "type" => Head(r.todo) \notin {"edit", "changed"}
           /\ r.name \in {"check", "uncheck"} /\ Len(r.todo) = 1 => Head(r.todo) = "verify"
           /\ r.name \notin {"check", "uncheck"} => Head(r.todo) # "verify"
           /\ Measured(r) => Head(r.todo) \in {"move", "pointTo", "down", "up"}
           /\ r.name # "nodeClick" /\ r.calm /\ Head(r.todo) = "down" => Measured(r)
<1> DEFINE n == r.name
           s == Steps[r.name]
           l == r.todo
           o == Len(s) - Len(l)
<1>1. n \in DOMAIN Steps /\ n # "none" /\ r.page \in Tabs /\ r.said = "none" /\ Suffix(l, s)
  BY DEF Course, ToolRec
<1>2. l \in Seq(StepNames) /\ l # <<>>
  BY DEF ToolRec
<1>3. Len(l) \in Nat /\ Len(l) > 0 /\ Head(l) = l[1] /\ Head(l) \in StepNames
  BY <1>2
<1>4. Sound(n, s) /\ s \in Seq(Words)
  BY <1>1, SoundSteps DEF Sound
<1> HIDE DEF n, s, l
<1>5. o \in Nat /\ Len(s) = Len(l) + o /\ \A i \in 1..Len(l) : o + i \in 1..Len(s) /\ l[i] = s[o + i]
  BY <1>1, <1>3, <1>4 DEF Suffix
<1> HIDE DEF o
<1>6. 1 \in 1..Len(l) /\ o + 1 \in 1..Len(s) /\ Head(l) = s[o + 1]
  BY <1>3, <1>5
<1>7. /\ n # "load" => Head(l) \notin {"goto", "capture", "restore"}
      /\ n # "drag" => Head(l) \notin {"pointTo", "readyTo", "drag"}
      /\ n # "type" => Head(l) \notin {"edit", "changed"}
      /\ n \notin {"check", "uncheck"} => Head(l) # "verify"
  BY <1>4, <1>6 DEF Sound
<1>8. n \in {"check", "uncheck"} /\ Len(l) = 1 => Head(l) = "verify"
  BY <1>4, <1>5, <1>6 DEF Sound
<1>9. ASSUME n # "nodeClick", NEW j \in 1..Len(l), l[j] = "down", \A i \in 1..Len(l) : l[i] # "point"
      PROVE  Head(l) \in {"move", "pointTo", "down", "up"}
  <2>1. o + j \in 1..Len(s) /\ s[o + j] = "down" /\ o + 1 <= o + j
    BY <1>5, <1>9
  <2>2. \A k \in 1..Len(s) : o + 1 <= k => s[k] # "point"
    <3>1. ASSUME NEW k \in 1..Len(s), o + 1 <= k PROVE s[k] # "point"
      <4>1. k - o \in 1..Len(l) /\ k = o + (k - o)
        BY <1>3, <1>5, <3>1
      <4> QED
        BY <4>1, <1>5, <1>9
    <3> QED
      BY <3>1
  <2> QED
    BY <2>1, <2>2, <1>4, <1>6, <1>9 DEF Sound, Presses
<1>10. ASSUME n # "nodeClick", Head(l) = "down" PROVE \A i \in 1..Len(l) : l[i] # "point"
  <2>1. ASSUME NEW i \in 1..Len(l) PROVE l[i] # "point"
    <3>1. o + i \in 1..Len(s) /\ o + 1 <= o + i /\ l[i] = s[o + i]
      BY <1>5
    <3> QED
      BY <3>1, <1>4, <1>6, <1>10 DEF Sound, PointFirst
  <2> QED
    BY <2>1
<1>11. Measured(r) => Head(l) \in {"move", "pointTo", "down", "up"}
  BY <1>9 DEF Measured, l, n
<1>12. n # "nodeClick" /\ r.calm /\ Head(l) = "down" => Measured(r)
  BY <1>10, <1>6 DEF Measured, l, n
<1> QED
  BY <1>1, <1>3, <1>7, <1>8, <1>11, <1>12 DEF l, n

\* kahin_mirage_type edits, inserts and compares.
LEMMA TypeStep ==
    ASSUME NEW r \in ToolRec, Course(r), r.todo # <<>>, r.name = "type"
    PROVE  \/ Len(r.todo) = 3 /\ Head(r.todo) = "edit"
           \/ Len(r.todo) = 2 /\ Head(r.todo) = "insert"
           \/ Len(r.todo) = 1 /\ Head(r.todo) = "changed"
<1> DEFINE l == r.todo
           s == Type
<1>1. Suffix(l, s)
  BY StepsOf DEF Course
<1>2. Len(s) = 3 /\ s[1] = "edit" /\ s[2] = "insert" /\ s[3] = "changed"
  BY DEF Type
<1>3. l \in Seq(StepNames) /\ l # <<>>
  BY DEF ToolRec
<1>4. Len(l) \in Nat /\ Len(l) > 0 /\ Head(l) = l[1]
  BY <1>3
<1> HIDE DEF l, s
<1>5. Len(l) <= 3 /\ 1 \in 1..Len(l) /\ l[1] = s[Len(s) - Len(l) + 1]
  BY <1>1, <1>2, <1>4 DEF Suffix
<1>6. Len(l) = 1 \/ Len(l) = 2 \/ Len(l) = 3
  <2>1. \A k \in Nat : k > 0 /\ k <= 3 => k = 1 \/ k = 2 \/ k = 3
    OBVIOUS
  <2>2. Len(l) \in Nat /\ Len(l) > 0 /\ Len(l) <= 3
    BY <1>4, <1>5
  <2> QED
    BY <2>1, <2>2, Zenon
<1>7. /\ Len(l) = 1 => Len(s) - Len(l) + 1 = 3
      /\ Len(l) = 2 => Len(s) - Len(l) + 1 = 2
      /\ Len(l) = 3 => Len(s) - Len(l) + 1 = 1
  <2>1. 3 - 1 + 1 = 3 /\ 3 - 2 + 1 = 2 /\ 3 - 3 + 1 = 1
    OBVIOUS
  <2>2. Len(s) = 3
    BY <1>2
  <2> QED
    BY <2>1, <2>2, Zenon
<1>8. \/ Len(l) = 3 /\ Head(l) = "edit"
      \/ Len(l) = 2 /\ Head(l) = "insert"
      \/ Len(l) = 1 /\ Head(l) = "changed"
  <2>1. s[1] = "edit" /\ s[2] = "insert" /\ s[3] = "changed"
    BY <1>2
  <2>2. Head(l) = s[Len(s) - Len(l) + 1]
    BY <1>4, <1>5
  <2> QED
    BY <2>1, <2>2, <1>6, <1>7, Zenon
<1> QED
  BY <1>8 DEF l

-----------------------------------------------------------------------------
(* The pages                                                               *)

LEMMA PageFields ==
    ASSUME NEW p \in PageRec
    PROVE  /\ p.open \in BOOLEAN /\ p.fits \in BOOLEAN /\ p.doc \in Nat /\ p.shown \in [Elements -> Conditions]
           /\ p.place \in [Elements -> Points] /\ p.focus \in Elements \cup {None} /\ p.text \in SUBSET Callers
           /\ p.ticked \in BOOLEAN /\ p.held \in SUBSET {"button", "key"} /\ p.pressed \in Elements \cup {None}
  BY DEF PageRec

\* Only the places of the elements matter for where they are.
LEMMA PlacedSame ==
    ASSUME NEW p, NEW q, Placed(p), q.fits = p.fits, q.place = p.place
    PROVE  Placed(q)
  BY DEF Placed

LEMMA HitType == ASSUME NEW p, NEW pt PROVE Hit(p, pt) \in Elements \cup {None}
<1> DEFINE there == {e \in Elements : p.place[e] = pt /\ pt # <<"away", 1>> /\ p.shown[e] \in {"ok", "disabled"}}
<1>1. there \subseteq Elements
  OBVIOUS
<1>2. Hit(p, pt) = IF there = {} THEN None ELSE CHOOSE e \in there : TRUE
  BY DEF Hit
<1> HIDE DEF there
<1> QED
  BY <1>1, <1>2

LEMMA HitSame ==
    ASSUME NEW p, NEW q, NEW pt, q.shown = p.shown, q.place = p.place
    PROVE  Hit(q, pt) = Hit(p, pt)
  BY DEF Hit

LEMMA ScrolledOK ==
    ASSUME NEW p, PageOK(p), NEW e \in Elements
    PROVE  /\ PageOK(Scrolled(p, e))
           /\ Scrolled(p, e).fits = p.fits /\ Scrolled(p, e).shown = p.shown
           /\ Scrolled(p, e).text = p.text /\ Scrolled(p, e).ticked = p.ticked /\ Scrolled(p, e).doc = p.doc
           /\ p.fits => Scrolled(p, e) = p
<1> DEFINE pl == [x \in Elements |-> IF x = e THEN <<"middle", 1>> ELSE <<"away", 1>>]
           q == [p EXCEPT !.place = pl]
<1>1. <<"middle", 1>> \in Points /\ <<"away", 1>> \in Points /\ <<"middle", 1>> # <<"away", 1>>
  BY DEF Points
<1>2. pl \in [Elements -> Points]
  BY <1>1
<1>3. /\ \A x \in Elements : pl[x] \in {<<"middle", 1>>, <<"away", 1>>}
      /\ \A x, y \in Elements : pl[x] = <<"middle", 1>> /\ pl[y] = <<"middle", 1>> => x = y
  BY <1>1
<1> HIDE DEF pl
<1>4. p \in PageRec /\ Placed(p)
  BY DEF PageOK
<1>5. /\ q \in PageRec /\ q.place = pl /\ q.fits = p.fits /\ q.shown = p.shown
      /\ q.text = p.text /\ q.ticked = p.ticked /\ q.doc = p.doc
  BY <1>2, <1>4 DEF PageRec
<1>6. Scrolled(p, e) = p \/ (~p.fits /\ Scrolled(p, e) = q)
  BY DEF Scrolled, pl
<1> HIDE DEF q
<1>7. CASE Scrolled(p, e) = p
  BY <1>7
<1>8. ASSUME ~p.fits, Scrolled(p, e) = q
      PROVE  /\ PageOK(q)
             /\ q.fits = p.fits /\ q.shown = p.shown /\ q.text = p.text /\ q.ticked = p.ticked /\ q.doc = p.doc
  <2>1. Placed(q)
    BY <1>3, <1>5, <1>8 DEF Placed
  <2> QED
    BY <2>1, <1>5 DEF PageOK
<1> QED
  BY <1>6, <1>7, <1>8

\* A press at the place of an element that is fit meets it.
LEMMA AimHits ==
    ASSUME NEW p, PageOK(p), NEW e \in Elements, Scrolled(p, e).shown[e] = "ok"
    PROVE  Hit(Scrolled(p, e), Scrolled(p, e).place[e]) = e
<1> DEFINE q == Scrolled(p, e)
           pt == q.place[e]
           there == {x \in Elements : q.place[x] = pt /\ pt # <<"away", 1>> /\ q.shown[x] \in {"ok", "disabled"}}
<1>1. PageOK(q) /\ q.fits = p.fits /\ q.shown = p.shown /\ (p.fits => q = p)
  BY ScrolledOK
<1>2. q \in PageRec /\ Placed(q)
  BY <1>1 DEF PageOK
<1>3. p.fits \in BOOLEAN /\ q.place \in [Elements -> Points]
  BY <1>1, <1>2, PageFields
<1>4. ~p.fits => q.place[e] = <<"middle", 1>>
  <2> DEFINE pl == [x \in Elements |-> IF x = e THEN <<"middle", 1>> ELSE <<"away", 1>>]
  <2>1. pl[e] = <<"middle", 1>>
    OBVIOUS
  <2> HIDE DEF pl
  <2>2. p \in PageRec /\ p.shown[e] = "ok"
    BY <1>1 DEF PageOK
  <2>3. ~p.fits => Scrolled(p, e) = [p EXCEPT !.place = pl]
    BY <2>2 DEF Scrolled, pl
  <2>4. [p EXCEPT !.place = pl].place = pl
    BY <2>2 DEF PageRec
  <2> QED
    BY <2>1, <2>3, <2>4
<1> HIDE DEF q
<1>5. \A x \in Elements : q.place[x] = pt => x = e
  BY <1>1, <1>2, <1>4 DEF Placed
<1>6. pt # <<"away", 1>>
  <2>1. <<"middle", 1>> # <<"away", 1>> /\ <<"away", 1>>[1] = "away" /\ e # "away"
    BY DEF Elements
  <2> QED
    BY <2>1, <1>1, <1>2, <1>4 DEF Placed
<1>7. there = {e}
  <2>1. q.shown[e] = "ok"
    BY DEF q
  <2> QED
    BY <2>1, <1>5, <1>6
<1>8. Hit(q, pt) = IF there = {} THEN None ELSE CHOOSE x \in there : TRUE
  BY DEF Hit
<1> HIDE DEF there, pt
<1>9. Hit(q, pt) = e
  BY <1>7, <1>8
<1> QED
  BY <1>9 DEF q, pt

\* Input changes neither the places nor the state of the elements; text comes by typing only.
LEMMA EffectOK ==
    ASSUME NEW c \in Callers, PageOK(Page(c))
    PROVE  /\ PageOK(Effect(c))
           /\ Effect(c).fits = Page(c).fits /\ Effect(c).shown = Page(c).shown /\ Effect(c).place = Page(c).place
           /\ At(c, "insert") => Effect(c).text \in {Page(c).text, Page(c).text \cup {c}}
<1> DEFINE p == Page(c)
           pt == tool[c].point
           Same(q) == q \in PageRec /\ q.fits = p.fits /\ q.shown = p.shown /\ q.place = p.place
<1>1. p \in PageRec /\ Placed(p)
  BY DEF PageOK
<1>2. Hit(p, pt) \in Elements \cup {None} /\ None \in Elements \cup {None}
  BY HitType
<1>3. Same(Pressed(p, pt))
  <2> DEFINE h == Hit(p, pt)
             held == p.held \cup {"button"}
  <2>1. h \in Elements \cup {None} /\ held \in SUBSET {"button", "key"}
    BY <1>1, <1>2, PageFields
  <2>2. Pressed(p, pt) = [p EXCEPT !.held = held, !.pressed = h, !.focus = h]
    BY DEF Pressed
  <2> HIDE DEF h, held, p
  <2> QED
    BY <1>1, <2>1, <2>2 DEF PageRec
<1>4. Same(Released(p, pt))
  <2> DEFINE held == p.held \ {"button"}
             tick == IF p.pressed = "box" /\ Hit(p, pt) = "box" /\ p.shown["box"] = "ok" THEN ~p.ticked ELSE p.ticked
  <2>1. held \in SUBSET {"button", "key"} /\ tick \in BOOLEAN
    BY <1>1, PageFields
  <2>2. Released(p, pt) = [p EXCEPT !.held = held, !.pressed = None, !.ticked = tick]
    BY DEF Released
  <2> HIDE DEF held, tick, p
  <2> QED
    BY <1>1, <1>2, <2>1, <2>2 DEF PageRec
<1>5. Same(Typed(p, c)) /\ Typed(p, c).text \in {p.text, p.text \cup {c}}
  <2> DEFINE text == p.text \cup {c}
  <2>1. text \in SUBSET Callers
    BY <1>1, PageFields
  <2>2. Typed(p, c) = p \/ Typed(p, c) = [p EXCEPT !.text = text]
    BY DEF Typed
  <2> HIDE DEF text, p
  <2>3. Same(p) /\ Same([p EXCEPT !.text = text]) /\ [p EXCEPT !.text = text].text = text
    BY <1>1, <2>1 DEF PageRec
  <2> QED
    BY <2>2, <2>3 DEF text
<1>6. ASSUME NEW q, Same(q), NEW h \in SUBSET {"button", "key"} PROVE Same([q EXCEPT !.held = h])
  BY <1>6 DEF PageRec
<1>7. Same([Typed(p, c) EXCEPT !.held = @ \cup {"key"}])
  <2> DEFINE h == Typed(p, c).held \cup {"key"}
  <2>1. h \in SUBSET {"button", "key"}
    BY <1>5, PageFields
  <2> HIDE DEF h
  <2>2. Same([Typed(p, c) EXCEPT !.held = h])
    BY <2>1, <1>5, <1>6
  <2> QED
    BY <2>2 DEF h
<1>8. Same([p EXCEPT !.held = @ \ {"key"}])
  <2> DEFINE h == p.held \ {"key"}
  <2>1. h \in SUBSET {"button", "key"} /\ Same(p)
    BY <1>1, PageFields
  <2> HIDE DEF h, p
  <2>2. Same([p EXCEPT !.held = h])
    BY <2>1, <1>6
  <2> QED
    BY <2>2 DEF h
<1>9. Same(p)
  BY <1>1
<1>10. Same(Effect(c)) /\ (At(c, "insert") => Effect(c) = Typed(p, c))
  <2>1. \A s, t : At(c, s) /\ At(c, t) => s = t
    BY DEF At
  <2> DEFINE a == Pressed(p, pt)
             b == Released(p, pt)
             d == [Typed(p, c) EXCEPT !.held = @ \cup {"key"}]
             e == [p EXCEPT !.held = @ \ {"key"}]
             f == Typed(p, c)
  <2>2. Effect(c) = CASE At(c, "down") -> a [] At(c, "up") -> b [] At(c, "keydown") -> d
                      [] At(c, "keyup") -> e [] At(c, "insert") -> f [] OTHER -> p
    BY DEF Effect
  <2>3. Same(a) /\ Same(b) /\ Same(d) /\ Same(e) /\ Same(f) /\ Same(p)
    BY <1>3, <1>4, <1>5, <1>7, <1>8, <1>9
  <2> HIDE DEF a, b, d, e, f, p, Same
  <2>4. Effect(c) \in {a, b, d, e, f, p}
    BY <2>2
  <2>5. At(c, "insert") => Effect(c) = f
    BY <2>1, <2>2
  <2>6. f = Typed(p, c)
    BY DEF f
  <2> QED
    BY <2>3, <2>4, <2>5, <2>6
<1>11. PageOK(Effect(c))
  BY <1>1, <1>10, PlacedSame DEF PageOK
<1> QED
  BY <1>5, <1>10, <1>11

\* A new document has everything at its first place.
LEMMA DocumentOK ==
    ASSUME NEW fits \in BOOLEAN, NEW n \in Nat
    PROVE  PageOK(Document(fits, n)) /\ Document(fits, n).fits = fits
<1> DEFINE pl == [e \in Elements |-> IF fits THEN <<e, 1>> ELSE <<"away", 1>>]
           sh == [e \in Elements |-> "ok"]
<1>1. pl \in [Elements -> Points] /\ sh \in [Elements -> Conditions]
  BY DEF Points, Conditions
<1>2. \A e \in Elements : (fits => pl[e][1] = e) /\ (~fits => pl[e] = <<"away", 1>>)
  BY DEF Elements
<1>3. <<"away", 1>> # <<"middle", 1>>
  OBVIOUS
<1>4. Document(fits, n) = [open |-> TRUE, fits |-> fits, doc |-> n, shown |-> sh, place |-> pl,
                           focus |-> None, text |-> {}, ticked |-> FALSE, held |-> {}, pressed |-> None]
  BY DEF Document
<1> HIDE DEF pl, sh
<1>5. Document(fits, n) \in PageRec /\ Document(fits, n).fits = fits /\ Document(fits, n).place = pl
  BY <1>1, <1>4 DEF PageRec
<1>6. Placed(Document(fits, n))
  BY <1>2, <1>3, <1>5 DEF Placed
<1> QED
  BY <1>5, <1>6 DEF PageOK

LEMMA RenewedOK ==
    ASSUME NEW p, PageOK(p)
    PROVE  PageOK(Renewed(p)) /\ Renewed(p).fits = p.fits
<1>1. p.fits \in BOOLEAN /\ p.doc + 1 \in Nat
  BY PageFields DEF PageOK
<1> QED
  BY <1>1, DocumentOK DEF Renewed

\* A change of one of the fields that say nothing of places.
LEMMA TouchedOK ==
    ASSUME NEW p, PageOK(p), NEW x \in SUBSET Callers, NEW s \in [Elements -> Conditions],
           NEW o \in BOOLEAN, NEW k \in BOOLEAN
    PROVE  /\ PageOK([p EXCEPT !.text = x]) /\ [p EXCEPT !.text = x].fits = p.fits
           /\ PageOK([p EXCEPT !.shown = s]) /\ [p EXCEPT !.shown = s].fits = p.fits
           /\ PageOK([p EXCEPT !.open = o]) /\ [p EXCEPT !.open = o].fits = p.fits
           /\ PageOK([p EXCEPT !.ticked = k]) /\ [p EXCEPT !.ticked = k].fits = p.fits
<1> DEFINE Kept(q) == q \in PageRec /\ q.fits = p.fits /\ q.place = p.place
<1>1. p \in PageRec /\ Placed(p)
  BY DEF PageOK
<1>3. Kept([p EXCEPT !.text = x])
  BY <1>1 DEF PageRec
<1>4. Kept([p EXCEPT !.shown = s])
  BY <1>1 DEF PageRec
<1>5. Kept([p EXCEPT !.open = o])
  BY <1>1 DEF PageRec
<1>6. Kept([p EXCEPT !.ticked = k])
  BY <1>1 DEF PageRec
<1>7. ASSUME NEW q, Kept(q) PROVE PageOK(q) /\ q.fits = p.fits
  BY <1>1, <1>7, PlacedSame DEF PageOK
<1> HIDE DEF Kept
<1> QED
  BY <1>3, <1>4, <1>5, <1>6, <1>7

\* The focus goes to an element.
LEMMA FocusedOK ==
    ASSUME NEW p, PageOK(p), NEW f \in Elements \cup {None}
    PROVE  /\ PageOK([p EXCEPT !.focus = f]) /\ [p EXCEPT !.focus = f].fits = p.fits
           /\ [p EXCEPT !.focus = f].text = p.text /\ [p EXCEPT !.focus = f].shown = p.shown
           /\ [p EXCEPT !.focus = f].place = p.place
<1> DEFINE q == [p EXCEPT !.focus = f]
<1>1. p \in PageRec /\ Placed(p)
  BY DEF PageOK
<1>2. q \in PageRec /\ q.fits = p.fits /\ q.text = p.text /\ q.shown = p.shown /\ q.place = p.place
  BY <1>1 DEF PageRec
<1> HIDE DEF q
<1>3. PageOK(q)
  BY <1>1, <1>2, PlacedSame DEF PageOK
<1> QED
  BY <1>2, <1>3 DEF q

\* An element moves.
LEMMA MovedOK ==
    ASSUME NEW p, PageOK(p), NEW e \in Elements
    PROVE  LET pt == IF p.fits THEN <<e, 3 - p.place[e][2]>> ELSE <<"away", 1>>
           IN  PageOK([p EXCEPT !.place[e] = pt]) /\ [p EXCEPT !.place[e] = pt].fits = p.fits
<1> DEFINE pt == IF p.fits THEN <<e, 3 - p.place[e][2]>> ELSE <<"away", 1>>
           pl == [p.place EXCEPT ![e] = pt]
           q  == [p EXCEPT !.place = pl]
<1>1. p \in PageRec /\ Placed(p) /\ p.place \in [Elements -> Points]
  BY PageFields DEF PageOK
<1>2. pt \in Points
  <2>1. p.place[e][2] \in {1, 2}
    BY <1>1 DEF Points
  <2>2. 3 - p.place[e][2] \in {1, 2}
    BY <2>1
  <2> QED
    BY <2>2 DEF Points
<1>3. (p.fits => pt[1] = e) /\ (~p.fits => pt = <<"away", 1>>) /\ <<"away", 1>> # <<"middle", 1>>
  OBVIOUS
<1> HIDE DEF pt
<1>4. pl \in [Elements -> Points] /\ pl[e] = pt /\ \A x \in Elements \ {e} : pl[x] = p.place[x]
  BY <1>1, <1>2
<1>5. [p EXCEPT !.place[e] = pt] = q
  OBVIOUS
<1> HIDE DEF pl
<1>6. q \in PageRec /\ q.fits = p.fits /\ q.place = pl
  BY <1>1, <1>4 DEF PageRec
<1> HIDE DEF q
<1>7. Placed(q)
  BY <1>1, <1>3, <1>4, <1>6 DEF Placed
<1>8. PageOK([p EXCEPT !.place[e] = pt]) /\ [p EXCEPT !.place[e] = pt].fits = p.fits
  BY <1>5, <1>6, <1>7 DEF PageOK
<1> QED
  BY <1>8 DEF pt

-----------------------------------------------------------------------------
(* The tools                                                               *)

LEMMA ToolFields ==
    ASSUME NEW r \in ToolRec
    PROVE  /\ r.name \in DOMAIN Steps \cup {"none"} /\ r.todo \in Seq(StepNames) /\ r.el \in Elements
           /\ r.page \in Tabs \cup {None} /\ r.ref \in Nat
           /\ r.last \in {None} \cup Points /\ r.point \in {None} \cup Points /\ r.goal \in {None} \cup Points
           /\ r.before \in SUBSET Callers /\ r.calm \in BOOLEAN /\ r.alone \in BOOLEAN
           /\ r.acted \in SUBSET Tabs /\ r.missed \in BOOLEAN /\ r.said \in Endings
  BY DEF ToolRec

LEMMA EndedFacts ==
    ASSUME NEW r \in ToolRec, NEW how \in Endings
    PROVE  /\ Ended(r, how) \in ToolRec
           /\ Ended(r, how).todo = <<>> /\ Ended(r, how).said = how
           /\ Ended(r, how).name = r.name /\ Ended(r, how).page = r.page /\ Ended(r, how).el = r.el
           /\ Ended(r, how).calm = r.calm /\ Ended(r, how).alone = r.alone
           /\ Ended(r, how).acted = r.acted /\ Ended(r, how).missed = r.missed
<1> DEFINE e == <<>>
           y == [r EXCEPT !.todo = e, !.said = how, !.ref = 0, !.last = None, !.point = None,
                          !.goal = None, !.before = {}]
<1>1. e \in Seq(StepNames) /\ e = <<>>
  OBVIOUS
<1>2. Ended(r, how) = y
  BY DEF Ended
<1> HIDE DEF e
<1>3. y \in ToolRec
  BY <1>1 DEF ToolRec
<1>4. /\ y.todo = e /\ y.said = how /\ y.name = r.name /\ y.page = r.page /\ y.el = r.el
      /\ y.calm = r.calm /\ y.alone = r.alone /\ y.acted = r.acted /\ y.missed = r.missed
  BY DEF ToolRec
<1> HIDE DEF y
<1> QED
  BY <1>1, <1>2, <1>3, <1>4

LEMMA OnwardFacts ==
    ASSUME NEW r \in ToolRec, r.todo # <<>>, r.said = "none"
    PROVE  /\ Onward(r) \in ToolRec
           /\ Advanced(Onward(r).todo, r.todo)
           /\ Onward(r).said = IF Len(r.todo) = 1 THEN "ok" ELSE "none"
           /\ Onward(r).name = r.name /\ Onward(r).page = r.page /\ Onward(r).el = r.el
           /\ Onward(r).calm = r.calm /\ Onward(r).alone = r.alone
           /\ Onward(r).acted = r.acted /\ Onward(r).missed = r.missed
           /\ Len(r.todo) # 1 => Onward(r).point = r.point /\ Onward(r).before = r.before
<1> DEFINE l == r.todo
           rest == Tail(l)
           y == [r EXCEPT !.todo = rest]
<1>1. l \in Seq(StepNames) /\ l # <<>>
  BY ToolFields
<1>2. CASE Len(r.todo) = 1
  <2>1. Onward(r) = Ended(r, "ok")
    BY <1>2 DEF Onward
  <2>2. "ok" \in Endings
    BY DEF Endings
  <2>3. Advanced(<<>>, l)
    BY <1>2 DEF Advanced
  <2> QED
    BY <1>2, <2>1, <2>2, <2>3, EndedFacts
<1>3. CASE Len(r.todo) # 1
  <2>1. Onward(r) = y
    BY <1>3 DEF Onward
  <2>2. rest \in Seq(StepNames) /\ Advanced(rest, l)
    BY <1>1 DEF Advanced
  <2> HIDE DEF rest
  <2>3. y \in ToolRec
    BY <2>2 DEF ToolRec
  <2>4. /\ y.todo = rest /\ y.said = r.said /\ y.name = r.name /\ y.page = r.page /\ y.el = r.el
        /\ y.calm = r.calm /\ y.alone = r.alone /\ y.acted = r.acted /\ y.missed = r.missed
        /\ y.point = r.point /\ y.before = r.before
    BY DEF ToolRec
  <2> HIDE DEF y
  <2> QED
    BY <1>3, <2>1, <2>2, <2>3, <2>4
<1> QED
  BY <1>2, <1>3

LEMMA LandedSame ==
    ASSUME NEW r, NEW y, NEW F, NEW G, Landed(r, F), SameFits(F, G),
           y.name = r.name, y.missed = r.missed
    PROVE  Landed(y, G)
  BY DEF Landed, SameFits

\* A tool that ended without success is in order.
LEMMA EndsOK ==
    ASSUME NEW c \in Callers, NEW G, NEW r \in ToolRec, r.name # "none", r.page \in Tabs,
           r.name # "load" => \E t \in Tabs : r.acted \subseteq {t},
           Landed(r, G), NEW how \in {"error", "timeout", "unchanged", "blind"},
           how = "blind" => r.name = "uncheck"
    PROVE  CallerOK(c, Ended(r, how), G)
<1> DEFINE y == Ended(r, how)
<1>1. how \in Endings /\ how # "ok" /\ how # "none"
  BY DEF Endings
<1>2. /\ y \in ToolRec /\ y.todo = <<>> /\ y.said = how /\ y.name = r.name /\ y.page = r.page
      /\ y.acted = r.acted /\ y.missed = r.missed
  BY <1>1, EndedFacts
<1> HIDE DEF y
<1>3. Suffix(y.todo, Steps[y.name])
  <2>1. Steps[y.name] \in Seq(StepNames)
    BY <1>2, StepsType, ToolFields
  <2> QED
    BY <1>2, <2>1 DEF Suffix
<1>4. Course(y) /\ OneTab(y)
  BY <1>2, <1>3 DEF Course, OneTab
<1>5. Aimed(y, G) /\ Landed(y, G)
  BY <1>2 DEF Aimed, Measured, Landed
<1>6. TextOK(c, y, G) /\ TickOK(y, G)
  <2>1. Len(y.todo) = 0
    BY <1>2
  <2> QED
    BY <2>1, <1>1, <1>2 DEF TextOK, TickOK
<1>7. CallerOK(c, y, G)
  BY <1>2, <1>4, <1>5, <1>6 DEF CallerOK
<1> QED
  BY <1>7 DEF y

\* One step further, a tool still has the last of its steps to do.
LEMMA AdvancesOK ==
    ASSUME NEW r \in ToolRec, Course(r), r.todo # <<>>, NEW y \in ToolRec,
           y.name = r.name, y.page \in Tabs, Advanced(y.todo, r.todo),
           y.said = IF Len(r.todo) = 1 THEN "ok" ELSE "none"
    PROVE  Course(y)
<1> DEFINE s == Steps[r.name]
           l == r.todo
           m == y.todo
<1>1. r.name \in DOMAIN Steps /\ r.name # "none" /\ Suffix(l, s)
  BY FirstStep DEF Course
<1>2. l \in Seq(StepNames) /\ m \in Seq(StepNames) /\ s \in Seq(StepNames) /\ l # <<>>
  BY <1>1, ToolFields, StepsType
<1>3. Advanced(m, l)
  OBVIOUS
<1> HIDE DEF s, l, m
<1>4. Suffix(m, s)
  <2>1. Len(l) \in Nat /\ Len(m) = Len(l) - 1 /\ Len(s) \in Nat /\ Len(l) <= Len(s)
    BY <1>1, <1>2, <1>3 DEF Advanced, Suffix
  <2>2. ASSUME NEW i \in 1..Len(m) PROVE m[i] = s[Len(s) - Len(m) + i]
    <3>1. m[i] = l[i + 1] /\ i + 1 \in 1..Len(l)
      BY <1>3, <2>1, <2>2 DEF Advanced
    <3>2. l[i + 1] = s[Len(s) - Len(l) + (i + 1)]
      BY <1>1, <3>1 DEF Suffix
    <3>3. Len(s) - Len(l) + (i + 1) = Len(s) - Len(m) + i
      BY <2>1, <2>2
    <3> QED
      BY <3>1, <3>2, <3>3
  <2> QED
    BY <2>1, <2>2 DEF Suffix
<1>5. m # <<>> => Len(l) # 1
  <2>1. Len(m) = Len(l) - 1 /\ Len(l) \in Nat
    BY <1>2, <1>3 DEF Advanced
  <2>2. Len(m) = 0 => m = <<>>
    BY <1>2
  <2> QED
    BY <2>1, <2>2
<1>6. Suffix(y.todo, Steps[y.name])
  BY <1>4 DEF s, m
<1>7. y.todo # <<>> => y.said = "none"
  BY <1>5 DEF l, m
<1> QED
  BY <1>1, <1>6, <1>7 DEF Course

LEMMA MeasuredBefore ==
    ASSUME NEW r \in ToolRec, r.todo # <<>>, NEW y \in ToolRec, y.name = r.name, y.calm => r.calm,
           Advanced(y.todo, r.todo), Head(r.todo) # "point", Measured(y)
    PROVE  Measured(r)
<1> DEFINE l == r.todo
           m == y.todo
<1>1. l \in Seq(StepNames) /\ l # <<>> /\ m \in Seq(StepNames) /\ Advanced(m, l) /\ l[1] # "point"
  BY ToolFields
<1>2. /\ r.name # "nodeClick" /\ r.calm
      /\ \E i \in 1..Len(m) : m[i] = "down"
      /\ \A i \in 1..Len(m) : m[i] # "point"
  BY DEF Measured
<1> HIDE DEF l, m
<1>3. Len(l) \in Nat /\ Len(m) = Len(l) - 1
  BY <1>1 DEF Advanced
<1>4. \E i \in 1..Len(l) : l[i] = "down"
  <2>1. PICK i \in 1..Len(m) : m[i] = "down"
    BY <1>2
  <2>2. i + 1 \in 1..Len(l) /\ l[i + 1] = "down"
    BY <2>1, <1>1, <1>3 DEF Advanced
  <2> QED
    BY <2>2
<1>5. ASSUME NEW i \in 1..Len(l) PROVE l[i] # "point"
  <2>1. CASE i = 1
    BY <2>1, <1>1
  <2>2. CASE i # 1
    <3>1. i - 1 \in 1..Len(m) /\ (i - 1) + 1 = i
      BY <2>2, <1>3, <1>5
    <3>2. m[i - 1] = l[i]
      BY <3>1, <1>1 DEF Advanced
    <3> QED
      BY <3>1, <3>2, <1>2
  <2> QED
    BY <2>1, <2>2
<1> QED
  BY <1>2, <1>4, <1>5 DEF Measured, l

\* What kahin_mirage_check and kahin_mirage_type promise is not decided by the other steps.
LEMMA OtherSteps ==
    ASSUME NEW c \in Callers, NEW G, NEW r \in ToolRec, Course(r), r.todo # <<>>, NEW y, y.name = r.name,
           y.said = IF Len(r.todo) = 1 THEN "ok" ELSE "none"
    PROVE  /\ Head(r.todo) \notin {"edit", "insert", "changed"} => TextOK(c, y, G)
           /\ Head(r.todo) # "verify" => TickOK(y, G)
  BY FirstStep, TypeStep DEF TextOK, TickOK

\* A step that neither aims nor presses nor decides.
LEMMA PlainOK ==
    ASSUME NEW c \in Callers, NEW G, NEW r \in ToolRec, Course(r), r.todo # <<>>,
           NEW y \in ToolRec, y.name = r.name, y.page \in Tabs, y.calm => r.calm,
           Advanced(y.todo, r.todo), y.said = IF Len(r.todo) = 1 THEN "ok" ELSE "none",
           OneTab(y), Landed(y, G),
           Head(r.todo) \notin {"point", "move", "pointTo", "down", "up", "edit", "insert", "changed", "verify"}
    PROVE  CallerOK(c, y, G)
<1>1. Course(y)
  BY AdvancesOK
<1>2. ~Measured(y)
  BY MeasuredBefore, FirstStep
<1>3. TextOK(c, y, G) /\ TickOK(y, G)
  BY OtherSteps
<1> QED
  BY <1>1, <1>2, <1>3 DEF CallerOK, Aimed

\* A press to come lands where it was aimed at, while the page keeps its elements in place.
LEMMA KeepsAim ==
    ASSUME NEW r \in ToolRec, r.todo # <<>>, NEW y \in ToolRec, y.name = r.name, y.calm => r.calm,
           Advanced(y.todo, r.todo), Head(r.todo) # "point",
           y.page = r.page, y.el = r.el, Len(r.todo) # 1 => y.point = r.point,
           NEW F, NEW G, Aimed(r, F), G[r.page].fits = F[r.page].fits,
           (r.name = "drag" /\ ~F[r.page].fits) \/
             (G[r.page].shown = F[r.page].shown /\ G[r.page].place = F[r.page].place)
    PROVE  Aimed(y, G)
<1> SUFFICES ASSUME Measured(y), y.name = "drag" => G[y.page].fits
             PROVE  G[y.page].shown[y.el] = "ok" /\ Hit(G[y.page], y.point) = y.el
  BY DEF Aimed
<1>1. Measured(r)
  BY MeasuredBefore
<1>2. Len(r.todo) # 1
  <2>1. \E i \in 1..Len(y.todo) : TRUE
    BY DEF Measured
  <2>2. r.todo \in Seq(StepNames) /\ y.todo \in Seq(StepNames) /\ Len(y.todo) = Len(r.todo) - 1
    BY ToolFields DEF Advanced
  <2> QED
    BY <2>1, <2>2
<1>3. F[r.page].shown[r.el] = "ok" /\ Hit(F[r.page], r.point) = r.el
  BY <1>1 DEF Aimed
<1>4. G[r.page].shown = F[r.page].shown /\ G[r.page].place = F[r.page].place
  OBVIOUS
<1>5. Hit(G[r.page], r.point) = Hit(F[r.page], r.point)
  BY <1>4, HitSame
<1> QED
  BY <1>2, <1>3, <1>4, <1>5

-----------------------------------------------------------------------------
(* What a step of one tool, or of a page, is to the others                 *)

SeenAs(r, F, G) ==
    IF r.page = None THEN r
    ELSE [r EXCEPT !.calm = @ /\ G[r.page] = F[r.page], !.alone = @ /\ Value(G[r.page]) = Value(F[r.page])]

LEMMA SeenOK ==
    ASSUME NEW d \in Callers, NEW F, NEW G, NEW r, CallerOK(d, r, F), SameFits(F, G)
    PROVE  CallerOK(d, SeenAs(r, F, G), G)
<1>1. r \in ToolRec /\ Course(r) /\ OneTab(r) /\ Aimed(r, F) /\ Landed(r, F) /\ TextOK(d, r, F) /\ TickOK(r, F)
  BY DEF CallerOK
<1>2. CASE r.page = None
  <2>1. SeenAs(r, F, G) = r
    BY <1>2 DEF SeenAs
  <2>2. r.name = "none" /\ r.todo = <<>> /\ r.said = "none"
    BY <1>1, <1>2, ActionsAssumption DEF Course
  <2>3. Aimed(r, G) /\ TextOK(d, r, G) /\ TickOK(r, G)
    BY <2>2 DEF Aimed, Measured, TextOK, TickOK
  <2>4. Landed(r, G)
    BY <1>1, LandedSame
  <2> QED
    BY <1>1, <2>1, <2>3, <2>4 DEF CallerOK
<1>3. CASE r.page # None
  <2> DEFINE calm == r.calm /\ G[r.page] = F[r.page]
             alone == r.alone /\ Value(G[r.page]) = Value(F[r.page])
             y == [r EXCEPT !.calm = calm, !.alone = alone]
  <2>1. calm \in BOOLEAN /\ alone \in BOOLEAN
    OBVIOUS
  <2>2. /\ calm => r.calm /\ G[r.page] = F[r.page]
        /\ alone => r.alone /\ G[r.page].text = F[r.page].text /\ G[r.page].ticked = F[r.page].ticked
    BY DEF Value
  <2>3. SeenAs(r, F, G) = y
    BY <1>3 DEF SeenAs
  <2> HIDE DEF calm, alone
  <2>4. y \in ToolRec
    BY <1>1, <2>1 DEF ToolRec
  <2>5. /\ y.calm = calm /\ y.alone = alone /\ y.name = r.name /\ y.todo = r.todo /\ y.el = r.el
        /\ y.page = r.page /\ y.point = r.point /\ y.before = r.before /\ y.acted = r.acted
        /\ y.missed = r.missed /\ y.said = r.said
    BY <1>1 DEF ToolRec
  <2> HIDE DEF y
  <2>6. Course(y) /\ OneTab(y)
    BY <1>1, <2>5 DEF Course, OneTab
  <2>7. Landed(y, G)
    BY <1>1, <2>5, LandedSame
  <2>8. Aimed(y, G)
    BY <1>1, <2>2, <2>5 DEF Aimed, Measured
  <2>9. TextOK(d, y, G) /\ TickOK(y, G)
    BY <1>1, <2>2, <2>5 DEF TextOK, TickOK
  <2> QED
    BY <2>3, <2>4, <2>6, <2>7, <2>8, <2>9 DEF CallerOK
<1> QED
  BY <1>2, <1>3

LEMMA TabWith ==
    ASSUME NEW F, PagesOK(F), NEW t \in Tabs, NEW p, PageOK(p), p.fits = F[t].fits
    PROVE  /\ PagesOK([F EXCEPT ![t] = p]) /\ SameFits(F, [F EXCEPT ![t] = p])
           /\ [F EXCEPT ![t] = p][t] = p
  BY DEF PagesOK, SameFits, PageOK

\* One page changes, by a step of a tool or by itself.
LEMMA ChangesOK ==
    ASSUME Inv, NEW c \in Callers, NEW t \in Tabs, NEW p, PageOK(p), p.fits = tab[t].fits,
           NEW r, CallerOK(c, r, [tab EXCEPT ![t] = p]),
           tab' = [tab EXCEPT ![t] = p], tool' = Others(r, c), UNCHANGED current
    PROVE  Inv'
<1>1. PagesOK(tab') /\ SameFits(tab, tab')
  BY TabWith DEF Inv
<1>2. r \in ToolRec /\ CallerOK(c, r, tab')
  BY DEF CallerOK
<1>3. ASSUME NEW d \in Callers, d # c PROVE tool'[d] = SeenAs(tool[d], tab, tab') /\ CallerOK(d, tool'[d], tab')
  <2>1. tool'[d] = SeenAs(tool[d], tab, tab')
    BY <1>3 DEF Others, Seen, SeenAs
  <2>2. CallerOK(d, tool[d], tab)
    BY DEF Inv
  <2> QED
    BY <1>1, <2>1, <2>2, SeenOK
<1>4. tool'[c] = r /\ DOMAIN tool' = Callers /\ tool' = [d \in Callers |-> tool'[d]]
  BY DEF Others
<1>5. \A d \in Callers : CallerOK(d, tool'[d], tab')
  BY <1>2, <1>3, <1>4
<1>6. tool' \in [Callers -> ToolRec]
  BY <1>4, <1>5 DEF CallerOK
<1> QED
  BY <1>1, <1>5, <1>6 DEF Inv

LEMMA DoesOK ==
    ASSUME Inv, NEW c \in Callers, Target(c) \in Tabs, NEW p, PageOK(p), p.fits = Page(c).fits,
           NEW r, CallerOK(c, r, [tab EXCEPT ![Target(c)] = p]), Does(c, p, r)
    PROVE  Inv'
  BY ChangesOK DEF Does, Page

LEMMA SaysOK ==
    ASSUME Inv, NEW c \in Callers, NEW r, CallerOK(c, r, tab), Says(c, r)
    PROVE  Inv'
<1>1. tool' = [tool EXCEPT ![c] = r] /\ tab' = tab /\ current' = current /\ tool \in [Callers -> ToolRec]
  BY DEF Says, Inv
<1>2. r \in ToolRec
  BY DEF CallerOK
<1>3. tool'[c] = r /\ \A d \in Callers \ {c} : tool'[d] = tool[d]
  BY <1>1
<1>4. \A d \in Callers : CallerOK(d, tool'[d], tab')
  BY <1>1, <1>3 DEF Inv
<1>5. tool' \in [Callers -> ToolRec]
  BY <1>1, <1>2
<1> QED
  BY <1>1, <1>4, <1>5 DEF Inv

\* A page changes by itself.
LEMMA BecomesOK ==
    ASSUME Inv, NEW t \in Tabs, NEW p, PageOK(p), p.fits = tab[t].fits,
           tab' = [tab EXCEPT ![t] = p], tool' = [c \in Callers |-> Seen(tool[c])], current' \in Tabs
    PROVE  Inv'
<1>1. PagesOK(tab') /\ SameFits(tab, tab')
  BY TabWith DEF Inv
<1>2. ASSUME NEW d \in Callers PROVE CallerOK(d, tool'[d], tab')
  <2>1. tool'[d] = SeenAs(tool[d], tab, tab')
    BY DEF Seen, SeenAs
  <2>2. CallerOK(d, tool[d], tab)
    BY DEF Inv
  <2> QED
    BY <1>1, <2>1, <2>2, SeenOK
<1>3. tool' \in [Callers -> ToolRec]
  BY <1>2 DEF CallerOK
<1> QED
  BY <1>1, <1>2, <1>3 DEF Inv

-----------------------------------------------------------------------------
(* The steps of a tool                                                     *)

\* What a tool that has something to do is.
LEMMA Working ==
    ASSUME Inv, NEW c \in Callers, Busy(c)
    PROVE  /\ tool[c] \in ToolRec /\ tool[c].todo # <<>> /\ tool[c].name # "none" /\ tool[c].said = "none"
           /\ Course(tool[c]) /\ OneTab(tool[c]) /\ Aimed(tool[c], tab) /\ Landed(tool[c], tab)
           /\ TextOK(c, tool[c], tab) /\ TickOK(tool[c], tab)
           /\ tool[c].page \in Tabs /\ Target(c) = tool[c].page /\ Page(c) = tab[tool[c].page] /\ PageOK(Page(c))
<1>1. CallerOK(c, tool[c], tab) /\ tool[c].todo # <<>>
  BY DEF Inv, Busy
<1>2. Target(c) = tool[c].page /\ Page(c) = tab[tool[c].page]
  BY DEF Target, Page
<1>3. tool[c].page \in Tabs /\ tool[c].name # "none" /\ tool[c].said = "none"
  BY <1>1, FirstStep DEF CallerOK
<1> QED
  BY <1>1, <1>2, <1>3 DEF CallerOK, Inv, PagesOK

LEMMA PlainStep ==
    ASSUME Inv, NEW c \in Callers, Busy(c), NEW G, SameFits(tab, G),
           NEW y \in ToolRec, y.name = tool[c].name, y.page \in Tabs, y.calm => tool[c].calm,
           Advanced(y.todo, tool[c].todo), y.said = IF Len(tool[c].todo) = 1 THEN "ok" ELSE "none",
           y.missed = tool[c].missed,
           y.name # "load" => y.page = tool[c].page /\ y.acted \subseteq tool[c].acted \cup {tool[c].page},
           Head(tool[c].todo) \notin
             {"point", "move", "pointTo", "down", "up", "edit", "insert", "changed", "verify"}
    PROVE  CallerOK(c, y, G)
<1> DEFINE r == tool[c]
<1>1. r \in ToolRec /\ r.todo # <<>> /\ Course(r) /\ OneTab(r) /\ Landed(r, tab) /\ r.page \in Tabs
  BY Working
<1> HIDE DEF r
<1>2. OneTab(y)
  BY <1>1 DEF OneTab, r
<1>3. Landed(y, G)
  BY <1>1, LandedSame DEF r
<1> QED
  BY <1>1, <1>2, <1>3, PlainOK DEF r

LEMMA FailedStep ==
    ASSUME Inv, NEW c \in Callers, Busy(c), NEW G, SameFits(tab, G),
           NEW x \in ToolRec, x.name = tool[c].name, x.page \in Tabs, x.missed = tool[c].missed,
           x.acted \subseteq tool[c].acted \cup {tool[c].page},
           NEW how \in {"error", "timeout", "unchanged", "blind"}, how = "blind" => tool[c].name = "uncheck"
    PROVE  CallerOK(c, Ended(x, how), G)
<1> DEFINE r == tool[c]
<1>1. r.todo # <<>> /\ OneTab(r) /\ Landed(r, tab) /\ r.page \in Tabs /\ r.name # "none"
  BY Working
<1> HIDE DEF r
<1>2. x.name # "load" => \E t \in Tabs : x.acted \subseteq {t}
  BY <1>1 DEF OneTab, r
<1>3. Landed(x, G)
  BY <1>1, LandedSame DEF r
<1> QED
  BY <1>1, <1>2, <1>3, EndsOK DEF r

LEMMA SameTabs == ASSUME NEW F PROVE SameFits(F, F)
  BY DEF SameFits

LEMMA InputFacts ==
    ASSUME NEW c \in Callers, NEW r \in ToolRec, Target(c) \in Tabs
    PROVE  /\ Input(c, r) \in ToolRec /\ Input(c, r).acted = r.acted \cup {Target(c)}
           /\ Input(c, r).name = r.name /\ Input(c, r).todo = r.todo /\ Input(c, r).said = r.said
           /\ Input(c, r).page = r.page /\ Input(c, r).el = r.el /\ Input(c, r).point = r.point
           /\ Input(c, r).goal = r.goal /\ Input(c, r).before = r.before
           /\ Input(c, r).calm = r.calm /\ Input(c, r).alone = r.alone /\ Input(c, r).missed = r.missed
<1> DEFINE a == r.acted \cup {Target(c)}
           y == [r EXCEPT !.acted = a]
<1>1. a \in SUBSET Tabs
  BY ToolFields
<1>2. Input(c, r) = y
  BY DEF Input
<1> HIDE DEF a
<1>3. y \in ToolRec
  BY <1>1 DEF ToolRec
<1>4. /\ y.acted = a /\ y.name = r.name /\ y.todo = r.todo /\ y.said = r.said /\ y.page = r.page /\ y.el = r.el
      /\ y.point = r.point /\ y.goal = r.goal /\ y.before = r.before
      /\ y.calm = r.calm /\ y.alone = r.alone /\ y.missed = r.missed
  BY DEF ToolRec
<1> HIDE DEF y
<1> QED
  BY <1>2, <1>3, <1>4 DEF a

LEMMA IdleFacts ==
    /\ Idle \in ToolRec /\ Idle.name = "none" /\ Idle.todo = <<>> /\ Idle.said = "none"
    /\ Idle.acted = {} /\ Idle.missed = FALSE
<1> DEFINE e == <<>>
<1>1. e \in Seq(StepNames) /\ e = <<>>
  OBVIOUS
<1> HIDE DEF e
<1>2. Idle = [name |-> "none", todo |-> e, el |-> "box", page |-> None, ref |-> 0, last |-> None,
              point |-> None, goal |-> None, before |-> {},
              calm |-> FALSE, alone |-> FALSE, acted |-> {}, missed |-> FALSE, said |-> "none"]
  BY <1>1 DEF Idle
<1> QED
  BY <1>1, <1>2 DEF ToolRec, Elements, Endings

\* _capture_page_session
LEMMA StartOK == ASSUME Inv, NEW c \in Callers, Start(c) PROVE Inv'
<1>1. PICK name \in Script[c], e \in Elements :
        Says(c, [Idle EXCEPT !.name = name, !.todo = Steps[name], !.el = e, !.page = current,
                             !.ref = tab[current].doc, !.calm = TRUE, !.alone = TRUE])
  BY DEF Start
<1> DEFINE s == Steps[name]
           n == tab[current].doc
           r == [Idle EXCEPT !.name = name, !.todo = s, !.el = e, !.page = current,
                             !.ref = n, !.calm = TRUE, !.alone = TRUE]
<1>2. name \in DOMAIN Steps /\ name # "none"
  BY ActionsAssumption, StepsDomain
<1>3. s \in Seq(StepNames) /\ s # <<>> /\ Sound(name, s)
  BY <1>2, StepsType, SoundSteps
<1>4. current \in Tabs /\ n \in Nat
  BY PageFields DEF Inv, PagesOK
<1>5. name = "type" => Len(s) = 3
  BY StepsOf DEF Type
<1>6. Steps[name] = s /\ Says(c, r)
  BY <1>1
<1> HIDE DEF s, n
<1>7. r \in ToolRec
  BY IdleFacts, <1>2, <1>3, <1>4 DEF ToolRec
<1>8. /\ r.name = name /\ r.todo = s /\ r.page = current /\ r.said = "none"
      /\ r.acted = {} /\ r.missed = FALSE
  BY IdleFacts DEF ToolRec
<1> HIDE DEF r
<1>9. Course(r)
  <2>1. Suffix(s, s)
    BY <1>3 DEF Suffix
  <2> QED
    BY <2>1, <1>2, <1>4, <1>6, <1>8 DEF Course
<1>10. OneTab(r) /\ Landed(r, tab)
  BY <1>4, <1>8 DEF OneTab, Landed
<1>11. ~Measured(r)
  <2>1. Head(r.todo) = s[1]
    BY <1>3, <1>8
  <2> QED
    BY <2>1, <1>3, <1>7, <1>8, <1>9, FirstStep DEF Sound
<1>12. TextOK(c, r, tab) /\ TickOK(r, tab)
  BY <1>5, <1>8 DEF TextOK, TickOK
<1>13. CallerOK(c, r, tab)
  BY <1>7, <1>9, <1>10, <1>11, <1>12 DEF CallerOK, Aimed
<1> QED
  BY <1>6, <1>13, SaysOK

\* One probe of wait_for_ready.
LEMMA ProbeOK == ASSUME Inv, NEW c \in Callers, Probe(c) PROVE Inv'
<1> DEFINE r == tool[c]
           e == Aim(c)
           p == IF Page(c).shown[e] = "disabled" THEN Page(c) ELSE Scrolled(Page(c), e)
           y == IF Page(c).shown[e] # "ok" THEN r
                ELSE IF r.last = p.place[e] THEN [Onward(r) EXCEPT !.last = None]
                ELSE [r EXCEPT !.last = p.place[e]]
           G == [tab EXCEPT ![Target(c)] = p]
<1>1. Busy(c) /\ Head(r.todo) \in {"ready", "readyTo"} /\ Does(c, p, y)
  BY DEF Probe, At
<1>2. /\ r \in ToolRec /\ r.todo # <<>> /\ Course(r) /\ OneTab(r) /\ Landed(r, tab) /\ r.said = "none"
      /\ r.page \in Tabs /\ Target(c) = r.page /\ Page(c) = tab[r.page] /\ PageOK(Page(c))
  BY <1>1, Working
<1>3. e \in Elements
  BY <1>2, ToolFields DEF Aim, Elements
<1>4. PageOK(p) /\ p.fits = Page(c).fits
  BY <1>2, <1>3, ScrolledOK
<1>5. SameFits(tab, G)
  BY <1>2, <1>4, TabWith DEF Inv
<1>6. p.place[e] \in Points
  BY <1>3, <1>4, PageFields DEF PageOK
<1> HIDE DEF p, e, r, G
<1>7. ASSUME NEW l \in {None} \cup Points
      PROVE  CallerOK(c, [r EXCEPT !.last = l], G)
  <2> DEFINE z == [r EXCEPT !.last = l]
  <2>1. z \in ToolRec
    BY <1>2 DEF ToolRec
  <2>2. /\ z.name = r.name /\ z.todo = r.todo /\ z.said = r.said /\ z.page = r.page /\ z.acted = r.acted
        /\ z.missed = r.missed /\ z.calm = r.calm
    BY <1>2 DEF ToolRec
  <2> HIDE DEF z
  <2>3. Course(z) /\ OneTab(z)
    BY <1>2, <2>2 DEF Course, OneTab
  <2>4. Landed(z, G)
    BY <1>2, <1>5, <2>2, LandedSame
  <2>5. Aimed(z, G)
    BY <1>1, <1>2, <2>1, <2>2, <2>3, FirstStep DEF Aimed, r
  <2>6. TextOK(c, z, G) /\ TickOK(z, G)
    <3>1. z.name # "type"
      BY <1>1, <1>2, <2>1, <2>2, <2>3, TypeStep DEF r
    <3> QED
      BY <3>1, <1>2, <2>2 DEF TextOK, TickOK
  <2>7. CallerOK(c, z, G)
    BY <2>1, <2>3, <2>4, <2>5, <2>6 DEF CallerOK
  <2> QED
    BY <2>7 DEF z
<1>8. CallerOK(c, r, G)
  <2>1. r.last \in {None} \cup Points /\ [r EXCEPT !.last = r.last] = r
    BY <1>2, ToolFields DEF ToolRec
  <2> QED
    BY <2>1, <1>7
<1>9. CallerOK(c, [Onward(r) EXCEPT !.last = None], G)
  <2> DEFINE o == Onward(r)
             z == [o EXCEPT !.last = None]
  <2>1. /\ o \in ToolRec /\ Advanced(o.todo, r.todo) /\ o.said = IF Len(r.todo) = 1 THEN "ok" ELSE "none"
        /\ o.name = r.name /\ o.page = r.page /\ o.calm = r.calm /\ o.acted = r.acted /\ o.missed = r.missed
    BY <1>2, OnwardFacts
  <2> HIDE DEF o
  <2>2. z \in ToolRec
    BY <2>1 DEF ToolRec
  <2>3. /\ z.name = o.name /\ z.todo = o.todo /\ z.said = o.said /\ z.page = o.page /\ z.acted = o.acted
        /\ z.missed = o.missed /\ z.calm = o.calm
    BY <2>1 DEF ToolRec
  <2> HIDE DEF z
  <2>4. CallerOK(c, z, G)
    BY <1>1, <1>2, <1>5, <2>1, <2>2, <2>3, PlainStep DEF r
  <2> QED
    BY <2>4 DEF z, o
<1>10. CallerOK(c, y, G)
  BY <1>6, <1>7, <1>8, <1>9
<1> HIDE DEF y
<1> QED
  BY <1>1, <1>2, <1>4, <1>10, DoesOK DEF G

\* The deadline of a loop of polls, and whatever else ends a tool without success.
LEMMA EndingOK ==
    ASSUME Inv, NEW c \in Callers, Busy(c), NEW how \in {"error", "timeout", "unchanged", "blind"},
           how = "blind" => tool[c].name = "uncheck", Says(c, Ended(tool[c], how))
    PROVE  Inv'
<1> DEFINE r == tool[c]
<1>1. r \in ToolRec /\ r.page \in Tabs
  BY Working
<1>2. SameFits(tab, tab)
  BY SameTabs
<1> HIDE DEF r
<1>3. CallerOK(c, Ended(r, how), tab)
  BY <1>1, <1>2, FailedStep DEF r
<1> QED
  BY <1>3, SaysOK DEF r

\* A tool goes on after a step that neither aims nor presses nor decides.
LEMMA GoingOn ==
    ASSUME Inv, NEW c \in Callers, Busy(c), NEW G, SameFits(tab, G), NEW x \in ToolRec,
           x.name = tool[c].name, x.todo = tool[c].todo, x.said = tool[c].said, x.missed = tool[c].missed,
           x.calm = tool[c].calm, x.page \in Tabs,
           x.name # "load" => x.page = tool[c].page /\ x.acted \subseteq tool[c].acted \cup {tool[c].page},
           Head(tool[c].todo) \notin
             {"point", "move", "pointTo", "down", "up", "edit", "insert", "changed", "verify"}
    PROVE  CallerOK(c, Onward(x), G)
<1> DEFINE y == Onward(x)
<1>1. x.todo # <<>> /\ x.said = "none"
  BY Working
<1>2. /\ y \in ToolRec /\ Advanced(y.todo, x.todo) /\ y.said = IF Len(x.todo) = 1 THEN "ok" ELSE "none"
      /\ y.name = x.name /\ y.page = x.page /\ y.calm = x.calm /\ y.acted = x.acted /\ y.missed = x.missed
  BY <1>1, OnwardFacts
<1> HIDE DEF y
<1>3. CallerOK(c, y, G)
  BY <1>1, <1>2, PlainStep
<1> QED
  BY <1>3 DEF y

LEMMA Goes ==
    ASSUME Inv, NEW c \in Callers, Busy(c), NEW G, SameFits(tab, G),
           Head(tool[c].todo) \notin
             {"point", "move", "pointTo", "down", "up", "edit", "insert", "changed", "verify"}
    PROVE  /\ CallerOK(c, Onward(tool[c]), G)
           /\ CallerOK(c, Onward(Input(c, tool[c])), G)
<1> DEFINE r == tool[c]
           x == Input(c, r)
<1>1. r \in ToolRec /\ r.page \in Tabs /\ Target(c) = r.page
  BY Working
<1>2. /\ x \in ToolRec /\ x.acted = r.acted \cup {r.page} /\ x.name = r.name /\ x.todo = r.todo
      /\ x.said = r.said /\ x.page = r.page /\ x.calm = r.calm /\ x.missed = r.missed
  BY <1>1, InputFacts
<1> HIDE DEF x, r
<1>3. CallerOK(c, Onward(r), G)
  BY <1>1, GoingOn DEF r
<1>4. CallerOK(c, Onward(x), G)
  BY <1>1, <1>2, GoingOn DEF r
<1> QED
  BY <1>3, <1>4 DEF x, r

\* _element_point
LEMMA MeasureOK == ASSUME Inv, NEW c \in Callers, Measure(c) PROVE Inv'
<1> DEFINE r == tool[c]
           e == Aim(c)
           p == Scrolled(Page(c), e)
           o == Onward(r)
           calm == o.calm /\ p = Page(c)
           to == [o EXCEPT !.goal = p.place[e], !.calm = calm]
           at == [o EXCEPT !.point = p.place[e], !.calm = TRUE]
           G == [tab EXCEPT ![Target(c)] = p]
<1>1. /\ Busy(c) /\ Head(r.todo) \in {"point", "pointTo"}
      /\ Does(c, p, IF ~Fit(p, e) THEN Ended(r, "error") ELSE IF Head(r.todo) = "pointTo" THEN to ELSE at)
  <2>1. At(c, "point") \/ At(c, "pointTo")
    BY DEF Measure
  <2>2. At(c, "pointTo") <=> Head(r.todo) = "pointTo"
    BY <2>1 DEF At
  <2>3. Does(c, p, IF ~Fit(p, e) THEN Ended(r, "error") ELSE IF At(c, "pointTo") THEN to ELSE at)
    BY DEF Measure
  <2> HIDE DEF p, e, r, to, at
  <2>4. CASE Head(r.todo) = "pointTo"
    BY <2>1, <2>2, <2>3, <2>4 DEF At
  <2>5. CASE Head(r.todo) # "pointTo"
    BY <2>1, <2>2, <2>3, <2>5 DEF At, r
  <2> QED
    BY <2>4, <2>5
<1>2. /\ r \in ToolRec /\ r.todo # <<>> /\ Course(r) /\ OneTab(r) /\ Landed(r, tab) /\ r.said = "none"
      /\ Aimed(r, tab)
      /\ r.page \in Tabs /\ Target(c) = r.page /\ Page(c) = tab[r.page] /\ PageOK(Page(c))
  BY <1>1, Working
<1>3. e \in Elements /\ (Head(r.todo) = "point" => e = r.el)
  BY <1>2, ToolFields DEF Aim, Elements
<1>4. /\ PageOK(p) /\ p.fits = Page(c).fits /\ p.shown = Page(c).shown
      /\ Page(c).fits => p = Page(c)
  BY <1>2, <1>3, ScrolledOK
<1>5. SameFits(tab, G) /\ G[r.page] = p
  BY <1>2, <1>4, TabWith DEF Inv
<1>6. p.place[e] \in Points
  BY <1>3, <1>4, PageFields DEF PageOK
<1>7. Fit(p, e) => p.shown[e] = "ok" /\ Hit(p, p.place[e]) = e
  BY <1>2, <1>3, AimHits DEF Fit
<1>8. calm \in BOOLEAN /\ (calm => o.calm)
  OBVIOUS
<1>9. /\ o \in ToolRec /\ Advanced(o.todo, r.todo) /\ o.said = IF Len(r.todo) = 1 THEN "ok" ELSE "none"
      /\ o.name = r.name /\ o.page = r.page /\ o.el = r.el /\ o.acted = r.acted /\ o.missed = r.missed
      /\ o.calm = r.calm
      /\ Len(r.todo) # 1 => o.point = r.point
  BY <1>2, OnwardFacts
<1>10. CallerOK(c, Ended(r, "error"), G)
  BY <1>1, <1>2, <1>5, FailedStep
<1> HIDE DEF p, e, r, G, o, calm
<1>11. ASSUME Head(r.todo) = "pointTo" PROVE CallerOK(c, to, G)
  <2>1. to \in ToolRec
    BY <1>6, <1>8, <1>9 DEF ToolRec
  <2>2. /\ to.name = r.name /\ to.todo = o.todo /\ to.said = o.said /\ to.page = r.page /\ to.el = r.el
        /\ to.acted = r.acted /\ to.missed = r.missed /\ to.calm = calm
        /\ Len(r.todo) # 1 => to.point = r.point
    BY <1>9 DEF ToolRec
  <2> HIDE DEF to
  <2>3. Course(to)
    BY <1>2, <1>9, <2>1, <2>2, AdvancesOK
  <2>4. OneTab(to) /\ Landed(to, G)
    BY <1>2, <1>5, <2>2, LandedSame DEF OneTab
  <2>5. r.name = "drag"
    BY <1>2, <1>11, FirstStep
  <2>6. Aimed(to, G)
    <3>1. (r.name = "drag" /\ ~tab[r.page].fits) \/
            (G[r.page].shown = tab[r.page].shown /\ G[r.page].place = tab[r.page].place)
      BY <1>2, <1>4, <1>5, <2>5
    <3> QED
      BY <1>2, <1>4, <1>5, <1>8, <1>9, <1>11, <2>1, <2>2, <3>1, KeepsAim
  <2>7. TextOK(c, to, G) /\ TickOK(to, G)
    BY <1>2, <1>9, <1>11, <2>2, OtherSteps
  <2> QED
    BY <2>1, <2>3, <2>4, <2>6, <2>7 DEF CallerOK
<1>12. ASSUME Head(r.todo) = "point", Fit(p, e) PROVE CallerOK(c, at, G)
  <2>1. at \in ToolRec
    BY <1>6, <1>9 DEF ToolRec
  <2>2. /\ at.name = r.name /\ at.todo = o.todo /\ at.said = o.said /\ at.page = r.page /\ at.el = r.el
        /\ at.acted = r.acted /\ at.missed = r.missed /\ at.point = p.place[e]
    BY <1>9 DEF ToolRec
  <2> HIDE DEF at
  <2>3. Course(at)
    BY <1>2, <1>9, <2>1, <2>2, AdvancesOK
  <2>4. OneTab(at) /\ Landed(at, G)
    BY <1>2, <1>5, <2>2, LandedSame DEF OneTab
  <2>5. Aimed(at, G)
    BY <1>3, <1>5, <1>7, <1>12, <2>2 DEF Aimed
  <2>6. TextOK(c, at, G) /\ TickOK(at, G)
    BY <1>2, <1>9, <1>12, <2>2, OtherSteps
  <2> QED
    BY <2>1, <2>3, <2>4, <2>5, <2>6 DEF CallerOK
<1> DEFINE y == IF ~Fit(p, e) THEN Ended(r, "error") ELSE IF Head(r.todo) = "pointTo" THEN to ELSE at
<1>13. CallerOK(c, y, G)
  BY <1>1, <1>10, <1>11, <1>12
<1>14. Does(c, p, y)
  BY <1>1
<1> HIDE DEF y
<1> QED
  BY <1>2, <1>4, <1>13, <1>14, DoesOK DEF G

\* check and uncheck ask what the element is.
LEMMA KindOK == ASSUME Inv, NEW c \in Callers, Kind(c) PROVE Inv'
<1>1. Busy(c) /\ Head(tool[c].todo) = "kind"
  BY DEF Kind, At
<1>2. Says(c, Onward(tool[c])) \/ Says(c, Ended(tool[c], "error"))
  BY DEF Kind
<1>3. CallerOK(c, Onward(tool[c]), tab)
  BY <1>1, SameTabs, Goes
<1> QED
  BY <1>1, <1>2, <1>3, SaysOK, EndingOK

\* The presses that are due land, however the page got to be as it is.
LEMMA AimedDontMiss ==
    ASSUME Inv, NEW c \in Callers, Busy(c), Misses(c)
    PROVE  tool[c].name = "nodeClick" \/ (tool[c].name = "drag" /\ ~tab[tool[c].page].fits)
<1> DEFINE r == tool[c]
<1>1. r \in ToolRec /\ r.todo # <<>> /\ Course(r) /\ Aimed(r, tab) /\ Page(c) = tab[r.page]
  BY Working
<1>2. /\ Head(r.todo) = "down" /\ r.calm
      /\ Hit(tab[r.page], r.point) # r.el \/ tab[r.page].shown[r.el] # "ok"
  BY <1>1 DEF Misses, At
<1> HIDE DEF r
<1>3. r.name # "nodeClick" => Measured(r)
  BY <1>1, <1>2, FirstStep
<1>4. r.name = "nodeClick" \/ (r.name = "drag" /\ ~tab[r.page].fits)
  BY <1>1, <1>2, <1>3 DEF Aimed
<1> QED
  BY <1>4 DEF r

\* _dispatch_mouse, Page.dispatchKeyEvent, Page.insertText
LEMMA DispatchOK == ASSUME Inv, NEW c \in Callers, Dispatch(c) PROVE Inv'
<1> DEFINE r == tool[c]
           i == Input(c, r)
           missed == i.missed \/ Misses(c)
           point == IF At(c, "drag") THEN r.goal ELSE i.point
           x == [i EXCEPT !.missed = missed, !.point = point]
           G(p) == [tab EXCEPT ![Target(c)] = p]
<1>1. Busy(c) /\ Head(r.todo) \in {"move", "drag", "down", "up", "keydown", "keyup", "insert"}
  BY DEF Dispatch, At
<1>2. \/ Does(c, Effect(c), Onward(x))
      \/ \E p \in {Page(c), Effect(c)} : Does(c, p, Ended(x, "error"))
  BY DEF Dispatch
<1>3. /\ r \in ToolRec /\ r.todo # <<>> /\ Course(r) /\ OneTab(r) /\ Landed(r, tab) /\ r.said = "none"
      /\ Aimed(r, tab) /\ TextOK(c, r, tab) /\ r.name # "none"
      /\ r.page \in Tabs /\ Target(c) = r.page /\ Page(c) = tab[r.page] /\ PageOK(Page(c))
  BY <1>1, Working
<1>4. /\ i \in ToolRec /\ i.acted = r.acted \cup {r.page} /\ i.name = r.name /\ i.todo = r.todo
      /\ i.said = r.said /\ i.page = r.page /\ i.el = r.el /\ i.point = r.point /\ i.before = r.before
      /\ i.calm = r.calm /\ i.alone = r.alone /\ i.missed = r.missed
  BY <1>3, InputFacts
<1>5. missed \in BOOLEAN /\ (missed => r.missed \/ Misses(c))
  BY <1>4
<1>6. point \in {None} \cup Points /\ (Head(r.todo) # "drag" => point = r.point)
  BY <1>3, <1>4, ToolFields DEF At
<1>7. /\ PageOK(Effect(c))
      /\ Effect(c).fits = Page(c).fits /\ Effect(c).shown = Page(c).shown /\ Effect(c).place = Page(c).place
      /\ Head(r.todo) = "insert" => Effect(c).text \in {Page(c).text, Page(c).text \cup {c}}
  BY <1>1, <1>3, EffectOK DEF At
<1>8. Misses(c) => r.name = "nodeClick" \/ (r.name = "drag" /\ ~tab[r.page].fits)
  BY <1>1, AimedDontMiss
<1> HIDE DEF r, i, missed, point
<1>9. x \in ToolRec
  BY <1>4, <1>5, <1>6 DEF ToolRec
<1>10. /\ x.acted = r.acted \cup {r.page} /\ x.name = r.name /\ x.todo = r.todo /\ x.said = r.said
       /\ x.page = r.page /\ x.el = r.el /\ x.point = point /\ x.before = r.before
       /\ x.calm = r.calm /\ x.alone = r.alone /\ x.missed = missed
  BY <1>4 DEF ToolRec
<1> HIDE DEF x
<1>11. Landed(x, tab)
  BY <1>3, <1>5, <1>8, <1>10 DEF Landed
<1>12. ASSUME NEW p \in {Page(c), Effect(c)}
       PROVE  /\ PageOK(p) /\ p.fits = Page(c).fits /\ SameFits(tab, G(p)) /\ G(p)[r.page] = p
              /\ Landed(x, G(p))
  <2>1. PageOK(p) /\ p.fits = tab[r.page].fits
    BY <1>3, <1>7, <1>12
  <2>2. SameFits(tab, G(p)) /\ G(p)[r.page] = p
    BY <1>3, <2>1, TabWith DEF Inv
  <2> HIDE DEF G
  <2> QED
    BY <1>3, <1>11, <2>1, <2>2, LandedSame
<1>13. x.name # "load" => x.acted \subseteq {x.page}
  BY <1>3, <1>10 DEF OneTab
<1>14. ASSUME NEW p \in {Page(c), Effect(c)} PROVE CallerOK(c, Ended(x, "error"), G(p))
  <2> HIDE DEF G
  <2> QED
    BY <1>3, <1>9, <1>10, <1>12, <1>13, EndsOK
<1>15. CallerOK(c, Onward(x), G(Effect(c)))
  <2> DEFINE y == Onward(x)
             F == G(Effect(c))
  <2>1. /\ y \in ToolRec /\ Advanced(y.todo, r.todo) /\ y.said = IF Len(r.todo) = 1 THEN "ok" ELSE "none"
        /\ y.name = r.name /\ y.page = r.page /\ y.el = r.el /\ y.calm = r.calm /\ y.alone = r.alone
        /\ y.acted = x.acted /\ y.missed = x.missed
        /\ Len(r.todo) # 1 => y.point = point /\ y.before = r.before
    BY <1>3, <1>9, <1>10, OnwardFacts
  <2>2. SameFits(tab, F) /\ F[r.page] = Effect(c) /\ Landed(x, F)
    BY <1>12
  <2> HIDE DEF y, F
  <2>3. Course(y)
    BY <1>3, <2>1, AdvancesOK
  <2>4. OneTab(y)
    BY <1>3, <1>10, <1>13, <2>1 DEF OneTab
  <2>5. Landed(y, F)
    BY <1>10, <2>1, <2>2, SameTabs, LandedSame
  <2>6. Aimed(y, F)
    <3>1. CASE Head(r.todo) = "drag"
      <4>1. ~Measured(y)
        BY <1>3, <2>1, <3>1, MeasuredBefore, FirstStep
      <4> QED
        BY <4>1 DEF Aimed
    <3>2. CASE Head(r.todo) # "drag"
      <4>1. F[r.page].fits = tab[r.page].fits /\ F[r.page].shown = tab[r.page].shown
            /\ F[r.page].place = tab[r.page].place
        BY <1>3, <1>7, <2>2
      <4>2. Len(r.todo) # 1 => y.point = r.point
        BY <1>6, <2>1, <3>2
      <4> QED
        BY <1>1, <1>3, <2>1, <4>1, <4>2, KeepsAim
    <3> QED
      BY <3>1, <3>2
  <2>7. TextOK(c, y, F)
    <3>1. CASE Head(r.todo) = "insert" /\ r.name = "type"
      <4>1. Len(r.todo) = 2
        BY <1>3, <3>1, TypeStep
      <4>2. Len(y.todo) = 1 /\ y.said = "none" /\ y.before = r.before
        BY <2>1, <4>1 DEF Advanced
      <4>3. r.alone => Effect(c).text = r.before \/ c \in Effect(c).text
        BY <1>3, <1>7, <3>1, <4>1 DEF TextOK
      <4> QED
        BY <2>1, <2>2, <4>2, <4>3 DEF TextOK
    <3>2. CASE r.name # "type"
      BY <2>1, <3>2 DEF TextOK
    <3>3. CASE Head(r.todo) # "insert"
      BY <1>1, <1>3, <2>1, <3>3, OtherSteps
    <3> QED
      BY <3>1, <3>2, <3>3
  <2>8. TickOK(y, F)
    BY <1>1, <1>3, <2>1, OtherSteps
  <2>9. CallerOK(c, y, F)
    BY <2>1, <2>3, <2>4, <2>5, <2>6, <2>7, <2>8 DEF CallerOK
  <2> QED
    BY <2>9 DEF y, F
<1>16. Target(c) \in Tabs
  BY <1>3
<1>17. CASE Does(c, Effect(c), Onward(x))
  <2>1. PageOK(Effect(c)) /\ Effect(c).fits = Page(c).fits
    BY <1>7
  <2> QED
    BY <2>1, <1>15, <1>16, <1>17, DoesOK
<1>18. ASSUME NEW p \in {Page(c), Effect(c)}, Does(c, p, Ended(x, "error")) PROVE Inv'
  BY <1>12, <1>14, <1>16, <1>18, DoesOK
<1> QED
  BY <1>2, <1>17, <1>18

\* check and uncheck say that a box is as wanted when they see it so.
LEMMA VerifyOK == ASSUME Inv, NEW c \in Callers, Verify(c) PROVE Inv'
<1> DEFINE r == tool[c]
           y == Ended(r, "ok")
<1>1. Busy(c) /\ Head(r.todo) = "verify"
  BY DEF Verify, At
<1>2. \/ Page(c).ticked = Wanted(c) /\ Says(c, y)
      \/ Says(c, Ended(r, "unchanged"))
      \/ ~Wanted(c) /\ Says(c, Ended(r, "blind"))
  BY DEF Verify
<1>3. /\ r \in ToolRec /\ r.todo # <<>> /\ Course(r) /\ OneTab(r) /\ Landed(r, tab)
      /\ r.page \in Tabs /\ Page(c) = tab[r.page] /\ r.name # "none"
  BY <1>1, Working
<1>4. Wanted(c) = (r.name = "check")
  BY DEF Wanted
<1>5. "ok" \in Endings
  BY DEF Endings
<1>6. /\ y \in ToolRec /\ y.todo = <<>> /\ y.said = "ok" /\ y.name = r.name /\ y.page = r.page
      /\ y.acted = r.acted /\ y.missed = r.missed
  BY <1>3, <1>5, EndedFacts
<1>7. r.name \in {"check", "uncheck"} /\ r.name \in DOMAIN Steps
  BY <1>1, <1>3, FirstStep
<1> HIDE DEF r, y
<1>8. ASSUME Page(c).ticked = Wanted(c) PROVE CallerOK(c, y, tab)
  <2>1. Suffix(y.todo, Steps[y.name])
    <3>1. Steps[y.name] \in Seq(StepNames)
      BY <1>6, <1>7, StepsType
    <3> QED
      BY <1>6, <3>1 DEF Suffix
  <2>2. Course(y) /\ OneTab(y)
    BY <1>3, <1>6, <1>7, <2>1 DEF Course, OneTab
  <2>3. Aimed(y, tab) /\ Landed(y, tab)
    BY <1>3, <1>6 DEF Aimed, Measured, Landed
  <2>4. TextOK(c, y, tab) /\ TickOK(y, tab)
    BY <1>3, <1>4, <1>6, <1>7, <1>8 DEF TextOK, TickOK
  <2> QED
    BY <1>6, <2>2, <2>3, <2>4 DEF CallerOK
<1>9. CASE Page(c).ticked = Wanted(c) /\ Says(c, y)
  BY <1>8, <1>9, SaysOK
<1>10. CASE Says(c, Ended(r, "unchanged"))
  BY <1>1, <1>10, EndingOK DEF r
<1>11. CASE ~Wanted(c) /\ Says(c, Ended(r, "blind"))
  <2>1. r.name = "uncheck"
    BY <1>4, <1>7, <1>11
  <2> QED
    BY <1>1, <1>11, <2>1, EndingOK DEF r
<1> QED
  BY <1>2, <1>9, <1>10, <1>11

\* kahin_mirage_type notes the text of the field when it has focused it.
LEMMA EditOK == ASSUME Inv, NEW c \in Callers, Edit(c) PROVE Inv'
<1> DEFINE r == tool[c]
           p == [Page(c) EXCEPT !.focus = "field"]
           o == Onward(r)
           text == Page(c).text
           y == [o EXCEPT !.before = text, !.alone = TRUE]
           G == [tab EXCEPT ![Target(c)] = p]
<1>1. Busy(c) /\ Head(r.todo) = "edit"
  BY DEF Edit, At
<1>2. Says(c, Ended(r, "error")) \/ Does(c, p, y)
  BY DEF Edit
<1>3. /\ r \in ToolRec /\ r.todo # <<>> /\ Course(r) /\ OneTab(r) /\ Landed(r, tab) /\ r.said = "none"
      /\ r.page \in Tabs /\ Target(c) = r.page /\ Page(c) = tab[r.page] /\ PageOK(Page(c))
  BY <1>1, Working
<1>4. /\ o \in ToolRec /\ Advanced(o.todo, r.todo) /\ o.said = IF Len(r.todo) = 1 THEN "ok" ELSE "none"
      /\ o.name = r.name /\ o.page = r.page /\ o.calm = r.calm /\ o.acted = r.acted /\ o.missed = r.missed
  BY <1>3, OnwardFacts
<1>5. "field" \in Elements
  BY DEF Elements
<1>6. PageOK(p) /\ p.fits = Page(c).fits /\ p.text = text /\ text \in SUBSET Callers
  <2>1. Page(c).text \in SUBSET Callers
    BY <1>3, PageFields DEF PageOK
  <2> QED
    BY <1>3, <1>5, <2>1, FocusedOK
<1> HIDE DEF p
<1>7. SameFits(tab, G) /\ G[r.page] = p
  BY <1>3, <1>6, TabWith DEF Inv
<1> HIDE DEF r, o, text, G
<1>8. y \in ToolRec
  BY <1>4, <1>6 DEF ToolRec
<1>9. /\ y.name = r.name /\ y.todo = o.todo /\ y.said = o.said /\ y.page = r.page /\ y.calm = r.calm
      /\ y.acted = r.acted /\ y.missed = r.missed /\ y.before = text
  BY <1>4 DEF ToolRec
<1> HIDE DEF y
<1>10. r.name = "type" /\ Len(r.todo) = 3
  BY <1>1, <1>3, FirstStep, TypeStep DEF r
<1>11. Course(y)
  BY <1>3, <1>4, <1>8, <1>9, AdvancesOK
<1>12. OneTab(y) /\ Landed(y, G)
  BY <1>3, <1>7, <1>9, LandedSame DEF OneTab
<1>13. ~Measured(y)
  BY <1>1, <1>3, <1>4, <1>8, <1>9, MeasuredBefore, FirstStep DEF r
<1>14. TextOK(c, y, G)
  <2>1. Len(y.todo) = 2 /\ y.said = "none"
    BY <1>4, <1>9, <1>10 DEF Advanced
  <2> QED
    BY <1>6, <1>7, <1>9, <2>1 DEF TextOK
<1>15. TickOK(y, G)
  BY <1>4, <1>9, <1>10 DEF TickOK
<1>16. CallerOK(c, y, G)
  BY <1>8, <1>11, <1>12, <1>13, <1>14, <1>15 DEF CallerOK, Aimed
<1>17. CASE Does(c, p, y)
  <2>1. Target(c) \in Tabs
    BY <1>3
  <2> QED
    BY <2>1, <1>6, <1>16, <1>17, DoesOK DEF G
<1>18. CASE Says(c, Ended(r, "error"))
  BY <1>1, <1>18, EndingOK DEF r
<1> QED
  BY <1>2, <1>17, <1>18

\* ... and says that it has typed when the text is another.
LEMMA ChangedOK == ASSUME Inv, NEW c \in Callers, Changed(c) PROVE Inv'
<1> DEFINE r == tool[c]
           y == Onward(r)
<1>1. Busy(c) /\ Head(r.todo) = "changed"
  BY DEF Changed, At
<1>2. (TextChanged(c) /\ Says(c, y)) \/ Says(c, Ended(r, "error"))
  BY DEF Changed
<1>3. /\ r \in ToolRec /\ r.todo # <<>> /\ Course(r) /\ OneTab(r) /\ Landed(r, tab) /\ r.said = "none"
      /\ TextOK(c, r, tab)
      /\ r.page \in Tabs /\ Page(c) = tab[r.page]
  BY <1>1, Working
<1>4. /\ y \in ToolRec /\ Advanced(y.todo, r.todo) /\ y.said = IF Len(r.todo) = 1 THEN "ok" ELSE "none"
      /\ y.name = r.name /\ y.page = r.page /\ y.calm = r.calm /\ y.alone = r.alone
      /\ y.acted = r.acted /\ y.missed = r.missed
  BY <1>3, OnwardFacts
<1>5. TextChanged(c) => tab[r.page].text # r.before
  BY <1>3 DEF TextChanged
<1>6. r.name = "type" /\ Len(r.todo) = 1
  BY <1>1, <1>3, FirstStep, TypeStep
<1> HIDE DEF r, y
<1>7. ASSUME TextChanged(c) PROVE CallerOK(c, y, tab)
  <2>1. Course(y)
    BY <1>3, <1>4, AdvancesOK
  <2>2. OneTab(y) /\ Landed(y, tab)
    BY <1>3, <1>4, SameTabs, LandedSame DEF OneTab
  <2>3. ~Measured(y)
    BY <1>1, <1>3, <1>4, MeasuredBefore, FirstStep
  <2>4. TextOK(c, y, tab)
    <3>1. Len(y.todo) = 0
      BY <1>4, <1>6 DEF Advanced
    <3>2. r.alone => c \in tab[r.page].text
      BY <1>3, <1>5, <1>6, <1>7 DEF TextOK
    <3> QED
      BY <1>4, <3>1, <3>2 DEF TextOK
  <2>5. TickOK(y, tab)
    BY <1>4, <1>6 DEF TickOK
  <2> QED
    BY <1>4, <2>1, <2>2, <2>3, <2>4, <2>5 DEF CallerOK, Aimed
<1>8. CASE TextChanged(c) /\ Says(c, y)
  BY <1>7, <1>8, SaysOK
<1>9. CASE Says(c, Ended(r, "error"))
  BY <1>1, <1>9, EndingOK DEF r
<1> QED
  BY <1>2, <1>8, <1>9

\* kahin_mirage_dom_action, kahin_mirage_fill_form: the tab is the one the snapshot is of.
LEMMA NodeOK == ASSUME Inv, NEW c \in Callers, Node(c) PROVE Inv'
<1> DEFINE r == tool[c]
           e == r.el
           x == [r EXCEPT !.page = current]
           p == Scrolled(tab[current], e)
           q == IF r.name = "fill" /\ Visible(p, "field") THEN [p EXCEPT !.focus = "field"] ELSE p
           o == Onward(r)
           y == [o EXCEPT !.point = p.place[e]]
           G == [tab EXCEPT ![Target(c)] = q]
<1>1. Busy(c) /\ Head(r.todo) = "ref"
  BY DEF Node, At
<1>2. Says(c, Ended(x, "error")) \/ (current = r.page /\ Does(c, q, y))
  BY DEF Node, StaleNode
<1>3. /\ r \in ToolRec /\ r.todo # <<>> /\ Course(r) /\ r.said = "none"
      /\ r.page \in Tabs /\ Target(c) = r.page /\ Page(c) = tab[r.page]
  BY <1>1, Working
<1>4. current \in Tabs /\ PageOK(tab[current]) /\ e \in Elements /\ "field" \in Elements
  BY <1>3, ToolFields DEF Inv, PagesOK, Elements
<1>5. PageOK(p) /\ p.fits = tab[current].fits
  BY <1>4, ScrolledOK
<1>6. p.place[e] \in Points
  BY <1>4, <1>5, PageFields DEF PageOK
<1>7. PageOK(q) /\ q.fits = tab[current].fits
  <2> HIDE DEF p
  <2>2. PageOK([p EXCEPT !.focus = "field"]) /\ [p EXCEPT !.focus = "field"].fits = p.fits
    BY <1>4, <1>5, FocusedOK
  <2> QED
    BY <1>5, <2>2
<1>8. /\ o \in ToolRec /\ Advanced(o.todo, r.todo) /\ o.said = IF Len(r.todo) = 1 THEN "ok" ELSE "none"
      /\ o.name = r.name /\ o.page = r.page /\ o.calm = r.calm /\ o.acted = r.acted /\ o.missed = r.missed
  BY <1>3, OnwardFacts
<1> HIDE DEF r, e, p, q, o
<1>9. CASE Says(c, Ended(x, "error"))
  <2>1. x \in ToolRec
    BY <1>3, <1>4 DEF ToolRec
  <2>2. x.name = r.name /\ x.page = current /\ x.missed = r.missed /\ x.acted = r.acted
    BY <1>3 DEF ToolRec
  <2> HIDE DEF x
  <2>3. CallerOK(c, Ended(x, "error"), tab)
    BY <1>1, <1>4, <2>1, <2>2, SameTabs, FailedStep DEF r
  <2> QED
    BY <1>9, <2>3, SaysOK
<1>10. CASE current = r.page /\ Does(c, q, y)
  <2>1. SameFits(tab, G)
    BY <1>3, <1>7, <1>10, TabWith DEF Inv
  <2> HIDE DEF G
  <2>2. y \in ToolRec
    BY <1>6, <1>8 DEF ToolRec
  <2>3. /\ y.name = r.name /\ y.todo = o.todo /\ y.said = o.said /\ y.page = r.page /\ y.calm = r.calm
        /\ y.acted = r.acted /\ y.missed = r.missed
    BY <1>8 DEF ToolRec
  <2> HIDE DEF y
  <2>4. CallerOK(c, y, G)
    BY <1>1, <1>3, <1>8, <2>1, <2>2, <2>3, PlainStep DEF r
  <2>5. Target(c) \in Tabs /\ q.fits = Page(c).fits
    BY <1>3, <1>7, <1>10
  <2> QED
    BY <1>7, <1>10, <2>4, <2>5, DoesOK DEF G
<1> QED
  BY <1>2, <1>9, <1>10

\* Waits, reads and whatever else changes no page.
LEMMA LooksOK ==
    ASSUME Inv, NEW c \in Callers, Attached(c) \/ Sees(c) \/ Looks(c) PROVE Inv'
<1>1. Busy(c) /\ Head(tool[c].todo) \in {"attached", "poll", "look", "restore"}
  BY DEF Attached, Sees, Looks, At
<1>2. Says(c, Onward(tool[c])) \/ Says(c, Onward(Input(c, tool[c])))
  BY DEF Attached, Sees, Looks
<1>3. CallerOK(c, Onward(tool[c]), tab) /\ CallerOK(c, Onward(Input(c, tool[c])), tab)
  BY <1>1, SameTabs, Goes
<1> QED
  BY <1>2, <1>3, SaysOK

LEMMA CapturesOK == ASSUME Inv, NEW c \in Callers, Captures(c) PROVE Inv'
<1> DEFINE r == tool[c]
           x == [r EXCEPT !.page = current]
<1>1. Busy(c) /\ Head(r.todo) = "capture" /\ Says(c, Onward(x))
  BY DEF Captures, At
<1>2. r \in ToolRec /\ current \in Tabs
  BY <1>1, Working DEF Inv
<1>3. r.name = "load"
  BY <1>1, Working, FirstStep
<1> HIDE DEF r
<1>4. x \in ToolRec
  BY <1>2 DEF ToolRec
<1>5. /\ x.name = r.name /\ x.todo = r.todo /\ x.said = r.said /\ x.missed = r.missed /\ x.calm = r.calm
      /\ x.page = current
  BY <1>2 DEF ToolRec
<1> HIDE DEF x
<1>6. CallerOK(c, Onward(x), tab)
  BY <1>1, <1>2, <1>3, <1>4, <1>5, SameTabs, GoingOn DEF r
<1> QED
  BY <1>1, <1>6, SaysOK

\* A step that changes the page a tool works on, and goes on.
LEMMA WorksOK ==
    ASSUME Inv, NEW c \in Callers, Busy(c), NEW p, PageOK(p), p.fits = Page(c).fits,
           Head(tool[c].todo) \notin
             {"point", "move", "pointTo", "down", "up", "edit", "insert", "changed", "verify"},
           Does(c, p, Onward(Input(c, tool[c])))
    PROVE  Inv'
<1> DEFINE G == [tab EXCEPT ![Target(c)] = p]
           y == Onward(Input(c, tool[c]))
<1>1. Target(c) \in Tabs /\ Page(c) = tab[Target(c)]
  BY Working
<1>2. SameFits(tab, G)
  BY <1>1, TabWith DEF Inv
<1> HIDE DEF G
<1>3. CallerOK(c, y, G)
  BY <1>2, Goes
<1> QED
  BY <1>1, <1>3, DoesOK DEF G

LEMMA FocusesOK == ASSUME Inv, NEW c \in Callers, Focuses(c) PROVE Inv'
<1> DEFINE f == IF Page(c).shown[tool[c].el] \in {"ok", "covered"} THEN tool[c].el ELSE Page(c).focus
           p == [Page(c) EXCEPT !.focus = f]
<1>1. Busy(c) /\ Head(tool[c].todo) = "focus" /\ Does(c, p, Onward(Input(c, tool[c])))
  BY DEF Focuses, At
<1>2. PageOK(Page(c)) /\ f \in Elements \cup {None}
  BY <1>1, Working, ToolFields, PageFields DEF PageOK
<1> HIDE DEF f
<1>3. PageOK(p) /\ p.fits = Page(c).fits
  BY <1>2, FocusedOK
<1> HIDE DEF p
<1> QED
  BY <1>1, <1>3, WorksOK

LEMMA SelectsOK == ASSUME Inv, NEW c \in Callers, Selects(c) PROVE Inv'
<1> DEFINE p == [Page(c) EXCEPT !.text = {c}]
<1>1. /\ Busy(c) /\ Head(tool[c].todo) = "select"
      /\ Says(c, Ended(tool[c], "error")) \/ Does(c, p, Onward(Input(c, tool[c])))
  BY DEF Selects, At
<1>2. PageOK(p) /\ p.fits = Page(c).fits
  <2>1. PageOK(Page(c))
    BY <1>1, Working
  <2>2. Page(c).shown \in [Elements -> Conditions] /\ {c} \in SUBSET Callers /\ TRUE \in BOOLEAN
    BY <2>1, PageFields DEF PageOK
  <2> QED
    BY <2>1, <2>2, TouchedOK
<1> HIDE DEF p
<1> QED
  BY <1>1, <1>2, WorksOK, EndingOK

LEMMA LeavesOK == ASSUME Inv, NEW c \in Callers, Leaves(c) PROVE Inv'
<1>1. Busy(c) /\ Head(tool[c].todo) = "history" /\ Does(c, Renewed(Page(c)), Onward(Input(c, tool[c])))
  BY DEF Leaves, At
<1>2. PageOK(Renewed(Page(c))) /\ Renewed(Page(c)).fits = Page(c).fits
  BY <1>1, Working, RenewedOK
<1> QED
  BY <1>1, <1>2, WorksOK

\* kahin_mirage_state_load navigates the current tab.
LEMMA NavigatesOK == ASSUME Inv, NEW c \in Callers, Navigates(c) PROVE Inv'
<1> DEFINE r == tool[c]
           a == {current}
           x == [r EXCEPT !.page = current, !.acted = a]
           p == Renewed(tab[current])
           y == Onward(x)
           G == [tab EXCEPT ![current] = p]
<1>1. /\ Busy(c) /\ Head(r.todo) = "goto"
      /\ tab' = [tab EXCEPT ![current] = p] /\ tool' = Others(y, c) /\ UNCHANGED current
  BY DEF Navigates, At
<1>2. r \in ToolRec /\ current \in Tabs /\ a \in SUBSET Tabs
  BY <1>1, Working DEF Inv
<1>3. r.name = "load"
  BY <1>1, Working, FirstStep
<1>4. PageOK(p) /\ p.fits = tab[current].fits
  BY <1>2, RenewedOK DEF Inv, PagesOK
<1>5. SameFits(tab, G)
  BY <1>2, <1>4, TabWith DEF Inv
<1> HIDE DEF r, a, p, G
<1>6. x \in ToolRec
  BY <1>2 DEF ToolRec
<1>7. /\ x.name = r.name /\ x.todo = r.todo /\ x.said = r.said /\ x.missed = r.missed /\ x.calm = r.calm
      /\ x.page = current
  BY <1>2 DEF ToolRec
<1> HIDE DEF x
<1>8. CallerOK(c, y, G)
  BY <1>1, <1>2, <1>3, <1>5, <1>6, <1>7, GoingOn DEF r
<1> HIDE DEF y
<1> QED
  BY <1>1, <1>2, <1>4, <1>8, ChangesOK DEF G

LEMMA StepOK == ASSUME Inv, NEW c \in Callers, Step(c) PROVE Inv'
<1>1. CASE Probe(c)       BY <1>1, ProbeOK
<1>2. CASE GivesUp(c)
  BY <1>2, EndingOK DEF GivesUp, At
<1>3. CASE Measure(c)     BY <1>3, MeasureOK
<1>4. CASE Kind(c)        BY <1>4, KindOK
<1>5. CASE Dispatch(c)    BY <1>5, DispatchOK
<1>6. CASE Verify(c)      BY <1>6, VerifyOK
<1>7. CASE Edit(c)        BY <1>7, EditOK
<1>8. CASE Changed(c)     BY <1>8, ChangedOK
<1>9. CASE Node(c)        BY <1>9, NodeOK
<1>10. CASE Attached(c) \/ Sees(c) \/ Looks(c)
  BY <1>10, LooksOK
<1>11. CASE Focuses(c)    BY <1>11, FocusesOK
<1>12. CASE Selects(c)    BY <1>12, SelectsOK
<1>13. CASE Captures(c)   BY <1>13, CapturesOK
<1>14. CASE Leaves(c)     BY <1>14, LeavesOK
<1>15. CASE Navigates(c)  BY <1>15, NavigatesOK
<1>16. CASE Breaks(c)
  BY <1>16, EndingOK DEF Breaks
<1> QED
  BY <1>1, <1>2, <1>3, <1>4, <1>5, <1>6, <1>7, <1>8, <1>9, <1>10, <1>11, <1>12, <1>13, <1>14, <1>15, <1>16 DEF Step

-----------------------------------------------------------------------------
(* The pages by themselves, the beginning, and all of it                   *)

LEMMA PageStepOK == ASSUME Inv, PageStep PROVE Inv'
<1>1. PICK t \in Tabs :
        \/ ElementChanges(t) \/ ElementMoves(t) \/ FocusLost(t) \/ PageReloads(t) \/ TabCloses(t) \/ TabChosen(t)
  BY DEF PageStep
<1> DEFINE p == tab[t]
<1>2. PageOK(p) /\ current \in Tabs
  BY DEF Inv, PagesOK
<1>3. /\ p.shown \in [Elements -> Conditions] /\ p.text \in SUBSET Callers
      /\ p.open \in BOOLEAN /\ p.ticked \in BOOLEAN
  BY <1>2, PageFields DEF PageOK
<1>4. ASSUME NEW q, PageOK(q), q.fits = p.fits, Becomes(t, q) PROVE Inv'
  BY <1>2, <1>4, BecomesOK DEF Becomes
<1>5. CASE ElementChanges(t)
  <2>1. PICK e \in Elements, k \in Conditions : Becomes(t, [p EXCEPT !.shown[e] = k])
    BY <1>5 DEF ElementChanges
  <2> DEFINE s == [p.shown EXCEPT ![e] = k]
  <2>2. s \in [Elements -> Conditions] /\ [p EXCEPT !.shown[e] = k] = [p EXCEPT !.shown = s]
    BY <1>3
  <2> HIDE DEF s, p
  <2>3. PageOK([p EXCEPT !.shown = s]) /\ [p EXCEPT !.shown = s].fits = p.fits
    BY <1>2, <1>3, <2>2, TouchedOK
  <2> QED
    BY <1>4, <2>1, <2>2, <2>3
<1>6. CASE ElementMoves(t)
  <2>1. PICK e \in Elements :
          Becomes(t, [p EXCEPT !.place[e] = IF p.fits THEN <<e, 3 - @[2]>> ELSE <<"away", 1>>])
    BY <1>6 DEF ElementMoves
  <2> DEFINE pt == IF p.fits THEN <<e, 3 - p.place[e][2]>> ELSE <<"away", 1>>
             q == [p EXCEPT !.place[e] = pt]
  <2>2. Becomes(t, q)
    BY <2>1
  <2>3. PageOK(q) /\ q.fits = p.fits
    BY <1>2, MovedOK
  <2> HIDE DEF q
  <2> QED
    BY <1>4, <2>2, <2>3
<1>7. CASE FocusLost(t)
  <2>1. Becomes(t, [p EXCEPT !.focus = None])
    BY <1>7 DEF FocusLost
  <2> HIDE DEF p
  <2>2. PageOK([p EXCEPT !.focus = None]) /\ [p EXCEPT !.focus = None].fits = p.fits
    BY <1>2, FocusedOK
  <2> QED
    BY <1>4, <2>1, <2>2
<1>8. CASE PageReloads(t)
  BY <1>2, <1>4, <1>8, RenewedOK DEF PageReloads
<1>9. CASE TabCloses(t)
  <2> DEFINE q == [p EXCEPT !.open = FALSE]
  <2>1. /\ tab' = [tab EXCEPT ![t] = q]
        /\ tool' = [c \in Callers |-> Seen(tool[c])] /\ current' \in Tabs
    BY <1>9 DEF TabCloses
  <2>2. PageOK(q) /\ q.fits = p.fits
    BY <1>2, <1>3, TouchedOK
  <2> HIDE DEF q
  <2> QED
    BY <2>1, <2>2, BecomesOK
<1>10. CASE TabChosen(t)
  BY <1>10 DEF TabChosen, Inv
<1> QED
  BY <1>1, <1>5, <1>6, <1>7, <1>8, <1>9, <1>10

LEMMA InitOK == Init => Inv
<1> SUFFICES ASSUME Init PROVE Inv
  OBVIOUS
<1>1. PICK fits \in Layouts, ticked \in BOOLEAN :
        tab = [t \in Tabs |-> [Document(fits, 1) EXCEPT !.ticked = ticked]]
  BY DEF Init
<1> DEFINE d == Document(fits, 1)
           p == [d EXCEPT !.ticked = ticked]
<1>2. fits \in BOOLEAN
  BY ActionsAssumption
<1>3. PageOK(d)
  BY <1>2, DocumentOK
<1>4. PageOK(p)
  <2>1. d.shown \in [Elements -> Conditions] /\ d.text \in SUBSET Callers /\ d.open \in BOOLEAN
    BY <1>3, PageFields DEF PageOK
  <2> HIDE DEF d
  <2> QED
    BY <1>3, <2>1, TouchedOK
<1> HIDE DEF p
<1>5. PagesOK(tab)
  BY <1>1, <1>4 DEF PagesOK, PageOK, p
<1>6. current \in Tabs
  BY ActionsAssumption DEF Init
<1>7. ASSUME NEW c \in Callers PROVE CallerOK(c, Idle, tab)
  <2>1. Course(Idle) /\ OneTab(Idle) /\ Landed(Idle, tab)
    BY <1>6, IdleFacts DEF Course, OneTab, Landed
  <2>2. Aimed(Idle, tab) /\ TextOK(c, Idle, tab) /\ TickOK(Idle, tab)
    BY IdleFacts DEF Aimed, Measured, TextOK, TickOK
  <2> QED
    BY <2>1, <2>2, IdleFacts DEF CallerOK
<1>8. tool = [c \in Callers |-> Idle]
  BY DEF Init
<1>9. tool \in [Callers -> ToolRec]
  BY <1>8, IdleFacts
<1>10. \A c \in Callers : CallerOK(c, tool[c], tab)
  BY <1>7, <1>8
<1> QED
  BY <1>5, <1>6, <1>9, <1>10 DEF Inv

LEMMA StutterOK == ASSUME Inv, UNCHANGED vars PROVE Inv'
  BY DEF vars, Inv

LEMMA NextOK == ASSUME Inv, [Next]_vars PROVE Inv'
<1>1. CASE \E c \in Callers : Start(c) \/ Step(c)
  BY <1>1, StartOK, StepOK
<1>2. CASE PageStep
  BY <1>2, PageStepOK
<1>3. CASE UNCHANGED vars
  BY <1>3, StutterOK
<1> QED
  BY <1>1, <1>2, <1>3 DEF Next

LEMMA Always == Spec => []Inv
<1>1. Init => Inv
  BY InitOK
<1>2. Inv /\ [Next]_vars => Inv'
  BY NextOK
<1> QED
  BY <1>1, <1>2, PTL DEF Spec

-----------------------------------------------------------------------------
(* The theorems                                                            *)

\* The tools' records and the pages are what they are said to be, however tools and pages get in each
\* other's way.
THEOREM TypesOK == Spec => []TypeOK
<1>1. Inv => TypeOK
  BY DEF Inv, PagesOK, TypeOK, ToolRec, PageRec, Points, Endings, StepNames
<1> QED
  BY <1>1, Always, PTL

\* Whatever the pages and the other tools do between the calls of a tool, a press lands on the element it
\* was aimed at, or the page was changed after the point was measured.
THEOREM PressesLand == Spec => []PressLands
<1>1. Inv => PressLands
  BY DEF Inv, CallerOK, Landed, PressLands
<1> QED
  BY <1>1, Always, PTL

\* All the input of a tool goes to one tab, however many tabs there are and whichever is chosen meanwhile.
THEOREM InputStaysOnOneTab == Spec => []OneTabPerAction
<1>1. ASSUME NEW S, NEW t, S \subseteq {t} PROVE Cardinality(S) <= 1
  <2>1. IsFiniteSet({t}) /\ Cardinality({t}) = 1
    BY FS_Singleton
  <2> QED
    BY <1>1, <2>1, FS_Subset
<1>2. Inv => OneTabPerAction
  BY <1>1 DEF Inv, CallerOK, OneTab, OneTabPerAction
<1> QED
  BY <1>2, Always, PTL

\* What kahin_mirage_type, check and uncheck report as done is done, unless another changed it since.  An
\* uncheck whose verifying probe got no answer reports success too, and is left out.
THEOREM ReportedSuccessIsReal == Spec => []SuccessIsReal
<1>1. Inv => SuccessIsReal
  BY DEF Inv, CallerOK, TextOK, TickOK, SuccessIsReal, Success, Unseen, Page, Target
<1> QED
  BY <1>1, Always, PTL

=============================================================================
