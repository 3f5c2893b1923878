---------------------------- MODULE PageActions ----------------------------
(***************************************************************************)
(* The Mirage tools that act on a page: clicks, hovers, drags, typing,     *)
(* keys, check boxes, forms, waits, reads and saved sessions, of several   *)
(* callers at once, on tabs whose pages change under them                  *)
(* (tools/pilot_mirage.py, reliability_mirage.py, stealth_mirage.py,       *)
(* agent_mirage.py, dom_stream_mirage.py and actionability.py).            *)
(*                                                                         *)
(* A tool is the sequence of its calls to the browser, one step each; it   *)
(* chooses its tab when it starts and waits only inside a call or between  *)
(* two polls, so a step is what one call does in the page and what the     *)
(* tool makes of the answer.  A page has a text field and a check box.     *)
(***************************************************************************)
EXTENDS Naturals, Sequences, FiniteSets

CONSTANTS Callers, Tabs, None,
          Script,       \* which tools a caller may run; it runs one
          Layouts,      \* whether the pages fit the window: a subset of BOOLEAN
          MaxChanges    \* how often a page changes, another tab is chosen or a call fails

Elements == {"field", "box"}
Conditions == {"ok", "absent", "hidden", "disabled", "covered"}

VARIABLES
    tool,      \* per caller, what it runs
    tab,       \* per tab, its page
    current,   \* _current_target
    changes

vars == <<tool, tab, current, changes>>

-----------------------------------------------------------------------------
(* The tools                                                               *)

Click       == <<"ready", "point", "down", "up">>
Hover       == <<"ready", "point", "move">>
DoubleClick == <<"ready", "point", "down", "up", "down", "up">>
Humanized   == <<"ready", "point", "move", "down", "up">>
Check       == <<"ready", "kind", "point", "down", "up", "verify">>
Drag        == <<"ready", "readyTo", "point", "pointTo", "down", "drag", "up">>
SelectOption == <<"ready", "select">>
Type        == <<"edit", "insert", "changed">>
Focus       == <<"attached", "focus">>
KeyPress    == <<"keydown", "keyup">>
NodeClick   == <<"ref", "down", "up">>
NodeHover   == <<"ref", "move">>
FillForm    == <<"ref", "insert", "ref", "insert">>
WaitFor     == <<"poll">>
Expect      == <<"poll">>
Read        == <<"look">>
History     == <<"look", "history">>
StateSave   == <<"look", "look", "look">>
StateLoad   == <<"goto", "capture", "restore", "restore">>

Steps == [click |-> Click, hover |-> Hover, dblclick |-> DoubleClick, humanized |-> Humanized,
          check |-> Check, uncheck |-> Check, drag |-> Drag, select |-> SelectOption, type |-> Type,
          focus |-> Focus, key |-> KeyPress, nodeClick |-> NodeClick, nodeHover |-> NodeHover,
          fill |-> FillForm, wait |-> WaitFor, expect |-> Expect, read |-> Read, history |-> History,
          save |-> StateSave, load |-> StateLoad]

\* Tools that work on no element.
Pointless == {"key", "read", "history", "save", "load"}

ASSUME ActionsAssumption ==
    /\ IsFiniteSet(Callers) /\ Tabs # {} /\ None \notin Callers \cup Tabs \cup Elements
    /\ Script \in [Callers -> SUBSET DOMAIN Steps]
    /\ Layouts \subseteq BOOLEAN
    /\ MaxChanges \in Nat

Idle == [name |-> "none", todo |-> <<>>, el |-> "box", page |-> None, ref |-> 0, last |-> None,
         point |-> None, goal |-> None, before |-> {},
         \* for the properties: nobody disturbed the page since it was measured, or changed the value of
         \* its field or box; the tabs that got input; a press missed; how it ended
         calm |-> FALSE, alone |-> FALSE, acted |-> {}, missed |-> FALSE, said |-> "none"]

Busy(c) == tool[c].todo # <<>>
At(c, step) == Busy(c) /\ Head(tool[c].todo) = step
Aim(c) == IF tool[c].name = "drag" /\ Head(tool[c].todo) \in {"readyTo", "pointTo"}
          THEN CHOOSE e \in Elements : e # tool[c].el ELSE tool[c].el

-----------------------------------------------------------------------------
(* The page                                                                *)

Document(fits, n) ==
    [open |-> TRUE, fits |-> fits, doc |-> n, shown |-> [e \in Elements |-> "ok"],
     place |-> [e \in Elements |-> IF fits THEN <<e, 1>> ELSE <<"away", 1>>],
     focus |-> None, text |-> {}, ticked |-> FALSE, held |-> {}, pressed |-> None]

\* scrollIntoView: on a page that does not fit, the element comes to the middle and the other leaves it.
Scrolled(p, e) ==
    IF p.fits \/ p.shown[e] \in {"absent", "hidden"} THEN p
    ELSE [p EXCEPT !.place = [x \in Elements |-> IF x = e THEN <<"middle", 1>> ELSE <<"away", 1>>]]

\* What a mouse event at a point meets.
Hit(p, pt) ==
    LET there == {e \in Elements : p.place[e] = pt /\ pt # <<"away", 1>> /\ p.shown[e] \in {"ok", "disabled"}}
    IN  IF there = {} THEN None ELSE CHOOSE e \in there : TRUE

Visible(p, e) == p.shown[e] \in {"ok", "covered", "disabled"}

\* Faulty variant: the place is noted, not what is there.
PressedAt(p, pt) ==
    [p EXCEPT !.held = @ \cup {"button"}, !.pressed = pt[1], !.focus = Hit(p, pt)]

Pressed(p, pt) ==
    [p EXCEPT !.held = @ \cup {"button"}, !.pressed = Hit(p, pt), !.focus = Hit(p, pt)]

\* Pressed and released on the box: a click.
Released(p, pt) ==
    [p EXCEPT !.held = @ \ {"button"}, !.pressed = None,
              !.ticked = IF p.pressed = "box" /\ Hit(p, pt) = "box" /\ p.shown["box"] = "ok" THEN ~@ ELSE @]

Typed(p, c) == IF p.focus = "field" /\ p.shown["field"] # "absent" THEN [p EXCEPT !.text = @ \cup {c}] ELSE p

-----------------------------------------------------------------------------
(* Steps                                                                   *)

\* Faulty variant: each call looks up the current tab.
CurrentPage(c) == current

\* The session a tool's calls go to: the one it captured.
Target(c) == tool[c].page
Page(c) == tab[Target(c)]
Live(c) == Target(c) # None /\ Page(c).open

Value(p) == <<p.text, p.ticked, p.doc>>
\* The pages have changed: whatever tool works on one of them has been disturbed.
Seen(r) == IF r.page = None THEN r
           ELSE [r EXCEPT !.calm = @ /\ tab'[r.page] = tab[r.page],
                          !.alone = @ /\ Value(tab'[r.page]) = Value(tab[r.page])]
Others(r, c) == [d \in Callers |-> IF d = c THEN r ELSE Seen(tool[d])]

\* The page becomes p and the tool r.
Does(c, p, r) ==
    /\ tab' = [tab EXCEPT ![Target(c)] = p]
    /\ tool' = Others(r, c)
    /\ UNCHANGED current
Says(c, r) == tool' = [tool EXCEPT ![c] = r] /\ UNCHANGED <<tab, current>>

Ended(r, how) == [r EXCEPT !.todo = <<>>, !.said = how, !.ref = 0, !.last = None, !.point = None,
                           !.goal = None, !.before = {}]
Onward(r) == IF Len(r.todo) = 1 THEN Ended(r, "ok") ELSE [r EXCEPT !.todo = Tail(@)]
Input(c, r) == [r EXCEPT !.acted = @ \cup {Target(c)}]

Trouble == changes < MaxChanges /\ changes' = changes + 1
Smooth == UNCHANGED changes

\* _capture_page_session
Start(c) ==
    /\ tool[c].name = "none"
    /\ tab[current].open
    /\ \E name \in Script[c], e \in Elements :
          /\ name \in Pointless => e = "box"
          /\ Says(c, [Idle EXCEPT !.name = name, !.todo = Steps[name], !.el = e, !.page = current,
                                  !.ref = tab[current].doc, !.calm = TRUE, !.alone = TRUE])
    /\ Smooth

\* One probe of wait_for_ready.  A probe that finds the element unfit, or that fails, leaves the point
\* seen last as it is.
Probe(c) ==
    /\ At(c, "ready") \/ At(c, "readyTo")
    /\ LET e == Aim(c)
           p == IF Page(c).shown[e] = "disabled" THEN Page(c) ELSE Scrolled(Page(c), e)
           r == IF Page(c).shown[e] # "ok" THEN tool[c]
                ELSE IF tool[c].last = p.place[e] THEN [Onward(tool[c]) EXCEPT !.last = None]
                ELSE [tool[c] EXCEPT !.last = p.place[e]]
       IN  Live(c) /\ Does(c, p, r)
    /\ Smooth

\* The deadline of a loop of polls.
GivesUp(c) ==
    /\ \E step \in {"ready", "readyTo", "attached", "poll"} : At(c, step)
    /\ Says(c, Ended(tool[c], "timeout"))
    /\ Smooth

\* Faulty variant: the point of the last probe is used as it is.
Unchecked(p, e) == TRUE

\* _element_point: what has changed since the last probe is an error now.
Fit(p, e) == p.shown[e] = "ok"

Measure(c) ==
    /\ At(c, "point") \/ At(c, "pointTo")
    /\ LET e == Aim(c)
           p == Scrolled(Page(c), e)
           r == IF ~Fit(p, e) THEN Ended(tool[c], "error")
                ELSE IF At(c, "pointTo") THEN [Onward(tool[c]) EXCEPT !.goal = p.place[e], !.calm = @ /\ p = Page(c)]
                ELSE [Onward(tool[c]) EXCEPT !.point = p.place[e], !.calm = TRUE]
       IN  Live(c) /\ Does(c, p, r)
    /\ Smooth

\* What check and uncheck ask of the element, and an answer that does not come: _parsed_value makes a
\* record of it that has neither a code nor a checked.
Checkable(c) == tool[c].el = "box" /\ Page(c).shown["box"] \notin {"absent", "disabled"}
ProbeFails(c) == IF Live(c) THEN Trouble ELSE Smooth

\* They ask what the element is, and go on to press it when they get no answer.
Kind(c) ==
    /\ At(c, "kind")
    /\ \/ Smooth /\ Live(c) /\ Says(c, IF Checkable(c) THEN Onward(tool[c]) ELSE Ended(tool[c], "error"))
       \/ ProbeFails(c) /\ Says(c, Onward(tool[c]))

\* What the browser does for a mouse or key event or an insertText.
Effect(c) ==
    LET p == Page(c) IN
    CASE At(c, "down")    -> Pressed(p, tool[c].point)
      [] At(c, "up")      -> Released(p, tool[c].point)
      [] At(c, "keydown") -> [Typed(p, c) EXCEPT !.held = @ \cup {"key"}]
      [] At(c, "keyup")   -> [p EXCEPT !.held = @ \ {"key"}]
      [] At(c, "insert")  -> Typed(p, c)
      [] OTHER            -> p

Misses(c) ==
    /\ At(c, "down") /\ tool[c].calm
    /\ Hit(Page(c), tool[c].point) # tool[c].el \/ Page(c).shown[tool[c].el] # "ok"

\* _dispatch_mouse, Page.dispatchKeyEvent, Page.insertText.  An error ends the tool, whether the browser
\* acted or not.
Dispatch(c) ==
    /\ \E step \in {"move", "drag", "down", "up", "keydown", "keyup", "insert"} : At(c, step)
    /\ Live(c)
    /\ LET r == [Input(c, tool[c]) EXCEPT !.missed = @ \/ Misses(c),
                                          !.point = IF At(c, "drag") THEN tool[c].goal ELSE @]
       IN  \/ Smooth /\ Does(c, Effect(c), Onward(r))
           \/ Trouble /\ \E p \in {Page(c), Effect(c)} : Does(c, p, Ended(r, "error"))

\* They look at the box until it is as wanted.  No answer reads as an unticked box: check goes on asking,
\* and uncheck says that it is done.
Wanted(c) == tool[c].name = "check"
Verify(c) ==
    /\ At(c, "verify")
    /\ \/ Smooth /\ Live(c)
          /\ Says(c, Ended(tool[c], IF Checkable(c) /\ Page(c).ticked = Wanted(c) THEN "ok" ELSE "unchanged"))
       \/ ProbeFails(c) /\ Says(c, Ended(tool[c], IF Wanted(c) THEN "unchanged" ELSE "blind"))

\* kahin_mirage_type: the element is focused and its value noted.
Edit(c) ==
    /\ At(c, "edit") /\ Live(c)
    /\ IF tool[c].el # "field" \/ Page(c).shown["field"] \in {"absent", "disabled", "hidden"}
       THEN Says(c, Ended(tool[c], "error"))
       ELSE Does(c, [Page(c) EXCEPT !.focus = "field"],
                 [Onward(tool[c]) EXCEPT !.before = Page(c).text, !.alone = TRUE])
    /\ Smooth

\* Faulty variant: what insertText answered is believed.
Believed(c) == TRUE

\* The value has changed since it was noted.
TextChanged(c) == Page(c).shown["field"] # "absent" /\ Page(c).text # tool[c].before

Changed(c) ==
    /\ At(c, "changed") /\ Live(c)
    /\ Says(c, IF TextChanged(c) THEN Onward(tool[c]) ELSE Ended(tool[c], "error"))
    /\ Smooth

\* kahin_mirage_dom_action: the tab that is current now, and a node of the snapshot the caller has.
StaleNode(c) ==
    \/ current # tool[c].page \/ tab[current].doc # tool[c].ref
    \/ tab[current].shown[tool[c].el] = "absent"
Node(c) ==
    /\ At(c, "ref")
    /\ IF ~tab[current].open \/ StaleNode(c) \/ (tool[c].name = "fill" /\ tool[c].el # "field")
       THEN Says(c, Ended([tool[c] EXCEPT !.page = current], "error"))
       ELSE LET p == Scrolled(tab[current], tool[c].el)
                q == IF tool[c].name = "fill" /\ Visible(p, "field") THEN [p EXCEPT !.focus = "field"] ELSE p
            IN  Does(c, q, [Onward(tool[c]) EXCEPT !.point = p.place[tool[c].el]])
    /\ Smooth

\* kahin_mirage_focus: hidden elements may be waited for.
Attached(c) ==
    /\ At(c, "attached") /\ Live(c) /\ Page(c).shown[tool[c].el] # "absent"
    /\ Says(c, Onward(tool[c])) /\ Smooth
Focuses(c) ==
    /\ At(c, "focus") /\ Live(c)
    /\ Does(c, [Page(c) EXCEPT !.focus = IF Page(c).shown[tool[c].el] \in {"ok", "covered"} THEN tool[c].el ELSE @],
            Onward(Input(c, tool[c])))
    /\ Smooth

\* kahin_mirage_select_option sets the value in the page.
Selects(c) ==
    /\ At(c, "select") /\ Live(c)
    /\ IF tool[c].el # "field" \/ Page(c).shown["field"] = "absent" THEN Says(c, Ended(tool[c], "error"))
       ELSE Does(c, [Page(c) EXCEPT !.text = {c}], Onward(Input(c, tool[c])))
    /\ Smooth

\* wait_selector, wait_for_text and expect end when they see what they wait for.
Sees(c) ==
    /\ At(c, "poll") /\ Live(c) /\ Page(c).shown[tool[c].el] = "ok"
    /\ Says(c, Onward(tool[c])) /\ Smooth

\* Reads of the page, storage writes of state_load, and the tab state_load works on.
Looks(c) ==
    /\ At(c, "look") \/ At(c, "restore")
    /\ Live(c)
    /\ Says(c, Onward(IF At(c, "look") THEN tool[c] ELSE Input(c, tool[c]))) /\ Smooth
Captures(c) ==
    /\ At(c, "capture")
    /\ Says(c, Onward([tool[c] EXCEPT !.page = current])) /\ Smooth

\* A step back or forward on the captured tab; a navigation of the current one.
Renewed(p) == Document(p.fits, p.doc + 1)
Leaves(c) ==
    /\ At(c, "history") /\ Live(c)
    /\ Does(c, Renewed(Page(c)), Onward(Input(c, tool[c]))) /\ Smooth
Navigates(c) ==
    /\ At(c, "goto") /\ tab[current].open
    /\ LET r == Onward([tool[c] EXCEPT !.page = current, !.acted = {current}])
       IN  /\ tab' = [tab EXCEPT ![current] = Renewed(tab[current])]
           /\ tool' = Others(r, c)
           /\ UNCHANGED current
    /\ Smooth

\* The tab is gone or the call fails.  wait_for_ready and the polls go on until their deadline, and
\* check and uncheck take it for an answer.
Breaks(c) ==
    /\ Busy(c) /\ Head(tool[c].todo) \notin {"ready", "readyTo", "poll", "kind", "verify"}
    /\ \/ Target(c) # None /\ ~Live(c) /\ Smooth
       \/ Head(tool[c].todo) \notin {"move", "drag", "down", "up", "keydown", "keyup", "insert", "capture"} /\ Trouble
    /\ Says(c, Ended(tool[c], "error"))

Step(c) ==
    \/ Probe(c) \/ GivesUp(c) \/ Measure(c) \/ Kind(c) \/ Dispatch(c) \/ Verify(c) \/ Edit(c) \/ Changed(c)
    \/ Node(c) \/ Attached(c) \/ Focuses(c) \/ Selects(c) \/ Sees(c) \/ Looks(c) \/ Captures(c)
    \/ Leaves(c) \/ Navigates(c) \/ Breaks(c)

-----------------------------------------------------------------------------
(* What pages and other clients do meanwhile                               *)

Becomes(t, p) ==
    /\ tab' = [tab EXCEPT ![t] = p]
    /\ tool' = [c \in Callers |-> Seen(tool[c])]
    /\ UNCHANGED current

ElementChanges(t) == \E e \in Elements, k \in Conditions : Becomes(t, [tab[t] EXCEPT !.shown[e] = k])
ElementMoves(t) == \E e \in Elements :
    Becomes(t, [tab[t] EXCEPT !.place[e] = IF tab[t].fits THEN <<e, 3 - @[2]>> ELSE <<"away", 1>>])
FocusLost(t) == Becomes(t, [tab[t] EXCEPT !.focus = None])
PageReloads(t) == Becomes(t, Renewed(tab[t]))
TabCloses(t) ==
    /\ tab' = [tab EXCEPT ![t].open = FALSE]
    /\ tool' = [c \in Callers |-> Seen(tool[c])]
    /\ current' \in {u \in Tabs \ {t} : tab[u].open}
TabChosen(t) == current' = t /\ UNCHANGED <<tab, tool>>

PageStep ==
    /\ Trouble
    /\ \E t \in Tabs :
          /\ tab[t].open
          /\ \/ ElementChanges(t) \/ ElementMoves(t) \/ FocusLost(t) \/ PageReloads(t) \/ TabCloses(t) \/ TabChosen(t)

Init ==
    /\ tool = [c \in Callers |-> Idle]
    /\ \E fits \in Layouts, ticked \in BOOLEAN :
          tab = [t \in Tabs |-> [Document(fits, 1) EXCEPT !.ticked = ticked]]
    /\ current = CHOOSE t \in Tabs : TRUE
    /\ changes = 0

Next == (\E c \in Callers : Start(c) \/ Step(c)) \/ PageStep

Spec == Init /\ [][Next]_vars

-----------------------------------------------------------------------------
(* Properties                                                              *)

TypeOK ==
    /\ tool \in [Callers -> [name : DOMAIN Steps \cup {"none"}, todo : Seq(UNION {{Steps[n][i] : i \in DOMAIN Steps[n]} : n \in DOMAIN Steps}),
                             el : Elements, page : Tabs \cup {None}, ref : Nat,
                             last : {None} \cup ((Elements \cup {"middle", "away"}) \X {1, 2}),
                             point : {None} \cup ((Elements \cup {"middle", "away"}) \X {1, 2}),
                             goal : {None} \cup ((Elements \cup {"middle", "away"}) \X {1, 2}),
                             before : SUBSET Callers, calm : BOOLEAN, alone : BOOLEAN, acted : SUBSET Tabs, missed : BOOLEAN,
                             said : {"none", "ok", "error", "timeout", "unchanged", "blind"}]]
    /\ tab \in [Tabs -> [open : BOOLEAN, fits : BOOLEAN, doc : Nat, shown : [Elements -> Conditions],
                         place : [Elements -> (Elements \cup {"middle", "away"}) \X {1, 2}],
                         focus : Elements \cup {None}, text : SUBSET Callers, ticked : BOOLEAN,
                         held : SUBSET {"button", "key"}, pressed : Elements \cup {None}]]
    /\ current \in Tabs

\* A press lands on the element the tool was asked for, in a state to take it, unless the page was changed
\* after the point was measured: whatever happened before that, also on other tabs, is noticed.  (Not
\* claimed: kahin_mirage_dom_action, which does not look, and a drag on a page that scrolls.)
PressLands ==
    \A c \in Callers : tool[c].missed =>
        tool[c].name = "nodeClick" \/ (tool[c].name = "drag" /\ \E t \in Tabs : ~tab[t].fits)

\* All the input of a tool goes to one tab, whichever tab is chosen meanwhile.  (state_load navigates the
\* current tab and restores into the one that is current then.)
OneTabPerAction == \A c \in Callers : tool[c].name # "load" => Cardinality(tool[c].acted) <= 1

\* Reported success is true: text said to be typed is in the field and a box said to be as wanted is, if
\* nobody else changed them since the tool began to change them, whatever else happens to the page: a
\* press that missed, focus that was lost and an element that went away are noticed.  (Not claimed: an
\* uncheck whose verifying probe gets no answer.  It answers checked: false, changed: true, as one that saw
\* the box unticked does, and the box may be ticked.)
Unseen(c) == tool[c].said = "blind"
Success(c) == tool[c].said = "ok" \/ Unseen(c)
SuccessIsReal ==
    \A c \in Callers : Success(c) /\ tool[c].alone =>
        /\ tool[c].name = "type" => c \in Page(c).text
        /\ tool[c].name = "check" => Page(c).ticked
        /\ tool[c].name = "uncheck" => ~Page(c).ticked \/ Unseen(c)
=============================================================================
