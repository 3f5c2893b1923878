----------------------------- MODULE EngineWire -----------------------------
(***************************************************************************)
(* What the tools that follow a page's events share (the_twins/mirage.py): *)
(* callers that run one tool after another, the tab that is current, calls *)
(* to the browser, and the one line of events and replies the reader of    *)
(* Mirage takes in order.  A tool runs undisturbed until it waits for a    *)
(* call, an event or a lock.                                               *)
(***************************************************************************)
EXTENDS Naturals, Sequences, FiniteSets

CONSTANTS Callers, Tabs, None,
          Plans        \* what the callers run, a sequence of tools each; what their pages do, and how often;
                       \* how often something goes wrong, is cancelled, or another tab is chosen

ASSUME WireAssumption ==
    /\ Tabs # {} /\ None \notin Tabs \cup Callers
    /\ \A plan \in Plans : /\ DOMAIN plan.runs = Callers
                           /\ plan.pages \subseteq {"request", "frame", "chooser"}
                           /\ plan.events \in Nat /\ plan.trouble \in Nat

VARIABLES
    todo,      \* per caller, the tools it has left to run
    tool,      \* per caller, the tool it runs
    call,      \* per caller, its call to the browser
    wire,      \* events and replies on their way to the reader
    current,   \* _current_target
    alive,
    pages,     \* what the pages do in this run
    events, trouble   \* how much of that, and of trouble, there can still be

wireVars == <<todo, tool, call, wire, current, alive, pages, events, trouble>>

Idle == [name |-> "none", at |-> "none", tab |-> None, sid |-> 0, gen |-> 0, item |-> 0, left |-> 0,
         since |-> 0, woken |-> FALSE]
NoCall == [does |-> "none", tab |-> None, arg |-> 0, is |-> "none"]

At(c, step) == tool[c].at = step
Runs(c, names) == tool[c].name \in names
Answered(c, how) == call[c].is = how

\* A caller calls its next tool, which sets off in state r.
Begins(c, name, r) ==
    /\ tool[c].at = "none" /\ todo[c] # <<>> /\ Head(todo[c]) = name
    /\ alive
    /\ todo' = [todo EXCEPT ![c] = Tail(@)]
    /\ tool' = [tool EXCEPT ![c] = r]
Goes(c, r) == tool' = [tool EXCEPT ![c] = r]
Ends(c) == tool' = [tool EXCEPT ![c] = Idle]

\* An engine that is dead refuses a call at once.
Sends(c, does, t, arg) ==
    call' = [call EXCEPT ![c] = [does |-> does, tab |-> t, arg |-> arg, is |-> IF alive THEN "sent" ELSE "error"]]
Quiet(c) == call' = [call EXCEPT ![c] = NoCall]

Adds(lines) == wire' = wire \o lines
Event(kind) == kind \in pages /\ events > 0 /\ events' = events - 1 /\ UNCHANGED <<pages, trouble>>
Trouble == trouble > 0 /\ trouble' = trouble - 1 /\ UNCHANGED <<pages, events>>
Smooth == UNCHANGED <<pages, events, trouble>>

\* The browser has served c's call and replies.
Replies(c, how, lines) ==
    /\ call' = [call EXCEPT ![c].is = "served"]
    /\ Adds(lines \o <<[kind |-> "reply", to |-> c, how |-> how]>>)

\* The reader hands a reply to the call that waits for it.
TakeReply(line) ==
    call' = IF line.kind = "reply" /\ call[line.to].is = "served"
            THEN [call EXCEPT ![line.to].is = line.how] ELSE call

\* Another client chooses a tab.
Switch ==
    /\ Trouble /\ \E t \in Tabs \ {current} : current' = t
    /\ UNCHANGED <<todo, tool, call, wire, alive>>

InitWire ==
    /\ \E plan \in Plans : /\ todo = plan.runs /\ pages = plan.pages
                           /\ events = plan.events /\ trouble = plan.trouble
    /\ tool = [c \in Callers |-> Idle]
    /\ call = [c \in Callers |-> NoCall]
    /\ wire = <<>>
    /\ current = CHOOSE t \in Tabs : TRUE
    /\ alive = TRUE
=============================================================================
