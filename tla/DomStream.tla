----------------------------- MODULE DomStream ------------------------------
(***************************************************************************)
(* The DOM change stream (dom_stream.py, dom_stream_mirage.py): a page     *)
(* keeps a bounded ring of numbered mutation events, agents read it by a   *)
(* cursor and act on nodes by the references a snapshot gave them, while   *)
(* the page mutates and navigates and the agents stop, restart and         *)
(* reconfigure the stream under each other.                                *)
(***************************************************************************)
EXTENDS Naturals, Sequences, FiniteSets, SequencesExt

CONSTANTS Readers, None,
          Nodes,       \* the elements of a document, in document order
          Rings,       \* the ring sizes an agent may ask for
          Default,     \* the ring size of a stream nobody configured
          Batch,       \* maxMutationRecordsPerCallback
          Limits,      \* how many events a drain may ask for
          Plans        \* what each reader runs, in order, and the bounds of the run: how many bursts of
                       \* mutations, navigations and calls that fail there are

ASSUME DomAssumption ==
    /\ Nodes \subseteq Nat /\ IsFiniteSet(Nodes) /\ Rings \subseteq Nat \ {0} /\ Default \in Nat \ {0}
    /\ Batch \in Nat \ {0} /\ Limits \subseteq Nat \ {0}
    /\ None \notin Readers
    /\ \A plan \in Plans : DOMAIN plan.runs = Readers /\ {plan.bursts, plan.loads, plan.faults} \subseteq Nat

VARIABLES
    doc,        \* the document the tab shows
    connected,  \* the nodes in it
    happened,   \* how many mutation records it has produced
    stream,     \* window[KEY]
    made,       \* how many streams were made
    view,       \* the node an action scrolled to, and whose, unless the page looks different by now
    binding, script,   \* _dom_binding_installed, _dom_init_script_installed, and the browser's side of them
    entry,      \* _DOM_STREAM_STATE of the tab's session
    tool,       \* per reader, the tool it runs
    reader,     \* per reader, what its agent has learnt
    left        \* what can still happen

pageVars == <<doc, connected, happened, stream, made, view>>
vars == <<pageVars, binding, script, entry, tool, reader, left>>

-----------------------------------------------------------------------------
(* The page                                                                *)

NoStream == [id |-> 0, active |-> FALSE, max |-> Default, ring |-> <<>>, log |-> <<>>, over |-> FALSE,
             ids |-> [n \in Nodes |-> 0], live |-> {}]

Elsewhere == [by |-> None, node |-> 0]

\* boot: a stream of its own id, whose node ids start over.
Boots(s) == IF s.active THEN s ELSE [NoStream EXCEPT !.id = made + 1, !.active = TRUE]

\* Faulty variant: the ring only grows.
NeverTrims(ring, max) == ring

Trim(ring, max) == IF Len(ring) <= max THEN ring ELSE SubSeq(ring, Len(ring) - max + 1, Len(ring))

\* push, for the events es one after another: each gets the next number.
Push(s, es) ==
    LET numbered == [i \in DOMAIN es |-> [seq |-> Len(s.log) + i, kind |-> es[i].kind, recs |-> es[i].recs]]
    IN  [s EXCEPT !.ring = Trim(@ \o numbered, s.max), !.log = @ \o [i \in DOMAIN es |-> es[i].recs]]

\* idOf, for the nodes ns in document order.
Named(s, ns) ==
    LET new == {n \in ns : s.ids[n] = 0}
        used == Cardinality({n \in Nodes : s.ids[n] # 0})
    IN  [s EXCEPT !.ids = [n \in Nodes |-> IF n \in new THEN used + Cardinality({k \in new : k <= n}) ELSE @[n]],
                  !.live = @ \cup new]

\* mutation(record): what a record does to the ids.
Reports(s, does, n) ==
    CASE does = "adds" -> Named(s, {n})
      [] does \in {"removes", "moves"} -> [Named(s, {n}) EXCEPT !.live = @ \ {n}]
      [] OTHER -> s

\* What the MutationObserver's callback pushes for size records: those beyond the batch are counted in an
\* overflow event, the others have an event each.
Overflow(size) == [kind |-> "overflow", recs |-> (happened + Batch + 1)..(happened + size)]
Events(size) ==
    LET records(n) == [k \in 1..n |-> [kind |-> "record", recs |-> {happened + k}]]
    IN  IF size <= Batch THEN records(size) ELSE <<Overflow(size)>> \o records(Batch)

\* The callback, for size records of which the last does something to node n.
Observes(s, size, does, n) ==
    LET reported == IF size <= Batch THEN Reports(s, does, n) ELSE [s EXCEPT !.over = TRUE]
    IN  Push(reported, Events(size))

\* (The page's own input, change, focus and click events share the ring; they name no new nodes to the
\* observer and are left out.)
Mutates ==
    \E size \in 1..(Batch + 1), n \in Nodes, does \in {"changes", "adds", "removes", "moves"} :
        /\ left.bursts > 0 /\ left' = [left EXCEPT !.bursts = @ - 1]
        /\ does = "adds" => n \notin connected
        /\ does \in {"removes", "moves"} => n \in connected
        /\ IF does = "changes" THEN n = 1 ELSE size \in {1, Batch + 1}
        /\ connected' = CASE does = "adds" -> connected \cup {n}
                          [] does = "removes" -> connected \ {n}
                          [] OTHER -> connected
        /\ happened' = happened + size /\ view' = Elsewhere
        /\ stream' = IF stream.active THEN Observes(stream, size, does, n) ELSE stream
        /\ UNCHANGED <<doc, made, binding, script, entry, tool, reader>>

\* A new document: the init script boots a stream in it, once it is installed.  (One frame is modelled: the
\* streams of frames, recorded under the same session, are left out.)
Navigates ==
    /\ left.loads > 0 /\ left' = [left EXCEPT !.loads = @ - 1]
    /\ doc' = doc + 1 /\ happened' = 0
    /\ connected' = Nodes /\ view' = Elsewhere
    /\ IF script THEN stream' = Boots(NoStream) /\ made' = made + 1
                 ELSE stream' = NoStream /\ UNCHANGED made
    /\ UNCHANGED <<binding, script, entry, tool, reader>>

\* The page scrolls, moves its elements or the focus without a mutation.
Shifts ==
    /\ view # Elsewhere /\ view' = Elsewhere
    /\ UNCHANGED <<doc, connected, happened, stream, made, binding, script, entry, tool, reader, left>>

-----------------------------------------------------------------------------
(* Bookkeeping                                                             *)

\* _dom_stream_record: another stream's id means that the references are dead.
Record(id, refsLive) ==
    LET e == IF id # 0 /\ id # entry.id THEN [id |-> id, refsLive |-> FALSE] ELSE entry
    IN  entry' = IF refsLive = "same" THEN e ELSE [e EXCEPT !.refsLive = (refsLive = "yes")]

Idle == [at |-> "none", name |-> "none", todo |-> <<>>]
NoRef == [gen |-> 0, key |-> 0, node |-> 0, doc |-> 0]

\* Faulty variant: a node id is the count alone.
SameForAll(id) == 1

\* nodeGeneration: part of every node id.
Generation(id) == id

Ref(s, n) == [gen |-> Generation(s.id), key |-> s.ids[n], node |-> n, doc |-> doc]

-----------------------------------------------------------------------------
(* A tool: the stream is installed and booted, and then asked              *)

Goes(r, at) == tool' = [tool EXCEPT ![r].at = at]
Ends(r) == tool' = [tool EXCEPT ![r].at = "none"]
At(r, at) == tool[r].at = at
Running(r, name) == At(r, "call") /\ tool[r].name = name

Begins(r) ==
    /\ At(r, "none") /\ tool[r].todo # <<>>
    /\ LET name == Head(tool[r].todo) IN
          tool' = [tool EXCEPT ![r] = [at |-> IF name = "status" THEN "call" ELSE "install",
                                       name |-> name, todo |-> Tail(tool[r].todo)]]
    /\ UNCHANGED <<pageVars, binding, script, entry, reader, left>>

\* install_dom_stream: two calls, each made until it has succeeded once.
Installs(r) ==
    /\ At(r, "install")
    /\ \/ ~binding /\ binding' = TRUE /\ UNCHANGED <<script, tool>>
       \/ binding /\ ~script /\ script' = TRUE /\ Goes(r, "boot") /\ UNCHANGED binding
       \/ binding /\ script /\ Goes(r, "boot") /\ UNCHANGED <<binding, script>>
    /\ UNCHANGED <<pageVars, entry, reader, left>>

\* _prepare evaluates the init script in the document there is.
Prepares(r) ==
    /\ At(r, "boot")
    /\ stream' = Boots(stream) /\ made' = (IF stream.active THEN made ELSE made + 1)
    /\ Goes(r, IF tool[r].name = "start" THEN "configure" ELSE "call")
    /\ UNCHANGED <<doc, connected, happened, view, binding, script, entry, reader, left>>

\* state.configure: a smaller ring loses its oldest events.
Configures(r) ==
    /\ At(r, "configure")
    /\ \E max \in Rings :
          stream' = IF stream.id = 0 THEN stream ELSE [stream EXCEPT !.max = max, !.ring = Trim(@, max)]
    /\ Goes(r, "call")
    /\ UNCHANGED <<doc, connected, happened, made, view, binding, script, entry, reader, left>>

\* A call fails, before or after the browser has done what it asked; the tool ends.
Done(r) ==
    CASE At(r, "boot")          -> {Boots(stream)}
      [] At(r, "configure")     -> {[stream EXCEPT !.max = max, !.ring = Trim(@, max)] : max \in Rings}
      [] Running(r, "snapshot") -> {Named(stream, connected)}
      [] Running(r, "events")   -> {[stream EXCEPT !.over = FALSE]}
      [] Running(r, "stop")     -> {[stream EXCEPT !.active = FALSE]}
      [] OTHER                  -> {}
Fails(r) ==
    /\ ~At(r, "none") /\ ~At(r, "wait")
    /\ left.faults > 0 /\ left' = [left EXCEPT !.faults = @ - 1]
    /\ Ends(r)
    /\ stream' \in {stream} \cup Done(r)
    /\ made' = IF stream'.id > made THEN made + 1 ELSE made
    /\ view' \in {view} \cup (IF Running(r, "action") THEN {Elsewhere} ELSE {})
    /\ binding' \in {binding, binding \/ At(r, "install")}
    /\ script' \in {script, script \/ (binding /\ At(r, "install"))}
    /\ UNCHANGED <<doc, connected, happened, entry, reader>>

\* The agent goes on from here: it has the stream's id and cursor, and knows the page as it is.
UpToDate(r) ==
    [reader[r] EXCEPT !.stream = stream.id, !.cursor = Len(stream.log), !.known = 1..happened, !.told = FALSE]

\* kahin_mirage_dom_start
Starts(r) ==
    /\ Running(r, "start")
    /\ Record(stream.id, "same")
    /\ reader' = [reader EXCEPT ![r] = UpToDate(r)]
    /\ Ends(r)
    /\ UNCHANGED <<pageVars, binding, script, left>>

\* kahin_mirage_dom_snapshot: every node gets an id, and an agent that is to act picks one.
Snapshots(r) ==
    /\ Running(r, "snapshot")
    /\ stream' = Named(stream, connected)
    /\ Record(stream.id, "yes")
    /\ \E ref \in {Ref(stream', n) : n \in connected} \cup {NoRef} :
          /\ (ref = NoRef) = (connected = {} \/ ~Contains(tool[r].todo, "action"))
          /\ reader' = [reader EXCEPT ![r] = [UpToDate(r) EXCEPT !.ref = ref]]
    /\ Ends(r)
    /\ UNCHANGED <<doc, connected, happened, made, view, binding, script, left>>

\* Faulty variant: an event that was pushed out just before the ring counts as read.
RingForgets(after) == stream.ring # <<>> /\ after < stream.ring[1].seq - 2

\* Events after the cursor are no longer in the ring.
RingDropped(after) == stream.ring # <<>> /\ after < stream.ring[1].seq - 1

FirstOf(S, n) == {i \in S : Cardinality({k \in S : k < i}) < n}

\* kahin_mirage_dom_events: drain, with the cursor and the stream's id the agent has.  The answer has at most
\* as many events as were asked for, or fewer if they are long, and one at least if there is one.  An empty
\* answer may be kept back, and the page asked again with the same arguments.
Drains(r) ==
    /\ Running(r, "events")
    /\ LET me == reader[r]
           reset == me.stream # 0 /\ me.stream # stream.id
           after == IF reset THEN 0 ELSE me.cursor
           dropped == reset \/ stream.over \/ RingDropped(after)
           available == {i \in DOMAIN stream.ring : stream.ring[i].seq > after}
       IN  \E limit \in Limits : \E many \in 1..limit :
             LET got == FirstOf(available, many)
                 loud == \E i \in got : stream.ring[i].kind = "overflow"
                 recs == UNION {stream.ring[i].recs : i \in {j \in got : stream.ring[j].kind = "record"}}
             IN  /\ \/ /\ reader' = [reader EXCEPT ![r] =
                                      [me EXCEPT !.stream = stream.id,
                                                 !.cursor = IF got = {} THEN after ELSE stream.ring[Max(got)].seq,
                                                 !.known = recs \cup IF reset THEN {} ELSE @,
                                                 !.told = @ \/ dropped \/ loud \/ me.stream = 0]]
                       /\ Ends(r)
                    \/ got = {} /\ ~dropped /\ Goes(r, "wait") /\ UNCHANGED reader
                 /\ Record(stream.id, IF dropped THEN "no" ELSE "same")
    /\ stream' = [stream EXCEPT !.over = FALSE]
    /\ UNCHANGED <<doc, connected, happened, made, view, binding, script, left>>

\* wait_for_dom_signal returns, for a mutation or after half a second.
Polls(r) ==
    /\ At(r, "wait") /\ Goes(r, "call")
    /\ UNCHANGED <<pageVars, binding, script, entry, reader, left>>

\* state.action: the node of that id, if it is known and still in the document, is scrolled to (focused,
\* selected in).  A node that does not take the action is an error.
Resolves(ref) == {n \in stream.live \cap connected :
                     stream.ids[n] = ref.key /\ ref.gen = Generation(stream.id)}
Hit(r, n, steady) == [ref |-> reader[r].ref, doc |-> doc, node |-> n, steady |-> steady]
Hits(r, new) == reader' = [reader EXCEPT ![r].hits = @ \cup new]

Acts(r) ==
    /\ Running(r, "action")
    /\ LET found == Resolves(reader[r].ref) IN
       \/ found = {} /\ Record(0, "no") /\ Ends(r) /\ UNCHANGED <<reader, view>>
       \/ found # {} /\ Ends(r) /\ UNCHANGED <<entry, reader, view>>
       \/ \E n \in found, next \in {"none", "press", "input"} :
             /\ Hits(r, {Hit(r, n, TRUE)}) /\ view' = [by |-> r, node |-> n]
             /\ Goes(r, next) /\ UNCHANGED entry
    /\ UNCHANGED <<doc, connected, happened, stream, made, binding, script, left>>

\* kahin_mirage_dom_action then sends a press and a release, a move or a text, each in a call of its own,
\* and looks at nothing again: unless the page still is as the lookup left it, they go to any node or none.
Steady(r) == view.by = r
Meets(r) ==
    \E met \in IF Steady(r) THEN {{view.node}} ELSE {{}} \cup {{n} : n \in connected} :
        Hits(r, {Hit(r, n, Steady(r)) : n \in met})
Inputs(r) ==
    /\ \/ At(r, "press") /\ Goes(r, "input")
       \/ At(r, "input") /\ Ends(r)
    /\ Meets(r)
    /\ UNCHANGED <<pageVars, binding, script, entry, left>>

\* kahin_mirage_dom_stop
Stops(r) ==
    /\ Running(r, "stop")
    /\ stream' = [stream EXCEPT !.active = FALSE]
    /\ Record(0, "no")
    /\ Ends(r)
    /\ UNCHANGED <<doc, connected, happened, made, view, binding, script, reader, left>>

\* agent_status looks at the page and boots nothing.
Status(r) ==
    /\ Running(r, "status")
    /\ Record(stream.id, "same")
    /\ Ends(r)
    /\ UNCHANGED <<pageVars, binding, script, reader, left>>

Step(r) ==
    \/ Begins(r) \/ Installs(r) \/ Prepares(r) \/ Configures(r) \/ Fails(r) \/ Starts(r)
    \/ Snapshots(r) \/ Drains(r) \/ Polls(r) \/ Acts(r) \/ Inputs(r) \/ Stops(r) \/ Status(r)

Init ==
    /\ doc = 1 /\ connected = Nodes /\ happened = 0
    /\ stream = NoStream /\ made = 0 /\ view = Elsewhere /\ binding = FALSE /\ script = FALSE
    /\ entry = [id |-> 0, refsLive |-> FALSE]
    /\ \E plan \in Plans :
          /\ tool = [r \in Readers |-> [Idle EXCEPT !.todo = plan.runs[r]]]
          /\ left = [bursts |-> plan.bursts, loads |-> plan.loads, faults |-> plan.faults]
    /\ reader = [r \in Readers |-> [stream |-> 0, cursor |-> 0, known |-> {}, told |-> FALSE, ref |-> NoRef, hits |-> {}]]

Next == Mutates \/ Navigates \/ Shifts \/ \E r \in Readers : Step(r)

Spec == Init /\ [][Next]_vars

-----------------------------------------------------------------------------
(* Properties                                                              *)

TypeOK ==
    /\ doc \in Nat /\ connected \subseteq Nodes /\ happened \in Nat /\ made \in Nat
    /\ Len(stream.ring) <= stream.max /\ Len(stream.ring) <= Len(stream.log)
    /\ \A i \in DOMAIN stream.ring : stream.ring[i].seq = Len(stream.log) - Len(stream.ring) + i
    /\ stream.live \subseteq {n \in Nodes : stream.ids[n] # 0}
    /\ {binding, script, entry.refsLive, stream.active, stream.over} \subseteq BOOLEAN
    /\ entry.id \in 0..made /\ stream.id \in 0..made
    /\ view.by \in Readers \cup {None}
    /\ \A r \in Readers : reader[r].stream \in 0..made

\* An agent that reads with the cursor and the stream's id it was given has every mutation record up to its
\* cursor, unless it was told to take a new snapshot (reset, dropped, an overflow event): also when another
\* agent drains, stops, restarts or reconfigures the stream in between, and when a drain's reply is lost.
NothingMissed ==
    \A r \in Readers :
        reader[r].stream = stream.id /\ stream.id # 0 /\ ~reader[r].told =>
            \A seq \in 1..reader[r].cursor : stream.log[seq] \subseteq reader[r].known

\* The lookup of an action finds the very node its reference was given for, never one of another document or
\* another stream that happens to have the same number (nodeGeneration), and so does the input that follows,
\* as long as nothing has happened to the page since.  (Not claimed of input sent after a mutation, a
\* navigation, a scroll or another agent's action: the code does not look again, and it goes wherever the
\* point and the focus are by then.  What covers the node is PageActions' matter.)
ActsOnItsOwn ==
    \A r \in Readers : \A hit \in reader[r].hits :
        hit.steady => hit.ref.doc = hit.doc /\ hit.ref.node = hit.node

\* kahin_agent_status: while refsLive is true for the stream the page has, the nodes of the document that
\* have an id can be acted on.
RefsWork ==
    entry.refsLive /\ entry.id = stream.id /\ stream.active =>
        \A n \in connected : stream.ids[n] # 0 => n \in stream.live
=============================================================================
