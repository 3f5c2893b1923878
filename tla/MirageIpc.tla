----------------------------- MODULE MirageIpc -----------------------------
(***************************************************************************)
(* Calls from Python tools to the Mirage engine over the sidecar's stdin   *)
(* and stdout (Mirage.call, the reader task and stop() in                  *)
(* the_twins/mirage.py).                                                   *)
(*                                                                         *)
(* A call registers its future, takes the write lock, writes its line,     *)
(* waits for the pipe to drain and then for its future.  A free lock and a *)
(* pipe with room suspend nobody, so all of this is one step then.  The    *)
(* reader takes one line at a time: a reply ends the future of its id, an  *)
(* event is tracked by whoever extends this module.  An action runs from   *)
(* one await to the next.                                                  *)
(***************************************************************************)
EXTENDS Naturals, Sequences, FiniteSets, FiniteSetsExt

CONSTANTS Callers,     \* tool calls in progress
          MaxId,       \* request ids in use at once; a forgotten one is used again
          None,
          Faults,      \* what may go wrong, see FaultKinds
          MaxTroubles  \* how often anything goes wrong or happens by itself

FaultKinds == {"exit",       \* the sidecar exits, or the reader fails on a line
               "stuck",      \* the sidecar stops reading its stdin
               "slow",       \* a reply comes after the time a caller waits for it
               "refuse",     \* the browser answers with an error
               "stop"}       \* kahin_browser_stop

ASSUME IpcAssumption ==
    /\ IsFiniteSet(Callers)
    /\ None \notin Callers
    /\ MaxId \in Nat /\ MaxTroubles \in Nat
    /\ Faults \subseteq FaultKinds

VARIABLES
    call,      \* per caller, the call it waits in
    pending,   \* _pending: ids whose future waits for a reply
    writer,    \* who holds _write_lock
    handle,    \* _process is not None
    dead,      \* _dead
    reader,    \* the reader task: "reads", "cancelled" or "ended"
    stopping,  \* stop(): "no", "begun", "taken" or "done"
    sidecar,   \* the process: "up", "stuck" or "gone"
    asked,     \* requests the sidecar has and has not answered
    inbox,     \* lines of its stdout the reader has not taken
    troubles   \* what went wrong or happened by itself so far

engineVars == <<handle, dead, reader, stopping, sidecar>>
ipcVars == <<call, pending, writer, asked, inbox, troubles, engineVars>>

Ids == 1 .. MaxId
NoCall == [st |-> "none", id |-> 0, method |-> "none", session |-> None, fut |-> "open", page |-> None]

InStates == {"queued", "writing", "waiting"}          \* inside call()
Ended == {"ok", "error", "exited", "cancelled"}       \* how a future ends

Open(c) == call[c].st \in InStates
\* The call has ended for its caller: it raised, or its future has ended.
Back(c) == call[c].st = "back" \/ (call[c].st = "waiting" /\ call[c].fut # "open")

Replies == {m \in {inbox[i] : i \in DOMAIN inbox} : m.kind = "reply"}
IdsInUse == {call[c].id : c \in {d \in Callers : Open(d)}}
            \cup {r.id : r \in asked} \cup {m.id : m \in Replies}
FreeIds == Ids \ IdsInUse

InitIpc ==
    /\ call = [c \in Callers |-> NoCall]
    /\ pending = {}
    /\ writer = None
    /\ handle = TRUE /\ dead = FALSE
    /\ reader = "reads"
    /\ stopping = "no"
    /\ sidecar = "up"
    /\ asked = {}
    /\ troubles = 0

\* A fault the instance allows and has room for.
Trouble(kind) ==
    /\ kind \in Faults /\ troubles < MaxTroubles
    /\ troubles' = troubles + 1

-----------------------------------------------------------------------------
(* The caller's side                                                       *)

Line(k) == [id |-> k.id, method |-> k.method, session |-> k.session]
Raised(k) == [NoCall EXCEPT !.st = "back", !.method = k.method, !.session = k.session, !.fut = "exited"]

\* With the lock: the process may be gone by now, else the line is in the pipe's buffer.
Written(c, k, ids) ==
    \/ /\ handle
       /\ asked' = IF sidecar = "gone" \/ reader # "reads" THEN asked ELSE asked \cup {Line(k)}
       /\ writer' = IF sidecar = "stuck" THEN c ELSE None
       /\ call' = [call EXCEPT ![c] = [k EXCEPT !.st = IF sidecar = "stuck" THEN "writing" ELSE "waiting"]]
       /\ pending' = ids
    \/ /\ ~handle \/ sidecar = "gone"           \* drain() finds the pipe broken
       /\ call' = [call EXCEPT ![c] = Raised(k)]
       /\ pending' = ids \ {k.id}
       /\ writer' = None
       /\ UNCHANGED asked

\* call(): refuse a dead or stopped engine, else register the future and write.
Call(c, method, session) ==
    LET fresh == [NoCall EXCEPT !.method = method, !.session = session]
    IN  IF dead \/ ~handle
        THEN call' = [call EXCEPT ![c] = Raised(fresh)] /\ UNCHANGED <<pending, writer, asked>>
        ELSE /\ FreeIds # {}
             /\ LET k == [fresh EXCEPT !.id = Min(FreeIds)]
                IN  IF writer # None
                    THEN /\ call' = [call EXCEPT ![c] = [k EXCEPT !.st = "queued"]]
                         /\ pending' = pending \cup {k.id}
                         /\ UNCHANGED <<writer, asked>>
                    ELSE Written(c, k, pending \cup {k.id})

\* The caller has its answer and calls nothing.
Taken(c) == call' = [call EXCEPT ![c] = NoCall] /\ UNCHANGED <<pending, writer, asked>>

\* The lock comes free to one that queues for it.
Write(c) ==
    /\ call[c].st = "queued" /\ writer = None
    /\ Written(c, call[c], pending)
    /\ UNCHANGED <<inbox, troubles, engineVars>>

\* drain() returns and the caller goes on to wait for its future.
Drained(c) ==
    /\ call[c].st = "writing" /\ sidecar = "up"
    /\ writer' = None
    /\ call' = [call EXCEPT ![c].st = "waiting"]
    /\ UNCHANGED <<pending, asked, inbox, troubles, engineVars>>

\* Faulty variant: the lock is kept.
RaisesHolding(c) ==
    /\ UNCHANGED writer
    /\ call' = [call EXCEPT ![c] = Raised(call[c])]
    /\ pending' = pending \ {call[c].id}

\* Every exception forgets the id and leaves the lock.
Raises(c) ==
    /\ writer' = IF writer = c THEN None ELSE writer
    /\ call' = [call EXCEPT ![c] = Raised(call[c])]
    /\ pending' = pending \ {call[c].id}

\* drain() raises: nobody reads the pipe any more.
WriteFails(c) ==
    /\ call[c].st = "writing" /\ (sidecar = "gone" \/ stopping \in {"taken", "done"})
    /\ Raises(c)
    /\ UNCHANGED <<asked, inbox, troubles, engineVars>>

\* drain() takes longer than _IPC_WRITE_TIMEOUT: the engine is marked dead, its reader stays.
WriteTimesOut(c) ==
    /\ call[c].st = "writing" /\ sidecar = "stuck"
    /\ Raises(c)
    /\ dead' = TRUE
    /\ UNCHANGED <<asked, inbox, troubles, handle, reader, stopping, sidecar>>

\* The response timeout of the request.
ResponseTimesOut(c) ==
    /\ call[c].st = "waiting" /\ call[c].fut = "open"
    /\ IF sidecar = "up" THEN Trouble("slow") ELSE UNCHANGED troubles
    /\ call' = [call EXCEPT ![c] = [Raised(call[c]) EXCEPT !.fut = "timeout"]]
    /\ pending' = pending \ {call[c].id}
    /\ UNCHANGED <<writer, asked, inbox, engineVars>>

\* Faulty variant: CancelledError is not handled.
AbandonedUnforgotten(c) ==
    /\ UNCHANGED pending
    /\ writer' = IF writer = c THEN None ELSE writer
    /\ call' = [call EXCEPT ![c] = NoCall]

\* A wait_for around the call ends: the call is cancelled wherever it waits.
Abandoned(c) ==
    /\ pending' = pending \ {call[c].id}
    /\ writer' = IF writer = c THEN None ELSE writer
    /\ call' = [call EXCEPT ![c] = NoCall]

CallStep(c) == Write(c) \/ Drained(c) \/ WriteFails(c) \/ WriteTimesOut(c) \/ ResponseTimesOut(c)

-----------------------------------------------------------------------------
(* The reader task and stop().  Once nobody reads, what the sidecar has to *)
(* say and to answer is nobody's business, and the model forgets it.       *)

Owner(id) == {c \in Callers : Open(c) /\ call[c].id = id}

\* Faulty variant: an error is handed on as it came.
RepliedRaw(m) ==
    /\ pending' = pending \ {m.id}
    /\ call' = [c \in Callers |->
                  IF m.id \in pending /\ c \in Owner(m.id) /\ call[c].fut = "open"
                  THEN [call[c] EXCEPT !.fut = IF m.ok THEN "ok" ELSE "raw", !.page = m.page]
                  ELSE call[c]]

\* A reply: its id is popped; a late one finds nothing.
TakeReply(m) ==
    /\ pending' = pending \ {m.id}
    /\ call' = [c \in Callers |->
                  IF m.id \in pending /\ c \in Owner(m.id) /\ call[c].fut = "open"
                  THEN [call[c] EXCEPT !.fut = IF m.ok THEN "ok" ELSE "error", !.page = m.page]
                  ELSE call[c]]

\* The reader's finally: every future in flight fails and the engine is dead.
Failed(how) == [c \in Callers |->
    IF Open(c) /\ call[c].id \in pending /\ call[c].fut = "open" THEN [call[c] EXCEPT !.fut = how] ELSE call[c]]

ReaderEnds ==
    /\ \/ reader = "reads" /\ sidecar = "gone" /\ inbox = <<>> /\ UNCHANGED troubles   \* end of file
       \/ reader = "reads" /\ inbox # <<>> /\ Trouble("exit")                           \* an unreadable line
       \/ reader = "cancelled" /\ UNCHANGED troubles
    /\ reader' = "ended"
    /\ call' = Failed("exited")
    /\ pending' = {}
    /\ dead' = TRUE
    /\ inbox' = <<>> /\ asked' = {}
    /\ UNCHANGED <<writer, handle, stopping, sidecar>>

StopBegins ==
    /\ stopping = "no" /\ Trouble("stop")
    /\ stopping' = "begun"
    /\ reader' = IF reader = "reads" THEN "cancelled" ELSE reader
    /\ inbox' = <<>> /\ asked' = {}
    /\ UNCHANGED <<call, pending, writer, handle, dead, sidecar>>

\* The reader has ended, or its time is over: what is still pending is cancelled, and the process taken.
StopTakes ==
    /\ stopping = "begun"
    /\ stopping' = "taken"
    /\ call' = Failed("cancelled")
    /\ pending' = {}
    /\ handle' = FALSE
    /\ UNCHANGED <<writer, dead, reader, sidecar, asked, inbox, troubles>>

\* The process is reaped or given up; whoever extends this module forgets the tabs.
StopEnds ==
    /\ stopping = "taken"
    /\ stopping' = "done"
    /\ sidecar' = "gone"
    /\ UNCHANGED <<call, pending, writer, handle, dead, reader, asked, inbox, troubles>>

-----------------------------------------------------------------------------
(* The sidecar                                                             *)

SidecarSticks ==
    /\ sidecar = "up" /\ reader = "reads" /\ Trouble("stuck")
    /\ sidecar' = "stuck"
    /\ UNCHANGED <<call, pending, writer, handle, dead, reader, stopping, asked, inbox>>

SidecarExits ==
    /\ sidecar # "gone" /\ reader = "reads" /\ Trouble("exit")
    /\ sidecar' = "gone"
    /\ asked' = {}
    /\ UNCHANGED <<call, pending, writer, handle, dead, reader, stopping, inbox>>
=============================================================================
