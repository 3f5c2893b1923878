----------------------------- MODULE CrawlStore -----------------------------
(***************************************************************************)
(* What is kept of crawl jobs (crawler_mirage.py, _state.py): the registry *)
(* of jobs with the one that is active, from which old jobs are dropped,   *)
(* and each job's bounded ledgers of results and events, which clients     *)
(* read by cursors of their own.  What a job does is CrawlJob's.           *)
(***************************************************************************)
EXTENDS Integers, FiniteSets, Sequences, FiniteSetsExt

CONSTANTS Clients,
          Retained,      \* _MAX_RETAINED_JOBS
          Ledger,        \* _MAX_RESULTS_LEDGER and _MAX_EVENTS_PER_JOB
          Limits,        \* the limits a client may ask for
          MaxJobs,       \* bound: jobs that get registered
          MaxResults,    \* bound: results of a job
          Plans          \* what each client runs, in order

ASSUME StoreAssumption ==
    /\ Retained \in Nat \ {0} /\ Ledger \in Nat \ {0} /\ Limits \subseteq Nat \ {0}
    /\ MaxJobs \in Nat \ {0} /\ MaxResults \in Nat
    /\ \A plan \in Plans : DOMAIN plan = Clients

VARIABLES
    jobs,      \* every job that was registered, in order
    kept,      \* the keys of state._crawl_jobs
    active,    \* state._active_crawl_id (0: none)
    finished,  \* how many jobs have finished: the order of finished_at
    tool,      \* per client, the tool it runs and those it has left
    seen       \* per client, the job it reads and, for either ledger, its cursor and what it got

vars == <<jobs, kept, active, finished, tool, seen>>

Terminal == {"completed", "cancelled"}
Live(j) == jobs[j].state \notin Terminal
Kinds == {"results", "events"}

\* _record_result and _record_event: an index of its own for every entry.
Records(js, j, kinds) ==
    [js EXCEPT ![j].count = [k \in Kinds |-> IF k \in kinds THEN @[k] + 1 ELSE @[k]]]

-----------------------------------------------------------------------------
(* A job's task                                                            *)

TaskBegins(j) ==
    /\ jobs[j].task = "ready" /\ Live(j)
    /\ jobs' = [jobs EXCEPT ![j].task = "runs"]
    /\ UNCHANGED <<kept, active, finished, tool, seen>>

\* A page begins, or a state changes (an event), or a page has been processed (a result and an event).  All of
\* it is the task's: what crawl_pause and crawl_resume record meanwhile is one more event of the same kind.
Works(j) ==
    /\ jobs[j].task = "runs" /\ Live(j)
    /\ \E kinds \in {{"events"}, {"results", "events"}} :
          /\ "results" \in kinds => jobs[j].count["results"] < MaxResults
          /\ "results" \notin kinds => jobs[j].count["events"] < MaxResults
          /\ jobs' = Records(jobs, j, kinds)
    /\ UNCHANGED <<kept, active, finished, tool, seen>>

\* The end of _run_job: the active job is cleared if it is this one and has ended.
ClearsOwn(j) == active' = IF active = j /\ jobs'[j].state \in Terminal THEN 0 ELSE active

\* _transition to a terminal state.
Finishes(j, state, task) ==
    /\ jobs' = Records([jobs EXCEPT ![j].state = state, ![j].task = task, ![j].finished = finished + 1], j, {"events"})
    /\ finished' = finished + 1

\* The task returns without a terminal state: 'completed' was refused (see CrawlJob); the job stays active.
Strands(j) ==
    /\ jobs[j].task = "runs" /\ Live(j)
    /\ jobs' = [jobs EXCEPT ![j].task = "over"]
    /\ ClearsOwn(j)
    /\ UNCHANGED <<kept, finished, tool, seen>>

\* The task completes its job, or fails it (which is the same here), and returns.
Completes(j) ==
    /\ jobs[j].task = "runs" /\ Live(j)
    /\ Finishes(j, "completed", "over")
    /\ ClearsOwn(j)
    /\ UNCHANGED <<kept, tool, seen>>

\* A task that was cancelled while it ran ends when it is scheduled next; one that never ran just goes.
TaskCancelled(j) ==
    /\ jobs[j].task \in {"ready", "runs"} /\ ~Live(j)
    /\ jobs' = [jobs EXCEPT ![j].task = "over"]
    /\ IF jobs[j].task = "runs" THEN ClearsOwn(j) ELSE UNCHANGED active
    /\ UNCHANGED <<kept, finished, tool, seen>>

-----------------------------------------------------------------------------
(* kahin_crawl_start and kahin_crawl_stop                                  *)

Ends(c) == tool' = [tool EXCEPT ![c].at = "none"]
Calls(c, name) == tool[c].at = "none" /\ tool[c].todo # <<>> /\ Head(tool[c].todo) = name
\* The tool ends in the step in which it is called, or waits.
Called(c, at) ==
    tool' = [tool EXCEPT ![c] = [at |-> at, todo |-> Tail(tool[c].todo)]]

Busy == active # 0 /\ active \in kept /\ Live(active)

\* The early check; then the engine and its page are waited for.
StartBegins(c) ==
    /\ Calls(c, "start") /\ Len(jobs) < MaxJobs
    /\ Called(c, IF Busy THEN "none" ELSE "engine")
    /\ UNCHANGED <<jobs, kept, active, finished, seen>>

\* Faulty variant: none is dropped.
DropsNone(ended) == {}

\* Terminal jobs beyond the bound, the first that finished first.
DropsOldest(ended) == {j \in ended : Cardinality({k \in ended : jobs[k].finished > jobs[j].finished}) >= Retained}

\* Faulty variant: the early check is taken for granted.
NotChecked == FALSE

\* The check under the lock.
CheckedAgain == Busy

\* The engine is there, or not; the job is registered, started, and given its task.
Registers(c) ==
    /\ tool[c].at = "engine" /\ Len(jobs) < MaxJobs
    /\ \/ CheckedAgain /\ UNCHANGED <<jobs, kept, active>>
       \/ UNCHANGED <<jobs, kept, active>>
       \/ /\ ~CheckedAgain
          /\ LET j == Len(jobs) + 1
                 ended == {k \in kept : ~Live(k)}
             IN  /\ jobs' = Append(jobs, [state |-> "running", task |-> "ready", finished |-> 0,
                                          count |-> [k \in Kinds |-> IF k = "events" THEN 1 ELSE 0]])
                 /\ kept' = (kept \ DropsOldest(ended)) \cup {j}
                 /\ active' = j
    /\ Ends(c)
    /\ UNCHANGED <<finished, seen>>

\* _resolve_job: the job a client names, or the active one.
Resolved == kept

\* kahin_crawl_stop: the job is cancelled, and so is its task, which is waited for.
StopCalled(c) ==
    /\ Calls(c, "stop")
    /\ \E j \in Resolved :
          IF Live(j) THEN Finishes(j, "cancelled", jobs[j].task) ELSE UNCHANGED <<jobs, finished>>
    /\ Called(c, "none")
    /\ UNCHANGED <<kept, active, seen>>

-----------------------------------------------------------------------------
(* kahin_crawl_results and kahin_crawl_events                              *)

\* The index of the oldest entry that a bounded ledger of n entries still has.
Oldest(n) == IF n > Ledger THEN n - Ledger ELSE 0

\* Faulty variant: the cursor is a position in the ledger.
ByPosition(n, cursor, limit) ==
    {i \in Oldest(n)..(n - 1) : i >= Oldest(n) + cursor /\ i < Oldest(n) + cursor + limit}

\* The entries from the cursor on, at most limit.
ByIndex(n, cursor, limit) == {i \in Oldest(n)..(n - 1) : i >= cursor /\ i < Max({cursor, Oldest(n)}) + limit}

NothingYet == [cursor |-> 0, got |-> {}, gone |-> {}, twice |-> FALSE]

\* How many entries the byte budget drops off the end of the selected: results go one by one while one is
\* left, events at once to the first half of the limit.
Cuts(kind, limit, selected) ==
    IF kind = "results" THEN 0..Max({0, selected - 1}) ELSE {0, Max({0, selected - Max({1, limit \div 2})})}

\* A client reads job j from its cursor.
Reads(c, kind, j) ==
    LET mine == IF seen[c].job = j THEN seen[c] ELSE [job |-> j, results |-> NothingYet, events |-> NothingYet]
        my == mine[kind]
        n == jobs[j].count[kind]
        start == Max({my.cursor, Oldest(n)})
    IN  \E limit \in Limits :
          LET window == ByIndex(n, my.cursor, limit)
          IN  \E cut \in Cuts(kind, limit, Cardinality(window)) :
                LET got == {i \in window : Cardinality({k \in window : k > i}) >= cut}
                IN  seen' = [seen EXCEPT ![c] =
                               [mine EXCEPT ![kind] =
                                  [cursor |-> IF got = {} THEN start ELSE Max(got) + 1,
                                   got |-> my.got \cup got,
                                   gone |-> my.gone \cup (IF my.cursor < Oldest(n) THEN my.cursor..(start - 1) ELSE {}),
                                   twice |-> my.twice \/ my.got \cap got # {}]]]

ResultsCalled(c) ==
    /\ Calls(c, "results")
    /\ \E j \in Resolved : Reads(c, "results", j)
    /\ Called(c, "none")
    /\ UNCHANGED <<jobs, kept, active, finished>>

\* _wait_for_events: what there is, or else the event is cleared and waited for.
EventsCalled(c) ==
    /\ Calls(c, "events")
    /\ \E j \in Resolved :
          \/ Reads(c, "events", j) /\ Called(c, "none")
          \/ /\ seen[c].job = j /\ jobs[j].count["events"] <= seen[c].events.cursor
             /\ Called(c, "poll")
             /\ UNCHANGED seen
    /\ UNCHANGED <<jobs, kept, active, finished>>

\* Woken, or after waitMs; the job is the one that was resolved, dropped from the registry or not.
PollReturns(c) ==
    /\ tool[c].at = "poll"
    /\ Reads(c, "events", seen[c].job) /\ Ends(c)
    /\ UNCHANGED <<jobs, kept, active, finished>>

Init ==
    /\ jobs = <<>> /\ kept = {} /\ active = 0 /\ finished = 0
    /\ \E plan \in Plans : tool = [c \in Clients |-> [at |-> "none", todo |-> plan[c]]]
    /\ seen = [c \in Clients |-> [job |-> 0, results |-> NothingYet, events |-> NothingYet]]

Next ==
    \/ \E j \in DOMAIN jobs : TaskBegins(j) \/ Works(j) \/ Strands(j) \/ Completes(j) \/ TaskCancelled(j)
    \/ \E c \in Clients : \/ StartBegins(c) \/ Registers(c) \/ StopCalled(c)
                           \/ ResultsCalled(c) \/ EventsCalled(c) \/ PollReturns(c)

Spec == Init /\ [][Next]_vars
-----------------------------------------------------------------------------
(* Properties                                                              *)

TypeOK ==
    /\ \A j \in DOMAIN jobs : /\ jobs[j].state \in {"running"} \cup Terminal
                              /\ jobs[j].task \in {"ready", "runs", "over"}
                              /\ jobs[j].finished \in 0..finished
                              /\ \A k \in Kinds : jobs[j].count[k] \in Nat
    /\ kept \subseteq DOMAIN jobs /\ Cardinality(kept) <= Retained + 1
    /\ active \in kept \cup {0} /\ finished \in Nat
    /\ \A c \in Clients : /\ tool[c].at \in {"none", "engine", "poll"}
                          /\ seen[c].job \in 0..Len(jobs)
                          /\ \A k \in Kinds : seen[c].job = 0 \/ seen[c][k].cursor \in 0..jobs[seen[c].job].count[k]

\* One job has the browser: a job that has not ended is the active one, and in the registry, however calls
\* of kahin_crawl_start overlap and whenever the task of a cancelled job comes to its end (_run_job).
OneJobAtATime == \A j \in DOMAIN jobs : Live(j) => active = j /\ j \in kept

\* The jobs that finished last can be read: one that was dropped is followed by as many as are retained.
NewestKept ==
    \A j \in DOMAIN jobs \ kept :
        ~Live(j) /\ Cardinality({k \in DOMAIN jobs : ~Live(k) /\ jobs[k].finished > jobs[j].finished}) >= Retained

\* The registry of jobs: the one that is live has it, and what it drops is old.
RegistrySound == OneJobAtATime /\ NewestKept

\* A client that goes on at nextCursor gets every entry once, and is told (cursorReset) of those that the
\* bounded ledger let go before it came for them.
NothingSkipped ==
    \A c \in Clients : \A k \in Kinds :
        LET my == seen[c][k] IN ~my.twice /\ 0..(my.cursor - 1) \subseteq my.got \cup my.gone
=============================================================================
