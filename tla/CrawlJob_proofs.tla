--------------------------- MODULE CrawlJob_proofs ---------------------------
(***************************************************************************)
(* Proofs about CrawlJob, for every value of its constants: any number of  *)
(* URLs and seeds, any budgets and any set of faults.  SitesAreRespected   *)
(* and ReportsAreTrue, at the end, exclude the faults under which TLC      *)
(* finds their properties violated.                                        *)
(***************************************************************************)
EXTENDS CrawlJob, FiniteSetTheorems, SequenceTheorems, TLAPS

\* The worker holds a page between TakePage and EndPage.
InFlight == pc \in InPage \union Rotating \union {"probe"}

\* TypeOK is not inductive: requeueing needs the page in flight to be one.
TypeInv == TypeOK /\ (InFlight => item \in Item)

USE DEF frontier, budgets, ledger, counters, signals, worker, client

-----------------------------------------------------------------------------
(* Facts about the operators. *)

\* A transition request leaves the job in one of its eight states.
LEMMA TransitionType ==
  ASSUME NEW s \in States, NEW t \in States
  PROVE  Transition(s, t) \in States
BY DEF Transition

LEMMA StatesAre ==
  States = {"queued", "running", "backing_off", "paused", "rotating",
            "completed", "failed", "cancelled"}
BY DEF States, Allowed

\* Putting x in front of q, as deque.appendleft does.
LEMMA ConsFacts ==
  ASSUME NEW S, NEW x \in S, NEW q \in Seq(S)
  PROVE  /\ <<x>> \o q \in Seq(S)
         /\ Len(<<x>> \o q) = Len(q) + 1
         /\ (<<x>> \o q)[1] = x
         /\ \A i \in 2..(Len(q) + 1) : (<<x>> \o q)[i] = q[i - 1]
<1>1. <<x>> \in Seq(S) /\ Len(<<x>>) = 1 /\ <<x>>[1] = x
  OBVIOUS
<1>2. Len(q) \in Nat
  OBVIOUS
<1> QED
  BY <1>1, <1>2, ConcatProperties, Z3

LEMMA QueuedType ==
  ASSUME NEW q \in Seq(Item)
  PROVE  UrlsOf(q) \in SUBSET Url
<1> SUFFICES ASSUME NEW i \in DOMAIN q PROVE q[i].url \in Url
  BY DEF UrlsOf
<1>1. i \in 1..Len(q)
  BY LenProperties
<1>2. q[i] \in Item
  BY <1>1, ElementOfSeq
<1> QED
  BY <1>2 DEF Item

-----------------------------------------------------------------------------
(* Type correctness. *)

LEMMA RequeueType ==
  ASSUME FrontierTypes, item \in Item, RequeueFront
  PROVE  FrontierTypes'
<1>1. item.url \in Url
  BY DEF Item
<1>2. <<item>> \o queue \in Seq(Item)
  BY ConsFacts DEF FrontierTypes
<1> QED
  BY <1>1, <1>2 DEF FrontierTypes, RequeueFront

LEMMA DropType ==
  ASSUME FrontierTypes, DropQueue
  PROVE  FrontierTypes'
BY QueuedType, EmptySeq DEF FrontierTypes, DropQueue, QueuedUrls

LEMMA TakeType ==
  ASSUME FrontierTypes, TakePage
  PROVE  FrontierTypes' /\ item' \in Item
<1>1. queue # <<>> /\ queue \in Seq(Item)
  BY DEF TakePage, FrontierTypes
<1>2. Head(queue) \in Item /\ Tail(queue) \in Seq(Item)
  BY <1>1, HeadTailProperties
<1>3. Head(queue).url \in Url
  BY <1>2 DEF Item
<1> QED
  BY <1>2, <1>3 DEF TakePage, FrontierTypes

\* What the links of a page do to the queue: some n of the fresh URLs are
\* appended, no two of them equal, and the queue stays within its bound.
LEMMA EnqueueFacts ==
  ASSUME NEW links \in SUBSET Url, EnqueueLinks(links), FrontierTypes, item \in Item
  PROVE  /\ FrontierTypes'
         /\ \E n \in Nat : \E new \in [1..n -> Fresh(links)] :
              /\ \A i, j \in 1..n : new[i] = new[j] => i = j
              /\ Len(queue') = Len(queue) + n
              /\ n > 0 => Len(queue) + n <= MaxQueue
              /\ \A i \in 1..Len(queue) : queue'[i] = queue[i]
              /\ \A i \in 1..n : queue'[Len(queue) + i].url = new[i]
         /\ UNCHANGED <<visited, budget>>
<1> DEFINE fresh == Fresh(links)
           room == IF Len(queue) >= MaxQueue THEN 0 ELSE MaxQueue - Len(queue)
           n == IF Cardinality(fresh) <= room THEN Cardinality(fresh) ELSE room
<1>1. fresh \in SUBSET Url /\ IsFiniteSet(fresh) /\ Cardinality(fresh) \in Nat
  BY CrawlAssumption, FS_Subset, FS_CardinalityType DEF Fresh
<1>2. Len(queue) \in Nat /\ queue \in Seq(Item) /\ MaxQueue \in Nat
  BY CrawlAssumption DEF FrontierTypes
<1>3. n \in Nat /\ (n > 0 => Len(queue) + n <= MaxQueue)
  BY <1>1, <1>2
<1> HIDE DEF n, fresh
<1>4. PICK new \in [1..n -> fresh] :
        /\ \A i, j \in 1..n : new[i] = new[j] => i = j
        /\ queue' = queue \o [i \in 1..n |-> [url |-> new[i], depth |-> item.depth + 1]]
        /\ dropped' = dropped \union (fresh \ {new[i] : i \in 1..n})
        /\ UNCHANGED <<visited, budget>>
  BY DEF EnqueueLinks, n, fresh, room
<1> DEFINE tail == [i \in 1..n |-> [url |-> new[i], depth |-> item.depth + 1]]
<1>5. n > 0 => item.depth + 1 \in 0..MaxDepth
  <2>1. CASE item.depth + 1 > MaxDepth
    <3>1. fresh = {}
      BY <2>1 DEF Fresh, fresh
    <3>2. Cardinality(fresh) = 0
      BY <3>1, FS_EmptySet
    <3> QED
      BY <3>2, <1>2 DEF n, room
  <2>2. CASE ~(item.depth + 1 > MaxDepth)
    BY <2>2, CrawlAssumption DEF Item
  <2> QED
    BY <2>1, <2>2
<1>6. \A i \in 1..n : tail[i] \in Item
  <2> SUFFICES ASSUME NEW i \in 1..n PROVE [url |-> new[i], depth |-> item.depth + 1] \in Item
    OBVIOUS
  <2>1. new[i] \in Url
    BY <1>1, <1>4
  <2>2. item.depth + 1 \in 0..MaxDepth
    BY <1>3, <1>5
  <2> QED
    BY <2>1, <2>2 DEF Item
<1>7. tail \in Seq(Item) /\ Len(tail) = n
  <2>1. tail \in [1..n -> Item]
    BY <1>6
  <2>2. tail \in Seq(Item)
    BY <2>1, <1>3, SeqDef
  <2>3. DOMAIN tail = 1..n /\ DOMAIN tail = 1..Len(tail) /\ Len(tail) \in Nat
    BY <2>1, <2>2, LenProperties
  <2> QED
    BY <2>2, <2>3, <1>3
<1>a. queue' = queue \o tail
  BY <1>4
<1> HIDE DEF tail
<1>8. /\ queue' \in Seq(Item)
      /\ Len(queue') = Len(queue) + n
      /\ \A i \in 1..(Len(queue) + n) :
           queue'[i] = IF i <= Len(queue) THEN queue[i] ELSE tail[i - Len(queue)]
  BY <1>2, <1>a, <1>7, ConcatProperties, Z3
<1>9. \A i \in 1..Len(queue) : queue'[i] = queue[i]
  BY <1>8, <1>2, <1>3
<1>10. \A i \in 1..n : queue'[Len(queue) + i].url = new[i]
  <2> TAKE i \in 1..n
  <2>1. queue'[Len(queue) + i] = tail[i]
    BY <1>8, <1>2, <1>3
  <2>2. tail[i].url = new[i]
    BY DEF tail
  <2> QED
    BY <2>1, <2>2
<1>11. FrontierTypes'
  BY <1>1, <1>4, <1>8 DEF FrontierTypes
<1>12. /\ \A i, j \in 1..n : new[i] = new[j] => i = j
       /\ Len(queue') = Len(queue) + n
       /\ n > 0 => Len(queue) + n <= MaxQueue
       /\ \A i \in 1..Len(queue) : queue'[i] = queue[i]
       /\ \A i \in 1..n : queue'[Len(queue) + i].url = new[i]
  BY <1>3, <1>4, <1>8, <1>9, <1>10
<1>13. new \in [1..n -> Fresh(links)]
  BY <1>4 DEF fresh
<1>14. UNCHANGED <<visited, budget>>
  BY <1>4
<1> QED
  BY <1>3, <1>11, <1>12, <1>13, <1>14

\* The only five things any step of the system does to the frontier, and what
\* becomes of the page in flight.
LEMMA FrontierMoves ==
  ASSUME TypeInv, [Next]_vars
  PROVE  \/ /\ UNCHANGED frontier /\ (InFlight' => InFlight /\ item' = item)
            /\ pc' # "done" => pc # "done"
         \/ DropQueue /\ pc' = "done"
         \/ TakePage
         \/ InFlight /\ RequeueFront /\ ~InFlight'
         \/ /\ InFlight /\ (InFlight' => item' = item) /\ RecordSuccess
            /\ \E links \in SUBSET Url : EnqueueLinks(links)
<1> USE DEF InFlight, InPage, Rotating, PCs, At, GoTo, EndPage, Exit
<1>1. CASE Loop
  BY <1>1 DEF Loop, LoopCancelled, LoopExpired, StopWaiting, Deciding, Park, Doze, PageLimit,
       Drained
<1>2. CASE Rotation
  BY <1>2 DEF Rotation, RotationStopped, RotationStopRefused, RotationStarted,
       RotationStartFailed, RotationUndone
<1>3. CASE Page
  <2>1. CASE GateRecovers \/ ProbeDead
    BY <2>1 DEF GateRecovers, ProbeDead, Recover, RecoverySpent, RecoveryRefused,
         RecoveryBegins, BeginRotation
  <2>2. CASE Captcha \/ RateLimited
    BY <2>2 DEF Captcha, RateLimited
  <2>3. CASE Extracted
    BY <2>3 DEF Extracted, BeginRotation
  <2>4. CASE GateOpens \/ GateFails \/ ToolSucceeds \/ ToolSuspectsEngine \/ ToolBlamesPage
             \/ ToolRaises \/ ProbeAlive
    BY <2>4 DEF GateOpens, GateFails, ToolSucceeds, ToolSuspectsEngine, ToolBlamesPage,
         ToolRaises, ProbeAlive, ToolCall
  <2> QED
    BY <1>3, <2>1, <2>2, <2>3, <2>4 DEF Page
<1>4. CASE WorkerCancelled
  BY <1>4 DEF WorkerCancelled
<1>5. CASE Client
  BY <1>5 DEF Client, Stopper, Pause, Resume, SetResume, StopCalled, StopGetsGate,
       StopTimesOut, StopReturns
<1>6. CASE Environment
  BY <1>6 DEF Environment, PageTimeout, BackoffExpires, DurationElapses, EngineDies,
       UserStopsBrowser, UserStartsBrowser, ToolCall
<1>7. CASE UNCHANGED vars
  BY <1>7 DEF vars
<1> QED
  BY <1>1, <1>2, <1>3, <1>4, <1>5, <1>6, <1>7 DEF Next, Worker

LEMMA FrontierTypesStep ==
  ASSUME TypeInv, [Next]_vars
  PROVE  FrontierTypes'
<1>1. FrontierTypes
  BY DEF TypeInv, TypeOK
<1>2. CASE UNCHANGED frontier
  BY <1>1, <1>2 DEF FrontierTypes
<1>3. InFlight => item \in Item
  BY DEF TypeInv
<1>4. CASE InFlight /\ \E links \in SUBSET Url : EnqueueLinks(links)
  BY <1>1, <1>3, <1>4, EnqueueFacts
<1>5. CASE InFlight /\ RequeueFront
  BY <1>1, <1>3, <1>5, RequeueType
<1>6. DropQueue => FrontierTypes'
  BY <1>1, DropType
<1>7. TakePage => FrontierTypes'
  BY <1>1, TakeType
<1> QED
  BY <1>2, <1>4, <1>5, <1>6, <1>7, FrontierMoves

LEMMA JobTypesStep ==
  ASSUME TypeInv, [Next]_vars
  PROVE  JobTypes'
<1> USE DEF JobTypes, To
<1>0. States = {"queued", "running", "backing_off", "paused", "rotating",
                "completed", "failed", "cancelled"}
  BY StatesAre
<1>1. JobTypes
  BY DEF TypeInv, TypeOK
<1>2. \A t \in States : Transition(state, t) \in States
  BY <1>0, <1>1, TransitionType
<1>3. CASE Loop
  <2>1. Woken \in States
    BY <1>0, <1>1 DEF Woken
  <2>2. Transition(Woken, "completed") \in States
    BY <1>0, <1>1, <2>1, TransitionType
  <2> QED
    BY <1>0, <1>1, <1>2, <1>3, <2>1, <2>2, ZenonT(60) DEF Loop, LoopCancelled, LoopExpired, StopWaiting,
         Park, Doze, PageLimit, Drained, TakePage
<1>4. CASE Rotation
  <2>1. CASE RotationStopped \/ RotationStopRefused
    BY <1>0, <1>1, <1>2, <2>1 DEF RotationStopped, RotationStopRefused
  <2>2. CASE RotationStarted
    BY <1>0, <1>1, <1>2, <2>2 DEF RotationStarted
  <2>3. CASE RotationStartFailed \/ RotationUndone
    BY <1>0, <1>1, <1>2, <2>3 DEF RotationStartFailed, RotationUndone
  <2> QED
    BY <1>4, <2>1, <2>2, <2>3 DEF Rotation
<1>5. CASE Page
  <2>1. CASE GateRecovers \/ ProbeDead
    BY <1>0, <1>1, <1>2, <2>1, ZenonT(60) DEF GateRecovers, ProbeDead, Recover, RecoverySpent, RecoveryRefused,
         RecoveryBegins, BeginRotation
  <2>2. CASE Captcha
    BY <1>0, <1>1, <1>2, <2>2 DEF Captcha
  <2>4. CASE RateLimited
    BY <1>0, <1>1, <1>2, <2>4 DEF RateLimited
  <2>5. CASE Extracted
    BY <1>0, <1>1, <1>2, <2>5 DEF Extracted, BeginRotation
  <2>3. CASE GateOpens \/ GateFails \/ ToolSucceeds \/ ToolSuspectsEngine \/ ToolBlamesPage
             \/ ToolRaises \/ ProbeAlive
    BY <1>0, <1>1, <1>2, <2>3, ZenonT(60) DEF GateOpens, GateFails, ToolSucceeds, ToolSuspectsEngine,
         ToolBlamesPage, ToolRaises, ProbeAlive
  <2> QED
    BY <1>5, <2>1, <2>2, <2>3, <2>4, <2>5 DEF Page
<1>6. CASE WorkerCancelled
  BY <1>0, <1>1, <1>2, <1>6 DEF WorkerCancelled
<1>7. CASE Client
  <2>1. CASE Pause
    <3>1. pauses' \in Nat
      BY <1>1, <2>1, SMT DEF Pause
    <3>2. state' \in States
      BY <1>0, <1>1, <1>2, <2>1 DEF Pause
    <3>3. resumeEvent' = FALSE /\ UNCHANGED <<cancelRequested, backoffOver, expired, gate,
                                             killed, stopper, history>>
      BY <2>1 DEF Pause
    <3> QED
      BY <1>1, <3>1, <3>2, <3>3
  <2>2. CASE Resume
    BY <1>0, <1>1, <1>2, <2>2 DEF Resume, SetResume
  <2>3. CASE StopCalled
    BY <1>0, <1>1, <1>2, <2>3 DEF StopCalled, SetResume, CancelJob
  <2>4. CASE StopGetsGate
    BY <1>0, <1>1, <1>2, <2>4 DEF StopGetsGate, CancelJob
  <2>5. CASE StopTimesOut \/ StopReturns
    BY <1>0, <1>1, <2>5 DEF StopTimesOut, StopReturns
  <2> QED
    BY <1>7, <2>1, <2>2, <2>3, <2>4, <2>5 DEF Client, Stopper
<1>8. CASE Environment
  BY <1>0, <1>1, <1>8, ZenonT(60) DEF Environment, PageTimeout, BackoffExpires, DurationElapses, EngineDies,
       UserStopsBrowser, UserStartsBrowser
<1>9. CASE UNCHANGED vars
  BY <1>0, <1>1, <1>9 DEF vars
<1> QED
  BY <1>3, <1>4, <1>5, <1>6, <1>7, <1>8, <1>9 DEF Next, Worker

LEMMA WorkerTypesStep ==
  ASSUME TypeInv, [Next]_vars
  PROVE  WorkerTypes' /\ (InFlight => item \in Item)'
<1> USE DEF WorkerTypes, InFlight, InPage, Rotating, PCs, GoTo, EndPage, Exit, At
<1>1. WorkerTypes /\ (InFlight => item \in Item)
  BY DEF TypeInv, TypeOK
<1>2. TakePage => item' \in Item
  BY TakeType DEF TypeInv, TypeOK
<1>3. CASE Loop
  BY <1>1, <1>2, <1>3, ZenonT(60) DEF Loop, LoopCancelled, LoopExpired, StopWaiting,
       Park, Doze, PageLimit, Drained, TakePage
<1>4. CASE Rotation
  BY <1>1, <1>4 DEF Rotation, RotationStopped, RotationStopRefused, RotationStarted,
       RotationStartFailed, RotationUndone
<1>5. CASE Page
  <2>1. CASE GateRecovers \/ ProbeDead
    BY <1>1, <2>1 DEF GateRecovers, ProbeDead, Recover, RecoverySpent, RecoveryRefused,
         RecoveryBegins, BeginRotation
  <2>2. CASE Captcha \/ RateLimited \/ Extracted
    BY <1>1, <2>2 DEF Captcha, RateLimited, Extracted, BeginRotation
  <2>3. CASE GateOpens \/ GateFails \/ ToolSucceeds \/ ToolSuspectsEngine \/ ToolBlamesPage
             \/ ToolRaises \/ ProbeAlive
    BY <1>1, <2>3 DEF GateOpens, GateFails, ToolSucceeds, ToolSuspectsEngine,
         ToolBlamesPage, ToolRaises, ProbeAlive, ToolCall
  <2> QED
    BY <1>5, <2>1, <2>2, <2>3 DEF Page
<1>6. CASE WorkerCancelled
  BY <1>1, <1>6 DEF WorkerCancelled
<1>7. CASE Client
  BY <1>1, <1>7 DEF Client, Stopper, Pause, Resume, SetResume, StopCalled,
       StopGetsGate, CancelJob, StopTimesOut, StopReturns
<1>8. CASE Environment
  <2>1. CASE PageTimeout
    BY <1>1, <2>1 DEF PageTimeout, ToolCall
  <2>2. CASE BackoffExpires \/ DurationElapses
    BY <1>1, <2>2 DEF BackoffExpires, DurationElapses
  <2>3. CASE EngineDies \/ UserStopsBrowser \/ UserStartsBrowser
    BY <1>1, <2>3 DEF EngineDies, UserStopsBrowser, UserStartsBrowser
  <2> QED
    BY <1>8, <2>1, <2>2, <2>3 DEF Environment
<1>9. CASE UNCHANGED vars
  BY <1>1, <1>9 DEF vars
<1> QED
  BY <1>3, <1>4, <1>5, <1>6, <1>7, <1>8, <1>9 DEF Next, Worker

LEMMA LedgerTypesStep ==
  ASSUME TypeInv, [Next]_vars
  PROVE  LedgerTypes'
<1> USE DEF LedgerTypes, RecordSuccess, RecordFailed
<1>1. LedgerTypes
  BY DEF TypeInv, TypeOK
<1>2. InFlight => item.url \in Url
  BY DEF TypeInv, Item
<1>3. CASE Loop
  BY <1>1, <1>3 DEF Loop, LoopCancelled, LoopExpired, StopWaiting,
       Park, Doze, PageLimit, Drained, TakePage
<1>4. CASE Rotation
  BY <1>1, <1>4 DEF Rotation, RotationStopped, RotationStopRefused, RotationStarted,
       RotationStartFailed, RotationUndone
<1>5. CASE Page
  <2> USE DEF InFlight, InPage, Rotating, At
  <2>1. CASE GateRecovers \/ ProbeDead
    BY <1>1, <1>2, <2>1 DEF GateRecovers, ProbeDead, Recover, RecoverySpent, RecoveryRefused,
         RecoveryBegins
  <2>2. CASE Captcha
    BY <1>1, <1>2, <2>2 DEF Captcha
  <2>3. CASE RateLimited
    BY <1>1, <1>2, <2>3 DEF RateLimited
  <2>4. CASE Extracted
    BY <1>1, <1>2, <2>4 DEF Extracted
  <2>5. CASE GateOpens \/ GateFails \/ ToolSucceeds \/ ToolSuspectsEngine \/ ToolBlamesPage
             \/ ToolRaises \/ ProbeAlive
    BY <1>1, <1>2, <2>5 DEF GateOpens, GateFails, ToolSucceeds, ToolSuspectsEngine,
         ToolBlamesPage, ToolRaises, ProbeAlive, ToolCall
  <2> QED
    BY <1>5, <2>1, <2>2, <2>3, <2>4, <2>5 DEF Page
<1>6. CASE WorkerCancelled
  BY <1>1, <1>6 DEF WorkerCancelled
<1>7. CASE Client
  BY <1>1, <1>7 DEF Client, Stopper, Pause, Resume, StopCalled, StopGetsGate, StopTimesOut,
       StopReturns
<1>8. CASE Environment
  BY <1>1, <1>8 DEF Environment, PageTimeout, BackoffExpires, DurationElapses, EngineDies,
       UserStopsBrowser, UserStartsBrowser
<1>9. CASE UNCHANGED vars
  BY <1>1, <1>9 DEF vars
<1> QED
  BY <1>3, <1>4, <1>5, <1>6, <1>7, <1>8, <1>9 DEF Next, Worker

LEMMA TypeInit ==
  ASSUME Init
  PROVE  TypeInv
<1>1. \A i \in 1..Len(Seeds) : [url |-> Seeds[i], depth |-> 0] \in Item
  BY CrawlAssumption, ElementOfSeq DEF Item
<1>2. Len(Seeds) \in Nat
  BY CrawlAssumption
<1>3. queue \in [1..Len(Seeds) -> Item]
  BY <1>1 DEF Init
<1>4. queue \in Seq(Item)
  BY <1>2, <1>3, SeqDef
<1>5. FrontierTypes
  BY <1>4 DEF Init, FrontierTypes
<1>6. LedgerTypes
  BY DEF Init, LedgerTypes
<1>7. WorkerTypes /\ ~InFlight
  BY DEF Init, WorkerTypes, PCs, InFlight, InPage, Rotating
<1>8. JobTypes
  BY StatesAre DEF Init, JobTypes
<1> QED
  BY <1>5, <1>6, <1>7, <1>8 DEF TypeInv, TypeOK

\* Every field of a crawl job keeps its type, for any site and any limits: no
\* page beyond maxDepth is ever queued and at most one recovery is counted.
THEOREM TypeCorrect == Spec => []TypeInv
<1>1. TypeInv /\ [Next]_vars => TypeInv'
  BY FrontierTypesStep, JobTypesStep, WorkerTypesStep, LedgerTypesStep DEF TypeInv, TypeOK
<1> QED
  BY <1>1, TypeInit, PTL DEF Spec

THEOREM TypesOK == Spec => []TypeOK
<1>1. TypeInv => TypeOK
  BY DEF TypeInv
<1> QED
  BY <1>1, TypeCorrect, PTL

-----------------------------------------------------------------------------
(* The rotation gate.  Its holder is always the party that is using it, so   *)
(* a stop that must wait can only be waiting for a rotation.                 *)

GateInv ==
  /\ GateMatchesRotation
  /\ gate = "stopper" <=> stopper = "task"
  /\ PausedIsParked

LEMMA GateStep ==
  ASSUME TypeInv, GateInv, [Next]_vars
  PROVE  GateInv'
<1> USE DEF GateInv, GateMatchesRotation, PausedIsParked, Rotating, To, Transition, Allowed,
            GoTo, EndPage, Exit, At, Terminal
<1>1. /\ state \in States /\ pc \in PCs /\ gate \in {"free", "worker", "stopper"}
      /\ stopper \in {"idle", "gate", "task"} /\ killed \in BOOLEAN /\ resumeEvent \in BOOLEAN
  BY DEF TypeInv, TypeOK, JobTypes, WorkerTypes
<1>2. States = {"queued", "running", "backing_off", "paused", "rotating",
                "completed", "failed", "cancelled"}
  BY StatesAre
<1>3. CASE Loop
  BY <1>1, <1>2, <1>3 DEF Loop, LoopCancelled, LoopExpired, StopWaiting, Deciding, Runnable,
       Woken, Park, Doze, PageLimit, Drained, TakePage
<1>4. CASE Rotation
  BY <1>1, <1>2, <1>4 DEF Rotation, RotationStopped, RotationStopRefused, RotationStarted,
       RotationStartFailed, RotationUndone
<1>5. CASE Page
  <2>1. CASE GateRecovers \/ ProbeDead
    BY <1>1, <1>2, <2>1 DEF GateRecovers, ProbeDead, Recover, RecoverySpent, RecoveryRefused,
         RecoveryBegins, BeginRotation
  <2>2. CASE Captcha
    BY <1>1, <1>2, <2>2 DEF Captcha
  <2>3. CASE RateLimited
    BY <1>1, <1>2, <2>3 DEF RateLimited
  <2>4. CASE Extracted
    BY <1>1, <1>2, <2>4 DEF Extracted, BeginRotation
  <2>5. CASE GateOpens \/ GateFails \/ ToolSucceeds \/ ToolSuspectsEngine \/ ToolBlamesPage
             \/ ToolRaises \/ ProbeAlive
    BY <1>1, <1>2, <2>5 DEF GateOpens, GateFails, ToolSucceeds, ToolSuspectsEngine,
         ToolBlamesPage, ToolRaises, ProbeAlive, ToolCall
  <2> QED
    BY <1>5, <2>1, <2>2, <2>3, <2>4, <2>5 DEF Page
<1>6. CASE WorkerCancelled
  BY <1>1, <1>2, <1>6 DEF WorkerCancelled
<1>7. CASE Client
  <2>1. CASE Pause
    BY <1>1, <1>2, <2>1 DEF Pause
  <2>2. CASE Resume
    BY <1>1, <1>2, <2>2 DEF Resume, SetResume
  <2>3. CASE StopCalled
    BY <1>1, <1>2, <2>3 DEF StopCalled, SetResume, CancelJob
  <2>4. CASE StopGetsGate
    BY <1>1, <1>2, <2>4 DEF StopGetsGate, CancelJob
  <2>5. CASE StopTimesOut \/ StopReturns
    BY <1>1, <2>5 DEF StopTimesOut, StopReturns
  <2> QED
    BY <1>7, <2>1, <2>2, <2>3, <2>4, <2>5 DEF Client, Stopper
<1>8. CASE Environment
  BY <1>1, <1>8 DEF Environment, PageTimeout, BackoffExpires, DurationElapses, EngineDies,
       UserStopsBrowser, UserStartsBrowser, ToolCall
<1>9. CASE UNCHANGED vars
  BY <1>1, <1>9 DEF vars
<1> QED
  BY <1>3, <1>4, <1>5, <1>6, <1>7, <1>8, <1>9 DEF Next, Worker

LEMMA GateAlways == Spec => []GateInv
<1>1. Init => GateInv
  BY DEF Init, GateInv, GateMatchesRotation, PausedIsParked, Rotating
<1>2. TypeInv /\ GateInv /\ [Next]_vars => GateInv'
  BY GateStep
<1> QED
  BY <1>1, <1>2, TypeCorrect, PTL DEF Spec

\* The rotation gate is held by the worker exactly while it stops and starts
\* the engine, the job says so, and no cancellation hits a rotation: a stop
\* that owns the gate never meets a half-rotated engine.
THEOREM GateProtectsRotation == Spec => []GateMatchesRotation
<1>1. GateInv => GateMatchesRotation
  BY DEF GateInv
<1> QED
  BY <1>1, GateAlways, PTL

\* A paused job always has its resume event cleared, so _wait_runnable never
\* spins.  The interesting step is crawl_stop, which sets the event before it
\* owns the gate: it can be kept waiting only by a rotation, and a job that
\* rotates is not paused.
THEOREM PausedJobsPark == Spec => []PausedIsParked
<1>1. GateInv => PausedIsParked
  BY DEF GateInv
<1> QED
  BY <1>1, GateAlways, PTL

-----------------------------------------------------------------------------
(* The frontier.  A page whose retry is pending is the one at the head, so    *)
(* while a page is in flight no other page is started: that, and the fact     *)
(* that everything started is visited or queued, carry the invariant through  *)
(* requeueing and through the links of a page.                                *)

FrontierInv ==
  /\ FrontierSound
  /\ RetryAtHead
  /\ pc # "done" => budget \subseteq visited \union QueuedUrls
  /\ InFlight => /\ item.url \in budget /\ item.url \in visited
                 /\ QueuedUrls \intersect budget = {}

\* QueuedUrls by position.
LEMMA QueuedByPosition ==
  ASSUME queue \in Seq(Item)
  PROVE  /\ DOMAIN queue = 1..Len(queue) /\ Len(queue) \in Nat
         /\ \A u : u \in QueuedUrls <=> \E i \in 1..Len(queue) : queue[i].url = u
BY LenProperties DEF QueuedUrls, UrlsOf

LEMMA FrontierTake ==
  ASSUME TypeInv, FrontierInv, TakePage
  PROVE  FrontierInv'
<1>1. queue \in Seq(Item) /\ queue # <<>> /\ pc # "done"
  BY DEF TakePage, TypeInv, TypeOK, FrontierTypes, Runnable, Deciding, At
<1>2. queue' \in Seq(Item) /\ Len(queue') = Len(queue) - 1 /\ Len(queue) \in Nat \ {0}
      /\ \A i \in 1..Len(queue') : queue'[i] = queue[i + 1]
  BY <1>1, HeadTailProperties, EmptySeq DEF TakePage
<1>3. Head(queue) = queue[1]
  BY <1>1
<1>4. /\ DOMAIN queue = 1..Len(queue)
      /\ \A u : u \in QueuedUrls <=> \E i \in 1..Len(queue) : queue[i].url = u
  BY <1>1, QueuedByPosition
<1>5. /\ DOMAIN queue' = 1..Len(queue')
      /\ \A u : u \in QueuedUrls' <=> \E i \in 1..Len(queue') : queue'[i].url = u
  BY <1>2, LenProperties DEF QueuedUrls, UrlsOf
<1> DEFINE first == queue[1].url
<1>6. \A u : u \in QueuedUrls' => u \in QueuedUrls /\ u # first /\ u \notin budget
  <2> SUFFICES ASSUME NEW i \in 1..Len(queue')
               PROVE  /\ queue'[i].url \in QueuedUrls /\ queue'[i].url # first
                      /\ queue'[i].url \notin budget
    BY <1>5
  <2>1. queue'[i] = queue[i + 1] /\ i + 1 \in 1..Len(queue) /\ i + 1 # 1 /\ 1 \in 1..Len(queue)
    BY <1>2
  <2> QED
    BY <2>1, <1>4 DEF FrontierInv, FrontierSound, RetryAtHead
<1>7. \A u : u \in QueuedUrls => u = first \/ u \in QueuedUrls'
  <2> SUFFICES ASSUME NEW i \in 1..Len(queue), i # 1
               PROVE  queue[i].url \in QueuedUrls'
    BY <1>4
  <2>1. i - 1 \in 1..Len(queue') /\ queue'[i - 1] = queue[i]
    BY <1>2
  <2> QED
    BY <2>1, <1>5
<1>8. visited' = visited \union {first} /\ budget' = budget \union {first}
      /\ item'.url = first /\ pc' = "gate"
  BY <1>3 DEF TakePage
<1>9. FrontierSound'
  <2>1. \A i, j \in DOMAIN queue' : queue'[i].url = queue'[j].url => i = j
    <3> SUFFICES ASSUME NEW i \in 1..Len(queue'), NEW j \in 1..Len(queue'),
                        queue'[i].url = queue'[j].url
                 PROVE  i = j
      BY <1>5
    <3>1. i + 1 \in 1..Len(queue) /\ j + 1 \in 1..Len(queue)
      BY <1>2
    <3>2. queue[i + 1].url = queue[j + 1].url
      BY <1>2
    <3>3. i + 1 = j + 1
      BY <3>1, <3>2, <1>4 DEF FrontierInv, FrontierSound
    <3> QED
      BY <3>3
  <2>2. QueuedUrls' \intersect visited' = {}
    BY <1>6, <1>8 DEF FrontierInv, FrontierSound
  <2>3. Len(queue') <= MaxQueue
    BY <1>2, CrawlAssumption DEF FrontierInv, FrontierSound
  <2> QED
    BY <2>1, <2>2, <2>3 DEF FrontierSound
<1>10. QueuedUrls' \intersect budget' = {}
  BY <1>6, <1>8
<1>11. RetryAtHead'
  BY <1>5, <1>10 DEF RetryAtHead
<1>12. budget' \subseteq visited' \union QueuedUrls'
  BY <1>1, <1>7, <1>8 DEF FrontierInv
<1> QED
  BY <1>8, <1>9, <1>10, <1>11, <1>12 DEF FrontierInv

LEMMA FrontierRequeue ==
  ASSUME TypeInv, FrontierInv, InFlight, RequeueFront, ~InFlight'
  PROVE  FrontierInv'
<1>1. /\ queue \in Seq(Item) /\ item \in Item
      /\ pc # "done" /\ item.url \in visited /\ item.url \in budget /\ item.url \notin QueuedUrls
      /\ budget \subseteq visited /\ QueuedUrls \intersect budget = {}
  BY DEF TypeInv, TypeOK, FrontierTypes, FrontierInv, InFlight, InPage, Rotating
<1>2. DOMAIN queue = 1..Len(queue) /\ Len(queue) \in Nat
      /\ \A u : u \in QueuedUrls <=> \E i \in 1..Len(queue) : queue[i].url = u
  BY <1>1, QueuedByPosition
<1>3. CASE Len(queue) >= MaxQueue
  <2>1. UNCHANGED <<queue, visited, budget>>
    BY <1>1, <1>3 DEF RequeueFront
  <2>2. QueuedUrls' = QueuedUrls
    BY <2>1 DEF QueuedUrls
  <2>3. FrontierSound' /\ RetryAtHead'
    BY <2>1, <2>2 DEF FrontierInv, FrontierSound, RetryAtHead
  <2> QED
    BY <1>1, <2>1, <2>2, <2>3 DEF FrontierInv
<1>4. CASE ~(Len(queue) >= MaxQueue)
  <2>1. /\ queue' = <<item>> \o queue
        /\ visited' = visited \ {item.url} /\ budget' = budget
    BY <1>1, <1>4 DEF RequeueFront
  <2>2. /\ queue' \in Seq(Item) /\ Len(queue') = Len(queue) + 1 /\ queue'[1] = item
        /\ \A i \in 2..(Len(queue) + 1) : queue'[i] = queue[i - 1]
    BY <1>1, <2>1, ConsFacts
  <2>3. /\ DOMAIN queue' = 1..Len(queue')
        /\ \A u : u \in QueuedUrls' <=> \E i \in 1..Len(queue') : queue'[i].url = u
    BY <2>2, LenProperties DEF QueuedUrls, UrlsOf
  <2>4. \A i \in 1..Len(queue') : i # 1 => /\ i - 1 \in 1..Len(queue)
                                           /\ queue'[i] = queue[i - 1]
                                           /\ queue'[i].url \in QueuedUrls
    BY <1>2, <2>2
  <2>5. \A u : u \in QueuedUrls' <=> u \in QueuedUrls \/ u = item.url
    <3>1. ASSUME NEW u \in QueuedUrls PROVE u \in QueuedUrls'
      <4>1. PICK i \in 1..Len(queue) : queue[i].url = u
        BY <1>2
      <4>2. i + 1 \in 1..Len(queue') /\ queue'[i + 1] = queue[i]
        BY <1>2, <2>2
      <4> QED
        BY <4>1, <4>2, <2>3
    <3>2. item.url \in QueuedUrls'
      BY <1>2, <2>2, <2>3
    <3>3. ASSUME NEW i \in 1..Len(queue') PROVE queue'[i].url \in QueuedUrls \/ queue'[i].url = item.url
      BY <2>2, <2>4
    <3> QED
      BY <2>3, <3>1, <3>2, <3>3
  <2>6. \A i, j \in DOMAIN queue' : queue'[i].url = queue'[j].url => i = j
    <3> SUFFICES ASSUME NEW i \in 1..Len(queue'), NEW j \in 1..Len(queue'),
                        queue'[i].url = queue'[j].url
                 PROVE  i = j
      BY <2>3
    <3>1. CASE i = 1 \/ j = 1
      BY <1>1, <2>2, <2>4, <3>1
    <3>2. CASE i # 1 /\ j # 1
      <4>1. /\ i - 1 \in 1..Len(queue) /\ j - 1 \in 1..Len(queue)
            /\ queue[i - 1].url = queue[j - 1].url
        BY <2>4, <3>2
      <4>2. i - 1 = j - 1
        BY <4>1, <1>2 DEF FrontierInv, FrontierSound
      <4> QED
        BY <4>2
    <3> QED
      BY <3>1, <3>2
  <2>7. QueuedUrls' \intersect visited' = {}
    BY <2>1, <2>5 DEF FrontierInv, FrontierSound
  <2>8. Len(queue') <= MaxQueue
    BY <1>2, <1>4, <2>2, CrawlAssumption
  <2>9. RetryAtHead'
    BY <1>1, <2>1, <2>3, <2>4 DEF RetryAtHead
  <2>10. budget' \subseteq visited' \union QueuedUrls'
    BY <1>1, <2>1, <2>5
  <2> QED
    BY <2>6, <2>7, <2>8, <2>9, <2>10 DEF FrontierInv, FrontierSound
<1> QED
  BY <1>3, <1>4

LEMMA FrontierEnqueue ==
  ASSUME TypeInv, FrontierInv, InFlight, InFlight' => item' = item,
         NEW links \in SUBSET Url, EnqueueLinks(links)
  PROVE  FrontierInv'
<1>1. /\ queue \in Seq(Item) /\ item \in Item /\ FrontierTypes
      /\ pc # "done" /\ item.url \in visited /\ item.url \in budget
      /\ budget \subseteq visited /\ QueuedUrls \intersect budget = {}
  BY DEF TypeInv, TypeOK, FrontierTypes, FrontierInv, InFlight, InPage, Rotating
<1>2. DOMAIN queue = 1..Len(queue) /\ Len(queue) \in Nat
      /\ \A u : u \in QueuedUrls <=> \E i \in 1..Len(queue) : queue[i].url = u
  BY <1>1, QueuedByPosition
<1>3. PICK n \in Nat : \E new \in [1..n -> Fresh(links)] :
        /\ \A i, j \in 1..n : new[i] = new[j] => i = j
        /\ Len(queue') = Len(queue) + n
        /\ n > 0 => Len(queue) + n <= MaxQueue
        /\ \A i \in 1..Len(queue) : queue'[i] = queue[i]
        /\ \A i \in 1..n : queue'[Len(queue) + i].url = new[i]
  BY <1>1, EnqueueFacts
<1>4. PICK new \in [1..n -> Fresh(links)] :
        /\ \A i, j \in 1..n : new[i] = new[j] => i = j
        /\ Len(queue') = Len(queue) + n
        /\ n > 0 => Len(queue) + n <= MaxQueue
        /\ \A i \in 1..Len(queue) : queue'[i] = queue[i]
        /\ \A i \in 1..n : queue'[Len(queue) + i].url = new[i]
  BY <1>3
<1>5. queue' \in Seq(Item) /\ UNCHANGED <<visited, budget>>
  BY <1>1, EnqueueFacts DEF FrontierTypes
<1>6. /\ DOMAIN queue' = 1..Len(queue')
      /\ \A u : u \in QueuedUrls' <=> \E i \in 1..Len(queue') : queue'[i].url = u
  BY <1>5, LenProperties DEF QueuedUrls, UrlsOf
<1>7. \A i \in 1..n : new[i] \notin visited /\ new[i] \notin QueuedUrls
  BY <1>4 DEF Fresh
\* Every position of the new queue is an old one or one of the new links.
<1>8. \A i \in 1..Len(queue') :
        \/ i \in 1..Len(queue) /\ queue'[i] = queue[i] /\ queue'[i].url \in QueuedUrls
        \/ /\ i - Len(queue) \in 1..n
           /\ queue'[i].url = new[i - Len(queue)]
  <2> SUFFICES ASSUME NEW i \in 1..Len(queue'), i > Len(queue)
               PROVE  i - Len(queue) \in 1..n /\ queue'[i].url = new[i - Len(queue)]
    BY <1>2, <1>4
  <2> DEFINE k == i - Len(queue)
  <2>1. k \in 1..n /\ Len(queue) + k = i
    BY <1>2, <1>4
  <2> QED
    BY <2>1, <1>4
<1>9. \A u \in QueuedUrls' : u \in QueuedUrls \/ u \notin visited
  BY <1>6, <1>7, <1>8
<1>10. \A u \in QueuedUrls : u \in QueuedUrls'
  <2> SUFFICES ASSUME NEW i \in 1..Len(queue) PROVE queue[i].url \in QueuedUrls'
    BY <1>2
  <2>1. i \in 1..Len(queue') /\ queue'[i] = queue[i]
    BY <1>2, <1>4
  <2> QED
    BY <2>1, <1>6
<1>11. FrontierSound'
  <2>1. \A i, j \in DOMAIN queue' : queue'[i].url = queue'[j].url => i = j
    <3> SUFFICES ASSUME NEW i \in 1..Len(queue'), NEW j \in 1..Len(queue'),
                        queue'[i].url = queue'[j].url
                 PROVE  i = j
      BY <1>6
    <3>1. CASE i \in 1..Len(queue) /\ j \in 1..Len(queue)
      BY <3>1, <1>2, <1>4 DEF FrontierInv, FrontierSound
    <3>2. CASE i - Len(queue) \in 1..n /\ j - Len(queue) \in 1..n
      <4>1. queue'[i].url = new[i - Len(queue)] /\ queue'[j].url = new[j - Len(queue)]
        BY <1>2, <1>8, <3>2
      <4>2. i - Len(queue) = j - Len(queue)
        BY <1>4, <3>2, <4>1
      <4> QED
        BY <4>2, <1>2
    <3> QED
      BY <1>7, <1>8, <3>1, <3>2
  <2>2. QueuedUrls' \intersect visited' = {}
    BY <1>5, <1>9 DEF FrontierInv, FrontierSound
  <2>3. Len(queue') <= MaxQueue
    BY <1>2, <1>4, CrawlAssumption DEF FrontierInv, FrontierSound
  <2> QED
    BY <2>1, <2>2, <2>3 DEF FrontierSound
<1>12. QueuedUrls' \intersect budget' = {}
  BY <1>1, <1>5, <1>9
<1>13. RetryAtHead'
  BY <1>6, <1>12 DEF RetryAtHead
<1> QED
  BY <1>1, <1>5, <1>11, <1>12, <1>13 DEF FrontierInv

LEMMA FrontierStep ==
  ASSUME TypeInv, FrontierInv, [Next]_vars
  PROVE  FrontierInv'
<1>1. CASE /\ UNCHANGED frontier /\ (InFlight' => InFlight /\ item' = item)
           /\ pc' # "done" => pc # "done"
  <2>1. QueuedUrls' = QueuedUrls
    BY <1>1 DEF QueuedUrls
  <2>2. FrontierSound' /\ RetryAtHead'
    BY <1>1, <2>1 DEF FrontierInv, FrontierSound, RetryAtHead
  <2> QED
    BY <1>1, <2>1, <2>2 DEF FrontierInv
<1>2. CASE DropQueue /\ pc' = "done"
  <2>1. queue' = <<>> /\ UNCHANGED <<visited, budget>> /\ DOMAIN queue' = {} /\ Len(queue') = 0
    BY <1>2, EmptySeq, LenProperties DEF DropQueue
  <2>2. QueuedUrls' = {}
    BY <2>1 DEF QueuedUrls, UrlsOf
  <2>3. FrontierSound' /\ RetryAtHead'
    BY <2>1, <2>2, CrawlAssumption DEF FrontierSound, RetryAtHead
  <2>4. ~InFlight'
    BY <1>2 DEF InFlight, InPage, Rotating
  <2> QED
    BY <1>2, <2>3, <2>4 DEF FrontierInv
<1>3. CASE TakePage
  BY <1>3, FrontierTake
<1>4. CASE InFlight /\ RequeueFront /\ ~InFlight'
  BY <1>4, FrontierRequeue
<1>5. CASE /\ InFlight /\ (InFlight' => item' = item)
           /\ \E links \in SUBSET Url : EnqueueLinks(links)
  <2>1. PICK links \in SUBSET Url : EnqueueLinks(links)
    BY <1>5
  <2> QED
    BY <1>5, <2>1, FrontierEnqueue
<1> QED
  BY <1>1, <1>2, <1>3, <1>4, <1>5, FrontierMoves

LEMMA FrontierInit ==
  ASSUME Init
  PROVE  FrontierInv
<1>1. /\ Len(Seeds) \in Nat /\ DOMAIN queue = 1..Len(Seeds)
      /\ \A i \in 1..Len(Seeds) : queue[i].url = Seeds[i]
  BY CrawlAssumption DEF Init
<1>2. queue \in Seq(Item)
  BY TypeInit DEF TypeInv, TypeOK, FrontierTypes
<1>3. Len(queue) = Len(Seeds)
  BY <1>1, <1>2, LenProperties
<1>4. FrontierSound
  BY <1>1, <1>3, CrawlAssumption DEF Init, FrontierSound
<1> QED
  BY <1>4 DEF Init, FrontierInv, RetryAtHead, InFlight, InPage, Rotating

LEMMA FrontierAlways == Spec => []FrontierInv
<1>1. TypeInv /\ FrontierInv /\ [Next]_vars => FrontierInv'
  BY FrontierStep
<1> QED
  BY <1>1, FrontierInit, TypeCorrect, PTL DEF Spec

\* The frontier never offers a page twice, for any number of pages: queued
\* URLs are distinct, none is visited, and _MAX_QUEUE holds.
THEOREM FrontierIsSound == Spec => []FrontierSound
<1>1. FrontierInv => FrontierSound
  BY DEF FrontierInv
<1> QED
  BY <1>1, FrontierAlways, PTL

\* A page that must be tried again is never overtaken by a page that has not
\* been started.
THEOREM RetriesComeFirst == Spec => []RetryAtHead
<1>1. FrontierInv => RetryAtHead
  BY DEF FrontierInv
<1> QED
  BY <1>1, FrontierAlways, PTL

\* A URL that was ever queued is queued, visited or counted as dropped from
\* then on.
LEMMA KnownGrows ==
  ASSUME TypeInv, FrontierInv, [Next]_vars
  PROVE  QueuedUrls \union visited \union dropped
           \subseteq (QueuedUrls \union visited \union dropped)'
<1> DEFINE Known == QueuedUrls \union visited \union dropped
<1>0. queue \in Seq(Item)
  BY DEF TypeInv, TypeOK, FrontierTypes
<1>1. CASE UNCHANGED frontier
  BY <1>1 DEF QueuedUrls
<1>2. CASE DropQueue
  BY <1>2 DEF DropQueue
<1>3. CASE TakePage
  <2>1. visited' = visited \union {queue[1].url} /\ dropped' = dropped
        /\ queue # <<>> /\ queue' = Tail(queue)
    BY <1>0, <1>3 DEF TakePage
  <2>2. \A i \in 1..Len(queue) : i # 1 => queue[i].url \in QueuedUrls'
    <3> SUFFICES ASSUME NEW i \in 1..Len(queue), i # 1 PROVE queue[i].url \in QueuedUrls'
      OBVIOUS
    <3>1. /\ queue' \in Seq(Item) /\ DOMAIN queue' = 1..Len(queue')
          /\ i - 1 \in 1..Len(queue') /\ queue'[i - 1] = queue[i]
      BY <1>0, <2>1, HeadTailProperties, LenProperties
    <3> QED
      BY <3>1 DEF QueuedUrls, UrlsOf
  <2> QED
    BY <1>0, <2>1, <2>2, QueuedByPosition
<1>4. CASE InFlight /\ RequeueFront
  <2>1. CASE UNCHANGED <<queue, visited>>
    BY <1>4, <2>1 DEF RequeueFront, QueuedUrls
  <2>2. CASE queue' = <<item>> \o queue /\ visited' = visited \ {item.url} /\ UNCHANGED dropped
    <3>1. item \in Item
      BY <1>4 DEF TypeInv
    <3>2. /\ queue' \in Seq(Item) /\ Len(queue') = Len(queue) + 1 /\ queue'[1] = item
          /\ \A i \in 2..(Len(queue) + 1) : queue'[i] = queue[i - 1]
          /\ Len(queue) \in Nat
      BY <1>0, <2>2, <3>1, ConsFacts
    <3>3. DOMAIN queue' = 1..Len(queue')
      BY <3>2, LenProperties
    <3>4. item.url \in QueuedUrls'
      BY <3>2, <3>3 DEF QueuedUrls, UrlsOf
    <3>5. \A i \in 1..Len(queue) : queue[i].url \in QueuedUrls'
      <4> SUFFICES ASSUME NEW i \in 1..Len(queue) PROVE queue[i].url \in QueuedUrls'
        OBVIOUS
      <4>1. i + 1 \in DOMAIN queue' /\ queue'[i + 1] = queue[i]
        BY <3>2, <3>3
      <4> QED
        BY <4>1 DEF QueuedUrls, UrlsOf
    <3> QED
      BY <1>0, <2>2, <3>4, <3>5, QueuedByPosition
  <2> QED
    BY <1>4, <2>1, <2>2 DEF RequeueFront
<1>5. CASE InFlight /\ \E links \in SUBSET Url : EnqueueLinks(links)
  <2>1. PICK links \in SUBSET Url : EnqueueLinks(links)
    BY <1>5
  <2>2. item \in Item /\ FrontierTypes
    BY <1>5 DEF TypeInv, TypeOK
  <2>3. PICK n \in Nat : /\ Len(queue') = Len(queue) + n
                         /\ \A i \in 1..Len(queue) : queue'[i] = queue[i]
    BY <2>1, <2>2, EnqueueFacts
  <2>4. queue' \in Seq(Item) /\ UNCHANGED visited
    BY <2>1, <2>2, EnqueueFacts DEF FrontierTypes
  <2>5. Len(queue) \in Nat /\ DOMAIN queue' = 1..Len(queue')
    BY <1>0, <2>4, LenProperties
  <2>6. \A i \in 1..Len(queue) : i \in DOMAIN queue' /\ queue'[i].url = queue[i].url
    BY <2>3, <2>5
  <2>7. \A u \in QueuedUrls : u \in QueuedUrls'
    BY <1>0, <2>6, QueuedByPosition DEF QueuedUrls, UrlsOf
  <2>8. dropped \subseteq dropped'
    BY <2>1 DEF EnqueueLinks
  <2> QED
    BY <2>4, <2>7, <2>8
<1> QED
  BY <1>1, <1>2, <1>3, <1>4, <1>5, FrontierMoves

\* No URL is forgotten, whatever happens to the page that was being fetched.
THEOREM NoUrlIsForgotten == Spec => NoUrlForgotten
<1>1. TypeInv /\ FrontierInv /\ [Next]_vars
        => [QueuedUrls \union visited \union dropped
              \subseteq (QueuedUrls \union visited \union dropped)']_vars
  BY KnownGrows
<1> QED
  BY <1>1, TypeCorrect, FrontierAlways, PTL DEF Spec, NoUrlForgotten

-----------------------------------------------------------------------------
(* The page budget. *)

\* A started page stays started.
LEMMA BudgetGrows ==
  ASSUME TypeInv, [Next]_vars
  PROVE  budget \subseteq budget' /\ (TakePage \/ UNCHANGED budget)
<1>1. (\E links \in SUBSET Url : EnqueueLinks(links)) => UNCHANGED budget
  BY DEF EnqueueLinks
<1> QED
  BY <1>1, FrontierMoves DEF DropQueue, RequeueFront, TakePage

LEMMA PageBudgetStep ==
  ASSUME TypeInv, PageBudget, TakePage
  PROVE  PageBudget'
<1>1. IsFiniteSet(budget) /\ Cardinality(budget) \in Nat
  BY CrawlAssumption, FS_Subset, FS_CardinalityType DEF TypeInv, TypeOK, FrontierTypes
<1>2. budget' = budget \union {Head(queue).url}
  BY DEF TakePage
<1>3. CASE Head(queue).url \in budget
  <2>1. budget' = budget
    BY <1>2, <1>3
  <2> QED
    BY <2>1 DEF PageBudget
<1>4. CASE Head(queue).url \notin budget
  <2>1. Cardinality(budget) < MaxPages
    BY <1>1, <1>4, CrawlAssumption DEF TakePage, OverBudget
  <2>2. Cardinality(budget') = Cardinality(budget) + 1
    BY <1>1, <1>2, <1>4, FS_AddElement
  <2> QED
    BY <1>1, <2>1, <2>2, CrawlAssumption DEF PageBudget
<1> QED
  BY <1>3, <1>4

\* pages_fetched never exceeds maxPages: a retry is not charged again because
\* its URL is already counted, and a new page is only started below the limit.
THEOREM PagesWithinBudget == Spec => []PageBudget
<1>1. Init => PageBudget
  BY FS_EmptySet, CrawlAssumption DEF Init, PageBudget
<1>2. TypeInv /\ PageBudget /\ [Next]_vars => PageBudget'
  BY BudgetGrows, PageBudgetStep DEF PageBudget
<1> QED
  BY <1>1, <1>2, TypeCorrect, PTL DEF Spec

-----------------------------------------------------------------------------
(* A finished job.  No transition leaves a terminal state, and a worker that  *)
(* is still in a page of a terminal job has been cancelled, so it will record *)
(* nothing more.                                                              *)

TerminalInv ==
  /\ state \in Terminal => killed \/ ~InFlight
  /\ killed => state \in Terminal

\* Steps of a job in a terminal state.
LEMMA TerminalStep ==
  ASSUME TypeInv, GateInv, TerminalInv, [Next]_vars
  PROVE  /\ TerminalInv'
         /\ state \in Terminal => UNCHANGED state /\ UNCHANGED ledger
<1> USE DEF TerminalInv, InFlight, InPage, Rotating, To, Transition, Allowed, Terminal,
            GoTo, EndPage, Exit, At
<1>1. /\ state \in States /\ pc \in PCs /\ killed \in BOOLEAN
      /\ (gate = "worker") <=> (pc \in Rotating)
  BY DEF TypeInv, TypeOK, JobTypes, WorkerTypes, GateInv, GateMatchesRotation
<1>2. States = {"queued", "running", "backing_off", "paused", "rotating",
                "completed", "failed", "cancelled"}
  BY StatesAre
<1>3. CASE Loop
  BY <1>1, <1>2, <1>3 DEF Loop, LoopCancelled, LoopExpired, StopWaiting, Deciding, Runnable,
       Woken, Park, Doze, PageLimit, Drained, TakePage
<1>4. CASE Rotation
  BY <1>1, <1>2, <1>4 DEF Rotation, RotationStopped, RotationStopRefused, RotationStarted,
       RotationStartFailed, RotationUndone
<1>5. CASE Page
  <2>1. CASE GateRecovers \/ ProbeDead
    BY <1>1, <1>2, <2>1 DEF GateRecovers, ProbeDead, Recover, RecoverySpent, RecoveryRefused,
         RecoveryBegins, BeginRotation, RotationRefused
  <2>2. CASE Captcha
    BY <1>1, <1>2, <2>2 DEF Captcha
  <2>3. CASE RateLimited
    BY <1>1, <1>2, <2>3 DEF RateLimited
  <2>4. CASE Extracted
    BY <1>1, <1>2, <2>4 DEF Extracted, BeginRotation, RotationRefused
  <2>5. CASE GateOpens \/ GateFails \/ ToolSucceeds \/ ToolSuspectsEngine \/ ToolBlamesPage
             \/ ToolRaises \/ ProbeAlive
    BY <1>1, <1>2, <2>5 DEF GateOpens, GateFails, ToolSucceeds, ToolSuspectsEngine,
         ToolBlamesPage, ToolRaises, ProbeAlive, ToolCall
  <2> QED
    BY <1>5, <2>1, <2>2, <2>3, <2>4, <2>5 DEF Page
<1>6. CASE WorkerCancelled
  BY <1>1, <1>2, <1>6 DEF WorkerCancelled
<1>7. CASE Client
  <2>1. CASE Pause \/ Resume
    BY <1>1, <1>2, <2>1 DEF Pause, Resume, SetResume
  <2>5. CASE CancelJob /\ state \notin Terminal /\ (pc = "done" => pc' = "done")
    <3>1. state' = Transition(state, "cancelled") /\ killed' = (pc # "done")
      BY <2>5, Zenon DEF CancelJob, To
    <3>2. state' = "cancelled"
      BY <1>1, <1>2, <2>5, <3>1
    <3>3. CASE pc = "done"
      BY <2>5, <3>2, <3>3
    <3>4. CASE pc # "done"
      <4>1. killed'
        BY <3>1, <3>4, Zenon
      <4> QED
        BY <2>5, <3>2, <4>1
    <3> QED
      BY <3>3, <3>4
  <2>2. CASE StopCalled
    BY <1>1, <1>2, <2>2, <2>5 DEF StopCalled, SetResume
  <2>3. CASE StopGetsGate
    BY <1>1, <1>2, <2>3, <2>5 DEF StopGetsGate
  <2>4. CASE StopTimesOut \/ StopReturns
    BY <1>1, <1>2, <2>4 DEF StopTimesOut, StopReturns
  <2> QED
    BY <1>7, <2>1, <2>2, <2>3, <2>4 DEF Client, Stopper
<1>8. CASE Environment
  BY <1>1, <1>8 DEF Environment, PageTimeout, BackoffExpires, DurationElapses, EngineDies,
       UserStopsBrowser, UserStartsBrowser, ToolCall
<1>9. CASE UNCHANGED vars
  BY <1>1, <1>9 DEF vars
<1> QED
  BY <1>3, <1>4, <1>5, <1>6, <1>7, <1>8, <1>9 DEF Next, Worker

\* A finished job never changes its state or its results again, whatever the
\* worker was doing when the job was stopped.
THEOREM FinishedJobsAreFrozen == Spec => FinishedIsFrozen
<1>1. Init => TerminalInv
  BY DEF Init, TerminalInv, Terminal
<1>2. TypeInv /\ GateInv /\ TerminalInv /\ [Next]_vars => TerminalInv'
  BY TerminalStep
<1>3. TypeInv /\ GateInv /\ TerminalInv /\ [Next]_vars
        => [(state \in Terminal) => (UNCHANGED state /\ UNCHANGED ledger)]_vars
  BY TerminalStep
<1> QED
  BY <1>1, <1>2, <1>3, TypeCorrect, GateAlways, PTL DEF Spec, FinishedIsFrozen

-----------------------------------------------------------------------------
(* Rotation of the identity.  Only a page that was started has retries, and   *)
(* when a rotation starts no such page is queued.                             *)

RetriesInv == \A u \in Url : u \notin budget => backoffs[u] = 0 /\ challenges[u] = 0

LEMMA RetriesStep ==
  ASSUME TypeInv, FrontierInv, RetriesInv, [Next]_vars
  PROVE  RetriesInv'
<1>1. budget \subseteq budget'
  BY BudgetGrows
<1>2. backoffs \in [Url -> Nat] /\ challenges \in [Url -> Nat]
  BY DEF TypeInv, TypeOK, LedgerTypes
<1>3. CASE UNCHANGED budgets
  BY <1>1, <1>3 DEF RetriesInv
<1>4. CASE Captcha \/ RateLimited
  <2>1. item.url \in budget
    BY <1>4 DEF FrontierInv, InFlight, InPage, Captcha, RateLimited, At
  <2>2. \A u \in Url : u # item.url =>
          backoffs'[u] = backoffs[u] /\ challenges'[u] = challenges[u]
    BY <1>2, <1>4 DEF Captcha, RateLimited
  <2> QED
    BY <1>1, <2>1, <2>2 DEF RetriesInv
<1>5. UNCHANGED budgets \/ Captcha \/ RateLimited
  <2>1. CASE Loop
    BY <2>1 DEF Loop, LoopCancelled, LoopExpired, StopWaiting, Park, Doze, PageLimit, Drained,
         TakePage
  <2>2. CASE Rotation
    BY <2>2 DEF Rotation, RotationStopped, RotationStopRefused, RotationStarted,
         RotationStartFailed, RotationUndone
  <2>3. CASE Page
    BY <2>3 DEF Page, GateOpens, GateFails, GateRecovers, ToolSucceeds, ToolSuspectsEngine,
         ToolBlamesPage, ToolRaises, Extracted, ProbeAlive, ProbeDead
  <2>4. CASE WorkerCancelled \/ Client
    BY <2>4 DEF WorkerCancelled, Client, Stopper, Pause, Resume, StopCalled, StopGetsGate,
         StopTimesOut, StopReturns
  <2>5. CASE Environment \/ UNCHANGED vars
    BY <2>5 DEF Environment, PageTimeout, BackoffExpires, DurationElapses, EngineDies,
         UserStopsBrowser, UserStartsBrowser, vars
  <2> QED
    BY <2>1, <2>2, <2>3, <2>4, <2>5 DEF Next, Worker
<1> QED
  BY <1>3, <1>4, <1>5

LEMMA RotationStep ==
  ASSUME TypeInv, TypeInv', FrontierInv', RetriesInv, [Next]_vars, pc' = "rot_stop"
  PROVE  \A u \in UrlsOf(queue') : backoffs[u] = 0 /\ challenges[u] = 0
<1>1. UrlsOf(queue') \in SUBSET Url
  BY QueuedType DEF TypeInv, TypeOK, FrontierTypes
<1>2. UrlsOf(queue') \intersect budget' = {}
  BY DEF FrontierInv, InFlight, Rotating, QueuedUrls
<1> QED
  BY <1>1, <1>2, BudgetGrows DEF RetriesInv

\* A rotation that is not a recovery starts only when no queued page still
\* waits for a rate limit or a challenge to clear.
THEOREM RotationsNeverEvade == Spec => RotationNeverEvades
<1>1. Init => RetriesInv
  BY DEF Init, RetriesInv
<1>2. TypeInv /\ FrontierInv /\ RetriesInv /\ [Next]_vars => RetriesInv'
  BY RetriesStep
<1>3. TypeInv /\ TypeInv' /\ FrontierInv' /\ RetriesInv /\ [Next]_vars
        => [(pc # "rot_stop" /\ pc' = "rot_stop" /\ why' = "rotation")
              => \A u \in UrlsOf(queue') : backoffs[u] = 0 /\ challenges[u] = 0]_vars
  BY RotationStep
<1> QED
  BY <1>1, <1>2, <1>3, TypeCorrect, FrontierAlways, PTL DEF Spec, RotationNeverEvades

-----------------------------------------------------------------------------
(* Accounting.  A visited page that has no answer yet is the page in flight;  *)
(* a page whose result was recorded before a rotation began has one.          *)

Answered(u) == succeeded[u] + failed[u] > 0

\* The job is over, or is being stopped.
Ending == killed \/ cancelRequested \/ state \in Terminal \/ pc = "done"

Unanswered(u) == InFlight /\ u = item.url /\ ~(pc \in Rotating /\ why = "rotation")

\* A page in flight can be requeued as long as it has no answer: only its own
\* links could have filled the queue, and they come with its result.
AccountInv ==
  /\ Ending \/ \A u \in visited : Answered(u) \/ Unanswered(u)
  /\ InFlight => Answered(item.url) \/ Len(queue) < MaxQueue
  /\ pc = "rot_undo" => cancelRequested

\* The ledger is only written for the page in flight.
LEMMA LedgerMoves ==
  ASSUME TypeInv, [Next]_vars
  PROVE  UNCHANGED ledger \/ (InFlight /\ (RecordFailed \/ RecordSuccess))
<1> USE DEF InFlight, InPage, At
<1>1. CASE Loop \/ WorkerCancelled
  BY <1>1 DEF Loop, LoopCancelled, LoopExpired, StopWaiting, Park, Doze, PageLimit, Drained,
       TakePage, WorkerCancelled
<1>2. CASE Rotation
  BY <1>2 DEF Rotation, RotationStopped, RotationStopRefused, RotationStarted,
       RotationStartFailed, RotationUndone
<1>3. CASE Page
  <2>1. CASE GateRecovers \/ ProbeDead
    BY <2>1 DEF GateRecovers, ProbeDead, Recover, RecoverySpent, RecoveryRefused, RecoveryBegins
  <2>2. CASE Captcha \/ RateLimited \/ Extracted
    BY <2>2 DEF Captcha, RateLimited, Extracted
  <2>3. CASE GateOpens \/ GateFails \/ ToolSucceeds \/ ToolSuspectsEngine \/ ToolBlamesPage
             \/ ToolRaises \/ ProbeAlive
    BY <2>3 DEF GateOpens, GateFails, ToolSucceeds, ToolSuspectsEngine, ToolBlamesPage,
         ToolRaises, ProbeAlive, ToolCall
  <2> QED
    BY <1>3, <2>1, <2>2, <2>3 DEF Page
<1>4. CASE Client
  BY <1>4 DEF Client, Stopper, Pause, Resume, StopCalled, StopGetsGate, StopTimesOut, StopReturns
<1>5. CASE Environment \/ UNCHANGED vars
  BY <1>5 DEF Environment, PageTimeout, BackoffExpires, DurationElapses, EngineDies,
       UserStopsBrowser, UserStartsBrowser, vars
<1> QED
  BY <1>1, <1>2, <1>3, <1>4, <1>5 DEF Next, Worker

\* Recording a page answers it and takes no other answer back.
LEMMA RecordAnswers ==
  ASSUME TypeInv, item.url \in Url, RecordFailed \/ RecordSuccess
  PROVE  \A u \in Url : Answered(u) \/ u = item.url => Answered(u)'
<1>1. succeeded \in [Url -> Nat] /\ failed \in [Url -> Nat]
  BY DEF TypeInv, TypeOK, LedgerTypes
<1>2. CASE RecordFailed
  <2>1. succeeded' = succeeded /\ failed' = [failed EXCEPT ![item.url] = @ + 1]
    BY <1>2 DEF RecordFailed
  <2>2. \A u \in Url : failed'[u] >= failed[u] /\ failed'[u] \in Nat
    BY <1>1, <2>1
  <2>3. failed'[item.url] > 0
    BY <1>1, <2>1
  <2> QED
    BY <1>1, <2>1, <2>2, <2>3 DEF Answered
<1>3. CASE RecordSuccess
  <2>1. failed' = failed /\ succeeded' = [succeeded EXCEPT ![item.url] = @ + 1]
    BY <1>3 DEF RecordSuccess
  <2>2. \A u \in Url : succeeded'[u] >= succeeded[u] /\ succeeded'[u] \in Nat
    BY <1>1, <2>1
  <2>3. succeeded'[item.url] > 0
    BY <1>1, <2>1
  <2> QED
    BY <1>1, <2>1, <2>2, <2>3 DEF Answered
<1> QED
  BY <1>2, <1>3

LEMMA AnswersStay ==
  ASSUME TypeInv, [Next]_vars
  PROVE  \A u \in Url : Answered(u) => Answered(u)'
<1>1. InFlight => item.url \in Url
  BY DEF TypeInv, Item
<1>2. UNCHANGED ledger => \A u : Answered(u) => Answered(u)'
  BY DEF Answered
<1> QED
  BY <1>1, <1>2, LedgerMoves, RecordAnswers

\* An unanswered page can always be requeued, and is then unvisited again.
LEMMA RequeueAccounts ==
  ASSUME TypeInv, FrontierInv, AccountInv, InFlight, RequeueFront, UNCHANGED ledger
  PROVE  /\ visited' \subseteq visited
         /\ \A u \in visited' : Answered(u) \/ u = item.url => Answered(u)'
<1>1. item.url \in visited /\ item.url \notin QueuedUrls
  BY DEF FrontierInv, FrontierSound
<1>2. \A u : Answered(u) => Answered(u)'
  BY DEF Answered
<1>3. CASE Len(queue) >= MaxQueue
  <2>1. Answered(item.url)
    <3>1. Len(queue) \in Nat /\ MaxQueue \in Nat
      BY CrawlAssumption DEF TypeInv, TypeOK, FrontierTypes
    <3> QED
      BY <3>1, <1>3 DEF AccountInv
  <2> QED
    BY <1>1, <1>2, <1>3, <2>1 DEF RequeueFront
<1>4. CASE ~(Len(queue) >= MaxQueue)
  BY <1>1, <1>2, <1>4 DEF RequeueFront
<1> QED
  BY <1>3, <1>4

LEMMA EndingStays ==
  ASSUME TypeInv, GateInv, TerminalInv, [Next]_vars, Ending
  PROVE  Ending'
<1>1. CASE state \in Terminal
  BY <1>1, TerminalStep DEF Ending
<1>2. CASE pc = "done"
  BY <1>2, FrontierMoves DEF Ending, InFlight, InPage, Rotating, TakePage, Runnable, Deciding, At
<1>3. CASE cancelRequested \/ killed
  <2>1. CASE Loop \/ WorkerCancelled
    BY <1>3, <2>1 DEF Ending, Loop, LoopCancelled, LoopExpired, StopWaiting, Park, Doze,
         PageLimit, Drained, TakePage, WorkerCancelled
  <2>2. CASE Rotation
    BY <1>3, <2>2 DEF Ending, Rotation, RotationStopped, RotationStopRefused, RotationStarted,
         RotationStartFailed, RotationUndone
  <2>3. CASE Page
    BY <1>3, <2>3 DEF Ending, Page, GateOpens, GateFails, GateRecovers, ToolSucceeds,
         ToolSuspectsEngine, ToolBlamesPage, ToolRaises, Captcha, RateLimited, Extracted,
         ProbeAlive, ProbeDead
  <2>4. CASE Client
    BY <1>2, <1>3, <2>4 DEF Ending, Client, Stopper, Pause, Resume, SetResume, StopCalled,
         StopGetsGate, StopTimesOut, StopReturns, CancelJob
  <2>5. CASE Environment \/ UNCHANGED vars
    BY <1>3, <2>5 DEF Ending, Environment, PageTimeout, BackoffExpires, DurationElapses,
         EngineDies, UserStopsBrowser, UserStartsBrowser, vars
  <2> QED
    BY <2>1, <2>2, <2>3, <2>4, <2>5 DEF Next, Worker
<1> QED
  BY <1>1, <1>2, <1>3 DEF Ending

LEMMA AccountStep ==
  ASSUME TypeInv, GateInv, FrontierInv, TerminalInv, AccountInv, [Next]_vars
  PROVE  AccountInv'
<1> DEFINE Accounted == \A u \in visited : Answered(u) \/ Unanswered(u)
<1>1. Ending => Ending'
  BY EndingStays
<1>4. InFlight' => Answered(item.url)' \/ (Len(queue) < MaxQueue)'
  <2> SUFFICES ASSUME InFlight' PROVE Answered(item.url)' \/ (Len(queue) < MaxQueue)'
    OBVIOUS
  <2>1. InFlight => item.url \in Url
    BY DEF TypeInv, Item
  <2>2. CASE UNCHANGED frontier /\ InFlight /\ item' = item
    <3>1. Answered(item.url) => Answered(item.url)'
      BY <2>1, <2>2, AnswersStay DEF Answered
    <3> QED
      BY <2>2, <3>1 DEF AccountInv
  <2>3. CASE TakePage
    <3>1. queue \in Seq(Item) /\ queue # <<>> /\ queue' = Tail(queue)
      BY <2>3 DEF TakePage, TypeInv, TypeOK, FrontierTypes
    <3>2. Len(queue') = Len(queue) - 1 /\ Len(queue) \in Nat
      BY <3>1, HeadTailProperties
    <3> QED
      BY <3>2, CrawlAssumption DEF FrontierInv, FrontierSound
  <2>4. CASE InFlight /\ RecordSuccess /\ item' = item
    <3>1. \A u : u = item.url => Answered(u)'
      BY <2>1, <2>4, RecordAnswers
    <3> QED
      BY <2>4, <3>1 DEF Answered
  <2> QED
    BY <2>2, <2>3, <2>4, FrontierMoves DEF InFlight, InPage, Rotating
<1>2. pc' = "rot_undo" => cancelRequested'
  <2> USE DEF AccountInv, At, GoTo, EndPage, Exit
  <2>1. CASE Loop \/ WorkerCancelled
    BY <2>1 DEF Loop, LoopCancelled, LoopExpired, StopWaiting, Park, Doze, PageLimit, Drained,
         TakePage, WorkerCancelled
  <2>2. CASE Rotation
    BY <2>2 DEF Rotation, RotationStopped, RotationStopRefused, RotationStarted,
         RotationStartFailed, RotationUndone
  <2>3. CASE Page
    BY <2>3 DEF Page, GateOpens, GateFails, GateRecovers, ToolSucceeds, ToolSuspectsEngine,
         ToolBlamesPage, ToolRaises, Captcha, RateLimited, Extracted, ProbeAlive, ProbeDead,
         Recover, RecoverySpent, RecoveryRefused, RecoveryBegins, BeginRotation
  <2>4. CASE Client
    BY <2>4 DEF Client, Stopper, Pause, Resume, SetResume, StopCalled, StopGetsGate,
         StopTimesOut, StopReturns
  <2>5. CASE Environment \/ UNCHANGED vars
    BY <2>5 DEF Environment, PageTimeout, BackoffExpires, DurationElapses, EngineDies,
         UserStopsBrowser, UserStartsBrowser, vars
  <2> QED
    BY <2>1, <2>2, <2>3, <2>4, <2>5 DEF Next, Worker
<1>3. ASSUME ~Ending, ~Ending'
      PROVE  Accounted'
  <2> USE DEF InFlight, InPage, Rotating, At, GoTo, EndPage, Exit
  <2>1. Accounted
    BY <1>3 DEF AccountInv
  <2>2. /\ visited \in SUBSET Url
        /\ why \in {"rotation", "recovery"} /\ ~cancelRequested
        /\ InFlight => item.url \in Url /\ item.url \in visited
        /\ pc \in Rotating => state = "rotating"
    BY <1>3 DEF TypeInv, TypeOK, FrontierTypes, WorkerTypes, Item, Ending, FrontierInv, GateInv,
         GateMatchesRotation
  <2>3. \A s \in {"rotating"} : Transition(s, "failed") \in Terminal
    BY DEF Transition, Allowed, Terminal
  \* The three ways in which a page is accounted for.
  <2>4. ASSUME UNCHANGED <<visited, ledger>>,
               \A u : Unanswered(u) => Unanswered(u)'
        PROVE  Accounted'
    BY <2>1, <2>4 DEF Answered
  <2>5. ASSUME InFlight, RecordFailed \/ RecordSuccess, UNCHANGED visited
        PROVE  Accounted'
    BY <2>1, <2>2, <2>5, RecordAnswers DEF Unanswered
  <2>6. ASSUME InFlight, RequeueFront, UNCHANGED ledger
        PROVE  Accounted'
    BY <2>1, <2>6, RequeueAccounts DEF Unanswered
  <2>7. CASE Loop
    <3>1. CASE TakePage
      <4>1. visited' = visited \union {item'.url} /\ UNCHANGED ledger
            /\ pc' = "gate" /\ ~InFlight
        BY <3>1 DEF TakePage, Runnable, Deciding
      <4>2. (\A u : u = item'.url => Unanswered(u)') /\ \A u : Answered(u) => Answered(u)'
        BY <4>1 DEF Unanswered, Answered
      <4> QED
        BY <2>1, <4>1, <4>2 DEF Unanswered
    <3>2. CASE Park \/ Doze
      BY <2>4, <3>2 DEF Park, Doze, Deciding, Unanswered
    <3> QED
      BY <1>3, <2>7, <3>1, <3>2 DEF Loop, LoopCancelled, LoopExpired, StopWaiting, PageLimit,
           Drained, Ending
  <2>8. CASE Rotation
    <3>1. CASE RotationStopped
      BY <2>2, <2>4, <3>1 DEF RotationStopped, Unanswered
    <3>2. CASE RotationStarted /\ why = "rotation"
      BY <2>2, <2>4, <3>2 DEF RotationStarted, Unanswered
    <3>3. CASE RotationStarted /\ why = "recovery"
      BY <2>2, <2>6, <3>3 DEF RotationStarted
    <3>4. CASE RotationStopRefused \/ RotationStartFailed
      BY <1>3, <2>2, <2>3, <3>4 DEF RotationStopRefused, RotationStartFailed, To, Ending
    <3>5. CASE RotationUndone
      BY <2>2, <3>5 DEF RotationUndone, AccountInv
    <3> QED
      BY <2>2, <2>8, <3>1, <3>2, <3>3, <3>4, <3>5 DEF Rotation
  <2>9. CASE Page
    <3>1. CASE GateRecovers \/ ProbeDead
      <4>1. CASE RecoverySpent
        BY <2>5, <3>1, <4>1 DEF GateRecovers, ProbeDead, RecoverySpent
      <4>2. CASE RecoveryRefused
        BY <2>2, <2>6, <3>1, <4>2 DEF GateRecovers, ProbeDead, RecoveryRefused
      <4>3. CASE RecoveryBegins
        BY <2>4, <3>1, <4>3 DEF GateRecovers, ProbeDead, RecoveryBegins, BeginRotation, Unanswered
      <4> QED
        BY <2>2, <3>1, <4>1, <4>2, <4>3 DEF GateRecovers, ProbeDead, Recover
    <3>2. CASE Captcha
      BY <2>5, <2>6, <3>2 DEF Captcha
    <3>3. CASE RateLimited
      BY <2>5, <2>6, <3>3 DEF RateLimited
    <3>4. CASE Extracted
      BY <2>5, <3>4 DEF Extracted, EnqueueLinks
    <3>5. CASE GateFails \/ ToolBlamesPage \/ ProbeAlive
      BY <2>5, <3>5 DEF GateFails, ToolBlamesPage, ProbeAlive, ToolCall
    <3>6. CASE GateOpens \/ ToolSucceeds \/ ToolSuspectsEngine
      BY <2>4, <3>6 DEF GateOpens, ToolSucceeds, ToolSuspectsEngine, ToolCall, Unanswered
    <3>7. CASE ToolRaises
      BY <1>3, <3>7 DEF ToolRaises, Ending
    <3> QED
      BY <2>9, <3>1, <3>2, <3>3, <3>4, <3>5, <3>6, <3>7 DEF Page
  <2>10. CASE WorkerCancelled
    BY <1>3, <2>10 DEF WorkerCancelled, Ending
  <2>11. CASE Client
    BY <2>4, <2>11 DEF Client, Stopper, Pause, Resume, SetResume, StopCalled, StopGetsGate,
         StopTimesOut, StopReturns, Unanswered
  <2>12. CASE Environment
    BY <2>4, <2>12 DEF Environment, PageTimeout, BackoffExpires, DurationElapses, EngineDies,
         UserStopsBrowser, UserStartsBrowser, Unanswered, ToolCall
  <2>13. CASE UNCHANGED vars
    BY <2>4, <2>13 DEF vars, Unanswered
  <2> QED
    BY <2>7, <2>8, <2>9, <2>10, <2>11, <2>12, <2>13 DEF Next, Worker
<1> QED
  BY <1>1, <1>2, <1>3, <1>4 DEF AccountInv

\* Between pages, every visited URL of a live job has a result: no page is
\* lost by a retry, a recovery or a rotation.  A retry always finds room, since
\* only the links of a page that was answered can fill the queue.
THEOREM NoPageIsLost == Spec => []PagesAccountedFor
<1>1. Init => AccountInv /\ TerminalInv
  BY DEF Init, AccountInv, TerminalInv, Terminal, InFlight, InPage, Rotating
<1>2. TypeInv /\ GateInv /\ TerminalInv /\ [Next]_vars => TerminalInv'
  BY TerminalStep
<1>3. TypeInv /\ GateInv /\ FrontierInv /\ TerminalInv /\ AccountInv /\ [Next]_vars => AccountInv'
  BY AccountStep
<1>4. TypeInv /\ GateInv /\ FrontierInv /\ TerminalInv /\ AccountInv => PagesAccountedFor
  <2>1. SUFFICES ASSUME AccountInv, TerminalInv, pc \in {"loop", "parked", "recheck"},
                        state \notin Terminal, ~cancelRequested,
                        NEW u \in visited
                 PROVE  succeeded[u] + failed[u] > 0
    BY DEF PagesAccountedFor
  <2> QED
    BY <2>1 DEF AccountInv, TerminalInv, Ending, Answered, Unanswered, InFlight, InPage, Rotating
<1> QED
  BY <1>1, <1>2, <1>3, <1>4, TypeCorrect, GateAlways, FrontierAlways, PTL DEF Spec
-----------------------------------------------------------------------------
(* The properties of which those above are the parts.                        *)

\* The frontier loses no page, offers none twice and keeps within the page
\* budget (_enqueue, _requeue_front and the loop of _run_job).
THEOREM FrontierIsKept == Spec => []FrontierKept
<1>1. FrontierSound /\ RetryAtHead /\ PageBudget /\ PagesAccountedFor => FrontierKept
  BY DEF FrontierKept
<1> QED
  BY <1>1, FrontierIsSound, RetriesComeFirst, PagesWithinBudget, NoPageIsLost, PTL

\* A paused worker parks, and only a rotation holds the gate (_wait_runnable,
\* _rotate_engine).
THEOREM WaitsStaySafe == Spec => []WaitsAreSafe
<1>1. PausedIsParked /\ GateMatchesRotation => WaitsAreSafe
  BY DEF WaitsAreSafe
<1> QED
  BY <1>1, PausedJobsPark, GateProtectsRotation, PTL

\* No step forgets a queued URL or touches a finished job (crawl_stop, the page
\* and duration limits of _run_job).
THEOREM RecordsAlwaysStand == Spec => RecordsStand
  BY NoUrlIsForgotten, FinishedJobsAreFrozen DEF RecordsStand
-----------------------------------------------------------------------------
(* The course of a page.  As long as the page timer does not fire inside a     *)
(* rotation, a page is worked on only while the job runs, or was paused        *)
(* meanwhile; a rotation that is over leaves the job running, failed or        *)
(* stopped; and who asked for a stop waits for nothing but a rotation.         *)

Busy == InPage \union {"probe"}

Course ==
  /\ pc \in Busy => state \in {"running", "paused"} \union Terminal
  /\ state = "rotating" => pc \in Rotating \/ cancelRequested
  /\ cancelRequested /\ state \notin Terminal => pc \in Rotating \union {"loop"}
  /\ pc = "rot_undo" => cancelRequested

\* What the proofs below know of a state.
Known == TypeInv /\ GateInv /\ TerminalInv /\ Course

LEMMA CourseStep ==
  ASSUME "slow_rotation" \notin Faults, Known, [Next]_vars
  PROVE  Course'
<1> USE DEF Known, Course, Busy, GateInv, GateMatchesRotation, TerminalInv, InFlight, InPage, Rotating,
            To, Transition, Allowed, GoTo, EndPage, Exit, At, Terminal
<1>1. /\ state \in States /\ pc \in PCs /\ gate \in {"free", "worker", "stopper"}
      /\ stopper \in {"idle", "gate", "task"} /\ killed \in BOOLEAN /\ cancelRequested \in BOOLEAN
  BY DEF TypeInv, TypeOK, JobTypes, WorkerTypes
<1>2. States = {"queued", "running", "backing_off", "paused", "rotating",
                "completed", "failed", "cancelled"}
  BY StatesAre
<1>3. CASE Loop
  BY <1>1, <1>2, <1>3 DEF Loop, LoopCancelled, LoopExpired, StopWaiting, Deciding, Runnable,
       Woken, Park, Doze, PageLimit, Drained, TakePage
<1>4. CASE Rotation
  <2>1. CASE RotationStopped \/ RotationUndone
    BY <1>1, <1>2, <2>1 DEF RotationStopped, RotationUndone
  <2>2. CASE RotationStopRefused \/ RotationStartFailed
    <3>1. state = "rotating" /\ To("failed") /\ pc' = "loop"
      BY <2>2 DEF RotationStopRefused, RotationStartFailed
    <3>2. state' = "failed"
      BY <3>1
    <3> QED
      BY <3>1, <3>2
  <2>3. CASE RotationStarted
    <3>1. state = "rotating" /\ pc = "rot_start"
      BY <2>3 DEF RotationStarted
    <3>2. CASE cancelRequested
      BY <2>3, <3>1, <3>2 DEF RotationStarted
    <3>3. CASE ~cancelRequested
      <4>1. To("running") /\ pc' = "loop" /\ ~cancelRequested'
        BY <2>3, <3>3 DEF RotationStarted
      <4>2. state' = "running"
        BY <3>1, <4>1
      <4> QED
        BY <4>1, <4>2
    <3> QED
      BY <3>2, <3>3
  <2> QED
    BY <1>4, <2>1, <2>2, <2>3 DEF Rotation
<1>5. CASE Page
  <2>1. CASE GateRecovers \/ ProbeDead
    BY <1>1, <1>2, <2>1 DEF GateRecovers, ProbeDead, Recover, RecoverySpent, RecoveryRefused,
         RecoveryBegins, BeginRotation, RotationRefused
  <2>2. CASE Captcha
    BY <1>1, <1>2, <2>2 DEF Captcha
  <2>3. CASE RateLimited
    BY <1>1, <1>2, <2>3 DEF RateLimited
  <2>4. CASE Extracted
    BY <1>1, <1>2, <2>4 DEF Extracted, BeginRotation, RotationRefused
  <2>5. CASE GateOpens \/ GateFails \/ ToolSucceeds \/ ToolSuspectsEngine \/ ToolBlamesPage
             \/ ToolRaises \/ ProbeAlive
    BY <1>1, <1>2, <2>5 DEF GateOpens, GateFails, ToolSucceeds, ToolSuspectsEngine,
         ToolBlamesPage, ToolRaises, ProbeAlive, ToolCall
  <2> QED
    BY <1>5, <2>1, <2>2, <2>3, <2>4, <2>5 DEF Page
<1>6. CASE WorkerCancelled
  BY <1>1, <1>2, <1>6 DEF WorkerCancelled
<1>7. CASE Client
  <2>1. CASE Pause
    BY <1>1, <1>2, <2>1 DEF Pause
  <2>2. CASE Resume
    BY <1>1, <1>2, <2>2 DEF Resume, SetResume
  <2>3. CASE StopCalled
    BY <1>1, <1>2, <2>3 DEF StopCalled, SetResume, CancelJob
  <2>4. CASE StopGetsGate
    BY <1>1, <1>2, <2>4 DEF StopGetsGate, CancelJob
  <2>5. CASE StopTimesOut \/ StopReturns
    BY <1>1, <2>5 DEF StopTimesOut, StopReturns
  <2> QED
    BY <1>7, <2>1, <2>2, <2>3, <2>4, <2>5 DEF Client, Stopper
<1>8. CASE Environment
  BY <1>1, <1>8 DEF Environment, PageTimeout, BackoffExpires, DurationElapses, EngineDies,
       UserStopsBrowser, UserStartsBrowser, ToolCall
<1>9. CASE UNCHANGED vars
  BY <1>1, <1>9 DEF vars
<1> QED
  BY <1>3, <1>4, <1>5, <1>6, <1>7, <1>8, <1>9 DEF Next, Worker

LEMMA KnownAlways ==
  ASSUME "slow_rotation" \notin Faults
  PROVE  Spec => []Known
<1>1. Init => TerminalInv /\ Course
  BY DEF Init, TerminalInv, Course, Busy, InPage, Terminal
<1>2. TypeInv /\ GateInv /\ TerminalInv /\ [Next]_vars => TerminalInv'
  BY TerminalStep
<1>3. TypeInv /\ GateInv /\ TerminalInv /\ Course /\ [Next]_vars => Course'
  BY CourseStep DEF Known
<1>4. TypeInv /\ GateInv /\ TerminalInv /\ Course => Known
  BY DEF Known
<1> QED
  BY <1>1, <1>2, <1>3, <1>4, TypeCorrect, GateAlways, PTL DEF Spec

-----------------------------------------------------------------------------
(* What is left alone.  A job that is held is paused or over, and so is one    *)
(* that backs off, unless its client paused it; either way no page is taken.   *)

Holding ==
  "held" \in history => state \in {"paused"} \union Terminal /\ pc \notin InPage

\* A job that its client never paused.
Untouched ==
  pauses = 0 =>
    /\ state = "paused" => pc \notin Busy
    /\ ~backoffOver => state \in {"backing_off"} \union Terminal /\ pc \notin Busy \union Rotating
    /\ recoveryAttempts # 0 => "restarted" \in history

\* An engine that died twice died once before.
DiedBefore == "died_twice" \in history => recoveryAttempts # 0

Waits == Holding /\ Untouched /\ DiedBefore

LEMMA WaitsStep ==
  ASSUME Known, Known', Waits, [Next]_vars
  PROVE  Waits'
<1> USE DEF Known, Waits, Holding, Untouched, DiedBefore, Course, Busy, GateInv, GateMatchesRotation, TerminalInv,
            InFlight, InPage, Rotating, To, Transition, Allowed, GoTo, EndPage, Exit, At, Terminal
<1>1. /\ state \in States /\ pc \in PCs /\ killed \in BOOLEAN /\ cancelRequested \in BOOLEAN
      /\ backoffOver \in BOOLEAN /\ pauses \in Nat /\ recoveryAttempts \in {0, 1}
  BY DEF TypeInv, TypeOK, JobTypes, WorkerTypes, LedgerTypes
<1>2. States = {"queued", "running", "backing_off", "paused", "rotating",
                "completed", "failed", "cancelled"}
  BY StatesAre
<1>3. CASE Loop
  BY <1>1, <1>2, <1>3 DEF Loop, LoopCancelled, LoopExpired, StopWaiting, Deciding, Runnable,
       Woken, Park, Doze, PageLimit, Drained, TakePage
<1>4. CASE Rotation
  BY <1>1, <1>2, <1>4 DEF Rotation, RotationStopped, RotationStopRefused, RotationStarted,
       RotationStartFailed, RotationUndone
<1>5. CASE Page
  <2>1. CASE GateRecovers \/ ProbeDead
    BY <1>1, <1>2, <2>1 DEF GateRecovers, ProbeDead, Recover, RecoverySpent, RecoveryRefused,
         RecoveryBegins, BeginRotation, RotationRefused
  <2>2. CASE Captcha
    BY <1>1, <1>2, <2>2 DEF Captcha
  <2>3. CASE RateLimited
    BY <1>1, <1>2, <2>3 DEF RateLimited
  <2>4. CASE Extracted
    BY <1>1, <1>2, <2>4 DEF Extracted, BeginRotation, RotationRefused
  <2>5. CASE GateOpens \/ GateFails \/ ToolSucceeds \/ ToolSuspectsEngine \/ ToolBlamesPage
             \/ ToolRaises \/ ProbeAlive
    BY <1>1, <1>2, <2>5 DEF GateOpens, GateFails, ToolSucceeds, ToolSuspectsEngine,
         ToolBlamesPage, ToolRaises, ProbeAlive, ToolCall
  <2> QED
    BY <1>5, <2>1, <2>2, <2>3, <2>4, <2>5 DEF Page
<1>6. CASE WorkerCancelled
  BY <1>1, <1>2, <1>6 DEF WorkerCancelled
<1>7. CASE Client
  <2>1. CASE Pause
    BY <1>1, <1>2, <2>1 DEF Pause
  <2>2. CASE Resume
    BY <1>1, <1>2, <2>2 DEF Resume, SetResume
  <2>3. CASE StopCalled
    BY <1>1, <1>2, <2>3 DEF StopCalled, SetResume, CancelJob
  <2>4. CASE StopGetsGate
    BY <1>1, <1>2, <2>4 DEF StopGetsGate, CancelJob
  <2>5. CASE StopTimesOut \/ StopReturns
    BY <1>1, <2>5 DEF StopTimesOut, StopReturns
  <2> QED
    BY <1>7, <2>1, <2>2, <2>3, <2>4, <2>5 DEF Client, Stopper
<1>8. CASE Environment
  BY <1>1, <1>8 DEF Environment, PageTimeout, BackoffExpires, DurationElapses, EngineDies,
       UserStopsBrowser, UserStartsBrowser, ToolCall
<1>9. CASE UNCHANGED vars
  BY <1>1, <1>9 DEF vars
<1> QED
  BY <1>3, <1>4, <1>5, <1>6, <1>7, <1>8, <1>9 DEF Next, Worker

LEMMA WaitsAlways ==
  ASSUME "slow_rotation" \notin Faults
  PROVE  Spec => []Waits
<1>1. Init => Waits
  BY DEF Init, Waits, Holding, Untouched, DiedBefore
<1>2. Known /\ Known' /\ Waits /\ [Next]_vars => Waits'
  BY WaitsStep
<1>3. Spec => []Known
  BY KnownAlways
<1> QED
  BY <1>1, <1>2, <1>3, PTL DEF Spec

\* After a CAPTCHA no page is requested until the client resumes the job, and after a
\* rate limit none before the backoff has elapsed (_handle_challenge, _wait_runnable), as
\* long as the page timer does not fire inside a rotation.
THEOREM SitesAreRespected ==
  ASSUME "slow_rotation" \notin Faults
  PROVE  Spec => []SiteRespected
<1>1. Waits => SiteRespected
  BY DEF Waits, Holding, Untouched, Busy, InPage, SiteRespected, HeldUntilResumed, BackoffHonoured
<1> QED
  BY <1>1, WaitsAlways, PTL
-----------------------------------------------------------------------------
(* Results.  A page has no result yet as long as one can be recorded for it,   *)
(* or it can be put back into the queue; a page that has one stays visited.    *)

Open == pc \in Busy \/ (pc \in Rotating /\ why = "recovery")

Results ==
  /\ Open => ~Answered(item.url)
  /\ \A u \in Url : Answered(u) => u \in visited
  /\ OneResultPerPage

\* A page is recorded, or put back, or taken, or there is nothing new of it.
LEMMA ResultMoves ==
  ASSUME "slow_rotation" \notin Faults, TypeInv, [Next]_vars
  PROVE  \/ UNCHANGED <<ledger, visited>> /\ (Open' => Open /\ item' = item)
         \/ UNCHANGED ledger /\ TakePage
         \/ UNCHANGED ledger /\ Open /\ RequeueFront /\ ~Open'
         \/ Open /\ (RecordFailed \/ RecordSuccess) /\ UNCHANGED visited /\ ~Open'
<1> USE DEF Open, Busy, InPage, Rotating, PCs, At, GoTo, EndPage, Exit
<1>1. CASE Loop
  BY <1>1 DEF Loop, LoopCancelled, LoopExpired, StopWaiting, Deciding, Park, Doze, PageLimit,
       Drained, DropQueue, TakePage
<1>2. CASE Rotation
  <2>1. CASE RotationStarted
    <3>1. CASE cancelRequested
      BY <2>1, <3>1 DEF RotationStarted
    <3>2. CASE ~cancelRequested /\ why = "recovery"
      BY <2>1, <3>2 DEF RotationStarted
    <3>3. CASE ~cancelRequested /\ why # "recovery"
      BY <2>1, <3>3 DEF RotationStarted
    <3> QED
      BY <3>1, <3>2, <3>3
  <2> QED
    BY <1>2, <2>1 DEF Rotation, RotationStopped, RotationStopRefused, RotationStartFailed, RotationUndone
<1>3. CASE Page
  <2>1. CASE GateRecovers \/ ProbeDead
    <3>1. CASE RecoverySpent
      BY <2>1, <3>1 DEF GateRecovers, ProbeDead, RecoverySpent
    <3>2. CASE RecoveryRefused
      BY <2>1, <3>2 DEF GateRecovers, ProbeDead, RecoveryRefused
    <3>3. CASE RecoveryBegins
      BY <2>1, <3>3 DEF GateRecovers, ProbeDead, RecoveryBegins, BeginRotation
    <3> QED
      BY <2>1, <3>1, <3>2, <3>3 DEF GateRecovers, ProbeDead, Recover
  <2>2. CASE Captcha \/ RateLimited
    BY <2>2 DEF Captcha, RateLimited
  <2>3. CASE Extracted
    BY <2>3 DEF Extracted, EnqueueLinks, BeginRotation
  <2>4. CASE GateOpens \/ GateFails \/ ToolSucceeds \/ ToolSuspectsEngine \/ ToolBlamesPage
             \/ ToolRaises \/ ProbeAlive
    BY <2>4 DEF GateOpens, GateFails, ToolSucceeds, ToolSuspectsEngine, ToolBlamesPage,
         ToolRaises, ProbeAlive, ToolCall
  <2> QED
    BY <1>3, <2>1, <2>2, <2>3, <2>4 DEF Page
<1>4. CASE WorkerCancelled
  BY <1>4 DEF WorkerCancelled
<1>5. CASE Client
  BY <1>5 DEF Client, Stopper, Pause, Resume, SetResume, StopCalled, StopGetsGate,
       StopTimesOut, StopReturns
<1>6. CASE Environment
  BY <1>6 DEF Environment, PageTimeout, BackoffExpires, DurationElapses, EngineDies,
       UserStopsBrowser, UserStartsBrowser, ToolCall
<1>7. CASE UNCHANGED vars
  BY <1>7 DEF vars
<1> QED
  BY <1>1, <1>2, <1>3, <1>4, <1>5, <1>6, <1>7 DEF Next, Worker

\* A page without a result gets one, and no other page does.
LEMMA RecordOnce ==
  ASSUME TypeInv, item.url \in Url, ~Answered(item.url), OneResultPerPage, RecordFailed \/ RecordSuccess
  PROVE  /\ OneResultPerPage'
         /\ \A u \in Url : Answered(u)' => Answered(u) \/ u = item.url
<1>1. succeeded \in [Url -> Nat] /\ failed \in [Url -> Nat]
  BY DEF TypeInv, TypeOK, LedgerTypes
<1>2. succeeded[item.url] = 0 /\ failed[item.url] = 0
  BY <1>1 DEF Answered
<1> SUFFICES ASSUME NEW u \in Url
             PROVE  succeeded'[u] + failed'[u] <= 1 /\ (Answered(u)' => Answered(u) \/ u = item.url)
  BY DEF OneResultPerPage
<1>3. succeeded[u] \in Nat /\ failed[u] \in Nat /\ succeeded[u] + failed[u] <= 1
  BY <1>1 DEF OneResultPerPage
<1>4. CASE u = item.url
  BY <1>1, <1>2, <1>4 DEF RecordFailed, RecordSuccess
<1>5. CASE u # item.url
  <2>1. succeeded'[u] = succeeded[u] /\ failed'[u] = failed[u]
    BY <1>1, <1>5 DEF RecordFailed, RecordSuccess
  <2> QED
    BY <1>3, <2>1 DEF Answered
<1> QED
  BY <1>4, <1>5

LEMMA ResultsStep ==
  ASSUME "slow_rotation" \notin Faults, TypeInv, FrontierInv, Results, [Next]_vars
  PROVE  Results'
<1>1. Open => item.url \in Url /\ item.url \in visited
  BY DEF TypeInv, FrontierInv, Open, Busy, InFlight, Item
<1>2. ASSUME UNCHANGED ledger
      PROVE  OneResultPerPage' /\ \A u : Answered(u)' <=> Answered(u)
  BY <1>2 DEF OneResultPerPage, Results, Answered
<1>3. CASE UNCHANGED <<ledger, visited>> /\ (Open' => Open /\ item' = item)
  BY <1>1, <1>2, <1>3 DEF Results, Answered
<1>4. CASE UNCHANGED ledger /\ TakePage
  <2>1. queue \in Seq(Item) /\ queue # <<>> /\ item' = Head(queue) /\ visited' = visited \union {item'.url}
    BY <1>4 DEF TakePage, TypeInv, TypeOK, FrontierTypes
  <2>2. Head(queue) = queue[1] /\ 1 \in 1..Len(queue)
    BY <2>1, EmptySeq, LenProperties
  <2>3. item'.url \in QueuedUrls /\ item'.url \in Url
    <3>1. item' = queue[1] /\ queue[1] \in Item
      BY <2>1, <2>2, ElementOfSeq
    <3> QED
      BY <2>1, <2>2, <3>1, QueuedByPosition DEF Item
  <2>4. ~Answered(item'.url)
    BY <2>3 DEF Results, FrontierInv, FrontierSound
  <2>5. ~Answered(item.url)'
    BY <1>4, <2>4 DEF Answered
  <2> QED
    BY <1>2, <1>4, <2>1, <2>5 DEF Results
<1>5. CASE UNCHANGED ledger /\ Open /\ RequeueFront /\ ~Open'
  <2>1. \A u \in visited : u # item.url => u \in visited'
    BY <1>5 DEF RequeueFront
  <2>2. \A u \in Url : Answered(u) => u # item.url
    BY <1>5 DEF Results
  <2> QED
    BY <1>2, <1>5, <2>1, <2>2 DEF Results
<1>6. CASE Open /\ (RecordFailed \/ RecordSuccess) /\ UNCHANGED visited /\ ~Open'
  <2>1. item.url \in Url /\ ~Answered(item.url) /\ OneResultPerPage
    BY <1>1, <1>6 DEF Results
  <2>2. OneResultPerPage' /\ \A u \in Url : Answered(u)' => Answered(u) \/ u = item.url
    BY <1>6, <2>1, RecordOnce
  <2> QED
    BY <1>1, <1>6, <2>2 DEF Results
<1> QED
  BY <1>3, <1>4, <1>5, <1>6, ResultMoves

LEMMA ResultsAlways ==
  ASSUME "slow_rotation" \notin Faults
  PROVE  Spec => []Results
<1>1. Init => Results
  BY DEF Init, Results, Open, Busy, InPage, Rotating, Answered, OneResultPerPage
<1>2. TypeInv /\ FrontierInv /\ Results /\ [Next]_vars => Results'
  BY ResultsStep
<1> QED
  BY <1>1, <1>2, TypeCorrect, FrontierAlways, PTL DEF Spec

-----------------------------------------------------------------------------
(* The end of the worker.                                                      *)

Finished == ~expired /\ EndedMeansTerminal

LEMMA FinishedStep ==
  ASSUME Faults \intersect {"slow_rotation", "tool_raise", "duration"} = {},
         Known, Known', Finished, [Next]_vars
  PROVE  Finished'
<1> USE DEF Known, Finished, EndedMeansTerminal, Course, TerminalInv, Busy, InPage, Rotating,
            To, Transition, Allowed, GoTo, EndPage, Exit, At, Terminal
<1>1. state \in States /\ pc \in PCs /\ cancelRequested \in BOOLEAN
  BY DEF TypeInv, TypeOK, JobTypes, WorkerTypes
<1>2. States = {"queued", "running", "backing_off", "paused", "rotating",
                "completed", "failed", "cancelled"}
  BY StatesAre
<1>3. state \in Terminal => state' \in Terminal
  BY TerminalStep
<1>4. CASE Loop
  <2>1. CASE LoopCancelled
    BY <1>1, <1>2, <2>1 DEF LoopCancelled
  <2>2. CASE PageLimit \/ Drained
    <3>1. state \in {"running", "backing_off"}
      BY <1>1, <1>2, <2>2 DEF PageLimit, Drained, Runnable, Deciding
    <3> QED
      BY <2>2, <3>1 DEF PageLimit, Drained, Woken
  <2>3. CASE StopWaiting
    BY <1>1, <2>3 DEF StopWaiting, Deciding
  <2>4. CASE LoopExpired \/ Park \/ Doze \/ TakePage
    BY <2>4 DEF LoopExpired, Park, Doze, TakePage
  <2> QED
    BY <1>4, <2>1, <2>2, <2>3, <2>4 DEF Loop
<1>5. CASE Rotation
  BY <1>3, <1>5 DEF Rotation, RotationStopped, RotationStopRefused, RotationStarted,
       RotationStartFailed, RotationUndone
<1>6. CASE Page
  BY <1>3, <1>6 DEF Page, GateOpens, GateFails, GateRecovers, ToolSucceeds, ToolSuspectsEngine,
       ToolBlamesPage, ToolRaises, Captcha, RateLimited, Extracted, ProbeAlive, ProbeDead,
       Recover, RecoverySpent, RecoveryRefused, RecoveryBegins, BeginRotation, ToolCall
<1>7. CASE WorkerCancelled
  BY <1>1, <1>2, <1>7 DEF WorkerCancelled
<1>8. CASE Client
  BY <1>3, <1>8 DEF Client, Stopper, Pause, Resume, SetResume, StopCalled, StopGetsGate,
       StopTimesOut, StopReturns
<1>9. CASE Environment \/ UNCHANGED vars
  BY <1>3, <1>9 DEF Environment, PageTimeout, BackoffExpires, DurationElapses, EngineDies,
       UserStopsBrowser, UserStartsBrowser, vars
<1> QED
  BY <1>4, <1>5, <1>6, <1>7, <1>8, <1>9 DEF Next, Worker

\* No page gets two results, a worker that is done has ended its job, and an engine that
\* is said to have died twice was restarted in between unless the job was paused, as
\* long as the page timer does not fire inside a rotation, no tool raises and the
\* duration limit does not strike (_process_url, _run_job, _recover_engine).
THEOREM ReportsAreTrue ==
  ASSUME Faults \intersect {"slow_rotation", "tool_raise", "duration"} = {}
  PROVE  Spec => []ReportsTrue
<1>1. "slow_rotation" \notin Faults
  OBVIOUS
<1>2. Init => Finished
  BY DEF Init, Finished, EndedMeansTerminal
<1>3. Known /\ Known' /\ Finished /\ [Next]_vars => Finished'
  BY FinishedStep
<1>4. Spec => []Known
  BY <1>1, KnownAlways
<1>5. Spec => []Waits
  BY <1>1, WaitsAlways
<1>6. Spec => []Results
  BY <1>1, ResultsAlways
<1>7. Finished /\ Results /\ Waits => ReportsTrue
  BY DEF Finished, Results, Waits, Untouched, DiedBefore, ReportsTrue, DiedTwiceIsTrue
<1> QED
  BY <1>2, <1>3, <1>4, <1>5, <1>6, <1>7, PTL DEF Spec
=============================================================================
