----------------------- MODULE EngineLifecycle_proofs -----------------------
(***************************************************************************)
(* What EngineLifecycle guarantees for every number of servers, calls and  *)
(* engines.                                                                *)
(***************************************************************************)
EXTENDS EngineLifecycle, TLAPS

\* TypeOK is not inductive alone: a start that reaps an engine goes on to
\* boot the kind it was asked for, so that kind must be known by then.
AskedFor ==
  \A c \in Calls : pc[c] = "probe" \/ reason[c] = "reap" => want[c] \in AllKinds

TypeInv == TypeOK /\ AskedFor

\* The engines as TypeOK describes them.
EnginesOK(F) ==
  /\ F \in [Engines -> EngineState]
  /\ \A e \in Engines : F[e].home = None <=> F[e].kind = None

-----------------------------------------------------------------------------
(* Types of the helpers *)

LEMMA StartedType ==
  ASSUME NEW k \in AllKinds, NEW p \in Procs
  PROVE  /\ Started(k, p) \in EngineState
         /\ Started(k, p).home # None
         /\ Started(k, p).kind # None
  BY NoneAssumption DEF Started, Unborn, EngineState, AllKinds

LEMMA CancelledType ==
  ASSUME NEW r \in EngineState
  PROVE  /\ Cancelled(r) \in EngineState
         /\ Cancelled(r).home = r.home
         /\ Cancelled(r).kind = r.kind
  BY DEF Cancelled, EngineState

\* What the rest of the code changes in an engine.
LEMMA MarkedType ==
  ASSUME NEW r \in EngineState,
         NEW q \in {[r EXCEPT !.dead = TRUE], [r EXCEPT !.watched = TRUE], [r EXCEPT !.preserve = TRUE],
                    [r EXCEPT !.preserve = FALSE],
                    [r EXCEPT !.handle = FALSE], [r EXCEPT !.os = "gone"], [r EXCEPT !.os = "hollow"],
                    [r EXCEPT !.reader = "ended", !.dead = TRUE]}
  PROVE  q \in EngineState /\ q.home = r.home /\ q.kind = r.kind
  BY DEF EngineState

\* An engine that changes keeps its owner and its kind.
LEMMA ChangedType ==
  ASSUME NEW F, EnginesOK(F), NEW e \in Engines \cup {None}, NEW q,
         e \in Engines => q \in EngineState /\ q.home = F[e].home /\ q.kind = F[e].kind
  PROVE  EnginesOK([F EXCEPT ![e] = q])
  BY DEF EnginesOK

LEMMA ReleasedType ==
  ASSUME TypeOK, NEW p \in Procs
  PROVE  Released(p) \in Procs \cup {None}
  BY DEF TypeOK, Released

LEMMA SlotAfterDeathType ==
  ASSUME TypeOK, NEW e \in Engines
  PROVE  SlotAfterDeath(e) \in Procs \cup {None}
  BY DEF TypeOK, SlotAfterDeath, Released, EngineState

\* A stop that begins keeps the types, whatever the description it starts from.
LEMMA StopBeginsType ==
  ASSUME TypeOK, NEW c \in Calls, NEW e \in Engines \cup {None}, NEW why \in Reasons, NEW E,
         e \in Engines => /\ E \in EngineState
                          /\ E.home = engine[e].home
                          /\ E.kind = engine[e].kind,
         StopBegins(c, e, why, E)
  PROVE  /\ EnginesOK(engine')
         /\ pc' \in [Calls -> Points]
         /\ target' \in [Calls -> Engines \cup {None}]
         /\ reason' \in [Calls -> Reasons \cup {None}]
         /\ pc' = [pc EXCEPT ![c] = "drain"]
         /\ reason' = [reason EXCEPT ![c] = why]
<1>1. e \in Engines => /\ Cancelled(E) \in EngineState
                       /\ Cancelled(E).home = engine[e].home
                       /\ Cancelled(E).kind = engine[e].kind
  BY CancelledType
<1>2. engine' = [engine EXCEPT ![e] = Cancelled(E)]
  BY DEF StopBegins
<1>3. engine' \in [Engines -> EngineState]
  BY <1>1, <1>2 DEF TypeOK
<1>4. \A f \in Engines : engine'[f].home = None <=> engine'[f].kind = None
  BY <1>1, <1>2 DEF TypeOK
<1>5. QED
  BY <1>3, <1>4 DEF TypeOK, StopBegins, EnginesOK, Points

\* A call that returns keeps the types.
LEMMA ReturnsType ==
  ASSUME TypeInv, NEW c \in Calls, Returns(c)
  PROVE  /\ pc' \in [Calls -> Points]
         /\ target' \in [Calls -> Engines \cup {None}]
         /\ candidate' \in [Calls -> Engines \cup {None}]
         /\ reason' \in [Calls -> Reasons \cup {None}]
         /\ want' \in [Calls -> AllKinds \cup {None}]
         /\ lifecycle' \in [Procs -> Calls \cup {None}]
         /\ AskedFor'
<1>1. /\ pc' \in [Calls -> Points]
      /\ target' \in [Calls -> Engines \cup {None}]
      /\ candidate' \in [Calls -> Engines \cup {None}]
      /\ reason' \in [Calls -> Reasons \cup {None}]
      /\ want' \in [Calls -> AllKinds \cup {None}]
      /\ lifecycle' \in [Procs -> Calls \cup {None}]
  BY DEF TypeInv, TypeOK, Returns, Points
<1>2. AskedFor'
  <2> SUFFICES ASSUME NEW d \in Calls, pc'[d] = "probe" \/ reason'[d] = "reap"
               PROVE  want'[d] \in AllKinds
    BY DEF AskedFor
  <2>1. CASE d = c
    BY <2>1, NoneAssumption DEF TypeInv, TypeOK, Returns, Reasons
  <2>2. CASE d # c
    BY <2>2 DEF TypeInv, TypeOK, AskedFor, Returns
  <2>3. QED
    BY <2>1, <2>2
<1>3. QED
  BY <1>1, <1>2

\* A new engine keeps the types.
LEMMA BootsType ==
  ASSUME TypeOK, NEW c \in Calls, NEW k \in AllKinds, NEW point \in Points,
         Boots(c, k, point)
  PROVE  /\ EnginesOK(engine')
         /\ candidate' \in [Calls -> Engines \cup {None}]
         /\ pc' \in [Calls -> Points]
         /\ pc' = [pc EXCEPT ![c] = point]
<1>1. PICK e \in Engines : /\ engine' = [engine EXCEPT ![e] = Started(k, Home[c])]
                           /\ candidate' = [candidate EXCEPT ![c] = e]
                           /\ pc' = [pc EXCEPT ![c] = point]
  BY DEF Boots
<1>2. Home[c] \in Procs
  BY HomeAssumption
<1>3. /\ Started(k, Home[c]) \in EngineState
      /\ Started(k, Home[c]).home # None
      /\ Started(k, Home[c]).kind # None
  BY <1>2, StartedType
<1>4. EnginesOK(engine')
  BY <1>1, <1>3 DEF EnginesOK, TypeOK
<1>5. QED
  BY <1>1, <1>4 DEF TypeOK

-----------------------------------------------------------------------------
(* What follows a stop keeps the types *)

LEMMA StopEndsType ==
  ASSUME TypeInv, NEW c \in Calls, NEW ok \in BOOLEAN,
         StopEnds(c, ok)
  PROVE  TypeInv'
<1>0. Home[c] \in Procs
  BY HomeAssumption
<1>1. CASE ReapEnds(c, ok)
  <2>1. /\ current' \in [Procs -> Engines \cup {None}]
        /\ bound' \in [Procs -> Engines \cup {None}]
    BY <1>1, <1>0 DEF ReapEnds, TypeInv, TypeOK
  <2>2. CASE ok /\ SlotFree(Home[c])
    <3>1. /\ slot' = Home[c]
          /\ Boots(c, want[c], "boot")
          /\ target' = [target EXCEPT ![c] = None]
          /\ reason' = [reason EXCEPT ![c] = None]
          /\ UNCHANGED <<lifecycle, want>>
      BY <1>1, <2>2 DEF ReapEnds
    <3>2. want[c] \in AllKinds
      BY <1>1 DEF ReapEnds, TypeInv, AskedFor
    <3>3. /\ EnginesOK(engine')
          /\ candidate' \in [Calls -> Engines \cup {None}]
          /\ pc' \in [Calls -> Points]
          /\ pc' = [pc EXCEPT ![c] = "boot"]
      BY <3>1, <3>2, BootsType DEF TypeInv, Points
    <3>4. AskedFor'
      BY <3>1, <3>3, NoneAssumption DEF AskedFor, TypeInv, TypeOK, Reasons
    <3>5. QED
      BY <1>0, <2>1, <3>1, <3>3, <3>4 DEF TypeInv, TypeOK, EnginesOK
  <2>3. CASE ~(ok /\ SlotFree(Home[c]))
    <3>1. Returns(c) /\ UNCHANGED <<slot, engine>>
      BY <1>1, <2>3 DEF ReapEnds
    <3>2. QED
      BY <2>1, <3>1, ReturnsType DEF TypeInv, TypeOK, EnginesOK
  <2>4. QED
    BY <2>2, <2>3
<1>2. CASE AbortEnds(c, ok)
  <2>1. /\ slot' \in Procs \cup {None}
        /\ bound' \in [Procs -> Engines \cup {None}]
        /\ Returns(c) /\ UNCHANGED <<current, engine>>
    BY <1>2, <1>0, ReleasedType DEF AbortEnds, TypeInv, TypeOK
  <2>2. QED
    BY <2>1, ReturnsType DEF TypeInv, TypeOK, EnginesOK
<1>3. CASE BrowserStopEnds(c, ok)
  <2>1. /\ slot' \in Procs \cup {None}
        /\ current' \in [Procs -> Engines \cup {None}]
        /\ bound' \in [Procs -> Engines \cup {None}]
        /\ Returns(c) /\ UNCHANGED engine
    BY <1>3, <1>0, ReleasedType DEF BrowserStopEnds, TypeInv, TypeOK
  <2>2. QED
    BY <2>1, ReturnsType DEF TypeInv, TypeOK, EnginesOK
<1>4. CASE HealerEnds(c, ok)
  <2>1. /\ current' \in [Procs -> Engines \cup {None}]
        /\ bound' \in [Procs -> Engines \cup {None}]
        /\ Returns(c) /\ UNCHANGED <<slot, engine>>
    BY <1>4, <1>0 DEF HealerEnds, TypeInv, TypeOK
  <2>2. QED
    BY <2>1, ReturnsType DEF TypeInv, TypeOK, EnginesOK
<1>5. CASE ReplaceEnds(c, ok)
  <2> DEFINE kept == [engine EXCEPT ![target[c]].preserve = FALSE]
  <2>1. EnginesOK(kept)
    <3> DEFINE e == target[c]
               r == engine[e]
    <3>1. e \in Engines => r \in EngineState
      BY DEF TypeInv, TypeOK
    <3>2. e \in Engines => /\ [r EXCEPT !.preserve = FALSE] \in EngineState
                           /\ [r EXCEPT !.preserve = FALSE].home = r.home
                           /\ [r EXCEPT !.preserve = FALSE].kind = r.kind
      BY <3>1, MarkedType
    <3>3. EnginesOK([engine EXCEPT ![e] = [r EXCEPT !.preserve = FALSE]])
      BY <3>2, ChangedType DEF TypeInv, TypeOK, EnginesOK
    <3>4. QED
      BY <3>3
  <2>2. CASE ok
    <3>1. /\ current' = [current EXCEPT ![Home[c]] = candidate[c]]
          /\ bound' = [bound EXCEPT ![Home[c]] = candidate[c]]
          /\ engine' = kept /\ Returns(c) /\ UNCHANGED slot
      BY <1>5, <2>2 DEF ReplaceEnds
    <3>2. /\ current' \in [Procs -> Engines \cup {None}]
          /\ bound' \in [Procs -> Engines \cup {None}]
      BY <3>1, <1>0 DEF TypeInv, TypeOK
    <3>3. QED
      BY <2>1, <3>1, <3>2, ReturnsType DEF TypeInv, TypeOK, EnginesOK
  <2>3. CASE ~ok
    <3> DEFINE d == candidate[c]
    <3>1. /\ engine' = [kept EXCEPT ![d] = Cancelled(kept[d])]
          /\ pc' = [pc EXCEPT ![c] = "drain"]
          /\ target' = [target EXCEPT ![c] = candidate[c]]
          /\ reason' = [reason EXCEPT ![c] = "abandon"]
          /\ UNCHANGED <<slot, current, bound, lifecycle, candidate, want>>
      BY <1>5, <2>3 DEF ReplaceEnds
    <3>2. d \in Engines => /\ Cancelled(kept[d]) \in EngineState
                           /\ Cancelled(kept[d]).home = kept[d].home
                           /\ Cancelled(kept[d]).kind = kept[d].kind
      BY <2>1, CancelledType DEF EnginesOK
    <3>3. EnginesOK(engine')
      BY <2>1, <3>1, <3>2 DEF EnginesOK
    <3>4. AskedFor'
      BY <3>1 DEF TypeInv, TypeOK, AskedFor
    <3>5. QED
      BY <3>1, <3>3, <3>4 DEF TypeInv, TypeOK, EnginesOK, Points, Reasons
  <2>4. QED
    BY <2>2, <2>3
<1>6. CASE AbandonEnds(c, ok)
  BY <1>6, ReturnsType DEF AbandonEnds, TypeInv, TypeOK, EnginesOK
<1>7. QED
  BY <1>1, <1>2, <1>3, <1>4, <1>5, <1>6 DEF StopEnds

-----------------------------------------------------------------------------
(* Types *)

LEMMA TypeInit == Init => TypeInv
<1> SUFFICES ASSUME Init PROVE TypeInv
  OBVIOUS
<1>1. Unborn \in EngineState /\ Unborn.home = None /\ Unborn.kind = None
  BY DEF Unborn, EngineState
<1>2. TypeOK
  BY <1>1 DEF Init, TypeOK, Points
<1>3. AskedFor
  BY NoneAssumption DEF Init, AskedFor, Reasons
<1>4. QED
  BY <1>2, <1>3 DEF TypeInv

\* A stop of an engine as it is.
LEMMA StopOfType ==
  ASSUME TypeInv, NEW c \in Calls, NEW e \in Engines \cup {None}, NEW why \in Reasons,
         StopBegins(c, e, why, engine[e])
  PROVE  /\ EnginesOK(engine')
         /\ pc' \in [Calls -> Points]
         /\ target' \in [Calls -> Engines \cup {None}]
         /\ reason' \in [Calls -> Reasons \cup {None}]
         /\ pc' = [pc EXCEPT ![c] = "drain"]
         /\ reason' = [reason EXCEPT ![c] = why]
<1>1. e \in Engines => engine[e] \in EngineState
  BY DEF TypeInv, TypeOK
<1>2. QED
  BY <1>1, StopBeginsType DEF TypeInv

LEMMA BeginType ==
  ASSUME TypeInv, NEW c \in Calls, Begin(c)
  PROVE  TypeInv'
<1> USE DEF TypeInv
<1>0. Home[c] \in Procs /\ Kinds \subseteq AllKinds /\ EnginesOK(engine)
  BY HomeAssumption, ScopeAssumption DEF TypeOK, EnginesOK
<1>1. ASSUME NEW k \in Kinds, StartFresh(c, k) PROVE TypeInv'
  <2>1. /\ slot' = Home[c]
        /\ lifecycle' = [lifecycle EXCEPT ![Home[c]] = c]
        /\ Boots(c, k, "boot")
        /\ UNCHANGED <<current, bound, target, reason, want>>
    BY <1>1 DEF StartFresh
  <2>2. /\ EnginesOK(engine')
        /\ candidate' \in [Calls -> Engines \cup {None}]
        /\ pc' \in [Calls -> Points]
        /\ pc' = [pc EXCEPT ![c] = "boot"]
    BY <1>0, <2>1, BootsType DEF Points
  <2>3. QED
    BY <1>0, <2>1, <2>2 DEF TypeOK, AskedFor, EnginesOK
<1>2. ASSUME NEW k \in Kinds, StartOverEngine(c, k) PROVE TypeInv'
  <2> DEFINE e == current[Home[c]]
  <2>1. /\ lifecycle' = [lifecycle EXCEPT ![Home[c]] = c]
        /\ want' = [want EXCEPT ![c] = k]
        /\ UNCHANGED <<slot, current, bound, candidate>>
    BY <1>2 DEF StartOverEngine
  <2>2. /\ lifecycle' \in [Procs -> Calls \cup {None}]
        /\ want' \in [Calls -> AllKinds \cup {None}]
        /\ \A d \in Calls : want[d] \in AllKinds \/ d = c => want'[d] \in AllKinds
        /\ e \in Engines \cup {None}
    BY <1>0, <2>1 DEF TypeOK
  <2>3. CASE /\ pc' = [pc EXCEPT ![c] = "probe"]
             /\ target' = [target EXCEPT ![c] = e]
             /\ UNCHANGED <<engine, reason>>
    BY <2>1, <2>2, <2>3 DEF TypeOK, AskedFor, Points
  <2>4. CASE StopBegins(c, e, "reap", engine[e])
    <3>1. /\ EnginesOK(engine')
          /\ pc' \in [Calls -> Points]
          /\ target' \in [Calls -> Engines \cup {None}]
          /\ reason' \in [Calls -> Reasons \cup {None}]
          /\ pc' = [pc EXCEPT ![c] = "drain"]
          /\ reason' = [reason EXCEPT ![c] = "reap"]
      BY <2>2, <2>4, StopOfType DEF Reasons
    <3>2. QED
      BY <2>1, <2>2, <3>1 DEF TypeOK, AskedFor, EnginesOK
  <2>5. QED
    BY <1>2, <2>3, <2>4 DEF StartOverEngine
<1>3. ASSUME BrowserStop(c) PROVE TypeInv'
  <2> DEFINE e == current[Home[c]]
  <2>1. CASE e = None
    BY <1>0, <1>3, <2>1 DEF BrowserStop, TypeOK, AskedFor
  <2>2. CASE e # None
    <3>1. /\ lifecycle' = [lifecycle EXCEPT ![Home[c]] = c]
          /\ StopBegins(c, e, "stop", engine[e])
          /\ UNCHANGED <<slot, current, bound, candidate, want>>
      BY <1>3, <2>2 DEF BrowserStop
    <3>2. e \in Engines
      BY <1>0, <2>2 DEF TypeOK
    <3>3. /\ EnginesOK(engine')
          /\ pc' \in [Calls -> Points]
          /\ target' \in [Calls -> Engines \cup {None}]
          /\ reason' \in [Calls -> Reasons \cup {None}]
          /\ pc' = [pc EXCEPT ![c] = "drain"]
          /\ reason' = [reason EXCEPT ![c] = "stop"]
      BY <3>1, <3>2, StopOfType DEF Reasons
    <3>4. QED
      BY <1>0, <3>1, <3>3 DEF TypeOK, AskedFor, EnginesOK
  <2>3. QED
    BY <2>1, <2>2
<1>4. ASSUME HealerRestarts(c) PROVE TypeInv'
  <2> DEFINE e == IF bound[Home[c]] # None THEN bound[Home[c]] ELSE current[Home[c]]
  <2>1. /\ StopBegins(c, e, "heal", engine[e])
        /\ UNCHANGED <<slot, current, bound, lifecycle, candidate, want>>
    BY <1>4 DEF HealerRestarts
  <2>2. e \in Engines \cup {None}
    BY <1>0 DEF TypeOK
  <2>3. /\ EnginesOK(engine')
        /\ pc' \in [Calls -> Points]
        /\ target' \in [Calls -> Engines \cup {None}]
        /\ reason' \in [Calls -> Reasons \cup {None}]
        /\ pc' = [pc EXCEPT ![c] = "drain"]
        /\ reason' = [reason EXCEPT ![c] = "heal"]
    BY <2>1, <2>2, StopOfType DEF Reasons
  <2>4. QED
    BY <2>1, <2>3 DEF TypeOK, AskedFor, EnginesOK
<1>5. ASSUME Promote(c) PROVE TypeInv'
  BY <1>0, <1>5 DEF Promote, TypeOK, AskedFor, Points
<1>6. QED
  BY <1>1, <1>2, <1>3, <1>4, <1>5 DEF Begin

LEMMA StepType ==
  ASSUME TypeInv, NEW c \in Calls, Step(c)
  PROVE  TypeInv'
<1> USE DEF TypeInv
<1>0. /\ Home[c] \in Procs /\ EnginesOK(engine)
      /\ target[c] \in Engines \cup {None} /\ candidate[c] \in Engines \cup {None}
  BY HomeAssumption DEF TypeOK, EnginesOK
<1>1. CASE ProbeFindsAlive(c)
  <2>1. Returns(c) /\ UNCHANGED <<slot, current, bound, engine>>
    BY <1>1 DEF ProbeFindsAlive
  <2>2. QED
    BY <2>1, ReturnsType DEF TypeOK
<1>2. CASE ProbeFindsDead(c)
  <2> DEFINE e == target[c]
             dying == [engine[e] EXCEPT !.dead = TRUE]
  <2>1. want[c] \in AllKinds /\ UNCHANGED <<current, bound, lifecycle, candidate, want>>
    BY <1>2 DEF ProbeFindsDead, AskedFor
  <2>2. PICK E \in {engine[e], dying} :
          /\ StopBegins(c, e, "reap", E)
          /\ slot' = slot \/ slot' = SlotAfterDeath(e)
    BY <1>2 DEF ProbeFindsDead
  <2>3. e \in Engines => /\ E \in EngineState
                         /\ E.home = engine[e].home
                         /\ E.kind = engine[e].kind
    <3>1. CASE E = engine[e]
      BY <3>1 DEF TypeOK
    <3>2. CASE E = dying
      BY <3>2, MarkedType DEF TypeOK
    <3>3. QED
      BY <2>2, <3>1, <3>2
  <2>4. /\ EnginesOK(engine')
        /\ pc' \in [Calls -> Points]
        /\ target' \in [Calls -> Engines \cup {None}]
        /\ reason' \in [Calls -> Reasons \cup {None}]
        /\ pc' = [pc EXCEPT ![c] = "drain"]
        /\ reason' = [reason EXCEPT ![c] = "reap"]
    BY <1>0, <2>2, <2>3, StopBeginsType DEF Reasons
  <2>5. slot' \in Procs \cup {None}
    <3>1. SlotAfterDeath(e) = slot \/ SlotAfterDeath(e) = None
      BY DEF SlotAfterDeath, Released
    <3>2. QED
      BY <2>2, <3>1 DEF TypeOK
  <2>6. QED
    BY <2>1, <2>4, <2>5 DEF TypeOK, AskedFor, EnginesOK
<1>3. CASE BootDone(c)
  <2> DEFINE e == candidate[c]
  <2>1. /\ current' = [current EXCEPT ![Home[c]] = e]
        /\ bound' = [bound EXCEPT ![Home[c]] = e]
        /\ engine' = [engine EXCEPT ![e].watched = TRUE]
        /\ UNCHANGED slot
    BY <1>3 DEF BootDone
  <2>2. /\ EnginesOK(engine')
        /\ current' \in [Procs -> Engines \cup {None}]
        /\ bound' \in [Procs -> Engines \cup {None}]
    <3>1. e \in Engines => engine[e] \in EngineState
      BY DEF TypeOK
    <3>2. EnginesOK([engine EXCEPT ![e] = [engine[e] EXCEPT !.watched = TRUE]])
      BY <1>0, <3>1, MarkedType, ChangedType
    <3>3. QED
      BY <1>0, <2>1, <3>2 DEF TypeOK
  <2>3. CASE Returns(c)
    BY <2>1, <2>2, <2>3, ReturnsType DEF TypeOK, EnginesOK
  <2>4. CASE /\ pc' = [pc EXCEPT ![c] = "page"]
             /\ UNCHANGED <<lifecycle, target, candidate, reason, want>>
    BY <2>1, <2>2, <2>4 DEF TypeOK, EnginesOK, AskedFor, Points
  <2>5. QED
    BY <1>3, <2>3, <2>4 DEF BootDone
<1>4. CASE BootFails(c)
  <2>1. /\ StopBegins(c, candidate[c], "abort", engine[candidate[c]])
        /\ slot' = slot /\ bound' = bound /\ lifecycle' = lifecycle
        /\ candidate' = candidate /\ want' = want
        /\ current' \in [Procs -> Engines \cup {None}]
    BY <1>0, <1>4 DEF BootFails, TypeOK
  <2>2. /\ EnginesOK(engine')
        /\ pc' \in [Calls -> Points]
        /\ target' \in [Calls -> Engines \cup {None}]
        /\ reason' \in [Calls -> Reasons \cup {None}]
        /\ pc' = [pc EXCEPT ![c] = "drain"]
        /\ reason' = [reason EXCEPT ![c] = "abort"]
    BY <1>0, <2>1, StopOfType DEF Reasons
  <2>3. QED
    BY <2>1, <2>2 DEF TypeOK, AskedFor, EnginesOK
<1>5. CASE PageReady(c)
  <2>1. Returns(c) /\ UNCHANGED <<slot, current, bound, engine>>
    BY <1>5 DEF PageReady
  <2>2. QED
    BY <2>1, ReturnsType DEF TypeOK
<1>6. CASE PageFails(c)
  <2>1. /\ StopBegins(c, candidate[c], "unpublish", engine[candidate[c]])
        /\ slot' = slot /\ bound' = bound /\ lifecycle' = lifecycle
        /\ candidate' = candidate /\ want' = want
        /\ current' \in [Procs -> Engines \cup {None}]
    BY <1>0, <1>6 DEF PageFails, TypeOK
  <2>2. /\ EnginesOK(engine')
        /\ pc' \in [Calls -> Points]
        /\ target' \in [Calls -> Engines \cup {None}]
        /\ reason' \in [Calls -> Reasons \cup {None}]
        /\ pc' = [pc EXCEPT ![c] = "drain"]
        /\ reason' = [reason EXCEPT ![c] = "unpublish"]
    BY <1>0, <2>1, StopOfType DEF Reasons
  <2>3. QED
    BY <2>1, <2>2 DEF TypeOK, AskedFor, EnginesOK
<1>7. CASE SnapshotTaken(c)
  <2>1. Boots(c, "mirage", "takeover") /\ UNCHANGED <<slot, current, bound, lifecycle, target, reason, want>>
    BY <1>7 DEF SnapshotTaken
  <2>2. /\ EnginesOK(engine')
        /\ candidate' \in [Calls -> Engines \cup {None}]
        /\ pc' \in [Calls -> Points]
        /\ pc' = [pc EXCEPT ![c] = "takeover"]
    BY <1>0, <2>1, BootsType DEF Points, AllKinds
  <2>3. QED
    BY <2>1, <2>2 DEF TypeOK, AskedFor, EnginesOK
<1>8. CASE SnapshotFails(c)
  <2>1. Returns(c) /\ UNCHANGED <<slot, current, bound, engine>>
    BY <1>8 DEF SnapshotFails
  <2>2. QED
    BY <2>1, ReturnsType DEF TypeOK
<1>9. CASE TakeoverBooted(c)
  <2>1. /\ engine' = [engine EXCEPT ![candidate[c]].watched = TRUE]
        /\ pc' = [pc EXCEPT ![c] = "handoff"]
        /\ UNCHANGED <<slot, current, bound, lifecycle, target, candidate, reason, want>>
    BY <1>9 DEF TakeoverBooted
  <2>2. EnginesOK(engine')
    <3> DEFINE e == candidate[c]
    <3>1. e \in Engines => engine[e] \in EngineState
      BY DEF TypeOK
    <3>2. EnginesOK([engine EXCEPT ![e] = [engine[e] EXCEPT !.watched = TRUE]])
      BY <1>0, <3>1, MarkedType, ChangedType
    <3>3. QED
      BY <2>1, <3>2
  <2>3. QED
    BY <2>1, <2>2 DEF TypeOK, AskedFor, EnginesOK, Points
<1>10. CASE TakeoverFails(c)
  <2>1. /\ StopBegins(c, candidate[c], "abandon", engine[candidate[c]])
        /\ slot' = slot /\ bound' = bound /\ lifecycle' = lifecycle
        /\ candidate' = candidate /\ want' = want
        /\ current' \in [Procs -> Engines \cup {None}]
    BY <1>0, <1>10 DEF TakeoverFails, TypeOK
  <2>2. /\ EnginesOK(engine')
        /\ pc' \in [Calls -> Points]
        /\ target' \in [Calls -> Engines \cup {None}]
        /\ reason' \in [Calls -> Reasons \cup {None}]
        /\ pc' = [pc EXCEPT ![c] = "drain"]
        /\ reason' = [reason EXCEPT ![c] = "abandon"]
    BY <1>0, <2>1, StopOfType DEF Reasons
  <2>3. QED
    BY <2>1, <2>2 DEF TypeOK, AskedFor, EnginesOK
<1>11. CASE HandoffDone(c)
  <2> DEFINE e == target[c]
             E == [engine[e] EXCEPT !.preserve = TRUE]
  <2>1. StopBegins(c, e, "replace", E) /\ UNCHANGED <<slot, current, bound, lifecycle, candidate, want>>
    BY <1>11 DEF HandoffDone
  <2>2. e \in Engines => /\ E \in EngineState
                         /\ E.home = engine[e].home
                         /\ E.kind = engine[e].kind
    BY MarkedType DEF TypeOK
  <2>3. /\ EnginesOK(engine')
        /\ pc' \in [Calls -> Points]
        /\ target' \in [Calls -> Engines \cup {None}]
        /\ reason' \in [Calls -> Reasons \cup {None}]
        /\ pc' = [pc EXCEPT ![c] = "drain"]
        /\ reason' = [reason EXCEPT ![c] = "replace"]
    BY <1>0, <2>1, <2>2, StopBeginsType DEF Reasons
  <2>4. QED
    BY <2>1, <2>3 DEF TypeOK, AskedFor, EnginesOK
<1>12. CASE StopTakesProcess(c)
  <2>1. /\ engine' = [engine EXCEPT ![target[c]].handle = FALSE]
        /\ pc' = [pc EXCEPT ![c] = "exit"]
        /\ UNCHANGED <<slot, current, bound, lifecycle, target, candidate, reason, want>>
    BY <1>12 DEF StopTakesProcess
  <2>2. EnginesOK(engine')
    <3> DEFINE e == target[c]
    <3>1. e \in Engines => engine[e] \in EngineState
      BY DEF TypeOK
    <3>2. EnginesOK([engine EXCEPT ![e] = [engine[e] EXCEPT !.handle = FALSE]])
      BY <1>0, <3>1, MarkedType, ChangedType
    <3>3. QED
      BY <2>1, <3>2
  <2>3. QED
    BY <2>1, <2>2 DEF TypeOK, AskedFor, EnginesOK, Points
<1>13. CASE StopFindsNothing(c)
  BY <1>0, <1>13, StopEndsType DEF StopFindsNothing
<1>14. CASE StopRefused(c)
  BY <1>0, <1>14, StopEndsType DEF StopRefused
<1>15. CASE StopReaped(c)
  BY <1>0, <1>15, StopEndsType DEF StopReaped
<1>16. CASE StopGivesUp(c)
  BY <1>0, <1>16, StopEndsType DEF StopGivesUp
<1>17. QED
  BY <1>1, <1>2, <1>3, <1>4, <1>5, <1>6, <1>7, <1>8, <1>9, <1>10, <1>11, <1>12, <1>13, <1>14,
     <1>15, <1>16 DEF Step

LEMMA EnvironmentType ==
  ASSUME TypeInv, NEW e \in Engines, Environment(e)
  PROVE  TypeInv'
<1> USE DEF TypeInv
<1>0. engine[e] \in EngineState
  BY DEF TypeOK
<1>1. SlotAfterDeath(e) \in Procs \cup {None}
  BY SlotAfterDeathType
<1>2. slot' \in Procs \cup {None} /\ UNCHANGED <<current, bound, lifecycle, pc, target, candidate, reason, want>>
  BY <1>1 DEF Environment, Crash, ProcessExits, ReaderEnds, HealthFindsDead, WriteStalls, TypeOK
<1>3. PICK r : /\ engine' = [engine EXCEPT ![e] = r]
               /\ r \in EngineState /\ r.home = engine[e].home /\ r.kind = engine[e].kind
  <2>1. CASE Crash(e) \/ ProcessExits(e)
    <3>1. engine' = [engine EXCEPT ![e] = [engine[e] EXCEPT !.os = "gone"]] \/
          engine' = [engine EXCEPT ![e] = [engine[e] EXCEPT !.os = "hollow"]]
      BY <2>1 DEF Crash, ProcessExits, TypeOK
    <3>2. QED
      BY <1>0, <3>1, MarkedType
  <2>2. CASE ReaderEnds(e)
    <3>1. engine' = [engine EXCEPT ![e] = [engine[e] EXCEPT !.reader = "ended", !.dead = TRUE]]
      BY <2>2 DEF ReaderEnds, TypeOK
    <3>2. QED
      BY <1>0, <3>1, MarkedType
  <2>3. CASE HealthFindsDead(e) \/ WriteStalls(e)
    <3>1. engine' = [engine EXCEPT ![e] = [engine[e] EXCEPT !.dead = TRUE]]
      BY <2>3 DEF HealthFindsDead, WriteStalls, TypeOK
    <3>2. QED
      BY <1>0, <3>1, MarkedType
  <2>4. QED
    BY <2>1, <2>2, <2>3 DEF Environment
<1>4. engine' \in [Engines -> EngineState] /\ \A f \in Engines : engine'[f].home = None <=> engine'[f].kind = None
  BY <1>3 DEF TypeOK
<1>5. QED
  BY <1>2, <1>4 DEF TypeOK, AskedFor

LEMMA TypeStep == TypeInv /\ [Next]_vars => TypeInv'
<1> SUFFICES ASSUME TypeInv, [Next]_vars PROVE TypeInv'
  OBVIOUS
<1>1. ASSUME NEW c \in Calls, Begin(c) PROVE TypeInv'
  BY <1>1, BeginType
<1>2. ASSUME NEW c \in Calls, Step(c) PROVE TypeInv'
  BY <1>2, StepType
<1>3. ASSUME NEW c \in Calls, CallCancelled(c) PROVE TypeInv'
  <2>1. Returns(c) /\ UNCHANGED <<slot, current, bound, engine>>
    BY <1>3 DEF CallCancelled
  <2>2. QED
    BY <2>1, ReturnsType DEF TypeInv, TypeOK
<1>4. ASSUME NEW e \in Engines, Environment(e) PROVE TypeInv'
  BY <1>4, EnvironmentType
<1>5. CASE UNCHANGED vars
  BY <1>5 DEF vars, TypeInv, TypeOK, AskedFor
<1>6. QED
  BY <1>1, <1>2, <1>3, <1>4, <1>5 DEF Next

\* The state stays well-typed, for any number of servers, calls and engines
\* and under every fault: every engine has an owner and a kind from its start
\* on, and nobody refers to what is not an engine (_state.py, pilot.py).
THEOREM TypeCorrect == Spec => []TypeOK
<1>1. TypeInv => TypeOK
  BY DEF TypeInv
<1>2. QED
  BY <1>1, TypeInit, TypeStep, PTL DEF Spec

-----------------------------------------------------------------------------
(* Where a call is decides what it refers to *)

\* Call c at point at, with its target t, its candidate n and the reason why
\* it stops the target, where cur is the current engine of its process and
\* lock the call that holds the lifecycle lock there.
Sound(c, at, t, n, why, cur, lock) ==
  /\ at \in {"drain", "exit"} <=> why # None
  /\ why # "heal"
  /\ at = "idle" => t = None /\ n = None
  /\ at # "idle" => lock = c
  /\ at \in {"probe", "snapshot", "takeover", "handoff"} \/ why \in {"reap", "stop", "replace"} => t \in Engines /\ cur = t
  /\ at \in {"probe", "snapshot"} \/ why \in {"reap", "stop"} => n = None
  /\ at \in {"boot", "page", "takeover", "handoff"} \/ why = "replace" => n \in Engines
  /\ at = "boot" => cur = None /\ t = None
  /\ at = "page" => cur = n /\ t = None
  /\ why \in {"abort", "unpublish", "abandon"} => t \in Engines /\ t = n
  /\ why \in {"abort", "unpublish"} => cur = None
  /\ why = "abandon" => cur # None

CallFits(c) == Sound(c, pc[c], target[c], candidate[c], reason[c], current[Home[c]], lifecycle[Home[c]])

Fits ==
  /\ \A c \in Calls : CallFits(c)
  /\ \A p \in Procs : lifecycle[p] # None => Home[lifecycle[p]] = p

\* Call c moves: the others stay where they are, and it touches its own
\* process only, under a lock that is its own or free.
Acts(c) ==
  /\ \A d \in Calls \ {c} : /\ pc'[d] = pc[d] /\ target'[d] = target[d]
                            /\ candidate'[d] = candidate[d] /\ reason'[d] = reason[d]
  /\ \A p \in Procs \ {Home[c]} : current'[p] = current[p] /\ lifecycle'[p] = lifecycle[p]
  /\ lifecycle[Home[c]] \in {None, c}

\* Call c moves to where the arguments, which are those of Sound, say.
Now(c, at, t, n, why, cur, lock) ==
  /\ Acts(c)
  /\ pc'[c] = at /\ target'[c] = t /\ candidate'[c] = n /\ reason'[c] = why
  /\ current'[Home[c]] = cur /\ lifecycle'[Home[c]] = lock

LEMMA FitsKept ==
  ASSUME TypeInv, Fits, NEW c \in Calls, NEW at, NEW t, NEW n, NEW why, NEW cur, NEW lock \in {None, c},
         Now(c, at, t, n, why, cur, lock), Sound(c, at, t, n, why, cur, lock)
  PROVE  Fits'
<1>0. \A d \in Calls : Home[d] \in Procs
  BY HomeAssumption
<1>1. CallFits(c)'
  BY DEF CallFits, Now
<1>2. ASSUME NEW d \in Calls \ {c} PROVE CallFits(d)'
  <2>1. CASE Home[d] = Home[c]
    <3>1. pc[d] = "idle"
      BY <2>1, NoneAssumption DEF Fits, CallFits, Sound, Now, Acts
    <3>2. target[d] = None /\ candidate[d] = None /\ reason[d] = None
      BY <3>1 DEF Fits, CallFits, Sound
    <3>3. pc'[d] = "idle" /\ target'[d] = None /\ candidate'[d] = None /\ reason'[d] = None
      BY <3>1, <3>2 DEF Now, Acts
    <3>4. QED
      BY <3>3, NoneAssumption DEF CallFits, Sound, Reasons
  <2>2. CASE Home[d] # Home[c]
    <3>1. Home[d] \in Procs \ {Home[c]} /\ CallFits(d)
      BY <1>0, <2>2 DEF Fits
    <3>2. QED
      BY <3>1 DEF Now, Acts, CallFits
  <2>3. QED
    BY <2>1, <2>2
<1>3. \A p \in Procs : lifecycle'[p] # None => Home[lifecycle'[p]] = p
  BY DEF Fits, Now, Acts
<1>4. QED
  BY <1>1, <1>2, <1>3 DEF Fits

\* A call under the lock returns.
LEMMA ReturnsSay ==
  ASSUME TypeInv, Fits, NEW c \in Calls, Returns(c), pc[c] # "idle",
         \A p \in Procs \ {Home[c]} : current'[p] = current[p]
  PROVE  Now(c, "idle", None, None, None, current'[Home[c]], None)
<1>1. lifecycle[Home[c]] = c /\ Home[c] \in Procs
  BY HomeAssumption DEF Fits, CallFits, Sound
<1>2. \A p \in Procs : lifecycle'[p] = IF lifecycle[p] = c THEN None ELSE lifecycle[p]
  BY DEF Returns
<1>3. \A p \in Procs \ {Home[c]} : lifecycle[p] # c
  BY NoneAssumption DEF Fits
<1>4. \A d \in Calls \ {c} : /\ pc'[d] = pc[d] /\ target'[d] = target[d]
                             /\ candidate'[d] = candidate[d] /\ reason'[d] = reason[d]
  BY DEF Returns, TypeInv, TypeOK
<1>5. pc'[c] = "idle" /\ target'[c] = None /\ candidate'[c] = None /\ reason'[c] = None
  BY DEF Returns, TypeInv, TypeOK
<1>6. QED
  BY <1>1, <1>2, <1>3, <1>4, <1>5 DEF Now, Acts

\* What a step leaves as it is in an engine, as far as others can tell.
Same(e) ==
  /\ engine'[e].os = engine[e].os /\ engine'[e].handle = engine[e].handle
  /\ engine'[e].home = engine[e].home /\ engine'[e].kind = engine[e].kind
  /\ engine[e].stopping => engine'[e].stopping
  /\ engine'[e].reader = "cancelled" => engine[e].reader = "cancelled" \/ engine'[e].stopping

\* Nobody can tell the engines from before, and whoever begins to stop one has
\* marked it.
Quiet(c) ==
  /\ \A f \in Engines : Same(f)
  /\ pc'[c] = "drain" => engine'[target'[c]].stopping

\* Engine e is one that call c has just started.
Fresh(c, e) ==
  /\ engine'[e].os = "running" /\ engine'[e].reader = "running"
  /\ engine'[e].handle /\ engine'[e].home = Home[c]

\* What an engine is when a stop of it begins: as it was, or marked.
Variants(e) == {engine[e], [engine[e] EXCEPT !.dead = TRUE], [engine[e] EXCEPT !.preserve = TRUE]}

\* A stop begins under the lock.
LEMMA StopBeginsSay ==
  ASSUME TypeInv, Fits, NEW c \in Calls, NEW e \in Engines, NEW why, NEW E \in Variants(e),
         StopBegins(c, e, why, E), UNCHANGED candidate,
         \A p \in Procs \ {Home[c]} : current'[p] = current[p] /\ lifecycle'[p] = lifecycle[p],
         lifecycle[Home[c]] \in {None, c}, lifecycle'[Home[c]] = c
  PROVE  /\ Now(c, "drain", e, candidate[c], why, current'[Home[c]], c)
         /\ Quiet(c)
<1>1. Now(c, "drain", e, candidate[c], why, current'[Home[c]], c)
  BY DEF StopBegins, Now, Acts, TypeInv, TypeOK
<1>2. engine \in [Engines -> EngineState] /\ engine' = [engine EXCEPT ![e] = Cancelled(E)]
  BY DEF StopBegins, TypeInv, TypeOK
<1>3. \A f \in Engines : engine'[f] = IF f = e THEN Cancelled(E) ELSE engine[f]
  BY <1>2
<1>4. /\ Cancelled(E).os = engine[e].os /\ Cancelled(E).handle = engine[e].handle
      /\ Cancelled(E).home = engine[e].home /\ Cancelled(E).kind = engine[e].kind /\ Cancelled(E).stopping
  BY <1>2 DEF Cancelled, EngineState, Variants
<1>5. QED
  BY <1>1, <1>3, <1>4 DEF Same, Quiet, Now

\* A start begins.
LEMMA BootsSay ==
  ASSUME TypeInv, NEW c \in Calls, NEW k \in AllKinds, NEW at, Boots(c, k, at)
  PROVE  \E e \in Engines :
           /\ Unused(e)
           /\ pc'[c] = at /\ candidate'[c] = e
           /\ \A d \in Calls \ {c} : pc'[d] = pc[d] /\ candidate'[d] = candidate[d]
           /\ Fresh(c, e)
           /\ \A f \in Engines \ {e} : engine'[f] = engine[f]
<1>1. PICK e \in Engines : /\ Unused(e)
                           /\ engine' = [engine EXCEPT ![e] = Started(k, Home[c])]
                           /\ candidate' = [candidate EXCEPT ![c] = e]
                           /\ pc' = [pc EXCEPT ![c] = at]
  BY DEF Boots
<1>2. /\ engine'[e] = Started(k, Home[c])
      /\ \A f \in Engines \ {e} : engine'[f] = engine[f]
  BY <1>1 DEF TypeInv, TypeOK
<1>3. /\ pc'[c] = at /\ candidate'[c] = e
      /\ \A d \in Calls \ {c} : pc'[d] = pc[d] /\ candidate'[d] = candidate[d]
  BY <1>1 DEF TypeInv, TypeOK
<1>4. /\ Started(k, Home[c]).os = "running" /\ Started(k, Home[c]).handle /\ Started(k, Home[c]).home = Home[c]
      /\ Started(k, Home[c]).reader = "running"
  BY DEF Started, Unborn
<1>5. QED
  BY <1>1, <1>2, <1>3, <1>4 DEF Fresh

\* The beginnings.
LEMMA StartFreshSays ==
  ASSUME TypeInv, Fits, NEW c \in Calls, NEW k \in Kinds, StartFresh(c, k)
  PROVE  \E e \in Engines :
           /\ Unused(e) /\ Now(c, "boot", None, e, None, None, c)
           /\ \A f \in Engines \ {e} : engine'[f] = engine[f]
           /\ Fresh(c, e)
<1>1. /\ Boots(c, k, "boot") /\ pc[c] = "idle" /\ lifecycle[Home[c]] = None /\ current[Home[c]] = None
      /\ lifecycle' = [lifecycle EXCEPT ![Home[c]] = c]
      /\ UNCHANGED <<current, bound, target, reason, want>>
  BY DEF StartFresh, Enters
<1>2. target[c] = None /\ reason[c] = None /\ k \in AllKinds /\ Home[c] \in Procs
  BY <1>1, HomeAssumption, ScopeAssumption DEF Fits, CallFits, Sound
<1>3. PICK e \in Engines :
           /\ Unused(e)
           /\ pc'[c] = "boot" /\ candidate'[c] = e
           /\ \A d \in Calls \ {c} : pc'[d] = pc[d] /\ candidate'[d] = candidate[d]
           /\ Fresh(c, e)
           /\ \A f \in Engines \ {e} : engine'[f] = engine[f]
  BY <1>1, <1>2, BootsSay
<1>4. lifecycle'[Home[c]] = c /\ \A p \in Procs \ {Home[c]} : lifecycle'[p] = lifecycle[p]
  BY <1>1, <1>2 DEF TypeInv, TypeOK
<1>5. Now(c, "boot", None, e, None, None, c)
  BY <1>1, <1>2, <1>3, <1>4 DEF Now, Acts
<1>6. QED
  BY <1>3, <1>5

\* The beginnings that start no engine.
LEMMA BeginSays ==
  ASSUME TypeInv, Fits, NEW c \in Calls,
         (\E k \in Kinds : StartOverEngine(c, k)) \/ BrowserStop(c) \/ Promote(c)
  PROVE  /\ Quiet(c)
         /\ slot' = slot
         /\ \/ Now(c, "idle", None, None, None, None, None) /\ current[Home[c]] = None
            \/ \E why \in {"reap", "stop"} :
                 Now(c, "drain", current[Home[c]], None, why, current[Home[c]], c) /\ current[Home[c]] \in Engines
            \/ \E at \in {"probe", "snapshot"} :
                 Now(c, at, current[Home[c]], None, None, current[Home[c]], c) /\ current[Home[c]] \in Engines
         /\ current' = current
<1> DEFINE e == current[Home[c]]
<1>0. /\ pc[c] = "idle" /\ lifecycle[Home[c]] = None /\ Home[c] \in Procs
      /\ target[c] = None /\ candidate[c] = None /\ reason[c] = None /\ e \in Engines \cup {None}
  BY HomeAssumption DEF StartOverEngine, BrowserStop, Promote, Enters, Fits, CallFits, Sound, TypeInv, TypeOK
<1>1. slot' = slot /\ current' = current /\ candidate' = candidate
  BY DEF StartOverEngine, BrowserStop, Promote
<1> HIDE DEF e
<1>2. ASSUME e # None, NEW why \in {"reap", "stop"}, StopBegins(c, e, why, engine[e]), lifecycle' = [lifecycle EXCEPT ![Home[c]] = c]
      PROVE  Now(c, "drain", e, None, why, e, c) /\ e \in Engines /\ Quiet(c)
  <2>1. lifecycle'[Home[c]] = c /\ \A p \in Procs \ {Home[c]} : current'[p] = current[p] /\ lifecycle'[p] = lifecycle[p]
    BY <1>0, <1>1, <1>2 DEF TypeInv, TypeOK
  <2>2. e \in Engines /\ engine[e] \in Variants(e)
    BY <1>0, <1>2 DEF Variants
  <2>3. /\ Now(c, "drain", e, candidate[c], why, current'[Home[c]], c)
        /\ Quiet(c)
    BY <1>0, <1>1, <1>2, <2>1, <2>2, StopBeginsSay
  <2>4. QED
    BY <1>0, <1>1, <2>2, <2>3 DEF e
<1>3. ASSUME e # None, NEW at \in {"probe", "snapshot"}, pc' = [pc EXCEPT ![c] = at], target' = [target EXCEPT ![c] = e],
             lifecycle' = [lifecycle EXCEPT ![Home[c]] = c], UNCHANGED <<engine, reason>>
      PROVE  Now(c, at, e, None, None, e, c) /\ e \in Engines /\ Quiet(c)
  <2>1. Now(c, at, e, None, None, e, c)
    BY <1>0, <1>1, <1>3 DEF Now, Acts, TypeInv, TypeOK, e
  <2>2. QED
    BY <1>0, <1>3, <2>1 DEF Same, Quiet, Now
<1>4. ASSUME NEW k \in Kinds, StartOverEngine(c, k)
      PROVE  /\ Quiet(c)
             /\ e \in Engines
             /\ Now(c, "drain", e, None, "reap", e, c) \/ Now(c, "probe", e, None, None, e, c)
  <2>1. e # None /\ lifecycle' = [lifecycle EXCEPT ![Home[c]] = c]
    BY <1>4 DEF StartOverEngine, e
  <2>2. CASE pc' = [pc EXCEPT ![c] = "probe"] /\ target' = [target EXCEPT ![c] = e] /\ UNCHANGED <<engine, reason>>
    BY <2>1, <2>2, <1>3
  <2>3. CASE StopBegins(c, e, "reap", engine[e])
    BY <2>1, <2>3, <1>2
  <2>4. QED
    BY <1>4, <2>2, <2>3 DEF StartOverEngine, e
<1>5. CASE BrowserStop(c)
  <2>1. CASE e = None
    <3>1. UNCHANGED <<lifecycle, engine, pc, target, reason>>
      BY <1>5, <2>1 DEF BrowserStop, e
    <3>2. QED
      BY <1>0, <1>1, <2>1, <3>1 DEF Now, Acts, Same, Quiet, e
  <2>2. CASE e # None
    <3>1. lifecycle' = [lifecycle EXCEPT ![Home[c]] = c] /\ StopBegins(c, e, "stop", engine[e])
      BY <1>5, <2>2 DEF BrowserStop, e
    <3>2. Now(c, "drain", e, None, "stop", e, c) /\ e \in Engines /\ Quiet(c)
      BY <1>2, <2>2, <3>1
    <3>3. QED
      BY <1>1, <3>2 DEF e
  <2>3. QED
    BY <2>1, <2>2
<1>6. CASE Promote(c)
  <2>1. /\ e # None /\ lifecycle' = [lifecycle EXCEPT ![Home[c]] = c]
        /\ pc' = [pc EXCEPT ![c] = "snapshot"] /\ target' = [target EXCEPT ![c] = e] /\ UNCHANGED <<engine, reason>>
    BY <1>6 DEF Promote, e
  <2>2. Now(c, "snapshot", e, None, None, e, c) /\ e \in Engines /\ Quiet(c)
    BY <1>3, <2>1
  <2>3. QED
    BY <1>1, <2>2 DEF e
<1>7. QED
  BY <1>1, <1>4, <1>5, <1>6 DEF e

\* A stop of the candidate or the target on the way.
LEMMA TurnsToStop ==
  ASSUME TypeInv, Fits, NEW c \in Calls,
         ProbeFindsDead(c) \/ BootFails(c) \/ PageFails(c) \/ TakeoverFails(c) \/ HandoffDone(c)
  PROVE  /\ Quiet(c)
         /\ slot' = slot \/ (ProbeFindsDead(c) /\ slot' = SlotAfterDeath(target[c]))
         /\ \/ ProbeFindsDead(c) /\ Now(c, "drain", target[c], None, "reap", target[c], c) /\ target[c] \in Engines
            \/ BootFails(c) /\ Now(c, "drain", candidate[c], candidate[c], "abort", None, c) /\ candidate[c] \in Engines
            \/ PageFails(c) /\ Now(c, "drain", candidate[c], candidate[c], "unpublish", None, c) /\ candidate[c] \in Engines
            \/ TakeoverFails(c) /\ Now(c, "drain", candidate[c], candidate[c], "abandon", target[c], c)
               /\ candidate[c] \in Engines /\ target[c] \in Engines
            \/ HandoffDone(c) /\ Now(c, "drain", target[c], candidate[c], "replace", target[c], c)
               /\ candidate[c] \in Engines /\ target[c] \in Engines
<1>0. /\ pc[c] \in {"probe", "boot", "page", "takeover", "handoff"} /\ lifecycle[Home[c]] = c /\ Home[c] \in Procs
      /\ UNCHANGED <<lifecycle, candidate>> /\ \A p \in Procs \ {Home[c]} : current'[p] = current[p]
  BY HomeAssumption DEF ProbeFindsDead, BootFails, PageFails, TakeoverFails, HandoffDone, Fits, CallFits, Sound, TypeInv, TypeOK
<1>1. CASE ProbeFindsDead(c)
  <2> DEFINE e == target[c]
  <2>1. /\ e \in Engines /\ current[Home[c]] = e /\ candidate[c] = None /\ current' = current
    BY <1>1 DEF ProbeFindsDead, Fits, CallFits, Sound
  <2>2. PICK E \in Variants(e) :
           StopBegins(c, e, "reap", E) /\ (slot' = slot \/ slot' = SlotAfterDeath(e))
    BY <1>1 DEF ProbeFindsDead, Variants
  <2>3. lifecycle[Home[c]] \in {None, c} /\ lifecycle'[Home[c]] = c /\ UNCHANGED candidate
        /\ \A p \in Procs \ {Home[c]} : current'[p] = current[p] /\ lifecycle'[p] = lifecycle[p]
    BY <1>0
  <2> HIDE DEF e
  <2>5. /\ Now(c, "drain", e, candidate[c], "reap", current'[Home[c]], c)
        /\ Quiet(c)
    BY <2>1, <2>2, <2>3, StopBeginsSay
  <2>4. QED
    BY <1>1, <2>1, <2>2, <2>5 DEF e
<1>2. CASE BootFails(c)
  <2>1. /\ candidate[c] \in Engines /\ current[Home[c]] = None /\ current' = current /\ slot' = slot
        /\ StopBegins(c, candidate[c], "abort", engine[candidate[c]])
    BY <1>2 DEF BootFails, Fits, CallFits, Sound
  <2>2. /\ Now(c, "drain", candidate[c], candidate[c], "abort", current'[Home[c]], c)
        /\ Quiet(c)
    BY <1>0, <2>1, StopBeginsSay DEF Variants
  <2>3. QED
    BY <1>2, <2>1, <2>2
<1>3. CASE PageFails(c)
  <2>1. /\ candidate[c] \in Engines /\ current'[Home[c]] = None /\ slot' = slot
        /\ StopBegins(c, candidate[c], "unpublish", engine[candidate[c]])
    BY <1>0, <1>3 DEF PageFails, Fits, CallFits, Sound, TypeInv, TypeOK
  <2>2. /\ Now(c, "drain", candidate[c], candidate[c], "unpublish", current'[Home[c]], c)
        /\ Quiet(c)
    BY <1>0, <2>1, StopBeginsSay DEF Variants
  <2>3. QED
    BY <1>3, <2>1, <2>2
<1>4. CASE TakeoverFails(c)
  <2>1. /\ candidate[c] \in Engines /\ target[c] \in Engines /\ current[Home[c]] = target[c] /\ current' = current /\ slot' = slot
        /\ StopBegins(c, candidate[c], "abandon", engine[candidate[c]])
    BY <1>4 DEF TakeoverFails, Fits, CallFits, Sound
  <2>2. /\ Now(c, "drain", candidate[c], candidate[c], "abandon", current'[Home[c]], c)
        /\ Quiet(c)
    BY <1>0, <2>1, StopBeginsSay DEF Variants
  <2>3. QED
    BY <1>4, <2>1, <2>2
<1>5. CASE HandoffDone(c)
  <2> DEFINE e == target[c]
  <2>1. /\ candidate[c] \in Engines /\ e \in Engines /\ current[Home[c]] = e /\ current' = current /\ slot' = slot
        /\ StopBegins(c, e, "replace", [engine[e] EXCEPT !.preserve = TRUE])
    BY <1>5 DEF HandoffDone, Fits, CallFits, Sound
  <2>2. /\ Now(c, "drain", e, candidate[c], "replace", current'[Home[c]], c)
        /\ Quiet(c)
    BY <1>0, <2>1, StopBeginsSay DEF Variants
  <2>3. QED
    BY <1>5, <2>1, <2>2
<1>6. QED
  BY <1>1, <1>2, <1>3, <1>4, <1>5

\* A call returns with the engine that is current, or the one it booted.
LEMMA TurnsBack ==
  ASSUME TypeInv, Fits, NEW c \in Calls,
         ProbeFindsAlive(c) \/ PageReady(c) \/ SnapshotFails(c)
  PROVE  /\ Quiet(c)
         /\ slot' = slot /\ current' = current /\ engine' = engine
         /\ Now(c, "idle", None, None, None, current[Home[c]], None)
         /\ target[c] \in {None, current[Home[c]]} /\ candidate[c] \in {None, current[Home[c]]}
         /\ current[Home[c]] # None /\ pc[c] \in {"probe", "page", "snapshot"}
<1>1. /\ Returns(c) /\ UNCHANGED <<slot, current, bound, engine>> /\ pc[c] \in {"probe", "page", "snapshot"}
  BY DEF ProbeFindsAlive, PageReady, SnapshotFails
<1>2. /\ target[c] \in {None, current[Home[c]]} /\ candidate[c] \in {None, current[Home[c]]} /\ current[Home[c]] # None
  BY <1>1, NoneAssumption DEF Fits, CallFits, Sound
<1>3. Now(c, "idle", None, None, None, current'[Home[c]], None)
  BY <1>1, ReturnsSay
<1>4. QED
  BY <1>1, <1>2, <1>3 DEF Same, Quiet, Now

\* A booted engine is published.
LEMMA BootDoneSays ==
  ASSUME TypeInv, Fits, NEW c \in Calls, BootDone(c)
  PROVE  LET n == candidate[c] IN
         /\ n \in Engines /\ pc[c] = "boot" /\ target[c] = None /\ current[Home[c]] = None
         /\ Quiet(c)
         /\ slot' = slot
         /\ Now(c, "page", None, n, None, n, c) \/ Now(c, "idle", None, None, None, n, None)
<1> DEFINE n == candidate[c]
<1>1. /\ n \in Engines /\ pc[c] = "boot" /\ target[c] = None /\ current[Home[c]] = None /\ reason[c] = None
      /\ lifecycle[Home[c]] = c /\ Home[c] \in Procs /\ slot' = slot
      /\ current' = [current EXCEPT ![Home[c]] = n]
      /\ engine' = [engine EXCEPT ![n].watched = TRUE]
  BY HomeAssumption DEF BootDone, Fits, CallFits, Sound
<1>2. current'[Home[c]] = n /\ \A p \in Procs \ {Home[c]} : current'[p] = current[p]
  BY <1>1 DEF TypeInv, TypeOK
<1>3. \A f \in Engines : Same(f)
  <2>1. engine[n] \in EngineState /\ \A f \in Engines : engine'[f] = IF f = n THEN [engine[n] EXCEPT !.watched = TRUE] ELSE engine[f]
    BY <1>1 DEF TypeInv, TypeOK
  <2>2. QED
    BY <2>1 DEF Same, EngineState
<1>4. CASE Returns(c)
  BY <1>1, <1>2, <1>3, <1>4, ReturnsSay DEF Quiet, Now
<1>5. CASE pc' = [pc EXCEPT ![c] = "page"] /\ UNCHANGED <<lifecycle, target, candidate, reason, want>>
  <2>1. Now(c, "page", None, n, None, n, c)
    BY <1>1, <1>2, <1>5 DEF Now, Acts, TypeInv, TypeOK
  <2>2. QED
    BY <1>1, <1>3, <2>1 DEF Quiet, Now
<1>6. QED
  BY <1>4, <1>5 DEF BootDone

\* The engine that is to take over starts, and is up.
LEMMA SnapshotTakenSays ==
  ASSUME TypeInv, Fits, NEW c \in Calls, SnapshotTaken(c)
  PROVE  /\ pc[c] = "snapshot" /\ target[c] \in Engines /\ current[Home[c]] = target[c] /\ slot' = slot
         /\ candidate[c] = None
         /\ \E e \in Engines :
              /\ Unused(e) /\ Now(c, "takeover", target[c], e, None, target[c], c)
              /\ \A f \in Engines \ {e} : engine'[f] = engine[f]
              /\ Fresh(c, e)
<1>1. /\ pc[c] = "snapshot" /\ target[c] \in Engines /\ current[Home[c]] = target[c] /\ slot' = slot /\ candidate[c] = None
      /\ Boots(c, "mirage", "takeover") /\ UNCHANGED <<current, lifecycle, target, reason>>
      /\ reason[c] = None /\ lifecycle[Home[c]] = c
  BY DEF SnapshotTaken, Fits, CallFits, Sound
<1>2. "mirage" \in AllKinds
  BY DEF AllKinds
<1>3. PICK e \in Engines :
           /\ Unused(e)
           /\ pc'[c] = "takeover" /\ candidate'[c] = e
           /\ \A d \in Calls \ {c} : pc'[d] = pc[d] /\ candidate'[d] = candidate[d]
           /\ Fresh(c, e)
           /\ \A f \in Engines \ {e} : engine'[f] = engine[f]
  BY <1>1, <1>2, BootsSay
<1>4. Now(c, "takeover", target[c], e, None, target[c], c)
  BY <1>1, <1>3 DEF Now, Acts
<1>5. QED
  BY <1>1, <1>3, <1>4

LEMMA TakeoverBootedSays ==
  ASSUME TypeInv, Fits, NEW c \in Calls, TakeoverBooted(c)
  PROVE  /\ pc[c] = "takeover" /\ target[c] \in Engines /\ candidate[c] \in Engines /\ current[Home[c]] = target[c] /\ slot' = slot
         /\ Now(c, "handoff", target[c], candidate[c], None, target[c], c)
         /\ Quiet(c)
<1> DEFINE n == candidate[c]
<1>1. /\ pc[c] = "takeover" /\ target[c] \in Engines /\ n \in Engines /\ current[Home[c]] = target[c] /\ slot' = slot
      /\ UNCHANGED <<current, lifecycle, target, candidate, reason>> /\ pc' = [pc EXCEPT ![c] = "handoff"]
      /\ reason[c] = None /\ lifecycle[Home[c]] = c
      /\ engine' = [engine EXCEPT ![n].watched = TRUE]
  BY DEF TakeoverBooted, Fits, CallFits, Sound
<1>2. Now(c, "handoff", target[c], candidate[c], None, target[c], c)
  BY <1>1 DEF Now, Acts, TypeInv, TypeOK
<1>3. \A f \in Engines : Same(f)
  <2>1. engine[n] \in EngineState /\ \A f \in Engines : engine'[f] = IF f = n THEN [engine[n] EXCEPT !.watched = TRUE] ELSE engine[f]
    BY <1>1 DEF TypeInv, TypeOK
  <2>2. QED
    BY <2>1 DEF Same, EngineState
<1>4. QED
  BY <1>1, <1>2, <1>3 DEF Quiet, Now

\* A stop takes the process.
LEMMA StopTakesSays ==
  ASSUME TypeInv, Fits, NEW c \in Calls, StopTakesProcess(c)
  PROVE  /\ pc[c] = "drain" /\ target[c] \in Engines /\ slot' = slot
         /\ Now(c, "exit", target[c], candidate[c], reason[c], current[Home[c]], c)
         /\ \A f \in Engines \ {target[c]} : engine'[f] = engine[f]
         /\ engine'[target[c]].os = engine[target[c]].os /\ ~engine'[target[c]].handle
         /\ engine'[target[c]].home = engine[target[c]].home /\ engine'[target[c]].kind = engine[target[c]].kind
         /\ engine'[target[c]].stopping = engine[target[c]].stopping
<1> DEFINE e == target[c]
<1>1. /\ pc[c] = "drain" /\ slot' = slot /\ reason[c] # None /\ reason[c] \in Reasons
      /\ UNCHANGED <<current, lifecycle, target, candidate, reason>> /\ pc' = [pc EXCEPT ![c] = "exit"]
      /\ lifecycle[Home[c]] = c
      /\ engine' = [engine EXCEPT ![e].handle = FALSE]
  BY DEF StopTakesProcess, Fits, CallFits, Sound, TypeInv, TypeOK
<1>2. e \in Engines
  BY <1>1 DEF Fits, CallFits, Sound, Reasons
<1>3. Now(c, "exit", target[c], candidate[c], reason[c], current[Home[c]], c)
  BY <1>1 DEF Now, Acts, TypeInv, TypeOK
<1>4. engine[e] \in EngineState /\ \A f \in Engines : engine'[f] = IF f = e THEN [engine[e] EXCEPT !.handle = FALSE] ELSE engine[f]
  BY <1>1, <1>2 DEF TypeInv, TypeOK
<1>5. QED
  BY <1>1, <1>2, <1>3, <1>4 DEF EngineState

\* How a stop ends: the start goes on, the call returns, or the engine that
\* was to take over is stopped too.
StopEndsSo(c, ok) ==
  LET p == Home[c]
      t == target[c]
      n == candidate[c] IN
  \/ /\ reason[c] = "reap" /\ ok /\ SlotFree(p) /\ slot' = p /\ current[p] = t /\ n = None
     /\ \E e \in Engines :
          /\ Unused(e) /\ Now(c, "boot", None, e, None, None, c)
          /\ \A f \in Engines \ {e} : engine'[f] = engine[f]
          /\ Fresh(c, e)
  \/ /\ Quiet(c)
     /\ \/ /\ reason[c] = "reap" /\ ok /\ ~SlotFree(p) /\ slot' = slot /\ current[p] = t /\ n = None
           /\ Now(c, "idle", None, None, None, None, None)
        \/ /\ reason[c] \in {"reap", "stop"} /\ ~ok /\ slot' = slot /\ current[p] = t /\ n = None
           /\ Now(c, "idle", None, None, None, t, None)
        \/ /\ reason[c] \in {"abort", "unpublish"} /\ slot' = Released(p) /\ current[p] = None /\ t = n
           /\ Now(c, "idle", None, None, None, None, None)
        \/ /\ reason[c] = "stop" /\ ok /\ slot' = Released(p) /\ current[p] = t /\ n = None
           /\ Now(c, "idle", None, None, None, None, None)
        \/ /\ reason[c] = "replace" /\ ok /\ slot' = slot /\ current[p] = t /\ n \in Engines
           /\ Now(c, "idle", None, None, None, n, None)
        \/ /\ reason[c] = "abandon" /\ slot' = slot /\ current[p] # None /\ t = n
           /\ Now(c, "idle", None, None, None, current[p], None)
        \/ /\ reason[c] = "replace" /\ ~ok /\ slot' = slot /\ current[p] = t /\ n \in Engines
           /\ Now(c, "drain", n, n, "abandon", t, c)

LEMMA StopEndsSay ==
  ASSUME TypeInv, Fits, NEW c \in Calls, NEW ok \in BOOLEAN, pc[c] \in {"drain", "exit"}, StopEnds(c, ok)
  PROVE  target[c] \in Engines /\ StopEndsSo(c, ok)
<1> DEFINE p == Home[c]
           t == target[c]
           n == candidate[c]
<1>0. /\ p \in Procs /\ lifecycle[p] = c /\ reason[c] \in Reasons \ {"heal"} /\ t \in Engines
      /\ current \in [Procs -> Engines \cup {None}]
  BY HomeAssumption DEF Fits, CallFits, Sound, TypeInv, TypeOK, Reasons
<1>1. CASE ReapEnds(c, ok)
  <2>1. reason[c] = "reap" /\ current[p] = t /\ n = None
    BY <1>1 DEF ReapEnds, Fits, CallFits, Sound
  <2>2. /\ current'[p] = IF ok THEN None ELSE t
        /\ \A q \in Procs \ {p} : current'[q] = current[q]
    BY <1>0, <1>1, <2>1 DEF ReapEnds
  <2>3. CASE ok /\ SlotFree(p)
    <3>1. /\ slot' = p /\ Boots(c, want[c], "boot") /\ target' = [target EXCEPT ![c] = None]
          /\ reason' = [reason EXCEPT ![c] = None] /\ lifecycle' = lifecycle
      BY <1>1, <2>3 DEF ReapEnds
    <3>2. want[c] \in AllKinds
      BY <2>1 DEF TypeInv, AskedFor
    <3>3. PICK e \in Engines :
           /\ Unused(e)
           /\ pc'[c] = "boot" /\ candidate'[c] = e
           /\ \A d \in Calls \ {c} : pc'[d] = pc[d] /\ candidate'[d] = candidate[d]
           /\ Fresh(c, e)
           /\ \A f \in Engines \ {e} : engine'[f] = engine[f]
      BY <3>1, <3>2, BootsSay
    <3>4. Now(c, "boot", None, e, None, None, c)
      BY <1>0, <2>2, <2>3, <3>1, <3>3 DEF Now, Acts, TypeInv, TypeOK
    <3>5. QED
      BY <1>0, <2>1, <2>3, <3>1, <3>3, <3>4 DEF StopEndsSo
  <2>4. CASE ~(ok /\ SlotFree(p))
    <3>1. Returns(c) /\ UNCHANGED <<slot, engine>>
      BY <1>1, <2>4 DEF ReapEnds
    <3>2. Now(c, "idle", None, None, None, current'[p], None) /\ Quiet(c)
      BY <2>2, <3>1, ReturnsSay DEF Same, Quiet, Now
    <3>3. QED
      BY <1>0, <2>1, <2>2, <2>4, <3>1, <3>2 DEF StopEndsSo
  <2>5. QED
    BY <2>3, <2>4
<1>2. CASE AbortEnds(c, ok)
  <2>1. /\ reason[c] \in {"abort", "unpublish"} /\ current[p] = None /\ t = n
        /\ slot' = Released(p) /\ Returns(c) /\ UNCHANGED <<current, engine>>
    BY <1>2 DEF AbortEnds, Fits, CallFits, Sound
  <2>2. Now(c, "idle", None, None, None, current'[p], None) /\ Quiet(c)
    BY <2>1, ReturnsSay DEF Same, Quiet, Now
  <2>3. QED
    BY <1>0, <2>1, <2>2 DEF StopEndsSo
<1>3. CASE BrowserStopEnds(c, ok)
  <2>1. /\ reason[c] = "stop" /\ current[p] = t /\ n = None
        /\ slot' = (IF ok THEN Released(p) ELSE slot) /\ Returns(c) /\ UNCHANGED engine
    BY <1>3 DEF BrowserStopEnds, Fits, CallFits, Sound
  <2>2. /\ current'[p] = IF ok THEN None ELSE t
        /\ \A q \in Procs \ {p} : current'[q] = current[q]
    BY <1>0, <1>3, <2>1 DEF BrowserStopEnds
  <2>3. Now(c, "idle", None, None, None, current'[p], None) /\ Quiet(c)
    BY <2>1, <2>2, ReturnsSay DEF Same, Quiet, Now
  <2>4. QED
    BY <1>0, <2>1, <2>2, <2>3 DEF StopEndsSo
<1>4. CASE ReplaceEnds(c, ok)
  <2>1. reason[c] = "replace" /\ current[p] = t /\ n \in Engines /\ slot' = slot
    BY <1>4 DEF ReplaceEnds, Fits, CallFits, Sound
  <2> DEFINE kept == [engine EXCEPT ![t].preserve = FALSE]
  <2>2. /\ kept \in [Engines -> EngineState]
        /\ \A f \in Engines : /\ kept[f].os = engine[f].os /\ kept[f].handle = engine[f].handle
                              /\ kept[f].home = engine[f].home /\ kept[f].kind = engine[f].kind
                              /\ kept[f].stopping = engine[f].stopping /\ kept[f].reader = engine[f].reader
    <3>1. \A f \in Engines : kept[f] = IF f = t THEN [engine[t] EXCEPT !.preserve = FALSE] ELSE engine[f]
      BY <1>0 DEF TypeInv, TypeOK
    <3>2. engine \in [Engines -> EngineState] /\ [engine[t] EXCEPT !.preserve = FALSE] \in EngineState
      BY <1>0, MarkedType DEF TypeInv, TypeOK
    <3>3. kept \in [Engines -> EngineState]
      BY <3>2
    <3>4. QED
      BY <1>0, <3>1, <3>2, <3>3 DEF EngineState
  <2>3. CASE ok
    <3>1. current' = [current EXCEPT ![p] = n] /\ engine' = kept /\ Returns(c)
      BY <1>4, <2>3 DEF ReplaceEnds
    <3>2. current'[p] = n /\ \A q \in Procs \ {p} : current'[q] = current[q]
      BY <1>0, <3>1
    <3>3. Now(c, "idle", None, None, None, current'[p], None) /\ Quiet(c)
      BY <2>2, <3>1, <3>2, ReturnsSay DEF Same, Quiet, Now
    <3>4. QED
      BY <1>0, <2>1, <2>3, <3>2, <3>3 DEF StopEndsSo
  <2>4. CASE ~ok
    <3>1. /\ engine' = [kept EXCEPT ![n] = Cancelled(kept[n])]
          /\ pc' = [pc EXCEPT ![c] = "drain"] /\ target' = [target EXCEPT ![c] = n]
          /\ reason' = [reason EXCEPT ![c] = "abandon"] /\ UNCHANGED <<current, lifecycle, candidate>>
      BY <1>4, <2>4 DEF ReplaceEnds
    <3>2. Now(c, "drain", n, n, "abandon", t, c)
      BY <1>0, <2>1, <3>1 DEF Now, Acts, TypeInv, TypeOK
    <3> HIDE DEF kept
    <3>3. \A f \in Engines : engine'[f] = IF f = n THEN Cancelled(kept[n]) ELSE kept[f]
      BY <2>2, <3>1
    <3>4. /\ Cancelled(kept[n]).os = kept[n].os /\ Cancelled(kept[n]).handle = kept[n].handle
          /\ Cancelled(kept[n]).home = kept[n].home /\ Cancelled(kept[n]).kind = kept[n].kind /\ Cancelled(kept[n]).stopping
      BY <2>1, <2>2 DEF Cancelled, EngineState
    <3>5. \A f \in Engines : Same(f)
      BY <2>2, <3>3, <3>4 DEF Same, Quiet, Now
    <3>6. engine'[n].stopping
      BY <2>1, <2>2, <3>3 DEF Cancelled, EngineState
    <3>7. QED
      BY <1>0, <2>1, <2>4, <3>2, <3>5, <3>6 DEF StopEndsSo, Quiet, Now
  <2>5. QED
    BY <2>3, <2>4
<1>5. CASE AbandonEnds(c, ok)
  <2>1. /\ reason[c] = "abandon" /\ current[p] # None /\ t = n
        /\ slot' = slot /\ Returns(c) /\ UNCHANGED <<current, engine>>
    BY <1>5 DEF AbandonEnds, Fits, CallFits, Sound
  <2>2. Now(c, "idle", None, None, None, current'[p], None) /\ Quiet(c)
    BY <2>1, ReturnsSay DEF Same, Quiet, Now
  <2>3. QED
    BY <1>0, <2>1, <2>2 DEF StopEndsSo
<1>6. QED
  BY <1>0, <1>1, <1>2, <1>3, <1>4, <1>5 DEF StopEnds, HealerEnds

LEMMA FitsInit == Init => Fits
  BY HomeAssumption, NoneAssumption DEF Init, Fits, CallFits, Sound, Reasons

LEMMA CancelledSays ==
  ASSUME TypeInv, Fits, NEW c \in Calls, CallCancelled(c)
  PROVE  /\ Now(c, "idle", None, None, None, current[Home[c]], None)
         /\ UNCHANGED <<slot, current, engine>>
<1>1. Returns(c) /\ UNCHANGED <<slot, current, bound, engine>> /\ pc[c] # "idle"
  BY DEF CallCancelled
<1>2. Now(c, "idle", None, None, None, current'[Home[c]], None)
  BY <1>1, ReturnsSay
<1>3. QED
  BY <1>1, <1>2

LEMMA FitsStep ==
  ASSUME "heal" \notin Tools
  PROVE  TypeInv /\ Fits /\ [Next]_vars => Fits'
<1> SUFFICES ASSUME TypeInv, Fits, [Next]_vars PROVE Fits'
  OBVIOUS
<1>0. None \notin Engines /\ None \notin Calls /\ None \notin Reasons
  BY NoneAssumption
<1>1. ASSUME NEW c \in Calls, Begin(c) PROVE Fits'
  <2>1. ASSUME NEW k \in Kinds, StartFresh(c, k) PROVE Fits'
    <3>1. PICK e \in Engines : Now(c, "boot", None, e, None, None, c)
      BY <2>1, StartFreshSays
    <3>2. Sound(c, "boot", None, e, None, None, c)
      BY <1>0 DEF Sound, Reasons
    <3>3. QED
      BY <3>1, <3>2, FitsKept
  <2>2. CASE (\E k \in Kinds : StartOverEngine(c, k)) \/ BrowserStop(c) \/ Promote(c)
    <3> DEFINE e == current[Home[c]]
    <3>1. CASE Now(c, "idle", None, None, None, None, None)
      <4>1. Sound(c, "idle", None, None, None, None, None)
        BY <1>0 DEF Sound, Reasons
      <4>2. QED
        BY <3>1, <4>1, FitsKept
    <3>2. ASSUME NEW why \in {"reap", "stop"}, Now(c, "drain", e, None, why, e, c), e \in Engines PROVE Fits'
      <4>1. Sound(c, "drain", e, None, why, e, c)
        BY <1>0, <3>2 DEF Sound, Reasons
      <4>2. QED
        BY <3>2, <4>1, FitsKept
    <3>3. ASSUME NEW at \in {"probe", "snapshot"}, Now(c, at, e, None, None, e, c), e \in Engines PROVE Fits'
      <4>1. Sound(c, at, e, None, None, e, c)
        BY <1>0, <3>3 DEF Sound, Reasons
      <4>2. QED
        BY <3>3, <4>1, FitsKept
    <3>4. QED
      BY <2>2, <3>1, <3>2, <3>3, BeginSays
  <2>3. QED
    BY <1>1, <2>1, <2>2 DEF Begin, HealerRestarts
<1>2. ASSUME NEW c \in Calls, Step(c) PROVE Fits'
  <2> DEFINE t == target[c]
             n == candidate[c]
  <2>1. CASE ProbeFindsAlive(c) \/ PageReady(c) \/ SnapshotFails(c)
    <3>1. Now(c, "idle", None, None, None, current[Home[c]], None)
      BY <2>1, TurnsBack
    <3>2. Sound(c, "idle", None, None, None, current[Home[c]], None)
      BY <1>0 DEF Sound, Reasons
    <3>3. QED
      BY <3>1, <3>2, FitsKept
  <2>2. CASE ProbeFindsDead(c)
    <3>1. Now(c, "drain", t, None, "reap", t, c) /\ t \in Engines
      BY <2>2, TurnsToStop DEF ProbeFindsDead, BootFails, PageFails, TakeoverFails, HandoffDone
    <3>2. Sound(c, "drain", t, None, "reap", t, c)
      BY <1>0, <3>1 DEF Sound, Reasons
    <3>3. QED
      BY <3>1, <3>2, FitsKept
  <2>3. CASE BootFails(c)
    <3>1. Now(c, "drain", n, n, "abort", None, c) /\ n \in Engines
      BY <2>3, TurnsToStop DEF ProbeFindsDead, BootFails, PageFails, TakeoverFails, HandoffDone
    <3>2. Sound(c, "drain", n, n, "abort", None, c)
      BY <1>0, <3>1 DEF Sound, Reasons
    <3>3. QED
      BY <3>1, <3>2, FitsKept
  <2>4. CASE PageFails(c)
    <3>1. Now(c, "drain", n, n, "unpublish", None, c) /\ n \in Engines
      BY <2>4, TurnsToStop DEF ProbeFindsDead, BootFails, PageFails, TakeoverFails, HandoffDone
    <3>2. Sound(c, "drain", n, n, "unpublish", None, c)
      BY <1>0, <3>1 DEF Sound, Reasons
    <3>3. QED
      BY <3>1, <3>2, FitsKept
  <2>5. CASE TakeoverFails(c) \/ HandoffDone(c)
    <3>1. /\ n \in Engines /\ t \in Engines
          /\ Now(c, "drain", n, n, "abandon", t, c) \/ Now(c, "drain", t, n, "replace", t, c)
      BY <2>5, TurnsToStop DEF ProbeFindsDead, BootFails, PageFails, TakeoverFails, HandoffDone
    <3>2. Sound(c, "drain", n, n, "abandon", t, c) /\ Sound(c, "drain", t, n, "replace", t, c)
      BY <1>0, <3>1 DEF Sound, Reasons
    <3>3. QED
      BY <3>1, <3>2, FitsKept
  <2>6. CASE BootDone(c)
    <3>1. /\ n \in Engines
          /\ Now(c, "page", None, n, None, n, c) \/ Now(c, "idle", None, None, None, n, None)
      BY <2>6, BootDoneSays
    <3>2. Sound(c, "page", None, n, None, n, c) /\ Sound(c, "idle", None, None, None, n, None)
      BY <1>0, <3>1 DEF Sound, Reasons
    <3>3. QED
      BY <3>1, <3>2, FitsKept
  <2>7. CASE SnapshotTaken(c)
    <3>1. PICK e \in Engines : t \in Engines /\ Now(c, "takeover", t, e, None, t, c)
      BY <2>7, SnapshotTakenSays
    <3>2. Sound(c, "takeover", t, e, None, t, c)
      BY <1>0, <3>1 DEF Sound, Reasons
    <3>3. QED
      BY <3>1, <3>2, FitsKept
  <2>8. CASE TakeoverBooted(c)
    <3>1. t \in Engines /\ n \in Engines /\ Now(c, "handoff", t, n, None, t, c)
      BY <2>8, TakeoverBootedSays
    <3>2. Sound(c, "handoff", t, n, None, t, c)
      BY <1>0, <3>1 DEF Sound, Reasons
    <3>3. QED
      BY <3>1, <3>2, FitsKept
  <2>9. CASE StopTakesProcess(c)
    <3>1. pc[c] = "drain" /\ Now(c, "exit", t, n, reason[c], current[Home[c]], c)
      BY <2>9, StopTakesSays
    <3>2. Sound(c, "drain", t, n, reason[c], current[Home[c]], lifecycle[Home[c]])
      BY <3>1 DEF Fits, CallFits
    <3>3. Sound(c, "exit", t, n, reason[c], current[Home[c]], c)
      BY <3>2 DEF Sound
    <3>4. QED
      BY <3>1, <3>3, FitsKept
  <2>10. CASE StopFindsNothing(c) \/ StopRefused(c) \/ StopReaped(c) \/ StopGivesUp(c)
    <3>1. PICK ok \in BOOLEAN : pc[c] \in {"drain", "exit"} /\ StopEnds(c, ok)
      BY <2>10 DEF StopFindsNothing, StopRefused, StopReaped, StopGivesUp
    <3>2. t \in Engines /\ StopEndsSo(c, ok)
      BY <3>1, StopEndsSay
    <3>3. ASSUME NEW e \in Engines, Now(c, "boot", None, e, None, None, c) PROVE Fits'
      <4>1. Sound(c, "boot", None, e, None, None, c)
        BY <1>0 DEF Sound, Reasons
      <4>2. QED
        BY <3>3, <4>1, FitsKept
    <3>4. ASSUME NEW cur, Now(c, "idle", None, None, None, cur, None) PROVE Fits'
      <4>1. Sound(c, "idle", None, None, None, cur, None)
        BY <1>0 DEF Sound, Reasons
      <4>2. QED
        BY <3>4, <4>1, FitsKept
    <3>5. ASSUME n \in Engines, Now(c, "drain", n, n, "abandon", t, c) PROVE Fits'
      <4>1. Sound(c, "drain", n, n, "abandon", t, c)
        BY <1>0, <3>2, <3>5 DEF Sound, Reasons
      <4>2. QED
        BY <3>5, <4>1, FitsKept
    <3>6. QED
      BY <3>2, <3>3, <3>4, <3>5 DEF StopEndsSo
  <2>11. QED
    BY <1>2, <2>1, <2>2, <2>3, <2>4, <2>5, <2>6, <2>7, <2>8, <2>9, <2>10 DEF Step
<1>3. ASSUME NEW c \in Calls, CallCancelled(c) PROVE Fits'
  <2>1. Now(c, "idle", None, None, None, current[Home[c]], None)
    BY <1>3, CancelledSays
  <2>2. Sound(c, "idle", None, None, None, current[Home[c]], None)
    BY <1>0 DEF Sound, Reasons
  <2>3. QED
    BY <2>1, <2>2, FitsKept
<1>4. ASSUME NEW e \in Engines, Environment(e) PROVE Fits'
  <2>1. UNCHANGED <<current, lifecycle, pc, target, candidate, reason>>
    BY <1>4 DEF Environment, Crash, ProcessExits, ReaderEnds, HealthFindsDead, WriteStalls
  <2>2. QED
    BY <2>1 DEF Fits, CallFits
<1>5. CASE UNCHANGED vars
  BY <1>5 DEF vars, Fits, CallFits
<1>6. QED
  BY <1>1, <1>2, <1>3, <1>4, <1>5 DEF Next

LEMMA FitsAlways ==
  ASSUME "heal" \notin Tools
  PROVE  Spec => [](TypeInv /\ Fits)
<1>1. TypeInv /\ Fits /\ [Next]_vars => Fits'
  BY FitsStep
<1>2. QED
  BY <1>1, TypeInit, TypeStep, FitsInit, PTL DEF Spec

-----------------------------------------------------------------------------
(* A process without a browser does not keep the slot *)

LEMMA IdleKept ==
  ASSUME TypeInv, IdleFreesSlot, NEW c \in Calls, Acts(c), slot' \in {slot, None, Home[c]},
         slot' = Home[c] => current'[Home[c]] # None \/ lifecycle'[Home[c]] # None
  PROVE  IdleFreesSlot'
  BY NoneAssumption DEF IdleFreesSlot, Acts

LEMMA DeathFrees == \A e \in Engines : SlotAfterDeath(e) \in {slot, None}
  BY DEF SlotAfterDeath, Released

LEMMA IdleStep ==
  ASSUME "heal" \notin Tools, "cancel" \notin Faults
  PROVE  TypeInv /\ Fits /\ IdleFreesSlot /\ [Next]_vars => IdleFreesSlot'
<1> SUFFICES ASSUME TypeInv, Fits, IdleFreesSlot, [Next]_vars PROVE IdleFreesSlot'
  OBVIOUS
<1>0. None \notin Engines /\ None \notin Calls /\ None \notin Procs
  BY NoneAssumption
<1>1. ASSUME NEW c \in Calls, Begin(c) PROVE IdleFreesSlot'
  <2>1. ASSUME NEW k \in Kinds, StartFresh(c, k) PROVE IdleFreesSlot'
    <3>1. PICK e \in Engines : Now(c, "boot", None, e, None, None, c)
      BY <2>1, StartFreshSays
    <3>2. slot' = Home[c]
      BY <2>1 DEF StartFresh
    <3>3. QED
      BY <1>0, <3>1, <3>2, IdleKept DEF Now
  <2>2. CASE (\E k \in Kinds : StartOverEngine(c, k)) \/ BrowserStop(c) \/ Promote(c)
    <3>1. slot' = slot /\ Acts(c) /\ current' = current /\ (lifecycle'[Home[c]] # None \/ current[Home[c]] = None)
      BY <1>0, <2>2, BeginSays DEF Now
    <3>2. slot = Home[c] => current[Home[c]] # None \/ lifecycle[Home[c]] # None
      BY HomeAssumption DEF IdleFreesSlot
    <3>3. lifecycle[Home[c]] = None
      BY <2>2 DEF StartOverEngine, BrowserStop, Promote, Enters
    <3>4. QED
      BY <3>1, <3>2, <3>3, IdleKept
  <2>3. QED
    BY <1>1, <2>1, <2>2 DEF Begin, HealerRestarts
<1>2. ASSUME NEW c \in Calls, Step(c) PROVE IdleFreesSlot'
  <2> DEFINE t == target[c]
             n == candidate[c]
  <2>1. CASE ProbeFindsAlive(c) \/ PageReady(c) \/ SnapshotFails(c)
    <3>1. slot' = slot /\ Acts(c) /\ current'[Home[c]] # None
      BY <2>1, TurnsBack DEF Now
    <3>2. QED
      BY <3>1, IdleKept
  <2>2. CASE ProbeFindsDead(c) \/ BootFails(c) \/ PageFails(c) \/ TakeoverFails(c) \/ HandoffDone(c)
    <3>1. /\ Acts(c) /\ lifecycle'[Home[c]] = c
          /\ slot' = slot \/ (slot' = SlotAfterDeath(t) /\ t \in Engines)
      BY <2>2, TurnsToStop DEF Now, ProbeFindsDead, BootFails, PageFails, TakeoverFails, HandoffDone
    <3>2. QED
      BY <1>0, <3>1, DeathFrees, IdleKept
  <2>3. CASE BootDone(c)
    <3>1. slot' = slot /\ Acts(c) /\ current'[Home[c]] # None
      BY <1>0, <2>3, BootDoneSays DEF Now
    <3>2. QED
      BY <3>1, IdleKept
  <2>4. CASE SnapshotTaken(c) \/ TakeoverBooted(c) \/ StopTakesProcess(c)
    <3>1. slot' = slot /\ Acts(c) /\ lifecycle'[Home[c]] = c
      BY <2>4, SnapshotTakenSays, TakeoverBootedSays, StopTakesSays DEF Now
    <3>2. QED
      BY <1>0, <3>1, IdleKept
  <2>5. CASE StopFindsNothing(c) \/ StopRefused(c) \/ StopReaped(c) \/ StopGivesUp(c)
    <3>1. PICK ok \in BOOLEAN : pc[c] \in {"drain", "exit"} /\ StopEnds(c, ok)
      BY <2>5 DEF StopFindsNothing, StopRefused, StopReaped, StopGivesUp
    <3>2. t \in Engines /\ StopEndsSo(c, ok)
      BY <3>1, StopEndsSay
    <3>3. /\ Acts(c) /\ slot' \in {slot, None, Home[c]}
          /\ slot' = Home[c] => current'[Home[c]] # None \/ lifecycle'[Home[c]] # None
      BY <1>0, <3>2, HomeAssumption DEF StopEndsSo, Now, SlotFree, Released
    <3>4. QED
      BY <3>3, IdleKept
  <2>6. QED
    BY <1>2, <2>1, <2>2, <2>3, <2>4, <2>5 DEF Step
<1>3. ASSUME NEW e \in Engines, Environment(e) PROVE IdleFreesSlot'
  <2>1. UNCHANGED <<current, lifecycle>> /\ slot' \in {slot, SlotAfterDeath(e)}
    BY <1>3 DEF Environment, Crash, ProcessExits, ReaderEnds, HealthFindsDead, WriteStalls
  <2>2. QED
    BY <1>0, <2>1, DeathFrees DEF IdleFreesSlot
<1>4. CASE UNCHANGED vars
  BY <1>4 DEF vars, IdleFreesSlot
<1>5. QED
  BY <1>1, <1>2, <1>3, <1>4 DEF Next, CallCancelled

\* While no healer stops an engine outside the lock and no call is withdrawn,
\* a server that has no browser and is not about to get one leaves the machine's
\* slot to the others, also when stops are refused or too slow, an engine dies
\* under its call or a promotion fails (release_browser_lock in pilot.py).
THEOREM IdleServersFreeTheSlot ==
  ASSUME "heal" \notin Tools, "cancel" \notin Faults
  PROVE  Spec => []IdleFreesSlot
<1>1. Init => IdleFreesSlot
  BY NoneAssumption DEF Init, IdleFreesSlot
<1>2. TypeInv /\ Fits /\ IdleFreesSlot /\ [Next]_vars => IdleFreesSlot'
  BY IdleStep
<1>3. QED
  BY <1>1, <1>2, FitsAlways, PTL DEF Spec

-----------------------------------------------------------------------------
(* No browser process is forgotten *)

\* Somebody waits for every process that was taken from its engine.
Taken ==
  \A e \in Engines : Running(e) /\ ~engine[e].handle => \E c \in Calls : pc[c] = "exit" /\ target[c] = e

Held == NoOrphan /\ Taken

\* What call c or its process has a hand on.
Own(c) == {current[Home[c]], target[c], candidate[c]}

\* Nobody but c is stopping e.
Elsewhere(c, e) == \E d \in Calls \ {c} : target[d] = e

\* Call c moves, and boots the engines of X if any.
LEMMA HeldKept ==
  ASSUME TypeInv, Held, NEW c \in Calls, Acts(c), NEW X \in SUBSET Engines,
         \A e \in Engines \ X : Same(e), \A e \in X : candidate'[c] = e /\ engine'[e].handle,
         \A e \in Engines \cap Own(c) : Running(e) => e \in Own(c)' \/ Elsewhere(c, e),
         pc[c] = "exit" => ~Running(target[c])
  PROVE  Held'
<1>0. Home[c] \in Procs
  BY HomeAssumption
<1>1. ASSUME NEW e \in Engines, Running(e)' PROVE Reachable(e)'
  <2>1. CASE e \in X
    BY <2>1 DEF Reachable
  <2>2. CASE e \notin X
    <3>1. Running(e) /\ Reachable(e)
      BY <1>1, <2>2 DEF Held, NoOrphan, Same, Running
    <3>2. CASE e \in Own(c)
      <4>1. e \in Own(c)' \/ Elsewhere(c, e)
        BY <3>1, <3>2
      <4>2. CASE e \in Own(c)'
        BY <1>0, <4>2 DEF Own, Reachable
      <4>3. CASE Elsewhere(c, e)
        BY <4>3 DEF Elsewhere, Acts, Reachable
      <4>4. QED
        BY <4>1, <4>2, <4>3
    <3>3. CASE e \notin Own(c)
      BY <3>1, <3>3 DEF Own, Reachable, Acts
    <3>4. QED
      BY <3>2, <3>3
  <2>3. QED
    BY <2>1, <2>2
<1>2. ASSUME NEW e \in Engines, Running(e)', ~engine'[e].handle
      PROVE  \E d \in Calls : pc'[d] = "exit" /\ target'[d] = e
  <2>1. Running(e) /\ ~engine[e].handle
    BY <1>2 DEF Same, Running
  <2>2. PICK d \in Calls : pc[d] = "exit" /\ target[d] = e
    BY <2>1 DEF Held, Taken
  <2>3. d # c
    BY <2>1, <2>2
  <2>4. QED
    BY <2>2, <2>3 DEF Acts
<1>3. QED
  BY <1>1, <1>2 DEF Held, NoOrphan, Taken

\* Call c moves and boots nothing.
LEMMA HeldStill ==
  ASSUME TypeInv, Held, NEW c \in Calls, Acts(c), \A e \in Engines : Same(e),
         \A e \in Engines \cap Own(c) : Running(e) => e \in Own(c)' \/ Elsewhere(c, e),
         pc[c] = "exit" => ~Running(target[c])
  PROVE  Held'
<1> DEFINE X == {}
<1>1. X \in SUBSET Engines /\ \A e \in X : candidate'[c] = e /\ engine'[e].handle
  OBVIOUS
<1>2. \A e \in Engines \ X : Same(e)
  OBVIOUS
<1> HIDE DEF X
<1>3. QED
  BY <1>1, <1>2, HeldKept

LEMMA HeldStep ==
  ASSUME "heal" \notin Tools, "slow" \notin Faults, "cancel" \notin Faults
  PROVE  TypeInv /\ Fits /\ Held /\ [Next]_vars => Held'
<1> SUFFICES ASSUME TypeInv, Fits, Held, [Next]_vars PROVE Held'
  OBVIOUS
<1>0. None \notin Engines /\ None \notin Calls /\ None \notin Reasons
  BY NoneAssumption
<1>1. ASSUME NEW c \in Calls, Begin(c) PROVE Held'
  <2>1. ASSUME NEW k \in Kinds, StartFresh(c, k) PROVE Held'
    <3>1. PICK e \in Engines : /\ Now(c, "boot", None, e, None, None, c)
                               /\ \A f \in Engines \ {e} : engine'[f] = engine[f]
                               /\ engine'[e].handle
      BY <2>1, StartFreshSays DEF Fresh
    <3>2. pc[c] = "idle" /\ current[Home[c]] = None
      BY <2>1 DEF StartFresh, Enters
    <3>3. Own(c) \cap Engines = {}
      BY <1>0, <3>2 DEF Own, Fits, CallFits, Sound
    <3>4. {e} \in SUBSET Engines /\ \A f \in Engines \ {e} : Same(f)
      BY <3>1 DEF Same
    <3>5. \A f \in {e} : candidate'[c] = f /\ engine'[f].handle
      BY <3>1 DEF Now
    <3>6. QED
      BY <3>1, <3>2, <3>3, <3>4, <3>5, HeldKept DEF Now
  <2>2. CASE (\E k \in Kinds : StartOverEngine(c, k)) \/ BrowserStop(c) \/ Promote(c)
    <3>1. pc[c] = "idle" /\ target[c] = None /\ candidate[c] = None
      BY <2>2 DEF StartOverEngine, BrowserStop, Promote, Enters, Fits, CallFits, Sound
    <3>2. Acts(c) /\ current' = current /\ \A f \in Engines : Same(f)
      BY <2>2, BeginSays DEF Quiet, Now
    <3>3. \A e \in Engines \cap Own(c) : e \in Own(c)'
      BY <1>0, <3>1, <3>2 DEF Own
    <3>4. QED
      BY <3>1, <3>2, <3>3, HeldStill
  <2>3. QED
    BY <1>1, <2>1, <2>2 DEF Begin, HealerRestarts
<1>2. ASSUME NEW c \in Calls, Step(c) PROVE Held'
  <2> DEFINE t == target[c]
             n == candidate[c]
             cur == current[Home[c]]
  <2>1. CASE ProbeFindsAlive(c) \/ PageReady(c) \/ SnapshotFails(c)
    <3>1. Acts(c) /\ pc[c] # "exit" /\ current' = current /\ t \in {None, cur} /\ n \in {None, cur} /\ \A f \in Engines : Same(f)
      BY <2>1, TurnsBack DEF Quiet, Now
    <3>2. \A e \in Engines \cap Own(c) : e \in Own(c)'
      BY <1>0, <3>1 DEF Own
    <3>3. QED
      BY <3>1, <3>2, HeldStill
  <2>2. CASE ProbeFindsDead(c) \/ BootFails(c) \/ PageFails(c) \/ TakeoverFails(c) \/ HandoffDone(c)
    <3>1. /\ Acts(c) /\ pc[c] # "exit" /\ \A f \in Engines : Same(f)
          /\ \A e \in Engines \cap {cur, t, n} : e \in {current'[Home[c]], target'[c], candidate'[c]}
      <4>1. Acts(c) /\ pc[c] # "exit" /\ \A f \in Engines : Same(f)
        BY <2>2, TurnsToStop DEF Quiet, Now, ProbeFindsDead, BootFails, PageFails, TakeoverFails, HandoffDone
      <4>2. CASE ProbeFindsDead(c)
        <5>1. cur = t /\ n = None
          BY <4>2 DEF ProbeFindsDead, Fits, CallFits, Sound
        <5>2. target'[c] = t
          BY <4>2, TurnsToStop DEF Now, ProbeFindsDead, BootFails, PageFails, TakeoverFails, HandoffDone
        <5>3. QED
          BY <1>0, <4>1, <5>1, <5>2
      <4>3. CASE BootFails(c) \/ PageFails(c)
        <5>1. t = None /\ cur \in {None, n}
          BY <4>3 DEF BootFails, PageFails, Fits, CallFits, Sound
        <5>2. target'[c] = n
          BY <4>3, TurnsToStop DEF Now, ProbeFindsDead, BootFails, PageFails, TakeoverFails, HandoffDone
        <5>3. QED
          BY <1>0, <4>1, <5>1, <5>2
      <4>4. CASE TakeoverFails(c) \/ HandoffDone(c)
        <5>1. cur = t
          BY <4>4 DEF TakeoverFails, HandoffDone, Fits, CallFits, Sound
        <5>2. current'[Home[c]] = t /\ candidate'[c] = n
          BY <4>4, TurnsToStop DEF Now, ProbeFindsDead, BootFails, PageFails, TakeoverFails, HandoffDone
        <5>3. QED
          BY <1>0, <4>1, <5>1, <5>2
      <4>5. QED
        BY <2>2, <4>2, <4>3, <4>4
    <3>2. \A e \in Engines \cap Own(c) : e \in Own(c)'
      BY <3>1 DEF Own
    <3>3. QED
      BY <3>1, <3>2, HeldStill
  <2>3. CASE BootDone(c)
    <3>1. /\ Acts(c) /\ pc[c] # "exit" /\ \A f \in Engines : Same(f)
          /\ t = None /\ cur = None /\ current'[Home[c]] = n
      BY <2>3, BootDoneSays DEF Quiet, Now
    <3>2. \A e \in Engines \cap Own(c) : e \in Own(c)'
      BY <1>0, <3>1 DEF Own
    <3>3. QED
      BY <3>1, <3>2, HeldStill
  <2>4. CASE SnapshotTaken(c)
    <3>1. PICK e \in Engines : /\ Now(c, "takeover", t, e, None, t, c)
                               /\ \A f \in Engines \ {e} : engine'[f] = engine[f]
                               /\ engine'[e].handle
      BY <2>4, SnapshotTakenSays DEF Fresh
    <3>2. pc[c] = "snapshot" /\ cur = t /\ n = None
      BY <2>4, SnapshotTakenSays
    <3>3. \A f \in Engines \cap Own(c) : f \in Own(c)'
      BY <1>0, <3>1, <3>2 DEF Own, Now
    <3>4. {e} \in SUBSET Engines /\ \A f \in Engines \ {e} : Same(f)
      BY <3>1 DEF Same
    <3>5. \A f \in {e} : candidate'[c] = f /\ engine'[f].handle
      BY <3>1 DEF Now
    <3>6. QED
      BY <3>1, <3>2, <3>3, <3>4, <3>5, HeldKept DEF Now
  <2>5. CASE TakeoverBooted(c)
    <3>1. /\ Acts(c) /\ pc[c] # "exit" /\ \A f \in Engines : Same(f)
          /\ cur = t /\ current'[Home[c]] = t /\ candidate'[c] = n
      BY <2>5, TakeoverBootedSays DEF Quiet, Now
    <3>2. \A e \in Engines \cap Own(c) : e \in Own(c)'
      BY <1>0, <3>1 DEF Own
    <3>3. QED
      BY <3>1, <3>2, HeldStill
  <2>6. CASE StopTakesProcess(c)
    <3>1. /\ Acts(c) /\ t \in Engines /\ pc[c] = "drain" /\ pc'[c] = "exit" /\ target'[c] = t /\ candidate'[c] = n /\ current'[Home[c]] = cur
          /\ \A f \in Engines \ {t} : engine'[f] = engine[f]
          /\ engine'[t].os = engine[t].os
      BY <2>6, StopTakesSays DEF Now
    <3>2. ASSUME NEW d \in Calls PROVE target'[d] = target[d] /\ candidate'[d] = candidate[d] /\ (pc[d] = "exit" => pc'[d] = "exit")
      BY <3>1 DEF Acts
    <3>3. ASSUME NEW p \in Procs PROVE current'[p] = current[p]
      BY <3>1 DEF Acts
    <3>4. \A e \in Engines : Running(e)' => Running(e)
      BY <3>1 DEF Running
    <3>5. NoOrphan'
      BY <3>2, <3>3, <3>4 DEF Held, NoOrphan, Reachable
    <3>6. ASSUME NEW e \in Engines, Running(e)', ~engine'[e].handle
          PROVE  \E d \in Calls : pc'[d] = "exit" /\ target'[d] = e
      <4>1. CASE e = t
        BY <3>1, <4>1
      <4>2. CASE e # t
        <5>1. Running(e) /\ ~engine[e].handle
          BY <3>1, <3>6, <4>2 DEF Running
        <5>2. QED
          BY <3>2, <5>1 DEF Held, Taken
      <4>3. QED
        BY <4>1, <4>2
    <3>7. QED
      BY <3>5, <3>6 DEF Held, Taken
  <2>7. CASE StopFindsNothing(c) \/ StopRefused(c) \/ StopReaped(c)
    <3>1. PICK ok \in BOOLEAN : /\ pc[c] \in {"drain", "exit"} /\ StopEnds(c, ok)
                                /\ ok => StopFindsNothing(c) \/ StopReaped(c)
                                /\ ~ok => pc[c] = "drain" /\ reason[c] \in {"reap", "stop", "heal", "replace"}
      BY <2>7 DEF StopFindsNothing, StopRefused, StopReaped
    <3>2. t \in Engines /\ StopEndsSo(c, ok)
      BY <3>1, StopEndsSay
    <3>3. ok => ~Running(t) \/ Elsewhere(c, t)
      <4>1. CASE StopReaped(c)
        BY <4>1 DEF StopReaped, Running
      <4>2. CASE StopFindsNothing(c) /\ Running(t)
        <5>1. pc[c] = "drain" /\ ~engine[t].handle
          BY <4>2 DEF StopFindsNothing
        <5>2. PICK d \in Calls : pc[d] = "exit" /\ target[d] = t
          BY <3>2, <4>2, <5>1 DEF Held, Taken
        <5>3. QED
          BY <5>1, <5>2 DEF Elsewhere
      <4>3. QED
        BY <3>1, <4>1, <4>2
    <3>4. pc[c] = "exit" => ~Running(t)
      BY <2>7 DEF StopFindsNothing, StopRefused, StopReaped, Running
    <3>5. CASE reason[c] = "reap" /\ ok /\ SlotFree(Home[c])
      <4>1. PICK e \in Engines : /\ Now(c, "boot", None, e, None, None, c)
                                 /\ \A f \in Engines \ {e} : engine'[f] = engine[f]
                                 /\ engine'[e].handle
        BY <3>2, <3>5 DEF StopEndsSo, Fresh
      <4>2. cur = t /\ n = None
        BY <3>2, <3>5 DEF StopEndsSo
      <4>3. \A f \in Engines \cap Own(c) : Running(f) => Elsewhere(c, f)
        BY <1>0, <3>3, <3>5, <4>2 DEF Own
      <4>4. {e} \in SUBSET Engines /\ \A f \in Engines \ {e} : Same(f)
        BY <4>1 DEF Same
      <4>5. \A f \in {e} : candidate'[c] = f /\ engine'[f].handle
        BY <4>1 DEF Now
      <4>6. QED
        BY <3>4, <4>1, <4>3, <4>4, <4>5, HeldKept DEF Now
    <3>6. CASE ~(reason[c] = "reap" /\ ok /\ SlotFree(Home[c]))
      <4>1. Acts(c) /\ \A f \in Engines : Same(f)
        BY <3>2, <3>6 DEF Quiet, StopEndsSo, Now
      <4>2. \A e \in Engines \cap Own(c) : Running(e) => e \in Own(c)' \/ Elsewhere(c, e)
        <5>1. CASE reason[c] \in {"reap", "stop"}
          BY <1>0, <3>2, <3>3, <3>6, <5>1 DEF StopEndsSo, Now, Own
        <5>2. CASE reason[c] \in {"abort", "unpublish"}
          BY <1>0, <3>1, <3>2, <3>3, <3>6, <5>2 DEF StopEndsSo, Now, Own
        <5>3. CASE reason[c] \in {"replace", "abandon"}
          BY <1>0, <3>1, <3>2, <3>3, <3>6, <5>3 DEF StopEndsSo, Now, Own
        <5>4. QED
          BY <3>2, <3>6, <5>1, <5>2, <5>3 DEF StopEndsSo
      <4>3. QED
        BY <3>4, <4>1, <4>2, HeldStill
    <3>7. QED
      BY <3>5, <3>6
  <2>8. QED
    BY <1>2, <2>1, <2>2, <2>3, <2>4, <2>5, <2>6, <2>7 DEF Step, StopGivesUp
<1>3. ASSUME NEW e \in Engines, Environment(e) PROVE Held'
  <2>1. UNCHANGED <<current, pc, target, candidate>>
    BY <1>3 DEF Environment, Crash, ProcessExits, ReaderEnds, HealthFindsDead, WriteStalls
  <2>2. \A f \in Engines : engine'[f].handle = engine[f].handle /\ (Running(f)' => Running(f))
    <3>1. engine \in [Engines -> EngineState]
      BY DEF TypeInv, TypeOK
    <3>2. CASE Crash(e) \/ ProcessExits(e)
      BY <3>1, <3>2 DEF Crash, ProcessExits, Running, EngineState
    <3>3. CASE ReaderEnds(e) \/ HealthFindsDead(e) \/ WriteStalls(e)
      BY <3>1, <3>3 DEF ReaderEnds, HealthFindsDead, WriteStalls, Running, EngineState
    <3>4. QED
      BY <1>3, <3>2, <3>3 DEF Environment
  <2>3. QED
    BY <2>1, <2>2 DEF Held, NoOrphan, Taken, Reachable
<1>4. CASE UNCHANGED vars
  BY <1>4 DEF vars, Held, NoOrphan, Taken, Reachable, Running
<1>5. QED
  BY <1>1, <1>2, <1>3, <1>4 DEF Next, CallCancelled

LEMMA HeldInit == Init => Held
  BY DEF Init, Held, NoOrphan, Taken, Running, Unborn

\* While no healer stops an engine outside the lock, no call is withdrawn and
\* processes end within the time a stop gives them, no browser process is ever
\* forgotten: it is current, or a call is starting or stopping it, through
\* crashes, failed starts and promotions and refused stops (the cleanup rules
\* of browser_start and of _on_engine_death).
THEOREM NoBrowserIsForgotten ==
  ASSUME "heal" \notin Tools, "slow" \notin Faults, "cancel" \notin Faults
  PROVE  Spec => []NoOrphan
<1>1. TypeInv /\ Fits /\ Held /\ [Next]_vars => Held'
  BY HeldStep
<1>2. Held => NoOrphan
  BY DEF Held
<1>3. QED
  BY <1>1, <1>2, HeldInit, FitsAlways, PTL DEF Spec

-----------------------------------------------------------------------------
(* Whose an engine is, and what is known of one that is being stopped *)

EngineFine(r) ==
  /\ r.kind = None => r.os = "absent"
  /\ r.kind # None /\ ~r.handle => r.stopping
  /\ r.reader = "cancelled" => r.stopping

\* A call handles engines of its own process, and so does the process.
Owned ==
  /\ \A d \in Calls : \A e \in {target[d], candidate[d]} : e # None => engine[e].home = Home[d]
  /\ \A p \in Procs : current[p] # None => engine[current[p]].home = p

\* Who waits in a stop has marked the engine.
Marked ==
  /\ \A d \in Calls : pc[d] \in {"drain", "exit"} => engine[target[d]].stopping
  /\ \A e \in Engines : EngineFine(engine[e])

\* What a call may do to an engine that is not new.
Ages(e) ==
  /\ engine'[e].os = engine[e].os /\ engine'[e].home = engine[e].home /\ engine'[e].kind = engine[e].kind
  /\ engine[e].stopping => engine'[e].stopping
  /\ ~engine'[e].handle => ~engine[e].handle \/ engine'[e].stopping
  /\ engine'[e].reader = "cancelled" => engine[e].reader = "cancelled" \/ engine'[e].stopping

\* Nobody handles an engine that may be reused.
LEMMA UnusedSays ==
  ASSUME TypeInv, Owned, NEW e \in Engines, Unused(e)
  PROVE  /\ \A d \in Calls : e \notin {target[d], candidate[d]}
         /\ \A p \in Procs : e # current[p]
<1>1. e # None /\ \A d \in Calls : Home[d] \in Procs /\ Home[d] # None
  BY HomeAssumption, NoneAssumption
<1>2. \A p \in Procs : p # None
  BY NoneAssumption
<1>3. engine[e].kind = None => engine[e].home = None
  BY DEF TypeInv, TypeOK
<1>4. QED
  BY <1>1, <1>2, <1>3 DEF Unused, Owned

LEMMA OwnedKept ==
  ASSUME TypeInv, TypeInv', Owned, Marked, Fits, Fits', NEW c \in Calls, Acts(c), NEW X \in SUBSET Engines,
         \A e \in X : Unused(e) /\ Fresh(c, e), \A e \in Engines \ X : Ages(e),
         \A e \in Own(c)' : e = None \/ e \in Own(c) \/ e \in X,
         pc'[c] \in {"drain", "exit"} => engine'[target'[c]].stopping
  PROVE  Owned' /\ Marked'
<1>0. /\ Home[c] \in Procs /\ current[Home[c]] \in Engines \cup {None}
      /\ \A d \in Calls : target[d] \in Engines \cup {None} /\ candidate[d] \in Engines \cup {None} /\ Home[d] \in Procs
      /\ \A p \in Procs : current[p] \in Engines \cup {None}
  BY HomeAssumption DEF TypeInv, TypeOK
<1>1. /\ \A d \in Calls : target[d] \notin X /\ candidate[d] \notin X
      /\ \A p \in Procs : current[p] \notin X
  BY UnusedSays
<1>2. \A e \in Own(c) : e # None => e \in Engines \ X /\ engine[e].home = Home[c]
  BY <1>0, <1>1 DEF Own, Owned
<1>3. \A e \in Own(c)' : e # None => engine'[e].home = Home[c]
  BY <1>2 DEF Ages, Fresh
<1>4. ASSUME NEW d \in Calls \ {c}
      PROVE  \A e \in {target'[d], candidate'[d]} : e # None => engine'[e].home = Home[d]
  BY <1>0, <1>1, <1>4 DEF Acts, Owned, Ages
<1>5. ASSUME NEW p \in Procs \ {Home[c]}
      PROVE  current'[p] # None => engine'[current'[p]].home = p
  BY <1>0, <1>1, <1>5 DEF Acts, Owned, Ages
<1>6. Owned'
  <2>1. \A e \in {target'[c], candidate'[c]} : e # None => engine'[e].home = Home[c]
    BY <1>3 DEF Own
  <2>2. current'[Home[c]] # None => engine'[current'[Home[c]]].home = Home[c]
    BY <1>3 DEF Own
  <2>3. QED
    BY <1>4, <1>5, <2>1, <2>2 DEF Owned
<1>7. ASSUME NEW d \in Calls, pc'[d] \in {"drain", "exit"} PROVE engine'[target'[d]].stopping
  <2>1. CASE d = c
    BY <1>7, <2>1
  <2>2. CASE d # c
    <3>1. pc'[d] = pc[d] /\ target'[d] = target[d]
      BY <2>2 DEF Acts
    <3>2. target[d] \in Engines
      BY <1>7, <3>1 DEF Fits, CallFits, Sound, TypeInv, TypeOK, Reasons
    <3>3. QED
      BY <1>1, <1>7, <3>1, <3>2 DEF Marked, Ages
  <2>3. QED
    BY <2>1, <2>2
<1>8. ASSUME NEW e \in Engines PROVE EngineFine(engine'[e])
  <2>1. CASE e \in X
    <3>1. engine'[e].kind # None
      BY <1>0, <2>1, NoneAssumption DEF TypeInv, TypeOK, Fresh
    <3>2. QED
      BY <2>1, <3>1 DEF EngineFine, Fresh
  <2>2. CASE e \notin X
    BY <2>2 DEF Marked, EngineFine, Ages
  <2>3. QED
    BY <2>1, <2>2
<1>9. QED
  BY <1>6, <1>7, <1>8 DEF Marked

\* Call c moves and boots nothing.
LEMMA OwnedStill ==
  ASSUME TypeInv, TypeInv', Owned, Marked, Fits, Fits', NEW c \in Calls, Acts(c),
         Quiet(c), pc'[c] # "exit",
         \A e \in Own(c)' : e = None \/ e \in Own(c)
  PROVE  Owned' /\ Marked'
<1> DEFINE X == {}
<1>1. X \in SUBSET Engines /\ \A e \in X : Unused(e) /\ Fresh(c, e)
  OBVIOUS
<1>2. \A e \in Engines \ X : Ages(e)
  BY DEF Quiet, Same, Ages
<1>3. pc'[c] \in {"drain", "exit"} => engine'[target'[c]].stopping
  BY DEF Quiet
<1>4. \A e \in Own(c)' : e = None \/ e \in Own(c) \/ e \in X
  OBVIOUS
<1> HIDE DEF X
<1>5. QED
  BY <1>1, <1>2, <1>3, <1>4, OwnedKept

\* Call c moves and boots e.
LEMMA OwnedMore ==
  ASSUME TypeInv, TypeInv', Owned, Marked, Fits, Fits', NEW c \in Calls, Acts(c), NEW e \in Engines,
         Unused(e), Fresh(c, e), \A f \in Engines \ {e} : engine'[f] = engine[f],
         pc'[c] \notin {"drain", "exit"},
         \A f \in Own(c)' : f = None \/ f \in Own(c) \/ f = e
  PROVE  Owned' /\ Marked'
<1> DEFINE X == {e}
<1>1. X \in SUBSET Engines /\ \A f \in X : Unused(f) /\ Fresh(c, f)
  OBVIOUS
<1>2. \A f \in Engines \ X : Ages(f)
  BY DEF Ages
<1>3. pc'[c] \in {"drain", "exit"} => engine'[target'[c]].stopping
  OBVIOUS
<1>4. \A f \in Own(c)' : f = None \/ f \in Own(c) \/ f \in X
  OBVIOUS
<1> HIDE DEF X
<1>5. QED
  BY <1>1, <1>2, <1>3, <1>4, OwnedKept

LEMMA OwnedInit == Init => Owned /\ Marked
  BY NoneAssumption DEF Init, Owned, Marked, EngineFine, Unborn

LEMMA OwnedStep ==
  ASSUME "heal" \notin Tools
  PROVE  TypeInv /\ Fits /\ Owned /\ Marked /\ [Next]_vars => (Owned /\ Marked)'
<1> SUFFICES ASSUME TypeInv, Fits, Owned, Marked, [Next]_vars PROVE Owned' /\ Marked'
  OBVIOUS
<1>0. TypeInv' /\ Fits'
  BY TypeStep, FitsStep
<1>1. ASSUME NEW c \in Calls, Begin(c) PROVE Owned' /\ Marked'
  <2>1. ASSUME NEW k \in Kinds, StartFresh(c, k) PROVE Owned' /\ Marked'
    <3>1. PICK e \in Engines : /\ Unused(e) /\ Now(c, "boot", None, e, None, None, c) /\ Fresh(c, e)
                               /\ \A f \in Engines \ {e} : engine'[f] = engine[f]
      BY <2>1, StartFreshSays
    <3>2. \A f \in Own(c)' : f = None \/ f \in Own(c) \/ f = e
      BY <3>1 DEF Own, Now
    <3>3. QED
      BY <1>0, <3>1, <3>2, OwnedMore DEF Now
  <2>2. CASE (\E k \in Kinds : StartOverEngine(c, k)) \/ BrowserStop(c) \/ Promote(c)
    <3>1. Acts(c) /\ pc'[c] # "exit" /\ \A e \in Own(c)' : e = None \/ e \in Own(c)
      BY <2>2, BeginSays DEF Now, Own
    <3>2. Quiet(c)
      BY <2>2, BeginSays
    <3>3. QED
      BY <1>0, <3>1, <3>2, OwnedStill
  <2>3. QED
    BY <1>1, <2>1, <2>2 DEF Begin, HealerRestarts
<1>2. ASSUME NEW c \in Calls, Step(c) PROVE Owned' /\ Marked'
  <2>1. CASE ProbeFindsAlive(c) \/ PageReady(c) \/ SnapshotFails(c)
    <3>1. Acts(c) /\ pc'[c] # "exit" /\ Quiet(c) /\ \A e \in Own(c)' : e = None \/ e \in Own(c)
      BY <2>1, TurnsBack DEF Now, Own
    <3>2. QED
      BY <1>0, <3>1, OwnedStill
  <2>2. CASE ProbeFindsDead(c) \/ BootFails(c) \/ PageFails(c) \/ TakeoverFails(c) \/ HandoffDone(c)
    <3>1. /\ Acts(c) /\ pc'[c] # "exit" /\ Quiet(c)
          /\ {target'[c], candidate'[c], current'[Home[c]]} \subseteq {target[c], candidate[c], None}
      BY <2>2, TurnsToStop DEF Now
    <3>2. \A e \in Own(c)' : e = None \/ e \in Own(c)
      BY <3>1 DEF Own
    <3>3. QED
      BY <1>0, <3>1, <3>2, OwnedStill
  <2>3. CASE BootDone(c)
    <3>1. Acts(c) /\ pc'[c] # "exit" /\ Quiet(c) /\ \A e \in Own(c)' : e = None \/ e \in Own(c)
      BY <2>3, BootDoneSays DEF Now, Own
    <3>2. QED
      BY <1>0, <3>1, OwnedStill
  <2>4. CASE SnapshotTaken(c)
    <3>1. PICK e \in Engines : /\ Unused(e) /\ Now(c, "takeover", target[c], e, None, target[c], c) /\ Fresh(c, e)
                               /\ \A f \in Engines \ {e} : engine'[f] = engine[f]
      BY <2>4, SnapshotTakenSays
    <3>2. \A f \in Own(c)' : f = None \/ f \in Own(c) \/ f = e
      BY <3>1 DEF Own, Now
    <3>3. QED
      BY <1>0, <3>1, <3>2, OwnedMore DEF Now
  <2>5. CASE TakeoverBooted(c)
    <3>1. Acts(c) /\ pc'[c] # "exit" /\ Quiet(c) /\ \A e \in Own(c)' : e = None \/ e \in Own(c)
      BY <2>5, TakeoverBootedSays DEF Now, Own
    <3>2. QED
      BY <1>0, <3>1, OwnedStill
  <2>6. CASE StopTakesProcess(c)
    <3> DEFINE t == target[c]
               X == {}
    <3>1. /\ Acts(c) /\ t \in Engines /\ pc[c] = "drain" /\ target'[c] = t /\ candidate'[c] = candidate[c]
          /\ current'[Home[c]] = current[Home[c]]
          /\ \A f \in Engines \ {t} : engine'[f] = engine[f]
          /\ engine'[t].os = engine[t].os
          /\ engine'[t].home = engine[t].home /\ engine'[t].kind = engine[t].kind
          /\ engine'[t].stopping = engine[t].stopping
      BY <2>6, StopTakesSays DEF Now
    <3>2. engine[t].stopping
      BY <3>1 DEF Marked
    <3>3. engine'[t].stopping
      BY <3>1, <3>2
    <3>4. \A e \in Engines \ X : Ages(e)
      BY <3>1, <3>3 DEF Ages
    <3>5. \A e \in Own(c)' : e = None \/ e \in Own(c) \/ e \in X
      BY <3>1 DEF Own
    <3>6. X \in SUBSET Engines /\ \A e \in X : Unused(e) /\ Fresh(c, e)
      OBVIOUS
    <3> HIDE DEF X
    <3>7. QED
      BY <1>0, <3>1, <3>3, <3>4, <3>5, <3>6, OwnedKept
  <2>7. CASE StopFindsNothing(c) \/ StopRefused(c) \/ StopReaped(c) \/ StopGivesUp(c)
    <3>1. PICK ok \in BOOLEAN : pc[c] \in {"drain", "exit"} /\ StopEnds(c, ok)
      BY <2>7 DEF StopFindsNothing, StopRefused, StopReaped, StopGivesUp
    <3>2. StopEndsSo(c, ok)
      BY <3>1, StopEndsSay
    <3>3. ASSUME NEW e \in Engines, Unused(e), Now(c, "boot", None, e, None, None, c), Fresh(c, e),
                 \A f \in Engines \ {e} : engine'[f] = engine[f]
          PROVE  Owned' /\ Marked'
      <4>1. \A f \in Own(c)' : f = None \/ f \in Own(c) \/ f = e
        BY <3>3 DEF Own, Now
      <4>2. QED
        BY <1>0, <3>3, <4>1, OwnedMore DEF Now
    <3>4. ASSUME Quiet(c), Acts(c), pc'[c] # "exit",
                 {target'[c], candidate'[c], current'[Home[c]]} \subseteq {target[c], candidate[c], current[Home[c]], None}
          PROVE  Owned' /\ Marked'
      <4>1. \A e \in Own(c)' : e = None \/ e \in Own(c)
        BY <3>4 DEF Own
      <4>2. QED
        BY <1>0, <3>4, <4>1, OwnedStill
    <3>5. QED
      BY <3>2, <3>3, <3>4 DEF StopEndsSo, Now
  <2>8. QED
    BY <1>2, <2>1, <2>2, <2>3, <2>4, <2>5, <2>6, <2>7 DEF Step
<1>3. ASSUME NEW c \in Calls, CallCancelled(c) PROVE Owned' /\ Marked'
  <2>1. /\ Now(c, "idle", None, None, None, current[Home[c]], None)
        /\ UNCHANGED engine
    BY <1>3, CancelledSays
  <2>2. Quiet(c) /\ Acts(c) /\ pc'[c] # "exit" /\ \A e \in Own(c)' : e = None \/ e \in Own(c)
    BY <2>1 DEF Now, Own, Quiet, Same
  <2>3. QED
    BY <1>0, <2>2, OwnedStill
<1>4. ASSUME NEW e \in Engines, Environment(e) PROVE Owned' /\ Marked'
  <2>1. UNCHANGED <<current, pc, target, candidate>>
    BY <1>4 DEF Environment, Crash, ProcessExits, ReaderEnds, HealthFindsDead, WriteStalls
  <2>2. engine \in [Engines -> EngineState]
    BY DEF TypeInv, TypeOK
  <2>3. \A f \in Engines : /\ engine'[f].home = engine[f].home /\ engine'[f].kind = engine[f].kind
                           /\ engine'[f].stopping = engine[f].stopping /\ engine'[f].handle = engine[f].handle
                           /\ engine'[f].reader = "cancelled" => engine[f].reader = "cancelled"
                           /\ engine[f].os = "absent" => engine'[f].os = "absent"
    <3>1. CASE Crash(e) \/ ProcessExits(e)
      BY <2>2, <3>1 DEF Crash, ProcessExits, Running, EngineState
    <3>2. CASE ReaderEnds(e) \/ HealthFindsDead(e) \/ WriteStalls(e)
      BY <2>2, <3>2 DEF ReaderEnds, HealthFindsDead, WriteStalls, EngineState
    <3>3. QED
      BY <1>4, <3>1, <3>2 DEF Environment
  <2>4. \A d \in Calls : pc[d] \in {"drain", "exit"} => target[d] \in Engines
    BY DEF Fits, CallFits, Sound, TypeInv, TypeOK, Reasons
  <2>5. /\ \A d \in Calls : target[d] \in Engines \cup {None} /\ candidate[d] \in Engines \cup {None}
        /\ \A p \in Procs : current[p] \in Engines \cup {None}
    BY DEF TypeInv, TypeOK
  <2>6. Owned'
    BY <2>1, <2>3, <2>5 DEF Owned
  <2>7. Marked'
    BY <2>1, <2>3, <2>4 DEF Marked, EngineFine
  <2>8. QED
    BY <2>6, <2>7
<1>5. CASE UNCHANGED vars
  BY <1>5 DEF vars, Owned, Marked
<1>6. QED
  BY <1>1, <1>2, <1>3, <1>4, <1>5 DEF Next

LEMMA OwnedAlways ==
  ASSUME "heal" \notin Tools
  PROVE  Spec => [](TypeInv /\ Fits /\ Owned /\ Marked)
<1>1. TypeInv /\ Fits /\ Owned /\ Marked /\ [Next]_vars => (Owned /\ Marked)'
  BY OwnedStep
<1>2. QED
  BY <1>1, OwnedInit, FitsAlways, PTL DEF Spec

-----------------------------------------------------------------------------
(* One browser follows another *)

\* A stop that ends well has seen its engine's process gone.
LEMMA StopsWell ==
  ASSUME TypeInv, Fits, Owned, Taken, NEW c \in Calls, StopFindsNothing(c) \/ StopReaped(c)
  PROVE  target[c] \in Engines /\ ~Running(target[c])
<1> DEFINE t == target[c]
<1>0. pc[c] \in {"drain", "exit"}
  BY DEF StopFindsNothing, StopReaped
<1>1. pc[c] \in {"drain", "exit"} /\ t \in Engines /\ t # None
  BY <1>0, NoneAssumption DEF Fits, CallFits, Sound, TypeInv, TypeOK, Reasons
<1>2. CASE StopReaped(c)
  BY <1>1, <1>2 DEF StopReaped, Running
<1>3. ASSUME StopFindsNothing(c), Running(t) PROVE FALSE
  <2>1. pc[c] = "drain" /\ ~engine[t].handle
    BY <1>3 DEF StopFindsNothing
  <2>2. PICK d \in Calls : pc[d] = "exit" /\ target[d] = t
    BY <1>1, <1>3, <2>1 DEF Taken
  <2>3. Home[d] = Home[c]
    BY <1>1, <2>2 DEF Owned
  <2>4. d = c
    BY <2>1, <2>2, <2>3 DEF Fits, CallFits, Sound
  <2>5. QED
    BY <2>1, <2>2, <2>4
<1>4. QED
  BY <1>1, <1>2, <1>3

\* A step replaces a current engine by another only when it ends a promotion.
LEMMA ReapStep ==
  ASSUME "heal" \notin Tools, "slow" \notin Faults
  PROVE  TypeInv /\ Fits /\ Owned /\ Held /\ [Next]_vars =>
           \A p \in Procs :
             current[p] # None /\ current'[p] \notin {None, current[p]} => ~Running(current[p])
<1> SUFFICES ASSUME TypeInv, Fits, Owned, Held, [Next]_vars, NEW p \in Procs,
                    current[p] # None, current'[p] \notin {None, current[p]}
             PROVE  ~Running(current[p])
  OBVIOUS
<1>0. current' # current
  OBVIOUS
<1>1. ASSUME NEW c \in Calls, Begin(c) PROVE FALSE
  BY <1>0, <1>1 DEF Begin, StartFresh, StartOverEngine, BrowserStop, HealerRestarts, Promote
<1>2. ASSUME NEW c \in Calls, Step(c) PROVE ~Running(current[p])
  <2>1. CASE BootDone(c)
    <3>1. current[Home[c]] = None /\ Acts(c)
      BY <2>1, BootDoneSays DEF Now
    <3>2. QED
      BY <3>1 DEF Acts
  <2>2. CASE PageFails(c)
    BY <2>2 DEF PageFails, TypeInv, TypeOK
  <2>3. CASE StopRefused(c)
    <3>1. pc[c] \in {"drain", "exit"} /\ StopEnds(c, FALSE)
      BY <2>3 DEF StopRefused
    <3>2. StopEndsSo(c, FALSE)
      BY <3>1, StopEndsSay
    <3>3. Acts(c) /\ current'[Home[c]] \in {None, current[Home[c]]}
      BY <3>2 DEF StopEndsSo, Now
    <3>4. QED
      BY <3>3 DEF Acts
  <2>4. CASE StopFindsNothing(c) \/ StopReaped(c)
    <3>1. pc[c] \in {"drain", "exit"} /\ StopEnds(c, TRUE)
      BY <2>4 DEF StopFindsNothing, StopReaped
    <3>2. StopEndsSo(c, TRUE)
      BY <3>1, StopEndsSay
    <3>3. Acts(c) /\ (current'[Home[c]] \in {None, current[Home[c]], target[c]} \/ current[Home[c]] = target[c])
      BY <3>2 DEF StopEndsSo, Now
    <3>4. ~Running(target[c])
      BY <2>4, StopsWell DEF Held
    <3>5. p = Home[c] /\ current[Home[c]] = target[c]
      BY <3>2, <3>3 DEF Acts, StopEndsSo, Now
    <3>6. QED
      BY <3>4, <3>5
  <2>5. QED
    BY <1>0, <1>2, <2>1, <2>2, <2>3, <2>4 DEF Step, ProbeFindsAlive, ProbeFindsDead, BootFails, PageReady,
       SnapshotTaken, SnapshotFails, TakeoverBooted, TakeoverFails, HandoffDone, StopTakesProcess, StopGivesUp
<1>3. ASSUME NEW c \in Calls, CallCancelled(c) PROVE FALSE
  BY <1>0, <1>3 DEF CallCancelled
<1>4. ASSUME NEW e \in Engines, Environment(e) PROVE FALSE
  BY <1>0, <1>4 DEF Environment, Crash, ProcessExits, ReaderEnds, HealthFindsDead, WriteStalls
<1>5. QED
  BY <1>0, <1>1, <1>2, <1>3, <1>4 DEF Next, vars

\* While no healer stops an engine outside the lock, no call is withdrawn and
\* processes end in time, Camoufox takes the place of Shadow only when the
\* processes of Shadow are gone ("Reap Shadow before publishing Mirage",
\* _common.py:506).
THEOREM ShadowIsReapedFirst ==
  ASSUME "heal" \notin Tools, "slow" \notin Faults, "cancel" \notin Faults
  PROVE  Spec => ReapBeforePublish
<1>1. TypeInv /\ Fits /\ Held /\ [Next]_vars => Held'
  BY HeldStep
<1>2. TypeInv /\ Fits /\ Owned /\ Held /\ [Next]_vars =>
        \A p \in Procs :
          current[p] # None /\ current'[p] \notin {None, current[p]} => ~Running(current[p])
  BY ReapStep
<1>3. Spec => []Held
  BY <1>1, HeldInit, FitsAlways, PTL DEF Spec
<1>4. QED
  BY <1>2, <1>3, OwnedAlways, PTL DEF Spec, ReapBeforePublish

-----------------------------------------------------------------------------
(* Who holds the machine lock.  A promotion breaks what is proved here     *)
(* when an engine dies inside it: the death callback of the old engine     *)
(* frees the lock before the new one is published, and the new one may be  *)
(* published dead.  The theorems say that nothing else does.               *)

\* A call that is stopping an engine is in a stop().
StopInv == \A c \in Calls : reason[c] # None => pc[c] \in {"drain", "exit"}

\* Between its awaits a call holds the lifecycle lock, unless it is the healer's.
LockInv ==
  \A c \in Calls : pc[c] # "idle" /\ reason[c] # "heal" => lifecycle[Home[c]] = c

\* No promotion is under way.
ShadowOnly ==
  /\ \A c \in Calls : /\ pc[c] \notin {"snapshot", "takeover", "handoff"}
                      /\ reason[c] \notin {"replace", "abandon"}
  /\ \A e \in Engines : ~engine[e].preserve

\* A start boots its engine under the machine lock, with no other current.
BootInv ==
  \A c \in Calls :
    pc[c] = "boot" => /\ slot = Home[c]
                      /\ current[Home[c]] = None
                      /\ candidate[c] \in Engines
                      /\ engine[candidate[c]].home = Home[c]

\* A probe is of an engine.
ProbeInv == \A c \in Calls : pc[c] = "probe" => target[c] \in Engines

\* While a failed start cleans up, its process has no engine.
AbortInv ==
  \A c \in Calls : reason[c] \in {"abort", "unpublish"} => current[Home[c]] = None

\* A published engine is this process's, and its death callback is in place.
WatchedInv ==
  \A p \in Procs :
    current[p] # None => engine[current[p]].home = p /\ engine[current[p]].watched

SlotInv ==
  /\ StopInv
  /\ LockInv
  /\ ShadowOnly
  /\ BootInv
  /\ AbortInv
  /\ WatchedInv
  /\ PublishedHoldsSlot
  /\ DeadFreesSlot

\* What a step that starts no engine may do to one: it keeps its owner and
\* its callback, and neither a death nor a stop is undone.
Older(e) ==
  /\ engine'[e].home = engine[e].home
  /\ engine[e].watched => engine'[e].watched
  /\ engine[e].dead => engine'[e].dead
  /\ engine[e].stopping => engine'[e].stopping
  /\ ~engine'[e].preserve

\* It kills none either.
NoDeath == \A e \in Engines : Older(e) /\ engine'[e].dead = engine[e].dead

LEMMA SlotInit == Init => SlotInv
  BY HomeAssumption, NoneAssumption DEF Init, SlotInv, StopInv, LockInv, ShadowOnly, BootInv,
     AbortInv, WatchedInv, PublishedHoldsSlot, DeadFreesSlot, Unborn, Reasons

\* Two calls of one process cannot both be at work under its lifecycle lock.
LEMMA OneAtATime ==
  ASSUME SlotInv, NEW c \in Calls, NEW d \in Calls, Home[c] = Home[d],
         pc[c] # "idle", reason[c] # "heal", pc[d] # "idle", reason[d] # "heal"
  PROVE  c = d
  BY DEF SlotInv, LockInv

LEMMA StopBeginsOlder ==
  ASSUME TypeInv, SlotInv, NEW c \in Calls, NEW e \in Engines \cup {None}, NEW why,
         StopBegins(c, e, why, engine[e])
  PROVE  /\ NoDeath
         /\ e \in Engines => engine'[e].stopping
<1>1. engine' = [engine EXCEPT ![e] = Cancelled(engine[e])]
  BY DEF StopBegins
<1>2. \A f \in Engines : engine[f] \in EngineState /\ ~engine[f].preserve
  BY DEF TypeInv, TypeOK, SlotInv, ShadowOnly
<1>3. \A r \in EngineState : /\ Cancelled(r).home = r.home
                             /\ Cancelled(r).watched = r.watched
                             /\ Cancelled(r).dead = r.dead
                             /\ Cancelled(r).stopping
                             /\ Cancelled(r).preserve = r.preserve
  BY DEF Cancelled, EngineState
<1>4. engine \in [Engines -> EngineState]
  BY DEF TypeInv, TypeOK
<1>5. \A f \in Engines : engine'[f] = IF f = e THEN Cancelled(engine[e]) ELSE engine[f]
  BY <1>1, <1>4
<1>6. QED
  BY <1>2, <1>3, <1>5 DEF NoDeath, Older

\* A call that returns leaves the others as they are and takes only its own
\* lock with it.
LEMMA ReturnsFrees ==
  ASSUME TypeInv, SlotInv, NEW c \in Calls, Returns(c)
  PROVE  StopInv' /\ LockInv'
<1>1. /\ pc'[c] = "idle" /\ reason'[c] = None
      /\ \A d \in Calls : d # c => pc'[d] = pc[d] /\ reason'[d] = reason[d]
      /\ \A p \in Procs : lifecycle[p] # c => lifecycle'[p] = lifecycle[p]
  BY DEF Returns, TypeInv, TypeOK
<1>2. StopInv'
  BY <1>1 DEF SlotInv, StopInv
<1>3. LockInv'
  BY <1>1, HomeAssumption DEF SlotInv, LockInv
<1>4. QED
  BY <1>2, <1>3

\* A call that returns under an unchanged lock, with the engine in place or
\* withdrawn.
LEMMA QuietReturn ==
  ASSUME TypeInv, SlotInv, NEW c \in Calls, Returns(c), UNCHANGED <<slot, engine>>,
         NEW X \in SUBSET Procs,
         \A p \in Procs : current'[p] = IF p \in X THEN None ELSE current[p]
  PROVE  SlotInv'
<1>1. /\ pc'[c] = "idle" /\ reason'[c] = None
      /\ \A d \in Calls : d # c => pc'[d] = pc[d] /\ reason'[d] = reason[d] /\ candidate'[d] = candidate[d]
  BY DEF Returns, TypeInv, TypeOK
<1>2. ShadowOnly' /\ AbortInv' /\ BootInv'
  BY <1>1, HomeAssumption, NoneAssumption DEF SlotInv, ShadowOnly, AbortInv, BootInv, Reasons
<1>3. WatchedInv' /\ PublishedHoldsSlot' /\ DeadFreesSlot'
  BY DEF SlotInv, WatchedInv, PublishedHoldsSlot, DeadFreesSlot
<1>4. QED
  BY <1>1, <1>2, <1>3, ReturnsFrees DEF SlotInv

LEMMA PlainReturn ==
  ASSUME TypeInv, SlotInv, NEW c \in Calls, Returns(c), UNCHANGED <<slot, engine, current>>
  PROVE  SlotInv'
<1>1. {} \in SUBSET Procs /\ \A p \in Procs : current'[p] = IF p \in {} THEN None ELSE current[p]
  OBVIOUS
<1>2. QED
  BY <1>1, QuietReturn

\* Call c moves on to another point of its own, and no engine dies.
LEMMA QuietStep ==
  ASSUME TypeInv, SlotInv, NEW c \in Calls, NoDeath, UNCHANGED <<slot, current, candidate>>,
         \A d \in Calls : d # c => pc'[d] = pc[d] /\ reason'[d] = reason[d],
         pc'[c] \in {"probe", "drain", "exit"},
         reason'[c] \in {None, "reap", "stop", "abort", "unpublish", "heal"},
         reason'[c] # None => pc'[c] \in {"drain", "exit"},
         reason'[c] \in {"abort", "unpublish"} => current[Home[c]] = None,
         reason'[c] # "heal" => lifecycle'[Home[c]] = c,
         \A p \in Procs : lifecycle'[p] = lifecycle[p] \/ lifecycle[p] = None
  PROVE  SlotInv'
<1>1. StopInv' /\ AbortInv'
  BY DEF SlotInv, StopInv, AbortInv
<1>2. LockInv'
  BY HomeAssumption, NoneAssumption DEF SlotInv, LockInv
<1>3. ShadowOnly'
  BY NoneAssumption DEF SlotInv, ShadowOnly, NoDeath, Older, Reasons
<1>4. BootInv'
  BY DEF SlotInv, BootInv, NoDeath, Older
<1>5. WatchedInv' /\ PublishedHoldsSlot' /\ DeadFreesSlot'
  <2>1. \A p \in Procs : current[p] # None => current[p] \in Engines
    BY DEF TypeInv, TypeOK
  <2>2. QED
    BY <2>1 DEF SlotInv, WatchedInv, PublishedHoldsSlot, DeadFreesSlot, NoDeath, Older
<1>6. QED
  BY <1>1, <1>2, <1>3, <1>4, <1>5 DEF SlotInv

\* Call c claims the free machine lock and boots an engine.
LEMMA BootStep ==
  ASSUME TypeInv, SlotInv, NEW c \in Calls, NEW k \in AllKinds, Boots(c, k, "boot"),
         SlotFree(Home[c]), slot' = Home[c],
         current' = [current EXCEPT ![Home[c]] = None],
         reason'[c] = None, \A d \in Calls : d # c => reason'[d] = reason[d],
         lifecycle'[Home[c]] = c,
         \A p \in Procs : p # Home[c] => lifecycle'[p] = lifecycle[p],
         lifecycle[Home[c]] \in {None, c}
  PROVE  SlotInv'
<1> DEFINE p == Home[c]
<1>0. p \in Procs
  BY HomeAssumption
<1>1. PICK e \in Engines : /\ Unused(e)
                           /\ engine' = [engine EXCEPT ![e] = Started(k, p)]
                           /\ candidate' = [candidate EXCEPT ![c] = e]
                           /\ pc' = [pc EXCEPT ![c] = "boot"]
  BY DEF Boots
<1>2. /\ candidate'[c] = e /\ pc'[c] = "boot"
      /\ \A d \in Calls : d # c => pc'[d] = pc[d] /\ candidate'[d] = candidate[d]
  BY <1>1 DEF TypeInv, TypeOK
<1>3. /\ engine'[e] = Started(k, p) /\ engine'[e].home = p /\ ~engine'[e].preserve
      /\ \A f \in Engines : f # e => engine'[f] = engine[f]
  BY <1>1 DEF TypeInv, TypeOK, Started, Unborn
<1>4. current'[p] = None /\ \A q \in Procs : q # p => current'[q] = current[q]
  BY <1>0 DEF TypeInv, TypeOK
<1>5. \A q \in Procs : current[q] # None => current[q] \in Engines
  BY DEF TypeInv, TypeOK
<1>6. \A q \in Procs : current[q] # e
  <2> SUFFICES ASSUME NEW q \in Procs, current[q] = e PROVE FALSE
    OBVIOUS
  <2>1. e # None
    BY NoneAssumption
  <2>2. engine[e].kind # None
    BY <2>1, HomeAssumption, NoneAssumption DEF SlotInv, WatchedInv, TypeInv, TypeOK
  <2>3. QED
    BY <1>1, <2>2 DEF Unused
<1>7. \A d \in Calls : pc[d] = "boot" => candidate[d] # e
  <2> SUFFICES ASSUME NEW d \in Calls, pc[d] = "boot", candidate[d] = e PROVE FALSE
    OBVIOUS
  <2>1. engine[e].kind # None
    BY HomeAssumption, NoneAssumption DEF SlotInv, BootInv, TypeInv, TypeOK
  <2>2. QED
    BY <1>1, <2>1 DEF Unused
<1>8. \A d \in Calls : d # c /\ Home[d] = p => pc[d] = "idle" \/ reason[d] = "heal"
  BY HomeAssumption, NoneAssumption DEF SlotInv, LockInv
<1>9. StopInv' /\ ShadowOnly'
  BY <1>2, <1>3, NoneAssumption DEF SlotInv, StopInv, ShadowOnly, Reasons
<1>10. LockInv'
  BY <1>2, <1>8, HomeAssumption DEF SlotInv, LockInv
<1>11. BootInv'
  <2> SUFFICES ASSUME NEW d \in Calls, pc'[d] = "boot"
               PROVE  /\ slot' = Home[d] /\ current'[Home[d]] = None
                      /\ candidate'[d] \in Engines /\ engine'[candidate'[d]].home = Home[d]
    BY DEF BootInv
  <2>1. CASE d = c
    BY <1>2, <1>3, <1>4, <2>1
  <2>2. CASE d # c
    <3>1. pc[d] = "boot" /\ slot = Home[d] /\ reason[d] = None
      BY <1>2, <2>2 DEF SlotInv, BootInv, StopInv
    <3>2. Home[d] = p
      BY <3>1, HomeAssumption, NoneAssumption DEF SlotFree
    <3>3. QED
      BY <1>8, <2>2, <3>1, <3>2, NoneAssumption DEF Reasons
  <2>3. QED
    BY <2>1, <2>2
<1>12. AbortInv'
  BY <1>2, <1>4, HomeAssumption, NoneAssumption DEF SlotInv, AbortInv, Reasons
<1>13. WatchedInv'
  BY <1>3, <1>4, <1>5, <1>6 DEF SlotInv, WatchedInv
<1>14. PublishedHoldsSlot'
  BY <1>0, <1>3, <1>4, <1>5, <1>6, NoneAssumption DEF SlotInv, PublishedHoldsSlot, SlotFree
<1>15. DeadFreesSlot'
  BY <1>3, <1>4, <1>5, <1>6 DEF SlotInv, DeadFreesSlot
<1>16. QED
  BY <1>9, <1>10, <1>11, <1>12, <1>13, <1>14, <1>15 DEF SlotInv

\* A booted engine is published.
LEMMA PublishStep ==
  ASSUME TypeInv, SlotInv, NEW c \in Calls, BootDone(c)
  PROVE  SlotInv'
<1> DEFINE p == Home[c]
           e == candidate[c]
<1>1. /\ p \in Procs /\ e \in Engines /\ slot = p /\ current[p] = None /\ engine[e].home = p
      /\ pc[c] = "boot" /\ reason[c] = None
  BY HomeAssumption DEF SlotInv, BootInv, StopInv, BootDone
<1>2. /\ current'[p] = e /\ slot' = slot
      /\ \A q \in Procs : q # p => current'[q] = current[q]
      /\ engine' = [engine EXCEPT ![e].watched = TRUE]
      /\ ~engine[e].dead
  BY <1>1 DEF BootDone, TypeInv, TypeOK
<1>3. NoDeath /\ engine'[e].watched
  BY <1>1, <1>2 DEF NoDeath, Older, SlotInv, ShadowOnly, TypeInv, TypeOK, EngineState
<1>4. /\ reason'[c] = None /\ pc'[c] \in {"idle", "page"}
      /\ \A d \in Calls : d # c => pc'[d] = pc[d] /\ reason'[d] = reason[d] /\ candidate'[d] = candidate[d]
  BY <1>1 DEF BootDone, Returns, TypeInv, TypeOK
<1>5. \A d \in Calls : d # c /\ Home[d] = p => pc[d] = "idle" \/ reason[d] = "heal"
  BY <1>1, NoneAssumption, OneAtATime DEF Reasons
<1>6. StopInv' /\ ShadowOnly'
  BY <1>3, <1>4, NoneAssumption DEF SlotInv, StopInv, ShadowOnly, NoDeath, Older, Reasons
<1>7. LockInv'
  <2>1. CASE Returns(c)
    BY <2>1, ReturnsFrees
  <2>2. CASE lifecycle' = lifecycle
    BY <1>1, <1>4, <2>2, NoneAssumption DEF SlotInv, LockInv, Reasons
  <2>3. QED
    BY <2>1, <2>2 DEF BootDone
<1>8. BootInv'
  <2> SUFFICES ASSUME NEW d \in Calls, pc'[d] = "boot"
               PROVE  /\ slot' = Home[d] /\ current'[Home[d]] = None
                      /\ candidate'[d] \in Engines /\ engine'[candidate'[d]].home = Home[d]
    BY DEF BootInv
  <2>1. d # c /\ pc[d] = "boot" /\ reason[d] = None
    BY <1>4 DEF SlotInv, StopInv
  <2>2. slot = Home[d]
    BY <2>1 DEF SlotInv, BootInv
  <2>3. QED
    BY <1>1, <1>5, <2>1, <2>2, NoneAssumption DEF Reasons
<1>9. AbortInv'
  <2> SUFFICES ASSUME NEW d \in Calls, reason'[d] \in {"abort", "unpublish"}
               PROVE  current'[Home[d]] = None
    BY DEF AbortInv
  <2>1. d # c /\ reason[d] \in {"abort", "unpublish"} /\ pc[d] # "idle"
    BY <1>4, NoneAssumption DEF SlotInv, StopInv, Reasons
  <2>2. Home[d] # p /\ current[Home[d]] = None
    BY <1>5, <2>1 DEF SlotInv, AbortInv
  <2>3. QED
    BY <1>2, <2>2, HomeAssumption
<1>10. \A q \in Procs : current[q] # None => current[q] \in Engines
  BY DEF TypeInv, TypeOK
<1>11. WatchedInv' /\ PublishedHoldsSlot' /\ DeadFreesSlot'
  BY <1>1, <1>2, <1>3, <1>10 DEF SlotInv, WatchedInv, PublishedHoldsSlot, DeadFreesSlot, NoDeath, Older
<1>12. QED
  BY <1>6, <1>7, <1>8, <1>9, <1>11 DEF SlotInv

\* The lock is given back by a call under the lifecycle lock whose process
\* has no engine any more.
LEMMA ReleaseStep ==
  ASSUME TypeInv, SlotInv, NEW c \in Calls, Returns(c), UNCHANGED engine,
         pc[c] # "idle", reason[c] # "heal", pc[c] # "boot",
         slot' = Released(Home[c]),
         current' = [current EXCEPT ![Home[c]] = None]
  PROVE  SlotInv'
<1> DEFINE p == Home[c]
<1>0. p \in Procs
  BY HomeAssumption
<1>1. current'[p] = None /\ \A q \in Procs : q # p => current'[q] = current[q]
  BY <1>0 DEF TypeInv, TypeOK
<1>2. /\ pc'[c] = "idle" /\ reason'[c] = None
      /\ \A d \in Calls : d # c => pc'[d] = pc[d] /\ reason'[d] = reason[d] /\ candidate'[d] = candidate[d]
  BY DEF Returns, TypeInv, TypeOK
<1>3. slot # p => slot' = slot
  BY DEF Released
<1>4. ShadowOnly' /\ AbortInv'
  BY <1>1, <1>2, HomeAssumption, NoneAssumption DEF SlotInv, ShadowOnly, AbortInv, Reasons
<1>5. BootInv'
  <2> SUFFICES ASSUME NEW d \in Calls, pc'[d] = "boot"
               PROVE  /\ slot' = Home[d] /\ current'[Home[d]] = None
                      /\ candidate'[d] \in Engines /\ engine'[candidate'[d]].home = Home[d]
    BY DEF BootInv
  <2>1. d # c /\ pc[d] = "boot" /\ reason[d] = None
    BY <1>2 DEF SlotInv, StopInv
  <2>2. Home[d] # p
    BY <2>1, OneAtATime, NoneAssumption DEF Reasons
  <2>3. slot = Home[d]
    BY <2>1 DEF SlotInv, BootInv
  <2>4. QED
    BY <1>1, <1>2, <1>3, <2>1, <2>2, <2>3, HomeAssumption DEF SlotInv, BootInv
<1>6. WatchedInv' /\ PublishedHoldsSlot' /\ DeadFreesSlot'
  BY <1>0, <1>1, <1>3, NoneAssumption DEF SlotInv, WatchedInv, PublishedHoldsSlot, DeadFreesSlot, Released
<1>7. QED
  BY <1>2, <1>4, <1>5, <1>6, ReturnsFrees DEF SlotInv

\* In a step that leaves the other invariants alone, an engine changes, dies perhaps, and its callback runs if it dies.
LEMMA DeathStep ==
  ASSUME TypeInv, SlotInv, NEW e \in Engines, \A f \in Engines : Older(f),
         \A f \in Engines : f # e => engine'[f] = engine[f],
         UNCHANGED <<current, candidate>>,
         \A d \in Calls : pc'[d] = "boot" => pc[d] = "boot",
         StopInv', LockInv', AbortInv', ShadowOnly',
         \/ slot' = slot /\ engine'[e].dead = engine[e].dead
         \/ slot' = SlotAfterDeath(e) /\ engine'[e].dead
  PROVE  SlotInv'
<1>2. \A p \in Procs : current[p] # None => current[p] \in Engines
  BY DEF TypeInv, TypeOK
<1>3. WatchedInv'
  BY <1>2 DEF SlotInv, WatchedInv, Older
<1>4. slot' # slot => slot = engine[e].home /\ slot \in Procs /\ current[slot] = e /\ slot' = None /\ engine'[e].dead
  BY DEF SlotAfterDeath, Released, TypeInv, TypeOK, EngineState
<1>5. BootInv'
  BY <1>4, NoneAssumption DEF SlotInv, BootInv, Older
<1>6. PublishedHoldsSlot'
  <2> SUFFICES ASSUME NEW p \in Procs, current[p] # None, ~engine'[current[p]].dead
               PROVE  slot' = p
    BY DEF PublishedHoldsSlot
  <2>1. slot = p
    BY <1>2 DEF SlotInv, PublishedHoldsSlot, Older
  <2>2. QED
    BY <1>4, <2>1
<1>7. DeadFreesSlot'
  <2> SUFFICES ASSUME NEW p \in Procs, current[p] # None, engine'[current[p]].dead,
                      ~engine'[current[p]].stopping
               PROVE  slot' # p
    BY DEF DeadFreesSlot
  <2>1. ~engine[current[p]].stopping /\ engine[current[p]].watched /\ engine[current[p]].home = p
    BY <1>2 DEF SlotInv, WatchedInv, Older
  <2>2. CASE engine[current[p]].dead
    BY <1>4, <2>1, <2>2, NoneAssumption DEF SlotInv, DeadFreesSlot
  <2>3. CASE ~engine[current[p]].dead
    <3>1. current[p] = e /\ slot' = SlotAfterDeath(e)
      BY <1>2, <2>3
    <3>2. ~engine[e].preserve
      BY DEF SlotInv, ShadowOnly
    <3>3. QED
      BY <2>1, <2>3, <3>1, <3>2, NoneAssumption DEF SlotAfterDeath, Released
  <2>4. QED
    BY <2>2, <2>3
<1>8. QED
  BY <1>3, <1>5, <1>6, <1>7 DEF SlotInv

-----------------------------------------------------------------------------
(* Every step is one of these *)

LEMMA BeginSlot ==
  ASSUME TypeInv, SlotInv, "promote" \notin Tools, NEW c \in Calls, Begin(c)
  PROVE  SlotInv'
<1> DEFINE p == Home[c]
<1>0. p \in Procs /\ Kinds \subseteq AllKinds /\ current[p] \in Engines \cup {None}
  BY HomeAssumption, ScopeAssumption DEF TypeInv, TypeOK
<1>1. pc[c] = "idle" /\ reason[c] = None
  BY DEF Begin, StartFresh, StartOverEngine, BrowserStop, HealerRestarts, Promote, Enters, SlotInv, StopInv
<1>2. ASSUME NEW k \in Kinds, StartFresh(c, k) PROVE SlotInv'
  <2>1. current' = [current EXCEPT ![p] = None]
    BY <1>0, <1>2 DEF StartFresh, TypeInv, TypeOK
  <2>2. /\ Boots(c, k, "boot") /\ SlotFree(p) /\ slot' = p
        /\ reason' = reason /\ lifecycle[p] = None
        /\ lifecycle' = [lifecycle EXCEPT ![p] = c]
    BY <1>2 DEF StartFresh, Enters
  <2>3. lifecycle'[p] = c /\ \A q \in Procs : q # p => lifecycle'[q] = lifecycle[q]
    BY <1>0, <2>2 DEF TypeInv, TypeOK
  <2>4. QED
    BY <1>0, <1>1, <2>1, <2>2, <2>3, BootStep
<1>3. ASSUME NEW k \in Kinds, StartOverEngine(c, k) PROVE SlotInv'
  <2> DEFINE e == current[p]
  <2>1. /\ lifecycle[p] = None /\ e \in Engines
        /\ lifecycle' = [lifecycle EXCEPT ![p] = c]
        /\ UNCHANGED <<slot, current, candidate>>
    BY <1>0, <1>3 DEF StartOverEngine, Enters
  <2>2. lifecycle'[p] = c /\ \A q \in Procs : lifecycle'[q] = lifecycle[q] \/ lifecycle[q] = None
    BY <1>0, <2>1 DEF TypeInv, TypeOK
  <2>3. CASE pc' = [pc EXCEPT ![c] = "probe"] /\ UNCHANGED <<engine, reason>>
    <3>1. /\ pc'[c] = "probe" /\ reason'[c] = None
          /\ \A d \in Calls : d # c => pc'[d] = pc[d] /\ reason'[d] = reason[d]
      BY <1>1, <2>3 DEF TypeInv, TypeOK
    <3>2. NoDeath
      BY <2>3 DEF NoDeath, Older, SlotInv, ShadowOnly
    <3>3. QED
      BY <2>1, <2>2, <3>1, <3>2, QuietStep, NoneAssumption DEF Reasons
  <2>4. CASE StopBegins(c, e, "reap", engine[e])
    <3>1. NoDeath
      BY <2>1, <2>4, StopBeginsOlder
    <3>2. /\ pc'[c] = "drain" /\ reason'[c] = "reap"
          /\ \A d \in Calls : d # c => pc'[d] = pc[d] /\ reason'[d] = reason[d]
      BY <2>4 DEF StopBegins, TypeInv, TypeOK
    <3>3. QED
      BY <2>1, <2>2, <3>1, <3>2, QuietStep
  <2>5. QED
    BY <1>3, <2>3, <2>4 DEF StartOverEngine
<1>4. ASSUME BrowserStop(c) PROVE SlotInv'
  <2> DEFINE e == current[p]
  <2>1. CASE e = None
    <3>1. UNCHANGED <<slot, current, lifecycle, engine, pc, reason, candidate>>
      BY <1>4, <2>1 DEF BrowserStop
    <3>2. QED
      BY <3>1 DEF SlotInv, StopInv, LockInv, ShadowOnly, BootInv, AbortInv, WatchedInv,
         PublishedHoldsSlot, DeadFreesSlot
  <2>2. CASE e # None
    <3>1. /\ lifecycle[p] = None /\ e \in Engines
          /\ lifecycle' = [lifecycle EXCEPT ![p] = c]
          /\ StopBegins(c, e, "stop", engine[e])
          /\ UNCHANGED <<slot, current, candidate>>
      BY <1>0, <1>4, <2>2 DEF BrowserStop, Enters
    <3>2. lifecycle'[p] = c /\ \A q \in Procs : lifecycle'[q] = lifecycle[q] \/ lifecycle[q] = None
      BY <1>0, <3>1 DEF TypeInv, TypeOK
    <3>3. NoDeath
      BY <3>1, StopBeginsOlder
    <3>4. /\ pc'[c] = "drain" /\ reason'[c] = "stop"
          /\ \A d \in Calls : d # c => pc'[d] = pc[d] /\ reason'[d] = reason[d]
      BY <3>1 DEF StopBegins, TypeInv, TypeOK
    <3>5. QED
      BY <3>1, <3>2, <3>3, <3>4, QuietStep
  <2>3. QED
    BY <2>1, <2>2
<1>5. ASSUME HealerRestarts(c) PROVE SlotInv'
  <2> DEFINE e == IF bound[p] # None THEN bound[p] ELSE current[p]
  <2>1. /\ StopBegins(c, e, "heal", engine[e])
        /\ UNCHANGED <<slot, current, lifecycle, candidate>>
        /\ e \in Engines \cup {None}
    BY <1>0, <1>5 DEF HealerRestarts, TypeInv, TypeOK
  <2>2. NoDeath
    BY <2>1, StopBeginsOlder
  <2>3. /\ pc'[c] = "drain" /\ reason'[c] = "heal"
        /\ \A d \in Calls : d # c => pc'[d] = pc[d] /\ reason'[d] = reason[d]
    BY <2>1 DEF StopBegins, TypeInv, TypeOK
  <2>4. QED
    BY <2>1, <2>2, <2>3, QuietStep
<1>6. QED
  BY <1>2, <1>3, <1>4, <1>5 DEF Begin, Promote

LEMMA StopEndsSlot ==
  ASSUME TypeInv, SlotInv, NEW c \in Calls, NEW ok \in BOOLEAN, StopEnds(c, ok)
  PROVE  SlotInv'
<1> DEFINE p == Home[c]
<1>0. p \in Procs /\ current[p] \in Engines \cup {None}
  BY HomeAssumption DEF TypeInv, TypeOK
<1>1. CASE ReapEnds(c, ok)
  <2>1. reason[c] = "reap" /\ pc[c] \in {"drain", "exit"} /\ want[c] \in AllKinds
    BY <1>1, NoneAssumption DEF ReapEnds, SlotInv, StopInv, TypeInv, AskedFor, Reasons
  <2>2. CASE ok /\ SlotFree(p)
    <3>1. /\ slot' = p /\ Boots(c, want[c], "boot")
          /\ current' = [current EXCEPT ![p] = None]
          /\ reason' = [reason EXCEPT ![c] = None]
          /\ lifecycle' = lifecycle
      BY <1>1, <2>2 DEF ReapEnds
    <3>2. reason'[c] = None /\ \A d \in Calls : d # c => reason'[d] = reason[d]
      BY <3>1 DEF TypeInv, TypeOK
    <3>3. lifecycle[p] = c
      BY <2>1 DEF SlotInv, LockInv
    <3>4. QED
      BY <2>1, <2>2, <3>1, <3>2, <3>3, BootStep
  <2>3. CASE ~(ok /\ SlotFree(p))
    <3>1. /\ Returns(c) /\ UNCHANGED <<slot, engine>>
          /\ current' = IF ok THEN [current EXCEPT ![p] = None] ELSE current
      BY <1>1, <2>3 DEF ReapEnds
    <3>2. \A q \in Procs : current'[q] = IF q \in (IF ok THEN {p} ELSE {}) THEN None ELSE current[q]
      BY <1>0, <3>1 DEF TypeInv, TypeOK
    <3>3. (IF ok THEN {p} ELSE {}) \in SUBSET Procs
      BY <1>0
    <3>4. QED
      BY <3>1, <3>2, <3>3, QuietReturn
  <2>4. QED
    BY <2>2, <2>3
<1>2. CASE AbortEnds(c, ok)
  <2>1. reason[c] \in {"abort", "unpublish"} /\ pc[c] \in {"drain", "exit"} /\ current[p] = None
    BY <1>2, NoneAssumption DEF AbortEnds, SlotInv, StopInv, AbortInv, Reasons
  <2>2. /\ slot' = Released(p) /\ Returns(c) /\ UNCHANGED engine
        /\ current' = [current EXCEPT ![p] = None]
    BY <1>0, <1>2, <2>1 DEF AbortEnds, TypeInv, TypeOK
  <2>3. QED
    BY <2>1, <2>2, ReleaseStep
<1>3. CASE BrowserStopEnds(c, ok)
  <2>1. reason[c] = "stop" /\ pc[c] \in {"drain", "exit"}
    BY <1>3, NoneAssumption DEF BrowserStopEnds, SlotInv, StopInv, Reasons
  <2>2. CASE ok
    <3>1. /\ slot' = Released(p) /\ Returns(c) /\ UNCHANGED engine
          /\ current' = [current EXCEPT ![p] = None]
      BY <1>3, <2>2 DEF BrowserStopEnds
    <3>2. QED
      BY <2>1, <3>1, ReleaseStep
  <2>3. CASE ~ok
    <3>1. Returns(c) /\ UNCHANGED <<slot, engine, current>>
      BY <1>3, <2>3 DEF BrowserStopEnds
    <3>2. QED
      BY <3>1, PlainReturn
  <2>4. QED
    BY <2>2, <2>3
<1>4. CASE HealerEnds(c, ok)
  <2>1. /\ Returns(c) /\ UNCHANGED <<slot, engine>>
        /\ current' = IF ok THEN [current EXCEPT ![p] = None] ELSE current
    BY <1>4 DEF HealerEnds
  <2>2. \A q \in Procs : current'[q] = IF q \in (IF ok THEN {p} ELSE {}) THEN None ELSE current[q]
    BY <1>0, <2>1 DEF TypeInv, TypeOK
  <2>3. (IF ok THEN {p} ELSE {}) \in SUBSET Procs
    BY <1>0
  <2>4. QED
    BY <2>1, <2>2, <2>3, QuietReturn
<1>5. CASE ReplaceEnds(c, ok) \/ AbandonEnds(c, ok)
  BY <1>5 DEF ReplaceEnds, AbandonEnds, SlotInv, ShadowOnly
<1>6. QED
  BY <1>1, <1>2, <1>3, <1>4, <1>5 DEF StopEnds

LEMMA StepSlot ==
  ASSUME TypeInv, SlotInv, ProbeInv, NEW c \in Calls, Step(c)
  PROVE  SlotInv'
<1> DEFINE p == Home[c]
<1>0. /\ p \in Procs /\ target[c] \in Engines \cup {None} /\ candidate[c] \in Engines \cup {None}
  BY HomeAssumption DEF TypeInv, TypeOK
<1>1. CASE ProbeFindsAlive(c) \/ PageReady(c) \/ SnapshotFails(c)
  <2>1. Returns(c) /\ UNCHANGED <<slot, engine, current>>
    BY <1>1 DEF ProbeFindsAlive, PageReady, SnapshotFails
  <2>2. QED
    BY <2>1, PlainReturn
<1>2. CASE ProbeFindsDead(c)
  <2> DEFINE e == target[c]
             E == [engine[e] EXCEPT !.dead = TRUE]
  <2>1. /\ pc[c] = "probe" /\ reason[c] = None /\ lifecycle[p] = c /\ e \in Engines
        /\ UNCHANGED <<current, lifecycle, candidate>>
    BY <1>2, NoneAssumption DEF ProbeFindsDead, SlotInv, StopInv, LockInv, ProbeInv, Reasons
  <2>2. /\ pc'[c] = "drain" /\ reason'[c] = "reap"
        /\ \A d \in Calls : d # c => pc'[d] = pc[d] /\ reason'[d] = reason[d]
    BY <1>2 DEF ProbeFindsDead, StopBegins, TypeInv, TypeOK
  <2>3. CASE StopBegins(c, e, "reap", engine[e]) /\ UNCHANGED slot
    <3>1. NoDeath
      BY <2>1, <2>3, StopBeginsOlder
    <3>2. QED
      BY <2>1, <2>2, <2>3, <3>1, QuietStep
  <2>4. CASE StopBegins(c, e, "reap", E) /\ slot' = SlotAfterDeath(e)
    <3>1. engine' = [engine EXCEPT ![e] = Cancelled(E)]
      BY <2>4 DEF StopBegins
    <3>2. \A f \in Engines : engine[f] \in EngineState /\ ~engine[f].preserve
      BY DEF TypeInv, TypeOK, SlotInv, ShadowOnly
    <3>3. \A f \in Engines : engine'[f] = IF f = e THEN Cancelled(E) ELSE engine[f]
      BY <3>1 DEF TypeInv, TypeOK
    <3>4. /\ Cancelled(E).home = engine[e].home
          /\ Cancelled(E).watched = engine[e].watched
          /\ Cancelled(E).dead /\ Cancelled(E).stopping
          /\ Cancelled(E).preserve = engine[e].preserve
      BY <2>1, <3>2 DEF Cancelled, EngineState
    <3>5. /\ \A f \in Engines : Older(f)
          /\ engine'[e].dead
          /\ \A f \in Engines : f # e => engine'[f] = engine[f]
      BY <2>1, <3>2, <3>3, <3>4 DEF Older
    <3>6. StopInv' /\ LockInv' /\ AbortInv' /\ ShadowOnly'
      BY <2>1, <2>2, <3>5, NoneAssumption DEF SlotInv, StopInv, LockInv, AbortInv, ShadowOnly, Older, Reasons
    <3>7. \A d \in Calls : pc'[d] = "boot" => pc[d] = "boot"
      BY <2>2
    <3>8. QED
      BY <2>1, <2>4, <3>5, <3>6, <3>7, DeathStep
  <2>5. QED
    BY <1>2, <2>3, <2>4 DEF ProbeFindsDead
<1>3. CASE BootDone(c)
  BY <1>3, PublishStep
<1>4. CASE BootFails(c)
  <2>1. /\ pc[c] = "boot" /\ reason[c] = None /\ lifecycle[p] = c /\ current[p] = None
        /\ StopBegins(c, candidate[c], "abort", engine[candidate[c]])
        /\ UNCHANGED <<slot, current, lifecycle, candidate>>
    BY <1>4, NoneAssumption DEF BootFails, SlotInv, StopInv, LockInv, BootInv, Reasons
  <2>2. /\ pc'[c] = "drain" /\ reason'[c] = "abort"
        /\ \A d \in Calls : d # c => pc'[d] = pc[d] /\ reason'[d] = reason[d]
    BY <2>1 DEF StopBegins, TypeInv, TypeOK
  <2>3. NoDeath
    BY <1>0, <2>1, StopBeginsOlder
  <2>4. QED
    BY <2>1, <2>2, <2>3, QuietStep
<1>5. CASE PageFails(c)
  <2> DEFINE e == candidate[c]
  <2>1. /\ pc[c] = "page" /\ reason[c] = None /\ lifecycle[p] = c
        /\ StopBegins(c, e, "unpublish", engine[e])
        /\ current' = [current EXCEPT ![p] = None]
        /\ UNCHANGED <<slot, lifecycle, candidate>>
    BY <1>5, NoneAssumption DEF PageFails, SlotInv, StopInv, LockInv, Reasons
  <2>2. /\ pc'[c] = "drain" /\ reason'[c] = "unpublish"
        /\ \A d \in Calls : d # c => pc'[d] = pc[d] /\ reason'[d] = reason[d]
    BY <2>1 DEF StopBegins, TypeInv, TypeOK
  <2>3. NoDeath
    BY <1>0, <2>1, StopBeginsOlder
  <2>4. current'[p] = None /\ \A q \in Procs : current'[q] = current[q] \/ current'[q] = None
    BY <1>0, <2>1 DEF TypeInv, TypeOK
  <2>5. StopInv' /\ LockInv' /\ ShadowOnly'
    BY <2>1, <2>2, <2>3, NoneAssumption DEF SlotInv, StopInv, LockInv, ShadowOnly, NoDeath, Older, Reasons
  <2>6. BootInv' /\ AbortInv'
    BY <2>1, <2>2, <2>3, <2>4, HomeAssumption DEF SlotInv, BootInv, AbortInv, NoDeath, Older
  <2>7. \A q \in Procs : current[q] # None => current[q] \in Engines
    BY DEF TypeInv, TypeOK
  <2>8. WatchedInv' /\ PublishedHoldsSlot' /\ DeadFreesSlot'
    BY <2>1, <2>3, <2>4, <2>7 DEF SlotInv, WatchedInv, PublishedHoldsSlot, DeadFreesSlot, NoDeath, Older
  <2>9. QED
    BY <2>5, <2>6, <2>8 DEF SlotInv
<1>6. CASE StopTakesProcess(c)
  <2>1. /\ pc[c] = "drain"
        /\ engine' = [engine EXCEPT ![target[c]].handle = FALSE]
        /\ pc' = [pc EXCEPT ![c] = "exit"]
        /\ UNCHANGED <<slot, current, lifecycle, candidate, reason>>
    BY <1>6 DEF StopTakesProcess
  <2>2. /\ pc'[c] = "exit" /\ \A d \in Calls : d # c => pc'[d] = pc[d]
        /\ reason[c] # "heal" => lifecycle[p] = c
        /\ reason[c] \in {None, "reap", "stop", "abort", "unpublish", "heal"}
        /\ reason[c] \in {"abort", "unpublish"} => current[p] = None
    BY <2>1 DEF SlotInv, LockInv, ShadowOnly, AbortInv, TypeInv, TypeOK, Reasons
  <2>3. NoDeath
    BY <2>1 DEF NoDeath, Older, SlotInv, ShadowOnly, TypeInv, TypeOK, EngineState
  <2>4. QED
    BY <2>1, <2>2, <2>3, QuietStep
<1>7. CASE StopFindsNothing(c) \/ StopRefused(c) \/ StopReaped(c) \/ StopGivesUp(c)
  BY <1>7, StopEndsSlot DEF StopFindsNothing, StopRefused, StopReaped, StopGivesUp
<1>8. CASE SnapshotTaken(c) \/ TakeoverBooted(c) \/ TakeoverFails(c) \/ HandoffDone(c)
  BY <1>8 DEF SnapshotTaken, TakeoverBooted, TakeoverFails, HandoffDone, SlotInv, ShadowOnly
<1>9. QED
  BY <1>1, <1>2, <1>3, <1>4, <1>5, <1>6, <1>7, <1>8 DEF Step

LEMMA EnvironmentSlot ==
  ASSUME TypeInv, SlotInv, NEW e \in Engines, Environment(e)
  PROVE  SlotInv'
<1>1. /\ UNCHANGED <<current, lifecycle, pc, reason, candidate>>
      /\ \A f \in Engines : f # e => engine'[f] = engine[f]
  BY DEF Environment, Crash, ProcessExits, ReaderEnds, HealthFindsDead, WriteStalls, TypeInv, TypeOK
<1>2. \A f \in Engines : engine[f] \in EngineState /\ ~engine[f].preserve
  BY DEF TypeInv, TypeOK, SlotInv, ShadowOnly
<1>3. /\ Older(e)
      /\ \/ slot' = slot /\ engine'[e].dead = engine[e].dead
         \/ slot' = SlotAfterDeath(e) /\ engine'[e].dead
  <2>1. CASE Crash(e) \/ ProcessExits(e)
    BY <1>2, <2>1 DEF Crash, ProcessExits, Older, TypeInv, TypeOK, EngineState
  <2>2. CASE ReaderEnds(e) \/ HealthFindsDead(e) \/ WriteStalls(e)
    BY <1>2, <2>2 DEF ReaderEnds, HealthFindsDead, WriteStalls, Older, TypeInv, TypeOK, EngineState
  <2>3. QED
    BY <2>1, <2>2 DEF Environment
<1>4. \A f \in Engines : Older(f)
  BY <1>1, <1>2, <1>3 DEF Older
<1>5. StopInv' /\ LockInv' /\ AbortInv' /\ ShadowOnly'
  BY <1>1, <1>4 DEF SlotInv, StopInv, LockInv, AbortInv, ShadowOnly, Older
<1>6. QED
  BY <1>1, <1>3, <1>4, <1>5, DeathStep

-----------------------------------------------------------------------------
(* The theorems *)

LEMMA ProbeStep == TypeInv /\ ProbeInv /\ [Next]_vars => ProbeInv'
<1> SUFFICES ASSUME TypeInv, ProbeInv, [Next]_vars, NEW d \in Calls, pc'[d] = "probe"
             PROVE  target'[d] \in Engines
  BY DEF ProbeInv
<1>1. CASE pc'[d] = pc[d] /\ target'[d] = target[d]
  BY <1>1 DEF ProbeInv
<1>2. CASE \E k \in Kinds : StartOverEngine(d, k)
  <2>1. target'[d] = current[Home[d]] /\ current[Home[d]] # None
    BY <1>2 DEF StartOverEngine, StopBegins, TypeInv, TypeOK
  <2>2. QED
    BY <2>1, HomeAssumption DEF TypeInv, TypeOK
<1>3. ASSUME NEW c \in Calls, Begin(c) \/ Step(c) \/ CallCancelled(c)
      PROVE  \/ pc'[d] = pc[d] /\ target'[d] = target[d]
             \/ \E k \in Kinds : StartOverEngine(d, k)
  <2> USE DEF TypeInv, TypeOK
  <2>1. ASSUME Returns(c) PROVE pc'[d] = pc[d] /\ target'[d] = target[d]
    BY <2>1 DEF Returns
  <2>2. ASSUME NEW k, NEW point, Boots(c, k, point), point # "probe",
               UNCHANGED target \/ target' = [target EXCEPT ![c] = None]
        PROVE  pc'[d] = pc[d] /\ target'[d] = target[d]
    BY <2>2 DEF Boots
  <2>3. ASSUME NEW e, NEW why, NEW E, StopBegins(c, e, why, E)
        PROVE  pc'[d] = pc[d] /\ target'[d] = target[d]
    BY <2>3 DEF StopBegins
  <2>4. ASSUME NEW ok \in BOOLEAN, StopEnds(c, ok) PROVE pc'[d] = pc[d] /\ target'[d] = target[d]
    <3>1. CASE ReapEnds(c, ok)
      BY <2>1, <2>2, <3>1 DEF ReapEnds
    <3>2. CASE ReplaceEnds(c, ok)
      BY <2>1, <3>2 DEF ReplaceEnds
    <3>3. QED
      BY <2>1, <2>4, <3>1, <3>2 DEF StopEnds, AbortEnds, BrowserStopEnds, HealerEnds, AbandonEnds
  <2>5. CASE CallCancelled(c)
    BY <2>1, <2>5 DEF CallCancelled
  <2>6. CASE Begin(c)
    <3>1. ASSUME NEW k \in Kinds, StartFresh(c, k) PROVE pc'[d] = pc[d] /\ target'[d] = target[d]
      BY <2>2, <3>1 DEF StartFresh
    <3>2. ASSUME NEW k \in Kinds, StartOverEngine(c, k), c # d PROVE pc'[d] = pc[d] /\ target'[d] = target[d]
      BY <2>3, <3>2 DEF StartOverEngine
    <3>3. CASE BrowserStop(c)
      BY <2>3, <3>3 DEF BrowserStop
    <3>4. CASE HealerRestarts(c)
      BY <2>3, <3>4 DEF HealerRestarts
    <3>5. CASE Promote(c)
      BY <3>5 DEF Promote
    <3>6. QED
      BY <2>6, <3>1, <3>2, <3>3, <3>4, <3>5 DEF Begin
  <2>7. CASE Step(c)
    <3>1. CASE ProbeFindsAlive(c) \/ PageReady(c) \/ SnapshotFails(c)
      BY <2>1, <3>1 DEF ProbeFindsAlive, PageReady, SnapshotFails
    <3>2. CASE ProbeFindsDead(c) \/ BootFails(c) \/ PageFails(c) \/ TakeoverFails(c) \/ HandoffDone(c)
      BY <2>3, <3>2 DEF ProbeFindsDead, BootFails, PageFails, TakeoverFails, HandoffDone
    <3>3. CASE BootDone(c)
      BY <2>1, <3>3 DEF BootDone
    <3>4. CASE SnapshotTaken(c)
      BY <2>2, <3>4 DEF SnapshotTaken
    <3>5. CASE TakeoverBooted(c) \/ StopTakesProcess(c)
      BY <3>5 DEF TakeoverBooted, StopTakesProcess
    <3>6. CASE StopFindsNothing(c) \/ StopRefused(c) \/ StopReaped(c) \/ StopGivesUp(c)
      BY <2>4, <3>6 DEF StopFindsNothing, StopRefused, StopReaped, StopGivesUp
    <3>7. QED
      BY <2>7, <3>1, <3>2, <3>3, <3>4, <3>5, <3>6 DEF Step
  <2>8. QED
    BY <1>3, <2>5, <2>6, <2>7
<1>4. ASSUME NEW e \in Engines, Environment(e) PROVE UNCHANGED <<pc, target>>
  BY <1>4 DEF Environment, Crash, ProcessExits, ReaderEnds, HealthFindsDead, WriteStalls
<1>5. QED
  BY <1>1, <1>2, <1>3, <1>4 DEF Next, vars

LEMMA SlotStep ==
  ASSUME "promote" \notin Tools
  PROVE  TypeInv /\ ProbeInv /\ SlotInv /\ [Next]_vars => SlotInv'
<1> SUFFICES ASSUME TypeInv, ProbeInv, SlotInv, [Next]_vars PROVE SlotInv'
  OBVIOUS
<1>1. ASSUME NEW c \in Calls, Begin(c) PROVE SlotInv'
  BY <1>1, BeginSlot
<1>2. ASSUME NEW c \in Calls, Step(c) PROVE SlotInv'
  BY <1>2, StepSlot
<1>3. ASSUME NEW c \in Calls, CallCancelled(c) PROVE SlotInv'
  <2>1. Returns(c) /\ UNCHANGED <<slot, engine, current>>
    BY <1>3 DEF CallCancelled
  <2>2. QED
    BY <2>1, PlainReturn
<1>4. ASSUME NEW e \in Engines, Environment(e) PROVE SlotInv'
  BY <1>4, EnvironmentSlot
<1>5. CASE UNCHANGED vars
  BY <1>5 DEF vars, SlotInv, StopInv, LockInv, ShadowOnly, BootInv, AbortInv, WatchedInv,
     PublishedHoldsSlot, DeadFreesSlot
<1>6. QED
  BY <1>1, <1>2, <1>3, <1>4, <1>5 DEF Next

LEMMA SlotAlways ==
  ASSUME "promote" \notin Tools
  PROVE  Spec => []SlotInv
<1>1. Init => ProbeInv
  BY DEF Init, ProbeInv
<1>2. TypeInv /\ ProbeInv /\ SlotInv /\ [Next]_vars => SlotInv'
  BY SlotStep
<1>3. QED
  BY <1>1, <1>2, TypeInit, TypeStep, ProbeStep, SlotInit, PTL DEF Spec

\* Without promotions, a usable published browser is covered by the machine
\* lock, whatever crashes, healers, slow stops and withdrawn calls do: a
\* second server cannot open one beside it (acquire_browser_lock).
THEOREM PublishedIsCovered ==
  ASSUME "promote" \notin Tools
  PROVE  Spec => []PublishedHoldsSlot
<1>1. SlotInv => PublishedHoldsSlot
  BY DEF SlotInv
<1>2. QED
  BY <1>1, SlotAlways, PTL

\* Without promotions, an engine that dies by itself never keeps the machine
\* lock: _on_engine_death has given it back by the time anybody can see it dead.
THEOREM DeadEnginesFreeTheSlot ==
  ASSUME "promote" \notin Tools
  PROVE  Spec => []DeadFreesSlot
<1>1. SlotInv => DeadFreesSlot
  BY DEF SlotInv
<1>2. QED
  BY <1>1, SlotAlways, PTL

-----------------------------------------------------------------------------
(* The machine's slot and browser, seen from outside the processes *)

\* The machine lock covers every browser that runs, published or not.
Cover == \A e \in Live : slot = engine[e].home

Guard == TypeInv /\ Fits /\ Owned /\ Marked /\ Held /\ ShadowOnly /\ Cover

\* A browser that runs while the slot is free for p is one of p's.
LEMMA Neighbours ==
  ASSUME Guard, NEW p \in Procs, SlotFree(p), NEW e \in Live
  PROVE  /\ e \in Engines /\ e # None /\ engine[e].home = p
         /\ \/ current[p] = e
            \/ \E d \in Calls : Home[d] = p /\ pc[d] # "idle" /\ e \in {target[d], candidate[d]}
<1>1. e \in Engines /\ e # None /\ Running(e)
  BY NoneAssumption DEF Live, Running
<1>2. engine[e].home # None
  BY <1>1 DEF Guard, TypeInv, TypeOK, Marked, EngineFine, Live
<1>3. engine[e].home = p
  BY <1>2 DEF Guard, Cover, SlotFree
<1>4. Reachable(e)
  BY <1>1 DEF Guard, Held, NoOrphan
<1>5. ASSUME NEW q \in Procs, current[q] = e PROVE q = p
  BY <1>1, <1>3, <1>5 DEF Guard, Owned
<1>6. ASSUME NEW d \in Calls, e \in {target[d], candidate[d]} PROVE Home[d] = p /\ pc[d] # "idle"
  BY <1>1, <1>3, <1>6 DEF Guard, Owned, Fits, CallFits, Sound
<1>7. QED
  BY <1>1, <1>3, <1>4, <1>5, <1>6 DEF Reachable

\* No browser runs when a call under the lock, or about to take it, finds the
\* slot free and its own engines gone.
LEMMA Alone ==
  ASSUME Guard, NEW c \in Calls, SlotFree(Home[c]), lifecycle[Home[c]] \in {None, c},
         \A e \in Own(c) : e \notin Live
  PROVE  Live = {}
<1> SUFFICES ASSUME NEW e \in Live PROVE FALSE
  OBVIOUS
<1>1. Home[c] \in Procs
  BY HomeAssumption
<1>2. \/ current[Home[c]] = e
      \/ \E d \in Calls : Home[d] = Home[c] /\ pc[d] # "idle" /\ e \in {target[d], candidate[d]}
  BY <1>1, Neighbours
<1>3. ASSUME NEW d \in Calls, Home[d] = Home[c], pc[d] # "idle" PROVE d = c
  BY <1>3, NoneAssumption DEF Guard, Fits, CallFits, Sound
<1>4. QED
  BY <1>2, <1>3 DEF Own

\* No browser runs when the current one of the slot's owner has ended.
LEMMA AloneInDeath ==
  ASSUME Guard, NEW p \in Procs, slot = p, current[p] # None, current[p] \notin Live
  PROVE  Live = {}
<1> SUFFICES ASSUME NEW e \in Live PROVE FALSE
  OBVIOUS
<1>1. SlotFree(p)
  BY DEF SlotFree
<1>2. /\ e # None
      /\ \/ current[p] = e
         \/ \E d \in Calls : Home[d] = p /\ pc[d] # "idle" /\ e \in {target[d], candidate[d]}
  BY <1>1, Neighbours
<1>3. PICK d \in Calls : Home[d] = p /\ pc[d] # "idle" /\ e \in {target[d], candidate[d]}
  BY <1>2
<1>4. /\ pc[d] \in {"probe", "boot", "page", "drain", "exit"}
      /\ reason[d] \in {None, "reap", "stop", "abort", "unpublish"}
  BY <1>3 DEF Guard, ShadowOnly, TypeInv, TypeOK, Points, Reasons, Fits, CallFits, Sound
<1>5. Sound(d, pc[d], target[d], candidate[d], reason[d], current[p], lifecycle[p])
  BY <1>3 DEF Guard, Fits, CallFits
<1>6. target[d] \in {None, current[p]} /\ candidate[d] \in {None, current[p]}
  BY <1>4, <1>5, NoneAssumption DEF Sound, Reasons
<1>7. QED
  BY <1>2, <1>3, <1>6

\* What a step looks like from outside.
Seen == [Slot!Next]_(Slot!vars) /\ Cover'

LEMMA SeenStill ==
  ASSUME Guard, slot' = slot,
         \A f \in Engines : engine'[f].os = engine[f].os /\ engine'[f].home = engine[f].home
  PROVE  Seen
<1>1. Live' = Live
  BY DEF Live
<1>2. Cover'
  BY <1>1 DEF Guard, Cover, Live
<1>3. QED
  BY <1>1, <1>2 DEF Seen, Slot!vars

LEMMA SeenOpen ==
  ASSUME Guard, NEW c \in Calls, NEW e \in Engines, Live = {}, SlotFree(Home[c]), slot' = Home[c],
         Fresh(c, e), \A f \in Engines \ {e} : engine'[f] = engine[f]
  PROVE  Seen
<1>1. Live' = {e}
  BY DEF Live, Fresh
<1>2. Home[c] \in Procs
  BY HomeAssumption
<1>3. Slot!Open(Home[c], e)
  BY <1>1 DEF Slot!Open, SlotFree
<1>4. Cover'
  BY <1>1 DEF Cover, Fresh
<1>5. QED
  BY <1>2, <1>3, <1>4 DEF Seen, Slot!Next

LEMMA SeenRelease ==
  ASSUME Guard, slot' = slot \/ (slot' = None /\ Live = {}),
         \A f \in Engines : engine'[f].os = engine[f].os /\ engine'[f].home = engine[f].home
  PROVE  Seen
<1>1. CASE slot' = slot
  BY <1>1, SeenStill
<1>2. CASE slot' # slot
  <2>1. Live' = Live
    BY DEF Live
  <2>2. Slot!Release
    BY <1>2, <2>1 DEF Slot!Release
  <2>3. Cover'
    BY <1>2, <2>1 DEF Cover
  <2>4. QED
    BY <2>2, <2>3 DEF Seen, Slot!Next
<1>3. QED
  BY <1>1, <1>2

\* A death callback runs for an engine whose browser has ended.
LEMMA SeenDeath ==
  ASSUME Guard, NEW e \in Engines, slot' = SlotAfterDeath(e), ~engine[e].stopping => e \notin Live,
         \A f \in Engines : engine'[f].os = engine[f].os /\ engine'[f].home = engine[f].home
  PROVE  Seen
<1> DEFINE p == engine[e].home
<1>1. CASE slot' = slot
  BY <1>1, SeenStill
<1>2. CASE slot' # slot
  <2>1. /\ ~engine[e].stopping /\ current[p] = e /\ slot = p /\ slot' = None
    BY <1>2 DEF SlotAfterDeath, Released
  <2>2. p \in Procs
    BY <1>2, <2>1 DEF Guard, TypeInv, TypeOK
  <2>3. e # None
    BY NoneAssumption
  <2>4. Live = {}
    BY <2>1, <2>2, <2>3, AloneInDeath
  <2>5. QED
    BY <2>1, <2>4, SeenRelease
<1>3. QED
  BY <1>1, <1>2

\* A call that starts no engine and leaves the slot alone.
LEMMA SeenQuiet ==
  ASSUME Guard, NEW c \in Calls, Quiet(c)
  PROVE  \A f \in Engines : engine'[f].os = engine[f].os /\ engine'[f].home = engine[f].home
  BY DEF Quiet, Same

LEMMA SeenStep ==
  ASSUME "promote" \notin Tools, "heal" \notin Tools,
         "transport" \notin Faults, "slow" \notin Faults, "cancel" \notin Faults
  PROVE  Guard /\ [Next]_vars => Seen
<1> SUFFICES ASSUME Guard, [Next]_vars PROVE Seen
  OBVIOUS
<1> USE DEF Guard
<1>0. None \notin Engines /\ None \notin Calls /\ None \notin Procs
  BY NoneAssumption
<1>1. ASSUME NEW c \in Calls, Begin(c) PROVE Seen
  <2>1. ASSUME NEW k \in Kinds, StartFresh(c, k) PROVE Seen
    <3>1. PICK e \in Engines : Fresh(c, e) /\ \A f \in Engines \ {e} : engine'[f] = engine[f]
      BY <2>1, StartFreshSays
    <3>2. /\ pc[c] = "idle" /\ lifecycle[Home[c]] = None /\ current[Home[c]] = None
          /\ SlotFree(Home[c]) /\ slot' = Home[c]
      BY <2>1 DEF StartFresh, Enters
    <3>3. target[c] = None /\ candidate[c] = None
      BY <3>2 DEF Fits, CallFits, Sound
    <3>4. \A f \in Own(c) : f \notin Live
      BY <1>0, <3>2, <3>3 DEF Own, Live
    <3>5. Live = {}
      BY <3>2, <3>4, Alone
    <3>6. QED
      BY <3>1, <3>2, <3>5, SeenOpen
  <2>2. CASE (\E k \in Kinds : StartOverEngine(c, k)) \/ BrowserStop(c) \/ Promote(c)
    <3>1. Quiet(c) /\ slot' = slot
      BY <2>2, BeginSays
    <3>2. QED
      BY <3>1, SeenQuiet, SeenStill
  <2>3. QED
    BY <1>1, <2>1, <2>2 DEF Begin, HealerRestarts
<1>2. ASSUME NEW c \in Calls, Step(c) PROVE Seen
  <2> DEFINE t == target[c]
  <2>1. CASE ProbeFindsAlive(c) \/ PageReady(c) \/ SnapshotFails(c) \/ BootDone(c) \/ TakeoverBooted(c)
    <3>1. Quiet(c) /\ slot' = slot
      BY <2>1, TurnsBack, BootDoneSays, TakeoverBootedSays
    <3>2. QED
      BY <3>1, SeenQuiet, SeenStill
  <2>2. CASE ProbeFindsDead(c) \/ BootFails(c) \/ PageFails(c) \/ TakeoverFails(c) \/ HandoffDone(c)
    <3>1. Quiet(c) /\ (slot' = slot \/ (ProbeFindsDead(c) /\ slot' = SlotAfterDeath(t)))
      BY <2>2, TurnsToStop
    <3>2. CASE slot' = slot
      BY <3>1, <3>2, SeenQuiet, SeenStill
    <3>3. CASE ProbeFindsDead(c) /\ slot' = SlotAfterDeath(t)
      <4>1. pc[c] = "probe" /\ (~IsAlive(t) \/ engine[t].os = "hollow")
        BY <3>3 DEF ProbeFindsDead
      <4>2. t \in Engines
        BY <4>1 DEF Fits, CallFits, Sound
      <4>3. CASE engine[t].dead
        <5>1. slot' = slot
          BY <3>3, <4>3 DEF SlotAfterDeath
        <5>2. QED
          BY <3>1, <5>1, SeenQuiet, SeenStill
      <4>4. CASE ~engine[t].dead
        <5>1. ~engine[t].stopping => t \notin Live
          BY <4>1, <4>2, <4>4 DEF IsAlive, Running, Live, Marked, EngineFine
        <5>2. QED
          BY <3>1, <3>3, <4>2, <5>1, SeenQuiet, SeenDeath
      <4>5. QED
        BY <4>3, <4>4
    <3>4. QED
      BY <3>1, <3>2, <3>3
  <2>3. CASE SnapshotTaken(c)
    BY <2>3 DEF SnapshotTaken, ShadowOnly
  <2>4. CASE StopTakesProcess(c)
    <3>1. /\ slot' = slot
          /\ \A f \in Engines \ {t} : engine'[f] = engine[f]
          /\ engine'[t].os = engine[t].os /\ engine'[t].home = engine[t].home
      BY <2>4, StopTakesSays
    <3>2. \A f \in Engines : engine'[f].os = engine[f].os /\ engine'[f].home = engine[f].home
      BY <3>1
    <3>3. QED
      BY <3>1, <3>2, SeenStill
  <2>5. CASE StopRefused(c)
    <3>1. pc[c] = "drain" /\ StopEnds(c, FALSE) /\ reason[c] \in {"reap", "stop", "heal", "replace"}
      BY <2>5 DEF StopRefused
    <3>2. StopEndsSo(c, FALSE)
      BY <3>1, StopEndsSay
    <3>3. Quiet(c) /\ slot' = slot
      BY <3>1, <3>2 DEF StopEndsSo
    <3>4. QED
      BY <3>3, SeenQuiet, SeenStill
  <2>6. CASE StopFindsNothing(c) \/ StopReaped(c)
    <3>1. pc[c] \in {"drain", "exit"} /\ StopEnds(c, TRUE)
      BY <2>6 DEF StopFindsNothing, StopReaped
    <3>2. StopEndsSo(c, TRUE)
      BY <3>1, StopEndsSay
    <3>3. t \in Engines /\ t \notin Live
      BY <2>6, StopsWell DEF Held, Live, Running
    <3>4. lifecycle[Home[c]] = c
      BY <3>1 DEF Fits, CallFits, Sound
    <3>5. CASE slot' = slot /\ Quiet(c)
      BY <3>5, SeenQuiet, SeenStill
    <3>6. ASSUME \A f \in Own(c) : f = None \/ f = t, SlotFree(Home[c]) PROVE Live = {}
      <4>1. \A f \in Own(c) : f \notin Live
        BY <1>0, <3>3, <3>6 DEF Live
      <4>2. QED
        BY <3>4, <3>6, <4>1, Alone
    <3>7. CASE Quiet(c) /\ slot' = Released(Home[c]) /\ \A f \in Own(c) : f = None \/ f = t
      <4>1. slot' = slot \/ (slot' = None /\ SlotFree(Home[c]))
        BY <3>7 DEF Released, SlotFree
      <4>2. slot' = slot \/ (slot' = None /\ Live = {})
        BY <3>6, <3>7, <4>1
      <4>3. QED
        BY <3>7, <4>2, SeenQuiet, SeenRelease
    <3>8. ASSUME SlotFree(Home[c]), slot' = Home[c], \A f \in Own(c) : f = None \/ f = t,
                 NEW e \in Engines, Fresh(c, e), \A f \in Engines \ {e} : engine'[f] = engine[f]
          PROVE  Seen
      BY <3>6, <3>8, SeenOpen
    <3>9. \/ slot' = slot /\ Quiet(c)
          \/ Quiet(c) /\ slot' = Released(Home[c]) /\ \A f \in Own(c) : f = None \/ f = t
          \/ /\ SlotFree(Home[c]) /\ slot' = Home[c] /\ \A f \in Own(c) : f = None \/ f = t
             /\ \E e \in Engines : Fresh(c, e) /\ \A f \in Engines \ {e} : engine'[f] = engine[f]
      BY <3>2 DEF StopEndsSo, Own
    <3>10. QED
      BY <3>5, <3>7, <3>8, <3>9
  <2>7. QED
    BY <1>2, <2>1, <2>2, <2>3, <2>4, <2>5, <2>6 DEF Step, StopGivesUp
<1>3. ASSUME NEW e \in Engines, Environment(e) PROVE Seen
  <2>0. engine \in [Engines -> EngineState]
    BY DEF TypeInv, TypeOK
  <2>1. CASE Crash(e) \/ ProcessExits(e)
    <3>1. /\ slot' = slot
          /\ \A f \in Engines : engine'[f].home = engine[f].home
          /\ \A f \in Engines \ {e} : engine'[f] = engine[f]
          /\ engine'[e].os # "running"
      BY <2>0, <2>1 DEF Crash, ProcessExits, EngineState
    <3>2. Live' = Live \ {e}
      BY <3>1 DEF Live
    <3>3. Cover'
      BY <3>1, <3>2 DEF Cover, Live
    <3>4. CASE e \in Live
      <4>1. Slot!Close(e)
        BY <3>1, <3>2, <3>4 DEF Slot!Close
      <4>2. QED
        BY <3>3, <4>1 DEF Seen, Slot!Next
    <3>5. CASE e \notin Live
      BY <3>1, <3>2, <3>3, <3>5 DEF Seen, Slot!vars
    <3>6. QED
      BY <3>4, <3>5
  <2>2. CASE ReaderEnds(e) \/ HealthFindsDead(e)
    <3>1. \A f \in Engines : engine'[f].os = engine[f].os /\ engine'[f].home = engine[f].home
      BY <2>0, <2>2 DEF ReaderEnds, HealthFindsDead, EngineState
    <3>2. slot' = SlotAfterDeath(e)
      BY <2>2 DEF ReaderEnds, HealthFindsDead
    <3>3. ~engine[e].stopping => e \notin Live
      <4>1. CASE ReaderEnds(e)
        BY <4>1 DEF ReaderEnds, Live, Marked, EngineFine
      <4>2. CASE HealthFindsDead(e)
        BY <4>2, NoneAssumption DEF HealthFindsDead, Live, Marked, EngineFine, AllKinds
      <4>3. QED
        BY <2>2, <4>1, <4>2
    <3>4. QED
      BY <3>1, <3>2, <3>3, SeenDeath
  <2>3. QED
    BY <1>3, <2>1, <2>2 DEF Environment, WriteStalls
<1>4. CASE UNCHANGED vars
  BY <1>4, SeenStill DEF vars
<1>5. QED
  BY <1>1, <1>2, <1>3, <1>4 DEF Next, CallCancelled

\* While no promotion is made, no healer stops an engine outside the lock, no
\* call is withdrawn, transports fail only with their browser and processes end
\* in time, the servers of a machine do what BrowserSlot promises, whatever
\* crashes, failed starts and refused stops do: one of them owns the slot, only
\* the owner opens a browser, one at a time, and the slot is given back when no
\* browser runs (acquire_browser_lock, release_browser_lock, README.md:129-131).
THEOREM SlotImplemented ==
  ASSUME "promote" \notin Tools, "heal" \notin Tools,
         "transport" \notin Faults, "slow" \notin Faults, "cancel" \notin Faults
  PROVE  Spec => SlotSpec
<1>1. Init => Slot!Init /\ Cover
  BY DEF Init, Slot!Init, Cover, Live, Unborn
<1>2. Guard /\ [Next]_vars => [Slot!Next]_(Slot!vars) /\ Cover'
  BY SeenStep DEF Seen
<1>3. TypeInv /\ Fits /\ Held /\ [Next]_vars => Held'
  BY HeldStep
<1>4. Spec => [](TypeInv /\ Fits /\ Owned /\ Marked)
  BY OwnedAlways
<1>5. Spec => []Held
  BY <1>3, <1>4, HeldInit, PTL DEF Spec
<1>6. SlotInv => ShadowOnly
  BY DEF SlotInv
<1>7. Spec => []SlotInv
  BY SlotAlways
<1>8. TypeInv /\ Fits /\ Owned /\ Marked /\ Held /\ ShadowOnly /\ Cover => Guard
  BY DEF Guard
<1>9. QED
  BY <1>1, <1>2, <1>4, <1>5, <1>6, <1>7, <1>8, PTL DEF Spec, SlotSpec, Slot!Spec
=============================================================================
