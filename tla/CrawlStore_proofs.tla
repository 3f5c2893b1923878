------------------------- MODULE CrawlStore_proofs -------------------------
(***************************************************************************)
(* The registry of crawl jobs is sound, and reading by cursor skips and    *)
(* repeats nothing, for every number of clients, jobs, retained jobs and   *)
(* entries.                                                                *)
(*                                                                         *)
(* Any step does one of three things to the registry: it leaves it alone,  *)
(* it ends the one live job, or it adds a job when none is live.  A read   *)
(* takes an unbroken run of entries from where the client left off.        *)
(***************************************************************************)
EXTENDS CrawlStore, FiniteSetTheorems, WellFoundedInduction, TLAPS

----------------------------------------------------------------------------
(* Finite sets of numbers *)

LEMMA MaxOfTwo == ASSUME NEW a \in Int, NEW b \in Int
                  PROVE  Max({a, b}) = IF a >= b THEN a ELSE b
<1> DEFINE m == IF a >= b THEN a ELSE b
<1>1. m \in {a, b} /\ \A y \in {a, b} : m >= y
  OBVIOUS
<1>2. \A x \in {a, b} : (\A y \in {a, b} : x >= y) => x = m
  OBVIOUS
<1> HIDE DEF m
<1>3. Max({a, b}) = m
  BY <1>1, <1>2 DEF Max
<1> QED
  BY <1>3 DEF m

\* A bounded, inhabited set of numbers has its maximum.
LEMMA MaxOfBounded ==
    ASSUME NEW S \in SUBSET Nat, S # {}, NEW n \in Nat, \A i \in S : i <= n
    PROVE  Max(S) \in S /\ \A y \in S : Max(S) >= y
<1> DEFINE above(i) == {k \in S : k > i}
           T == {above(i) : i \in S}
<1>1. IsFiniteSet(S)
  BY FS_BoundedSetOfNaturals
<1>2. T \subseteq SUBSET S /\ T # {}
  OBVIOUS
<1>3. PICK t \in T : \A u \in T : ~ (<<u, t>> \in StrictSubsetOrdering(S))
  <2>1. IsWellFoundedOn(StrictSubsetOrdering(S), FiniteSubsetsOf(S))
    BY FS_StrictSubsetOrderingWellFounded
  <2> HIDE DEF T
  <2>2. \A u \in SUBSET S : IsFiniteSet(u)
    BY <1>1, FS_Subset
  <2>3. T \subseteq FiniteSubsetsOf(S)
    BY <1>2, <2>2 DEF FiniteSubsetsOf
  <2> QED
    BY <1>2, <2>1, <2>3, WFMin
<1>4. PICK x \in S : t = above(x)
  OBVIOUS
<1>5. ASSUME NEW y \in S, y > x PROVE FALSE
  <2>0. above(y) \in T
    OBVIOUS
  <2>1. above(y) \in T /\ above(y) \subseteq above(x) /\ y \in above(x) /\ y \notin above(y)
    <3>1. above(y) \subseteq above(x)
      <4>1. ASSUME NEW k \in S, k > y PROVE k > x
        <5>1. k \in Nat /\ x \in Nat /\ y \in Nat
          OBVIOUS
        <5> QED
          BY <1>5, <4>1, <5>1
      <4> QED
        BY <4>1
    <3>2. y \in above(x) /\ y \notin above(y)
      BY <1>5
    <3> QED
      BY <2>0, <3>1, <3>2
  <2>2. <<above(y), above(x)>> \in StrictSubsetOrdering(S)
    <3> HIDE DEF above, T
    <3> QED
      BY <1>2, <1>4, <2>1 DEF StrictSubsetOrdering
  <2> QED
    BY <1>3, <1>4, <2>1, <2>2
<1>6. \A y \in S : x >= y
  BY <1>5
<1> QED
  BY <1>6 DEF Max

\* A bounded set of numbers is finite, and so is every part of it.
LEMMA PartsAreFinite ==
    ASSUME NEW S, IsFiniteSet(S), NEW A, NEW B \in SUBSET S, A \subseteq B
    PROVE  /\ IsFiniteSet(A) /\ IsFiniteSet(B) /\ Cardinality(A) \in Nat /\ Cardinality(B) \in Nat
           /\ Cardinality(A) <= Cardinality(B)
BY FS_Subset, FS_CardinalityType

\* The least of a set of numbers.
LEMMA MinOfNaturals ==
    ASSUME NEW S \in SUBSET Nat, S # {}
    PROVE  Min(S) \in S /\ \A y \in S : Min(S) <= y
<1>1. PICK n \in S : TRUE
  OBVIOUS
<1> DEFINE T == {n - x : x \in {y \in S : y <= n}}
<1>2. T \in SUBSET Nat /\ n \in Nat /\ T # {} /\ \A i \in T : i <= n
  BY <1>1
<1>3. Max(T) \in T /\ \A i \in T : Max(T) >= i
  <2> HIDE DEF T
  <2> QED
    BY <1>2, MaxOfBounded
<1>4. PICK x \in S : x <= n /\ Max(T) = n - x
  BY <1>3
<1>5. ASSUME NEW y \in S PROVE x <= y
  <2>0. x \in Nat /\ y \in Nat /\ n \in Nat
    OBVIOUS
  <2>1. CASE y <= n
    <3>1. n - y \in T
      BY <2>1
    <3>2. n - x >= n - y
      BY <1>3, <1>4, <3>1
    <3> HIDE DEF T
    <3> QED
      BY <2>0, <3>2
  <2>2. CASE y > n
    <3> HIDE DEF T
    <3> QED
      BY <1>4, <2>0, <2>2
  <2> HIDE DEF T
  <2> QED
    BY <2>0, <2>1, <2>2
<1> QED
  BY <1>5 DEF Min

Job == [state : {"running"} \cup Terminal, task : {"ready", "runs", "over"},
        finished : Nat, count : [Kinds -> Nat]]

StoreTypes ==
    /\ jobs \in Seq(Job)
    /\ kept \subseteq DOMAIN jobs
    /\ active \in Nat /\ finished \in Nat

\* No two jobs finished at the same time, and none later than the last; the registry does not grow.
EndsInOrder ==
    /\ \A j \in DOMAIN jobs : jobs[j].finished <= finished
    /\ \A j, k \in DOMAIN jobs : ~Live(j) /\ ~Live(k) /\ jobs[j].finished = jobs[k].finished => j = k
KeptFew == Cardinality(kept) <= Retained + 1
ActiveKept == active \in kept \cup {0}
Tidy == EndsInOrder /\ KeptFew /\ ActiveKept

StoreInv == StoreTypes /\ OneJobAtATime /\ NewestKept /\ Tidy

\* The jobs that have ended and finished after job j.
LaterThan(j) == {k \in DOMAIN jobs : ~Live(k) /\ jobs[k].finished > jobs[j].finished}

\* There are finitely many jobs, and recording entries changes only the counts.
LEMMA JobsFinite == ASSUME StoreTypes PROVE IsFiniteSet(DOMAIN jobs) /\ DOMAIN jobs = 1..Len(jobs) /\ Len(jobs) \in Nat
<1>1. DOMAIN jobs = 1..Len(jobs) /\ Len(jobs) \in Nat
  BY DEF StoreTypes
<1> QED
  BY <1>1, FS_Interval

AtLeast(new, old) == \A k \in DOMAIN old : \A e \in Kinds : new[k].count[e] >= old[k].count[e]

LEMMA RecordsKeep ==
    ASSUME NEW js \in Seq(Job), NEW j \in DOMAIN js, NEW kinds
    PROVE  /\ Records(js, j, kinds) \in Seq(Job)
           /\ DOMAIN Records(js, j, kinds) = DOMAIN js
           /\ \A k \in DOMAIN js : /\ Records(js, j, kinds)[k].state = js[k].state
                                   /\ Records(js, j, kinds)[k].finished = js[k].finished
           /\ AtLeast(Records(js, j, kinds), js)
<1> DEFINE c == [k \in Kinds |-> IF k \in kinds THEN js[j].count[k] + 1 ELSE js[j].count[k]]
           r == [js[j] EXCEPT !.count = c]
<1>1. js[j] \in Job
  OBVIOUS
<1>2. c \in [Kinds -> Nat]
  BY <1>1 DEF Job
<1>3. r \in Job /\ r.state = js[j].state /\ r.finished = js[j].finished /\ r.count = c
  BY <1>1, <1>2 DEF Job
<1>4. Records(js, j, kinds) = [js EXCEPT ![j] = r]
  BY DEF Records
<1>5. \A k \in DOMAIN js : \A e \in Kinds : js[k].count[e] \in Nat
  <2>1. \A k \in DOMAIN js : js[k] \in Job
    OBVIOUS
  <2> QED
    BY <2>1 DEF Job
<1>6. \A e \in Kinds : c[e] >= js[j].count[e]
  BY <1>5
<1> HIDE DEF r, c
<1>7. AtLeast(Records(js, j, kinds), js)
  BY <1>3, <1>4, <1>5, <1>6 DEF AtLeast
<1> QED
  BY <1>3, <1>4, <1>7

\* A step that keeps the states, the finishing order and what is kept keeps the registry sound.
LEMMA LeftAlone ==
    ASSUME StoreInv, jobs' \in Seq(Job), DOMAIN jobs' = DOMAIN jobs,
           \A k \in DOMAIN jobs : jobs'[k].state = jobs[k].state /\ jobs'[k].finished = jobs[k].finished,
           kept' = kept, finished' = finished,
           active' = active \/ (active' = 0 /\ (active \in DOMAIN jobs => ~Live(active)))
    PROVE  StoreInv'
<1>1. StoreTypes'
  BY DEF StoreInv, StoreTypes
<1>2. \A k \in DOMAIN jobs : Live(k)' <=> Live(k)
  BY DEF Live
<1>3. OneJobAtATime'
  BY <1>2 DEF StoreInv, OneJobAtATime
<1>4. ASSUME NEW j \in DOMAIN jobs \ kept
      PROVE  {k \in DOMAIN jobs : ~Live(k) /\ jobs[k].finished > jobs[j].finished}
             = {k \in DOMAIN jobs' : ~Live(k)' /\ jobs'[k].finished > jobs'[j].finished}
  BY <1>2
<1>5. NewestKept'
  BY <1>2, <1>4 DEF StoreInv, NewestKept
<1>6. Tidy'
  BY <1>2 DEF StoreInv, Tidy, EndsInOrder, KeptFew, ActiveKept
<1> QED
  BY <1>1, <1>3, <1>5, <1>6 DEF StoreInv

\* What is retained of the ended jobs counts among all later ones.
LEMMA MoreEnded ==
    ASSUME StoreTypes, NEW few, NEW many \in SUBSET DOMAIN jobs, few \subseteq many,
           Cardinality(few) >= Retained
    PROVE  Cardinality(many) >= Retained
<1>1. IsFiniteSet(many)
  BY JobsFinite, FS_Subset
<1>2. /\ IsFiniteSet(few) /\ Cardinality(few) <= Cardinality(many)
      /\ Cardinality(few) \in Nat /\ Cardinality(many) \in Nat
  BY <1>1, FS_Subset, FS_CardinalityType
<1> QED
  BY <1>2, StoreAssumption

\* A job that finishes is the last to, and one event is recorded.
LEMMA FinishesKeep ==
    ASSUME StoreInv, NEW j \in DOMAIN jobs, NEW state \in Terminal,
           NEW task \in {"ready", "runs", "over"}, Finishes(j, state, task)
    PROVE  /\ jobs' \in Seq(Job) /\ DOMAIN jobs' = DOMAIN jobs
           /\ jobs'[j].state = state /\ jobs'[j].finished = finished + 1
           /\ \A k \in DOMAIN jobs \ {j} : /\ jobs'[k].state = jobs[k].state
                                           /\ jobs'[k].finished = jobs[k].finished
           /\ AtLeast(jobs', jobs)
<1> DEFINE js == [jobs EXCEPT ![j].state = state, ![j].task = task, ![j].finished = finished + 1]
           a == [jobs[j] EXCEPT !.state = state]
           b == [a EXCEPT !.task = task]
           r == [b EXCEPT !.finished = finished + 1]
<1>1. jobs \in Seq(Job) /\ jobs[j] \in Job /\ finished + 1 \in Nat
  BY DEF StoreInv, StoreTypes
<1>2. js = [jobs EXCEPT ![j] = r]
  BY <1>1, Zenon
<1>3. a \in Job /\ a.state = state /\ a.count = jobs[j].count
  BY <1>1 DEF Job
<1> HIDE DEF a
<1>4. b \in Job /\ b.state = state /\ b.count = jobs[j].count
  BY <1>3 DEF Job
<1> HIDE DEF b
<1>5. r \in Job /\ r.state = state /\ r.finished = finished + 1 /\ r.count = jobs[j].count
  BY <1>1, <1>4 DEF Job
<1>6. jobs' = Records(js, j, {"events"})
  BY DEF Finishes
<1> HIDE DEF r, js
<1>7. /\ js \in Seq(Job) /\ DOMAIN js = DOMAIN jobs
      /\ js[j].state = state /\ js[j].finished = finished + 1
      /\ \A k \in DOMAIN jobs \ {j} : js[k] = jobs[k]
      /\ \A k \in DOMAIN jobs : js[k].count = jobs[k].count
  BY <1>1, <1>2, <1>5
<1>8. /\ jobs' \in Seq(Job) /\ DOMAIN jobs' = DOMAIN jobs
      /\ \A k \in DOMAIN jobs : jobs'[k].state = js[k].state /\ jobs'[k].finished = js[k].finished
      /\ AtLeast(jobs', js)
  BY <1>6, <1>7, RecordsKeep
<1>9. AtLeast(jobs', jobs)
  BY <1>7, <1>8 DEF AtLeast
<1> QED
  BY <1>7, <1>8, <1>9

\* The live job ends: it was the only one, and it is kept.
LEMMA OneEnds ==
    ASSUME StoreInv, NEW j \in DOMAIN jobs, Live(j), NEW state \in Terminal,
           NEW task \in {"ready", "runs", "over"}, Finishes(j, state, task),
           kept' = kept, active' \in {active, 0}
    PROVE  StoreInv'
<1>1. jobs'[j].state = state /\ jobs'[j].finished = finished + 1
  BY FinishesKeep
<1>2. /\ jobs' \in Seq(Job) /\ DOMAIN jobs' = DOMAIN jobs
      /\ \A k \in DOMAIN jobs \ {j} : /\ jobs'[k].state = jobs[k].state
                                      /\ jobs'[k].finished = jobs[k].finished
  BY FinishesKeep
<1>3. \A k \in DOMAIN jobs \ {j} : (Live(k)' <=> Live(k)) /\ jobs'[k].finished = jobs[k].finished
  BY <1>1, <1>2 DEF Live
<1>4. ~Live(j)'
  BY <1>1, <1>2 DEF Live
<1>10. finished \in Nat /\ finished' = finished + 1
  BY DEF Finishes, StoreInv, StoreTypes
<1>5. StoreTypes'
  BY <1>2, <1>10 DEF StoreInv, StoreTypes
<1>6. OneJobAtATime'
  BY <1>2, <1>3, <1>4 DEF StoreInv, OneJobAtATime
<1>7. ASSUME NEW d \in DOMAIN jobs' \ kept'
      PROVE  ~Live(d)' /\ Cardinality(LaterThan(d)') >= Retained
  <2>1. d # j /\ d \in DOMAIN jobs \ kept
    BY <1>2 DEF StoreInv, OneJobAtATime
  <2>2. ~Live(d) /\ Cardinality(LaterThan(d)) >= Retained
    BY <2>1 DEF StoreInv, NewestKept, LaterThan
  <2>3. LaterThan(d) \subseteq LaterThan(d)' /\ LaterThan(d)' \subseteq DOMAIN jobs
    BY <1>2, <1>3, <2>1 DEF LaterThan
  <2>4. Cardinality(LaterThan(d)') >= Retained
    BY <2>2, <2>3, MoreEnded DEF StoreInv
  <2> QED
    BY <1>3, <2>1, <2>2, <2>4
<1>8. NewestKept'
  BY <1>7 DEF NewestKept, LaterThan
<1>9. Tidy'
  <2>1. jobs'[j].finished = finished + 1
    BY <1>1, <1>2
  <2>2. \A k \in DOMAIN jobs : jobs[k].finished \in Nat /\ jobs[k].finished <= finished
    <3>1. \A k \in DOMAIN jobs : jobs[k] \in Job
      BY DEF StoreInv, StoreTypes
    <3> QED
      BY <3>1 DEF StoreInv, Job, Tidy, EndsInOrder
  <2>3. EndsInOrder'
    <3>1. \A k \in DOMAIN jobs' : jobs'[k].finished <= finished'
      BY <1>2, <1>3, <1>10, <2>1, <2>2
    <3>2. ASSUME NEW h \in DOMAIN jobs, NEW k \in DOMAIN jobs, ~Live(h)', ~Live(k)',
                 jobs'[h].finished = jobs'[k].finished
          PROVE  h = k
      <4>1. CASE h = j \/ k = j
        <5>1. \A i \in DOMAIN jobs \ {j} : jobs'[i].finished # finished + 1
          BY <1>3, <1>10, <2>2
        <5> QED
          BY <2>1, <3>2, <4>1, <5>1
      <4>2. CASE h # j /\ k # j
        BY <1>3, <3>2, <4>2 DEF StoreInv, Tidy, EndsInOrder
      <4> QED
        BY <4>1, <4>2
    <3> QED
      BY <1>2, <3>1, <3>2 DEF EndsInOrder
  <2>4. KeptFew' /\ ActiveKept'
    BY DEF StoreInv, Tidy, KeptFew, ActiveKept
  <2> QED
    BY <2>3, <2>4 DEF Tidy
<1> QED
  BY <1>5, <1>6, <1>8, <1>9 DEF StoreInv

\* Of things that come one after another, those with fewer than n later ones are n at most.
LEMMA LastOnes ==
    ASSUME NEW S, IsFiniteSet(S), NEW f \in [S -> Nat], \A h, k \in S : f[h] = f[k] => h = k,
           NEW n \in Nat \ {0}
    PROVE  Cardinality({h \in S : Cardinality({k \in S : f[k] > f[h]}) < n}) <= n
<1> DEFINE later(h) == {k \in S : f[k] > f[h]}
           T == {h \in S : Cardinality(later(h)) < n}
           times == {f[h] : h \in T}
<1>1. \A h \in S : IsFiniteSet(later(h)) /\ Cardinality(later(h)) \in Nat
  <2>1. \A h \in S : later(h) \in SUBSET S
    OBVIOUS
  <2> HIDE DEF later
  <2> QED
    BY <2>1, PartsAreFinite
<1>2. \A h \in T : h \in S /\ f[h] \in Nat /\ h \notin later(h) /\ Cardinality(later(h)) < n
  OBVIOUS
<1>3. ASSUME NEW h \in T, \A k \in T : f[h] <= f[k] PROVE T \subseteq later(h) \cup {h}
  <2>1. ASSUME NEW k \in T, k # h PROVE f[k] > f[h]
    <3>1. f[k] \in Nat /\ f[h] \in Nat /\ f[k] # f[h] /\ f[h] <= f[k]
      BY <1>2, <1>3, <2>1
    <3> QED
      BY <3>1
  <2> QED
    BY <2>1
<1> HIDE DEF T, later
<1>4. ASSUME T = {} PROVE Cardinality(T) <= n
  <2>1. Cardinality(T) = 0
    BY <1>4, FS_EmptySet
  <2> QED
    BY <2>1
<1>5. ASSUME T # {} PROVE Cardinality(T) <= n
  <2>1. times \in SUBSET Nat /\ times # {}
    BY <1>2, <1>5
  <2>2. PICK m \in times : \A x \in times : m <= x
    <3> HIDE DEF times
    <3> QED
      BY <2>1, MinOfNaturals
  <2>3. PICK h \in T : \A k \in T : f[h] <= f[k]
    BY <2>2
  <2>4. T \subseteq later(h) \cup {h}
    BY <1>3, <2>3
  <2>5. IsFiniteSet(later(h) \cup {h}) /\ Cardinality(later(h) \cup {h}) = Cardinality(later(h)) + 1
    BY <1>1, <1>2, FS_AddElement
  <2>6. Cardinality(T) \in Nat /\ Cardinality(T) <= Cardinality(later(h) \cup {h})
    BY <2>4, <2>5, PartsAreFinite
  <2>7. Cardinality(later(h)) \in Nat /\ Cardinality(later(h)) < n
    BY <1>1, <1>2
  <2> QED
    BY <2>5, <2>6, <2>7
<1>6. Cardinality(T) <= n
  BY <1>4, <1>5
<1> QED
  BY <1>6 DEF T, later

\* A job is added when none is live, and the oldest ended ones are dropped.
LEMMA OneIsAdded ==
    ASSUME StoreInv, NEW c, Registers(c) PROVE StoreInv'
<1>1. CASE UNCHANGED <<jobs, kept, active>>
  BY <1>1, LeftAlone DEF StoreInv, StoreTypes, Registers
<1>2. CASE ~UNCHANGED <<jobs, kept, active>>
  <2> DEFINE j == Len(jobs) + 1
             new == [state |-> "running", task |-> "ready", finished |-> 0,
                     count |-> [k \in Kinds |-> IF k = "events" THEN 1 ELSE 0]]
             ended == {k \in kept : ~Live(k)}
  <2>1. /\ ~CheckedAgain /\ jobs' = Append(jobs, new)
        /\ kept' = (kept \ DropsOldest(ended)) \cup {j} /\ active' = j /\ finished' = finished
    BY <1>2 DEF Registers
  <2>2. new \in Job
    <3>1. [k \in Kinds |-> IF k = "events" THEN 1 ELSE 0] \in [Kinds -> Nat]
      OBVIOUS
    <3> QED
      BY <3>1 DEF Job
  <2> HIDE DEF new
  <2>3. /\ Len(jobs) \in Nat /\ j \in Nat \ {0} /\ j \notin DOMAIN jobs
        /\ jobs' \in Seq(Job) /\ DOMAIN jobs' = DOMAIN jobs \cup {j}
        /\ \A k \in DOMAIN jobs : jobs'[k] = jobs[k]
    BY <2>1, <2>2, JobsFinite DEF StoreInv, StoreTypes
  <2>4. \A k \in DOMAIN jobs : ~Live(k) /\ ~Live(k)'
    BY <2>1, <2>3, JobsFinite DEF StoreInv, StoreTypes, OneJobAtATime, CheckedAgain, Busy, Live
  <2>5. StoreTypes'
    BY <2>1, <2>3 DEF StoreInv, StoreTypes
  <2>6. OneJobAtATime'
    BY <2>1, <2>3, <2>4 DEF OneJobAtATime
  <2>7. ASSUME NEW d \in DOMAIN jobs' \ kept'
        PROVE  ~Live(d)' /\ Cardinality(LaterThan(d)') >= Retained
    <3>1. d \in DOMAIN jobs
      BY <2>1, <2>3
    <3>2. LaterThan(d)' \subseteq DOMAIN jobs /\ LaterThan(d) \subseteq LaterThan(d)'
      BY <2>1, <2>3, <2>4, <2>6, <3>1 DEF LaterThan, OneJobAtATime, Live, Terminal, new
    <3> DEFINE later == {k \in ended : jobs[k].finished > jobs[d].finished}
    <3>3. later \subseteq LaterThan(d)'
      BY <2>3, <2>4, <3>1 DEF LaterThan, StoreInv, StoreTypes
    <3>4. Cardinality(LaterThan(d)) >= Retained \/ Cardinality(later) >= Retained
      <4>1. CASE d \notin kept
        BY <3>1, <4>1 DEF StoreInv, NewestKept, LaterThan
      <4>2. CASE d \in kept
        BY <2>1, <4>2 DEF DropsOldest
      <4> QED
        BY <4>1, <4>2
    <3>5. Cardinality(LaterThan(d)') >= Retained
      <4> HIDE DEF later
      <4> QED
        BY <3>2, <3>3, <3>4, MoreEnded DEF StoreInv
    <3> QED
      BY <2>4, <3>1, <3>5
  <2>11. \A k \in DOMAIN jobs : jobs[k].finished \in Nat
    <3>1. \A k \in DOMAIN jobs : jobs[k] \in Job
      BY DEF StoreInv, StoreTypes
    <3> QED
      BY <3>1 DEF Job
  <2>8. EndsInOrder'
    <3>1. new.finished = 0 /\ jobs'[j] = new /\ new.state = "running" /\ finished \in Nat
      <4>1. jobs'[j] = new
        BY <2>1, <2>2 DEF StoreInv, StoreTypes
      <4>2. finished \in Nat
        BY DEF StoreInv, StoreTypes
      <4>3. new.finished = 0 /\ new.state = "running"
        BY DEF new
      <4> QED
        BY <4>1, <4>2, <4>3
    <3>2. jobs'[j].state \notin Terminal
      BY <3>1 DEF Terminal
    <3>3. \A k \in DOMAIN jobs' : jobs'[k].finished <= finished'
      BY <2>1, <2>3, <2>11, <3>1 DEF StoreInv, Tidy, EndsInOrder
    <3>4. ASSUME NEW h \in DOMAIN jobs', NEW k \in DOMAIN jobs', ~Live(h)', ~Live(k)',
                 jobs'[h].finished = jobs'[k].finished
          PROVE  h = k
      <4>1. h \in DOMAIN jobs /\ k \in DOMAIN jobs
        BY <2>3, <3>2, <3>4 DEF Live
      <4> QED
        BY <2>3, <2>4, <3>4, <4>1 DEF StoreInv, Tidy, EndsInOrder
    <3> QED
      BY <3>3, <3>4 DEF EndsInOrder
  <2>9. KeptFew'
    <3> DEFINE f == [k \in kept |-> jobs[k].finished]
               rest == {h \in kept : Cardinality({k \in kept : f[k] > f[h]}) < Retained}
    <3>1. ended = kept /\ IsFiniteSet(kept) /\ kept \subseteq DOMAIN jobs
      <4>1. kept \subseteq DOMAIN jobs
        BY DEF StoreInv, StoreTypes
      <4>2. IsFiniteSet(kept)
        BY <4>1, JobsFinite, FS_Subset DEF StoreInv
      <4> QED
        BY <2>4, <4>1, <4>2
    <3>2. f \in [kept -> Nat] /\ \A h, k \in kept : f[h] = f[k] => h = k
      BY <2>4, <2>11, <3>1 DEF StoreInv, Tidy, EndsInOrder
    <3>3. Cardinality(rest) <= Retained /\ IsFiniteSet(rest) /\ Cardinality(rest) \in Nat
      <4>1. Cardinality(rest) <= Retained
        <5> HIDE DEF f
        <5>1. Retained \in Nat \ {0} /\ IsFiniteSet(kept)
          BY <3>1, StoreAssumption
        <5> QED
          BY <3>2, <5>1, LastOnes, SMTT(30)
      <4> HIDE DEF f
      <4> QED
        BY <3>1, <4>1, FS_Subset, FS_CardinalityType
    <3>4. kept \ DropsOldest(ended) = rest
      <4>1. ASSUME NEW h \in kept PROVE h \in DropsOldest(ended) <=> h \notin rest
        <5>1. {k \in ended : jobs[k].finished > jobs[h].finished} = {k \in kept : f[k] > f[h]}
          BY <3>1
        <5>2. Cardinality({k \in kept : f[k] > f[h]}) \in Nat
          <6> DEFINE L == {k \in kept : f[k] > f[h]}
          <6>1. L \in SUBSET kept
            OBVIOUS
          <6> HIDE DEF L
          <6>2. Cardinality(L) \in Nat
            BY <3>1, <6>1, PartsAreFinite
          <6> QED
            BY <6>2 DEF L
        <5>3. h \in DropsOldest(ended) <=> Cardinality({k \in kept : f[k] > f[h]}) >= Retained
          BY <3>1, <5>1 DEF DropsOldest
        <5> HIDE DEF f, ended
        <5> QED
          BY <5>2, <5>3, StoreAssumption
      <4> HIDE DEF f, ended
      <4> QED
        BY <4>1
    <3>5. j \notin rest
      BY <2>3, <3>1
    <3>6. kept' = rest \cup {j}
      BY <2>1, <3>4
    <3> HIDE DEF rest
    <3>7. Cardinality(kept') = Cardinality(rest) + 1
      BY <3>3, <3>5, <3>6, FS_AddElement
    <3> QED
      BY <3>3, <3>7, StoreAssumption DEF KeptFew
  <2>10. ActiveKept'
    BY <2>1 DEF ActiveKept
  <2> QED
    BY <2>5, <2>6, <2>7, <2>8, <2>9, <2>10 DEF StoreInv, NewestKept, LaterThan, Tidy
<1> QED
  BY <1>1, <1>2

\* A job's task only moves on.
LEMMA TaskMoves ==
    ASSUME StoreInv, NEW j \in DOMAIN jobs, NEW task \in {"ready", "runs", "over"},
           jobs' = [jobs EXCEPT ![j].task = task]
    PROVE  /\ jobs' \in Seq(Job) /\ DOMAIN jobs' = DOMAIN jobs
           /\ \A k \in DOMAIN jobs : jobs'[k].state = jobs[k].state /\ jobs'[k].finished = jobs[k].finished
           /\ \A k \in DOMAIN jobs : jobs'[k].count = jobs[k].count
<1> DEFINE r == [jobs[j] EXCEPT !.task = task]
<1>1. jobs \in Seq(Job) /\ jobs[j] \in Job
  BY DEF StoreInv, StoreTypes
<1>2. r \in Job /\ r.state = jobs[j].state /\ r.finished = jobs[j].finished /\ r.count = jobs[j].count
  BY <1>1 DEF Job
<1>3. jobs' = [jobs EXCEPT ![j] = r]
  BY <1>1
<1> HIDE DEF r
<1> QED
  BY <1>1, <1>2, <1>3

LEMMA StoreInvInit == Init => StoreInv
<1> SUFFICES ASSUME Init PROVE StoreInv
  OBVIOUS
<1>1. KeptFew
  BY StoreAssumption, FS_EmptySet DEF Init, KeptFew
<1> QED
  BY <1>1 DEF Init, StoreInv, StoreTypes, OneJobAtATime, NewestKept, Tidy, EndsInOrder, ActiveKept

LEMMA StoreInvNext == StoreInv /\ [Next]_vars => StoreInv'
<1> SUFFICES ASSUME StoreInv, [Next]_vars PROVE StoreInv'
  OBVIOUS
<1> USE DEF Live
<1>1. CASE UNCHANGED <<jobs, kept, active, finished>>
  BY <1>1, LeftAlone DEF StoreInv, StoreTypes
<1>2. ASSUME NEW j \in DOMAIN jobs, TaskBegins(j) PROVE StoreInv'
  BY <1>2, TaskMoves, LeftAlone DEF TaskBegins
<1>3. ASSUME NEW j \in DOMAIN jobs, Works(j) PROVE StoreInv'
  <2>1. PICK kinds \in {{"events"}, {"results", "events"}} : jobs' = Records(jobs, j, kinds)
    BY <1>3 DEF Works
  <2>2. jobs \in Seq(Job)
    BY DEF StoreInv, StoreTypes
  <2>3. /\ jobs' \in Seq(Job) /\ DOMAIN jobs' = DOMAIN jobs
        /\ \A k \in DOMAIN jobs : jobs'[k].state = jobs[k].state /\ jobs'[k].finished = jobs[k].finished
    BY <2>1, <2>2, RecordsKeep
  <2> QED
    BY <1>3, <2>3, LeftAlone DEF Works
<1>4. ASSUME NEW j \in DOMAIN jobs, Strands(j) PROVE StoreInv'
  <2>1. /\ jobs' \in Seq(Job) /\ DOMAIN jobs' = DOMAIN jobs
        /\ \A k \in DOMAIN jobs : jobs'[k].state = jobs[k].state /\ jobs'[k].finished = jobs[k].finished
    BY <1>4, TaskMoves DEF Strands
  <2> QED
    BY <1>4, <2>1, LeftAlone DEF Strands, ClearsOwn
<1>5. ASSUME NEW j \in DOMAIN jobs, Completes(j) PROVE StoreInv'
  <2>1. active' \in {active, 0}
    BY <1>5 DEF Completes, ClearsOwn
  <2>2. "completed" \in Terminal /\ "over" \in {"ready", "runs", "over"}
    BY DEF Terminal
  <2> QED
    BY <1>5, <2>1, <2>2, OneEnds DEF Completes
<1>6. ASSUME NEW j \in DOMAIN jobs, TaskCancelled(j) PROVE StoreInv'
  <2>1. /\ jobs' \in Seq(Job) /\ DOMAIN jobs' = DOMAIN jobs
        /\ \A k \in DOMAIN jobs : jobs'[k].state = jobs[k].state /\ jobs'[k].finished = jobs[k].finished
    BY <1>6, TaskMoves DEF TaskCancelled
  <2> QED
    BY <1>6, <2>1, LeftAlone DEF TaskCancelled, ClearsOwn
<1>7. ASSUME NEW c \in Clients, Registers(c) PROVE StoreInv'
  BY <1>7, OneIsAdded
<1>8. ASSUME NEW c \in Clients, StopCalled(c) PROVE StoreInv'
  <2>1. PICK j \in kept : IF Live(j) THEN Finishes(j, "cancelled", jobs[j].task) ELSE UNCHANGED <<jobs, finished>>
    BY <1>8 DEF StopCalled, Resolved
  <2>2. kept' = kept /\ active' = active /\ active \in Nat /\ j \in DOMAIN jobs /\ jobs[j] \in Job
    BY <1>8 DEF StopCalled, StoreInv, StoreTypes
  <2>3. CASE Live(j)
    <3>1. "cancelled" \in Terminal /\ jobs[j].task \in {"ready", "runs", "over"}
      BY <2>2 DEF Terminal, Job
    <3> QED
      BY <2>1, <2>2, <2>3, <3>1, OneEnds
  <2>4. CASE ~Live(j)
    BY <1>1, <2>1, <2>2, <2>4
  <2> QED
    BY <2>3, <2>4
<1>9. ASSUME NEW c \in Clients, StartBegins(c) \/ ResultsCalled(c) \/ EventsCalled(c) \/ PollReturns(c)
      PROVE  StoreInv'
  BY <1>1, <1>9 DEF StartBegins, ResultsCalled, EventsCalled, PollReturns
<1> QED
  BY <1>1, <1>2, <1>3, <1>4, <1>5, <1>6, <1>7, <1>8, <1>9 DEF Next, vars

\* However calls of kahin_crawl_start overlap, a job that has not ended is the active one and can be
\* found, and those dropped from the registry finished before as many as are retained.
THEOREM RegistryIsSound == Spec => []RegistrySound
<1>1. StoreInv => RegistrySound
  BY DEF StoreInv, RegistrySound
<1> QED
  BY <1>1, StoreInvInit, StoreInvNext, PTL DEF Spec

-----------------------------------------------------------------------------
(* Reading by cursor.                                                      *)

\* What a client has of one ledger: everything up to its cursor is got, or reported as gone, once.
Entry == [cursor : Nat, got : SUBSET Nat, gone : SUBSET Nat, twice : BOOLEAN]
Complete(my) == my \in Entry /\ ~my.twice /\ (\A i \in my.got : i < my.cursor)
                /\ 0..(my.cursor - 1) \subseteq my.got \cup my.gone

\* Cutting entries off the end of a window leaves its beginning.
LEMMA CutLeavesBeginning ==
    ASSUME NEW n \in Nat, NEW W \in SUBSET (0..n), NEW cut,
           NEW G, G = {i \in W : Cardinality({k \in W : k > i}) >= cut}, cut \in Nat,
           NEW i \in G, NEW h \in W, h <= i
    PROVE  h \in G
<1> DEFINE above(x) == {k \in W : k > x}
<1>1. IsFiniteSet(above(h))
  <2>0. \A k \in W : k \in Nat /\ k <= n
    OBVIOUS
  <2>1. above(h) \in SUBSET Nat /\ \A k \in above(h) : k <= n
    BY <2>0
  <2> HIDE DEF above
  <2> QED
    BY <2>1, FS_BoundedSetOfNaturals
<1>2. above(i) \in SUBSET above(h)
  <2>1. ASSUME NEW k \in W, k > i PROVE k > h
    <3>1. k \in Nat /\ i \in Nat /\ h \in Nat
      OBVIOUS
    <3> QED
      BY <2>1, <3>1
  <2> QED
    BY <2>1
<1>3. Cardinality(above(h)) >= cut
  <2>1. Cardinality(above(i)) >= cut
    OBVIOUS
  <2> HIDE DEF above
  <2>2. IsFiniteSet(above(i)) /\ Cardinality(above(i)) <= Cardinality(above(h))
    BY <1>1, <1>2, FS_Subset
  <2>3. Cardinality(above(i)) \in Nat /\ Cardinality(above(h)) \in Nat
    BY <1>1, <2>2, FS_CardinalityType
  <2> QED
    BY <2>1, <2>2, <2>3
<1> QED
  BY <1>3

\* What a client has after the entries G from start on were read.
Entered(my, n, start, G) ==
    [cursor |-> IF G = {} THEN start ELSE Max(G) + 1,
     got |-> my.got \cup G,
     gone |-> my.gone \cup (IF my.cursor < Oldest(n) THEN my.cursor..(start - 1) ELSE {}),
     twice |-> my.twice \/ my.got \cap G # {}]

\* A read from the cursor leaves what the client has complete.
LEMMA ReadCompletes ==
    ASSUME NEW my, Complete(my), NEW n \in Nat, NEW limit \in Nat \ {0},
           NEW start, start = Max({my.cursor, Oldest(n)}),
           NEW W, W = ByIndex(n, my.cursor, limit),
           NEW G \in SUBSET W, \A i \in G : \A h \in W : h <= i => h \in G
    PROVE  Complete(Entered(my, n, start, G)) /\ (my.cursor <= n => Entered(my, n, start, G).cursor <= n)
<1>1. my.cursor \in Nat /\ my.got \in SUBSET Nat /\ my.gone \in SUBSET Nat /\ my.twice = FALSE
  BY DEF Complete, Entry
<1>2. Oldest(n) \in Nat /\ Oldest(n) <= n
  BY StoreAssumption DEF Oldest
<1>3. start \in Nat /\ start = IF my.cursor >= Oldest(n) THEN my.cursor ELSE Oldest(n)
  BY <1>1, <1>2, MaxOfTwo
<1>4. W = {i \in Nat : i >= start /\ i <= n - 1 /\ i < start + limit}
  <2> DEFINE oldest == Oldest(n)
             cursor == my.cursor
  <2>1. W = {i \in oldest..(n - 1) : i >= cursor /\ i < start + limit}
    BY DEF ByIndex
  <2>2. /\ oldest \in Nat /\ cursor \in Nat /\ start \in Nat
        /\ start = IF cursor >= oldest THEN cursor ELSE oldest
    BY <1>1, <1>2, <1>3
  <2> HIDE DEF oldest, cursor
  <2>3. ASSUME NEW i
        PROVE  i \in W <=> i \in Nat /\ i >= start /\ i <= n - 1 /\ i < start + limit
    <3>1. i \in W <=> i \in oldest..(n - 1) /\ i >= cursor /\ i < start + limit
      BY <2>1
    <3>2. i \in oldest..(n - 1) <=> i \in Nat /\ i >= oldest /\ i <= n - 1
      BY <2>2
    <3> QED
      BY <2>2, <3>1, <3>2
  <2> QED
    BY <2>3
<1>5. W \in SUBSET (0..n) /\ G \subseteq W /\ G \in SUBSET Nat
  BY <1>4
<1> DEFINE end == IF G = {} THEN start ELSE Max(G) + 1
           lost == IF my.cursor < Oldest(n) THEN my.cursor..(start - 1) ELSE {}
<1>6. /\ end \in Nat /\ start <= end
      /\ \A i \in G : start <= i /\ i < end
      /\ \A i \in start..(end - 1) : i \in G
  <2>1. CASE G = {}
    BY <1>3, <2>1
  <2>2. CASE G # {}
    <3>1. \A i \in G : i <= n
      BY <1>5
    <3>2. Max(G) \in G /\ \A i \in G : Max(G) >= i
      BY <1>5, <2>2, <3>1, MaxOfBounded
    <3> DEFINE m == Max(G)
    <3> HIDE DEF m
    <3>3. m \in G /\ m \in W /\ m \in Nat /\ \A i \in G : m >= i
      BY <1>5, <3>2 DEF m
    <3>4. \A i \in start..m : i \in W /\ i <= m
      BY <1>3, <1>4, <3>3
    <3>5. \A i \in start..m : i \in G
      BY <3>3, <3>4
    <3>6. end = m + 1
      BY <2>2 DEF m
    <3>7. \A i \in G : i \in Nat /\ start <= i
      BY <1>4, <1>5
    <3> HIDE DEF end
    <3> QED
      BY <1>3, <3>3, <3>5, <3>6, <3>7
  <2> QED
    BY <2>1, <2>2
<1>15. start <= n => end <= n
  <2>1. CASE G = {}
    BY <1>3, <2>1
  <2>2. CASE G # {}
    <3>1. \A i \in G : i \in Nat /\ i <= n - 1
      BY <1>4, <1>5
    <3>2. Max(G) \in G
      <4>1. \A i \in G : i <= n
        BY <1>5
      <4> QED
        BY <1>5, <2>2, <4>1, MaxOfBounded
    <3> DEFINE m == Max(G)
    <3>3. end = m + 1
      BY <2>2
    <3> HIDE DEF m, end
    <3> QED
      BY <3>1, <3>2, <3>3 DEF m
  <2> QED
    BY <2>1, <2>2
<1> HIDE DEF end
<1>7. lost \in SUBSET Nat /\ \A i \in Nat : i >= my.cursor /\ i < start => i \in lost
  <2> DEFINE oldest == Oldest(n)
             cursor == my.cursor
  <2>1. /\ oldest \in Nat /\ cursor \in Nat /\ start \in Nat
        /\ start = IF cursor >= oldest THEN cursor ELSE oldest
    BY <1>1, <1>2, <1>3
  <2>2. lost = IF cursor < oldest THEN cursor..(start - 1) ELSE {}
    OBVIOUS
  <2> HIDE DEF oldest, cursor, lost
  <2>3. CASE cursor < oldest
    BY <2>1, <2>2, <2>3 DEF cursor
  <2>4. CASE ~(cursor < oldest)
    BY <2>1, <2>2, <2>4 DEF cursor
  <2> QED
    BY <2>3, <2>4
<1> HIDE DEF lost
<1>8. /\ start >= my.cursor
      /\ \A i \in my.got : i \in Nat /\ i < my.cursor
  <2>1. start >= my.cursor
    <3> DEFINE oldest == Oldest(n)
               cursor == my.cursor
    <3>1. /\ oldest \in Nat /\ cursor \in Nat
          /\ start = IF cursor >= oldest THEN cursor ELSE oldest
      BY <1>1, <1>2, <1>3
    <3> HIDE DEF oldest, cursor
    <3>2. start >= cursor
      BY <3>1
    <3> QED
      BY <3>2 DEF cursor
  <2>2. \A i \in my.got : i \in Nat /\ i < my.cursor
    BY <1>1 DEF Complete
  <2> QED
    BY <2>1, <2>2
<1>9. \A i \in my.got \cup G : i < end
  <2>1. \A i \in my.got : i < end
    BY <1>1, <1>3, <1>6, <1>8
  <2> QED
    BY <1>6, <2>1
<1>13. my.got \cap G = {}
  <2>1. \A i \in G : i \in Nat /\ i >= start
    BY <1>5, <1>6
  <2> QED
    BY <1>1, <1>3, <1>8, <2>1
<1>10. 0..(end - 1) \subseteq (my.got \cup G) \cup (my.gone \cup lost)
  <2>1. ASSUME NEW i \in 0..(end - 1) PROVE i \in (my.got \cup G) \cup (my.gone \cup lost)
    <3>0. i \in Nat /\ i < end
      BY <1>6
    <3>1. CASE i < my.cursor
      BY <1>1, <3>0, <3>1 DEF Complete
    <3>2. CASE i >= my.cursor /\ i < start
      BY <1>7, <3>0, <3>2
    <3>3. CASE i >= start
      BY <1>3, <1>6, <3>0, <3>3
    <3> QED
      BY <1>1, <1>3, <3>0, <3>1, <3>2, <3>3
  <2> QED
    BY <2>1
<1> DEFINE new == [cursor |-> end, got |-> my.got \cup G, gone |-> my.gone \cup lost,
                   twice |-> my.twice \/ my.got \cap G # {}]
<1>11. new \in Entry /\ new.twice = FALSE
  BY <1>1, <1>5, <1>6, <1>7, <1>13 DEF Entry
<1>12. Complete(new)
  BY <1>9, <1>10, <1>11 DEF Complete
<1>14. my.cursor <= n => new.cursor <= n
  BY <1>1, <1>2, <1>3, <1>15
<1> QED
  BY <1>12, <1>14 DEF Entered, end, lost

\* A cursor is not beyond what its job has recorded.
Behind(c) ==
    seen[c].job # 0 =>
        seen[c].job \in DOMAIN jobs /\ \A k \in Kinds : seen[c][k].cursor <= jobs[seen[c].job].count[k]

\* A client that waits for events knows its job; what it has of either ledger is complete.
ReadInv ==
    \A c \in Clients :
        /\ seen[c] \in [job : Nat, results : Entry, events : Entry]
        /\ Complete(seen[c].results) /\ Complete(seen[c].events)
        /\ tool[c].at = "poll" => seen[c].job \in DOMAIN jobs
        /\ Behind(c) /\ tool[c].at \in {"none", "engine", "poll"}

ToolsFit == DOMAIN tool = Clients /\ DOMAIN seen = Clients /\ \A c \in Clients : DOMAIN tool[c] = {"at", "todo"}

LEMMA NothingIsComplete == NothingYet \in Entry /\ Complete(NothingYet)
BY DEF NothingYet, Entry, Complete

\* What the byte budget drops is a number of entries.
LEMMA CutsAreNumbers ==
  ASSUME NEW kind, NEW limit \in Limits, NEW size \in Nat
  PROVE  Cuts(kind, limit, size) \subseteq Nat
<1> DEFINE half == Max({1, limit \div 2})
           rest == Max({0, size - half})
<1>1. limit \div 2 \in Int
  BY StoreAssumption
<1>2. half \in Int
  BY <1>1, MaxOfTwo
<1> HIDE DEF half
<1>3. Max({0, size - half}) = IF 0 >= size - half THEN 0 ELSE size - half
  BY <1>2, MaxOfTwo
<1>4. rest \in Nat
  BY <1>2, <1>3
<1> HIDE DEF rest
<1>5. Cuts(kind, limit, size) = IF kind = "results" THEN 0..Max({0, size - 1}) ELSE {0, rest}
  BY DEF Cuts, half, rest
<1> QED
  BY <1>4, <1>5

\* What a read does to a client's record.
LEMMA ReadsKeep ==
    ASSUME StoreTypes, ReadInv, ToolsFit, NEW c \in Clients, NEW kind \in Kinds, NEW j \in DOMAIN jobs,
           Reads(c, kind, j)
    PROVE  /\ DOMAIN seen' = Clients /\ \A d \in Clients \ {c} : seen'[d] = seen[d]
           /\ seen'[c] \in [job : Nat, results : Entry, events : Entry] /\ seen'[c].job = j
           /\ Complete(seen'[c].results) /\ Complete(seen'[c].events)
           /\ \A k \in Kinds : seen'[c][k].cursor <= jobs[j].count[k]
<1> DEFINE mine == IF seen[c].job = j THEN seen[c] ELSE [job |-> j, results |-> NothingYet, events |-> NothingYet]
           my == mine[kind]
           n == jobs[j].count[kind]
           start == Max({my.cursor, Oldest(n)})
           Got(W, cut) == {i \in W : Cardinality({k \in W : k > i}) >= cut}
<1>1. /\ mine \in [job : Nat, results : Entry, events : Entry] /\ mine.job = j
      /\ Complete(mine.results) /\ Complete(mine.events)
  <2>1. j \in Nat
    BY JobsFinite
  <2>2. CASE seen[c].job = j
    BY <2>2 DEF ReadInv
  <2>3. CASE seen[c].job # j
    BY <2>1, <2>3, NothingIsComplete
  <2> QED
    BY <2>2, <2>3
<1>2. n \in Nat /\ \A k \in Kinds : jobs[j].count[k] \in Nat
  <2>1. jobs[j] \in Job
    BY DEF StoreTypes
  <2> QED
    BY <2>1 DEF Job
<1>7. \A k \in Kinds : mine[k].cursor <= jobs[j].count[k]
  <2>1. CASE seen[c].job = j
    BY <2>1, JobsFinite DEF ReadInv, Behind
  <2>2. CASE seen[c].job # j
    <3>1. \A k \in Kinds : mine[k].cursor = 0
      BY <2>2 DEF NothingYet, Kinds
    <3> QED
      BY <1>2, <3>1
  <2> QED
    BY <2>1, <2>2
<1> HIDE DEF mine
<1>3. Complete(my)
  BY <1>1 DEF Kinds
<1>4. PICK limit \in Limits :
         LET W == ByIndex(n, my.cursor, limit)
         IN  \E cut \in Cuts(kind, limit, Cardinality(W)) :
                seen' = [seen EXCEPT ![c] = [mine EXCEPT ![kind] = Entered(my, n, start, Got(W, cut))]]
  BY DEF Reads, mine, Entered
<1> DEFINE W == ByIndex(n, my.cursor, limit)
<1>5. W \in SUBSET (0..n) /\ IsFiniteSet(W) /\ Cardinality(W) \in Nat
  <2>1. W \in SUBSET (0..n)
    BY <1>2, <1>3, StoreAssumption DEF ByIndex, Oldest
  <2> HIDE DEF W, n
  <2>2. W \in SUBSET Nat /\ \A i \in W : i <= n
    BY <1>2, <2>1
  <2>3. IsFiniteSet(W)
    BY <1>2, <2>2, FS_BoundedSetOfNaturals
  <2> QED
    BY <2>1, <2>3, FS_CardinalityType
<1>6. PICK cut \in Nat : seen' = [seen EXCEPT ![c] = [mine EXCEPT ![kind] = Entered(my, n, start, Got(W, cut))]]
  <2> DEFINE cuts == Cuts(kind, limit, Cardinality(W))
             Goes(cut) == seen' = [seen EXCEPT ![c] = [mine EXCEPT ![kind] = Entered(my, n, start, Got(W, cut))]]
  <2>1. \E cut \in cuts : Goes(cut)
    BY <1>4
  <2> HIDE DEF W, Goes
  <2>2. cuts \subseteq Nat
    BY <1>5, CutsAreNumbers
  <2>3. \E cut \in Nat : Goes(cut)
    BY <2>1, <2>2
  <2> QED
    BY <2>3 DEF Goes
<1> DEFINE G == Got(W, cut)
           new == [mine EXCEPT ![kind] = Entered(my, n, start, G)]
<1>8. Complete(Entered(my, n, start, G)) /\ Entered(my, n, start, G).cursor <= n
  <2>1. limit \in Nat \ {0}
    BY StoreAssumption
  <2>2. G = {i \in W : Cardinality({k \in W : k > i}) >= cut}
    OBVIOUS
  <2>3. G \in SUBSET W /\ \A i \in G : \A h \in W : h <= i => h \in G
    <3> HIDE DEF G, W, n
    <3>1. ASSUME NEW i \in G, NEW h \in W, h <= i PROVE h \in G
      BY <1>2, <1>5, <2>2, <3>1, CutLeavesBeginning
    <3>2. G \in SUBSET W
      BY <2>2
    <3> QED
      BY <3>1, <3>2
  <2>4. start = Max({my.cursor, Oldest(n)}) /\ W = ByIndex(n, my.cursor, limit)
    OBVIOUS
  <2>5. my.cursor <= n
    BY <1>7
  <2> HIDE DEF my, n, W, G, start
  <2> QED
    BY <1>2, <1>3, <2>1, <2>3, <2>4, <2>5, ReadCompletes
<1>9. /\ new \in [job : Nat, results : Entry, events : Entry] /\ new.job = j
      /\ Complete(new.results) /\ Complete(new.events)
      /\ \A k \in Kinds : new[k].cursor <= jobs[j].count[k]
  <2>1. Entered(my, n, start, G) \in Entry
    BY <1>8 DEF Complete
  <2> DEFINE e == Entered(my, n, start, G)
  <2>2. e.cursor <= n /\ Complete(e) /\ e \in Entry
    BY <1>8, <2>1
  <2> HIDE DEF e
  <2>3. new[kind] = e /\ \A k \in Kinds \ {kind} : new[k] = mine[k]
    BY <1>1 DEF Kinds, e
  <2>4. \A k \in Kinds : new[k].cursor <= jobs[j].count[k]
    BY <1>7, <2>2, <2>3
  <2> QED
    BY <1>1, <2>2, <2>4 DEF Kinds, e
<1> HIDE DEF new
<1> QED
  BY <1>6, <1>9 DEF ToolsFit, new

\* No job is forgotten, and no ledger counts fewer entries.
LEMMA JobsGrow ==
    ASSUME StoreInv, Next
    PROVE  DOMAIN jobs \subseteq DOMAIN jobs' /\ AtLeast(jobs', jobs)
<1> DEFINE Goal == DOMAIN jobs \subseteq DOMAIN jobs' /\ AtLeast(jobs', jobs)
<1>0. jobs \in Seq(Job) /\ \A k \in DOMAIN jobs : \A e \in Kinds : jobs[k].count[e] \in Nat
  <2>1. jobs \in Seq(Job)
    BY DEF StoreInv, StoreTypes
  <2>2. \A k \in DOMAIN jobs : jobs[k] \in Job
    BY <2>1
  <2> QED
    BY <2>1, <2>2 DEF Job
<1>1. ASSUME NEW c \in Clients, Registers(c) PROVE Goal
  <2>1. \A k \in DOMAIN jobs : k \in DOMAIN jobs' /\ jobs'[k] = jobs[k]
    <3>1. jobs' = jobs \/ \E new : jobs' = Append(jobs, new)
      BY <1>1 DEF Registers
    <3>2. ASSUME NEW new, jobs' = Append(jobs, new) PROVE \A k \in DOMAIN jobs : k \in DOMAIN jobs' /\ jobs'[k] = jobs[k]
      BY <1>0, <3>2
    <3> QED
      BY <3>1, <3>2
  <2> QED
    BY <1>0, <2>1 DEF AtLeast
<1>2. ASSUME jobs' = jobs PROVE Goal
  BY <1>0, <1>2 DEF AtLeast
<1>3. ASSUME NEW j \in DOMAIN jobs, TaskBegins(j) \/ Strands(j) \/ TaskCancelled(j) PROVE Goal
  <2>1. PICK task \in {"ready", "runs", "over"} : jobs' = [jobs EXCEPT ![j].task = task]
    BY <1>3 DEF TaskBegins, Strands, TaskCancelled
  <2>2. DOMAIN jobs' = DOMAIN jobs /\ \A k \in DOMAIN jobs : jobs'[k].count = jobs[k].count
    BY <2>1, TaskMoves
  <2> QED
    BY <1>0, <2>2 DEF AtLeast
<1>4. ASSUME NEW j \in DOMAIN jobs, Works(j) PROVE Goal
  BY <1>0, <1>4, RecordsKeep DEF Works
<1>5. ASSUME NEW j \in DOMAIN jobs, Completes(j) PROVE Goal
  <2>1. "completed" \in Terminal /\ "over" \in {"ready", "runs", "over"}
    BY DEF Terminal
  <2> QED
    BY <1>5, <2>1, FinishesKeep DEF Completes
<1>6. ASSUME NEW c \in Clients, StopCalled(c) PROVE Goal
  <2>1. PICK j \in DOMAIN jobs : Finishes(j, "cancelled", jobs[j].task) \/ jobs' = jobs
    BY <1>6 DEF StopCalled, Resolved, StoreInv, StoreTypes
  <2>2. "cancelled" \in Terminal /\ jobs[j].task \in {"ready", "runs", "over"}
    <3>1. jobs[j] \in Job
      BY <1>0
    <3> QED
      BY <3>1 DEF Terminal, Job
  <2> QED
    BY <1>2, <2>1, <2>2, FinishesKeep
<1>7. ASSUME NEW c \in Clients, StartBegins(c) \/ ResultsCalled(c) \/ EventsCalled(c) \/ PollReturns(c)
      PROVE  Goal
  BY <1>2, <1>7 DEF StartBegins, ResultsCalled, EventsCalled, PollReturns
<1> QED
  BY <1>1, <1>3, <1>4, <1>5, <1>6, <1>7 DEF Next

\* A cursor that was behind stays behind while it does not move.
LEMMA StaysBehind ==
    ASSUME StoreInv, Next, NEW c \in Clients, Behind(c), ReadInv, seen'[c] = seen[c]
    PROVE  Behind(c)'
<1>1. DOMAIN jobs \subseteq DOMAIN jobs' /\ AtLeast(jobs', jobs)
  BY JobsGrow
<1> SUFFICES ASSUME seen[c].job # 0
             PROVE  /\ seen[c].job \in DOMAIN jobs'
                    /\ \A k \in Kinds : seen[c][k].cursor <= jobs'[seen[c].job].count[k]
  BY DEF Behind
<1>2. seen[c].job \in DOMAIN jobs /\ \A k \in Kinds : seen[c][k].cursor <= jobs[seen[c].job].count[k]
  BY DEF Behind
<1>3. /\ \A k \in Kinds : /\ seen[c][k].cursor \in Nat /\ jobs[seen[c].job].count[k] \in Nat
                         /\ jobs'[seen[c].job].count[k] \in Nat
  <2>1. StoreInv'
    BY StoreInvNext
  <2>2. jobs[seen[c].job] \in Job /\ jobs'[seen[c].job] \in Job
    BY <1>1, <1>2, <2>1 DEF StoreInv, StoreTypes
  <2>3. \A k \in Kinds : seen[c][k].cursor \in Nat
    BY DEF ReadInv, Entry, Kinds
  <2> QED
    BY <2>2, <2>3 DEF Job
<1> QED
  BY <1>1, <1>2, <1>3 DEF AtLeast

Reading == StoreInv /\ ReadInv /\ ToolsFit

LEMMA ReadingInit == Init => Reading
<1> SUFFICES ASSUME Init PROVE Reading
  OBVIOUS
<1>1. StoreInv
  BY StoreInvInit
<1>2. PICK plan \in Plans : tool = [c \in Clients |-> [at |-> "none", todo |-> plan[c]]]
  BY DEF Init
<1>3. ToolsFit /\ \A c \in Clients : tool[c].at = "none"
  BY <1>2 DEF Init, ToolsFit
<1>4. ReadInv
  BY <1>3, NothingIsComplete DEF Init, ReadInv, Behind
<1> QED
  BY <1>1, <1>3, <1>4 DEF Reading

\* A step of one client's tool: it ends, or goes on to wait.
LEMMA ToolSteps ==
    ASSUME ToolsFit, NEW c \in Clients, Ends(c) \/ \E at \in {"none", "engine", "poll"} : Called(c, at)
    PROVE  /\ DOMAIN tool' = Clients /\ \A d \in Clients : DOMAIN tool'[d] = {"at", "todo"}
           /\ \A d \in Clients \ {c} : tool'[d] = tool[d]
           /\ Ends(c) => tool'[c].at = "none"
           /\ \A at \in {"none", "engine", "poll"} : Called(c, at) => tool'[c].at = at
<1>1. CASE Ends(c)
  BY <1>1 DEF ToolsFit, Ends, Called
<1>2. ASSUME NEW at \in {"none", "engine", "poll"}, Called(c, at) PROVE
           /\ DOMAIN tool' = Clients /\ \A d \in Clients : DOMAIN tool'[d] = {"at", "todo"}
           /\ \A d \in Clients \ {c} : tool'[d] = tool[d]
           /\ tool'[c].at = at
  BY <1>2 DEF ToolsFit, Called
<1> QED
  BY <1>1, <1>2

\* A step of one client that reads a job keeps what each client got complete.
LEMMA OneClientReads ==
    ASSUME Reading, Next, NEW c \in Clients, NEW kind \in Kinds, NEW j \in DOMAIN jobs,
           Reads(c, kind, j), Ends(c) \/ Called(c, "none"), jobs' = jobs
    PROVE  ReadInv' /\ ToolsFit'
<1>1. DOMAIN jobs \subseteq DOMAIN jobs'
  BY JobsGrow DEF Reading
<1>2. /\ DOMAIN seen' = Clients /\ \A d \in Clients \ {c} : seen'[d] = seen[d]
      /\ seen'[c] \in [job : Nat, results : Entry, events : Entry]
      /\ Complete(seen'[c].results) /\ Complete(seen'[c].events) /\ seen'[c].job = j
      /\ \A k \in Kinds : seen'[c][k].cursor <= jobs[j].count[k]
  BY ReadsKeep DEF Reading, StoreInv
<1>3. /\ DOMAIN tool' = Clients /\ \A d \in Clients : DOMAIN tool'[d] = {"at", "todo"}
      /\ \A d \in Clients \ {c} : tool'[d] = tool[d]
      /\ tool'[c].at = "none"
  BY ToolSteps DEF Reading
<1>4. ToolsFit'
  BY <1>2, <1>3 DEF ToolsFit
<1>5. ASSUME NEW d \in Clients
      PROVE  /\ seen'[d] \in [job : Nat, results : Entry, events : Entry]
             /\ Complete(seen'[d].results) /\ Complete(seen'[d].events)
             /\ tool'[d].at = "poll" => seen'[d].job \in DOMAIN jobs'
             /\ Behind(d)' /\ tool'[d].at \in {"none", "engine", "poll"}
  <2>1. CASE d = c
    <3>1. Behind(c)'
      BY <1>2 DEF Behind
    <3> QED
      BY <1>2, <1>3, <2>1, <3>1
  <2>2. CASE d # c
    <3>1. Behind(d)'
      BY <1>2, <2>2, StaysBehind DEF Reading, ReadInv
    <3> QED
      BY <1>1, <1>2, <1>3, <2>2, <3>1 DEF Reading, ReadInv
  <2> QED
    BY <2>1, <2>2
<1> QED
  BY <1>4, <1>5 DEF ReadInv

\* A step of one client that reads nothing: it ends, or waits for the job it reads.
LEMMA OneClientWaits ==
    ASSUME Reading, Next, NEW c \in Clients, seen' = seen, NEW at \in {"none", "engine", "poll"},
           Called(c, at) \/ (at = "none" /\ Ends(c)), at = "poll" => seen[c].job \in DOMAIN jobs
    PROVE  ReadInv' /\ ToolsFit'
<1>1. DOMAIN jobs \subseteq DOMAIN jobs'
  BY JobsGrow DEF Reading
<1>2. /\ DOMAIN tool' = Clients /\ \A d \in Clients : DOMAIN tool'[d] = {"at", "todo"}
      /\ \A d \in Clients \ {c} : tool'[d] = tool[d]
      /\ tool'[c].at = at
  BY ToolSteps DEF Reading
<1>3. \A d \in Clients : Behind(d)'
  BY StaysBehind DEF Reading, ReadInv
<1> QED
  BY <1>1, <1>2, <1>3 DEF Reading, ReadInv, ToolsFit

LEMMA ReadingNext == Reading /\ [Next]_vars => Reading'
<1> SUFFICES ASSUME Reading, [Next]_vars PROVE Reading'
  OBVIOUS
<1>0. StoreInv'
  BY StoreInvNext DEF Reading
<1> SUFFICES ReadInv' /\ ToolsFit'
  BY <1>0 DEF Reading
<1>k. kept \subseteq DOMAIN jobs
  BY DEF Reading, StoreInv, StoreTypes
<1>1. CASE UNCHANGED vars
  BY <1>1 DEF Reading, ReadInv, ToolsFit, vars, Behind
<1>2. CASE Next /\ UNCHANGED <<tool, seen>>
  <2>1. \A d \in Clients : Behind(d)'
    BY <1>2, StaysBehind DEF Reading, ReadInv
  <2> QED
    BY <1>2, <2>1, JobsGrow DEF Reading, ReadInv, ToolsFit
<1>3. ASSUME NEW c \in Clients, Next, StartBegins(c) PROVE ReadInv' /\ ToolsFit'
  <2>1. PICK at \in {"none", "engine"} : Called(c, at)
    BY <1>3 DEF StartBegins
  <2> QED
    BY <1>3, <2>1, OneClientWaits DEF StartBegins
<1>4. ASSUME NEW c \in Clients, Next, Registers(c) \/ StopCalled(c) PROVE ReadInv' /\ ToolsFit'
  BY <1>4, OneClientWaits DEF Registers, StopCalled
<1>5. ASSUME NEW c \in Clients, Next, ResultsCalled(c) PROVE ReadInv' /\ ToolsFit'
  <2>1. PICK j \in kept : Reads(c, "results", j)
    BY <1>5 DEF ResultsCalled, Resolved
  <2> QED
    BY <1>5, <1>k, <2>1, OneClientReads DEF ResultsCalled, Kinds
<1>6. ASSUME NEW c \in Clients, Next, EventsCalled(c) PROVE ReadInv' /\ ToolsFit'
  <2>1. PICK j \in kept :
           \/ Reads(c, "events", j) /\ Called(c, "none")
           \/ seen[c].job = j /\ Called(c, "poll") /\ seen' = seen
    BY <1>6 DEF EventsCalled, Resolved
  <2>2. CASE Reads(c, "events", j) /\ Called(c, "none")
    BY <1>6, <1>k, <2>2, OneClientReads DEF Kinds, EventsCalled
  <2>3. CASE seen[c].job = j /\ Called(c, "poll") /\ seen' = seen
    BY <1>6, <1>k, <2>3, OneClientWaits
  <2> QED
    BY <2>1, <2>2, <2>3
<1>7. ASSUME NEW c \in Clients, Next, PollReturns(c) PROVE ReadInv' /\ ToolsFit'
  <2>1. seen[c].job \in DOMAIN jobs /\ Reads(c, "events", seen[c].job) /\ Ends(c)
    BY <1>7 DEF PollReturns, Reading, ReadInv
  <2> QED
    BY <1>7, <2>1, OneClientReads DEF Kinds, PollReturns
<1>8. ASSUME NEW j \in DOMAIN jobs, Next,
             TaskBegins(j) \/ Works(j) \/ Strands(j) \/ Completes(j) \/ TaskCancelled(j)
      PROVE  ReadInv' /\ ToolsFit'
  BY <1>2, <1>8 DEF TaskBegins, Works, Strands, Completes, TaskCancelled
<1> QED
  BY <1>1, <1>3, <1>4, <1>5, <1>6, <1>7, <1>8 DEF Next

\* A client that goes on at nextCursor gets every entry once, and is told of those it came too late for.
THEOREM NothingIsSkipped == Spec => []NothingSkipped
<1>1. Reading => NothingSkipped
  BY DEF Reading, ReadInv, NothingSkipped, Complete, Kinds
<1> QED
  BY <1>1, ReadingInit, ReadingNext, PTL DEF Spec

\* The registry holds as many ended jobs as are retained and the one that runs, the active job is in
\* it, and no cursor is beyond what its job has recorded.
THEOREM TypesOK == Spec => []TypeOK
<1>1. Reading => TypeOK
  <2> SUFFICES ASSUME Reading PROVE TypeOK
    OBVIOUS
  <2>1. ASSUME NEW j \in DOMAIN jobs
        PROVE  /\ jobs[j].state \in {"running"} \cup Terminal /\ jobs[j].task \in {"ready", "runs", "over"}
               /\ jobs[j].finished \in 0..finished /\ \A k \in Kinds : jobs[j].count[k] \in Nat
    <3>1. jobs[j] \in Job /\ jobs[j].finished <= finished /\ finished \in Nat
      BY DEF Reading, StoreInv, StoreTypes, Tidy, EndsInOrder
    <3>2. jobs[j].state \in {"running"} \cup Terminal /\ jobs[j].task \in {"ready", "runs", "over"}
      BY <3>1 DEF Job
    <3>3. jobs[j].finished \in 0..finished
      BY <3>1 DEF Job
    <3>4. \A k \in Kinds : jobs[j].count[k] \in Nat
      BY <3>1 DEF Job
    <3> QED
      BY <3>2, <3>3, <3>4
  <2>2. ASSUME NEW c \in Clients
        PROVE  /\ tool[c].at \in {"none", "engine", "poll"} /\ seen[c].job \in 0..Len(jobs)
               /\ \A k \in Kinds : seen[c].job = 0 \/ seen[c][k].cursor \in 0..jobs[seen[c].job].count[k]
    <3>1. /\ tool[c].at \in {"none", "engine", "poll"} /\ Behind(c)
          /\ seen[c] \in [job : Nat, results : Entry, events : Entry]
      BY DEF Reading, ReadInv
    <3>2. DOMAIN jobs = 1..Len(jobs) /\ Len(jobs) \in Nat
      BY JobsFinite DEF Reading, StoreInv
    <3>3. seen[c].job \in 0..Len(jobs)
      BY <3>1, <3>2 DEF Behind
    <3>4. ASSUME NEW k \in Kinds, seen[c].job # 0
          PROVE  seen[c][k].cursor \in 0..jobs[seen[c].job].count[k]
      <4>1. seen[c].job \in DOMAIN jobs /\ seen[c][k].cursor <= jobs[seen[c].job].count[k]
        BY <3>1, <3>4 DEF Behind
      <4>2. seen[c][k].cursor \in Nat /\ jobs[seen[c].job].count[k] \in Nat
        BY <2>1, <3>1, <4>1 DEF Kinds, Entry
      <4> QED
        BY <4>1, <4>2
    <3> QED
      BY <3>1, <3>3, <3>4
  <2>3. kept \subseteq DOMAIN jobs /\ Cardinality(kept) <= Retained + 1 /\ active \in kept \cup {0}
        /\ finished \in Nat
    BY DEF Reading, StoreInv, StoreTypes, Tidy, KeptFew, ActiveKept
  <2> QED
    BY <2>1, <2>2, <2>3 DEF TypeOK
<1> QED
  BY <1>1, ReadingInit, ReadingNext, PTL DEF Spec
=============================================================================
