-------------------------- MODULE DomStream_proofs --------------------------
(***************************************************************************)
(* Agents that read one DOM stream miss nothing unnoticed and act on no    *)
(* other node than the one they were shown, for every number of agents and *)
(* nodes, every ring size, batch, limit and plan.                          *)
(*                                                                         *)
(* A step does one of two things to the stream: it extends it, which keeps *)
(* its log and its node ids, or it puts another in its place, which has an *)
(* id no agent has seen.                                                   *)
(***************************************************************************)
EXTENDS DomStream, Integers, FiniteSetTheorems, WellFoundedInduction, SequenceTheorems, TLAPS

----------------------------------------------------------------------------
(* Finite sets of numbers *)

\* A bounded, inhabited set of numbers has its maximum.
LEMMA MaxOfBounded ==
    ASSUME NEW S \in SUBSET Nat, S # {}, NEW n \in Nat, \A i \in S : i <= n
    PROVE  Max(S) \in S /\ \A y \in S : Max(S) >= y
<1> DEFINE above(i) == {k \in S : k > i}
           T == {above(i) : i \in S}
<1>1. IsFiniteSet(S)
  BY FS_BoundedSetOfNaturals
<1>2. T \subseteq SUBSET S /\ T # {}
  OBVIOUS
<1>3. PICK t \in T : \A u \in T : ~ (<<u, t>> \in StrictSubsetOrdering(S))
  <2>1. IsWellFoundedOn(StrictSubsetOrdering(S), FiniteSubsetsOf(S))
    BY FS_StrictSubsetOrderingWellFounded
  <2> HIDE DEF T
  <2>2. \A u \in SUBSET S : IsFiniteSet(u)
    BY <1>1, FS_Subset
  <2>3. T \subseteq FiniteSubsetsOf(S)
    BY <1>2, <2>2 DEF FiniteSubsetsOf
  <2> QED
    BY <1>2, <2>1, <2>3, WFMin
<1>4. PICK x \in S : t = above(x)
  OBVIOUS
<1>5. ASSUME NEW y \in S, y > x PROVE FALSE
  <2>0. above(y) \in T
    OBVIOUS
  <2>1. above(y) \in T /\ above(y) \subseteq above(x) /\ y \in above(x) /\ y \notin above(y)
    <3>1. above(y) \subseteq above(x)
      <4>1. ASSUME NEW k \in S, k > y PROVE k > x
        <5>1. k \in Nat /\ x \in Nat /\ y \in Nat
          OBVIOUS
        <5> QED
          BY <1>5, <4>1, <5>1
      <4> QED
        BY <4>1
    <3>2. y \in above(x) /\ y \notin above(y)
      BY <1>5
    <3> QED
      BY <2>0, <3>1, <3>2
  <2>2. <<above(y), above(x)>> \in StrictSubsetOrdering(S)
    <3> HIDE DEF above, T
    <3> QED
      BY <1>2, <1>4, <2>1 DEF StrictSubsetOrdering
  <2> QED
    BY <1>3, <1>4, <2>1, <2>2
<1>6. \A y \in S : x >= y
  BY <1>5
<1> QED
  BY <1>6 DEF Max

\* A bounded set of numbers is finite, and so is every part of it.
LEMMA PartsAreFinite ==
    ASSUME NEW S, IsFiniteSet(S), NEW A, NEW B \in SUBSET S, A \subseteq B
    PROVE  /\ IsFiniteSet(A) /\ IsFiniteSet(B) /\ Cardinality(A) \in Nat /\ Cardinality(B) \in Nat
           /\ Cardinality(A) <= Cardinality(B)
BY FS_Subset, FS_CardinalityType

\* How far down a finite set of numbers an element is: no two are equally far.
Rank(S, n) == Cardinality({k \in S : k <= n})

LEMMA Ranks ==
    ASSUME NEW S \in SUBSET Nat, IsFiniteSet(S), NEW n \in S
    PROVE  /\ Rank(S, n) \in Nat /\ 1 <= Rank(S, n) /\ Rank(S, n) <= Cardinality(S)
           /\ \A m \in S : n < m => Rank(S, n) < Rank(S, m)
<1> DEFINE upto(x) == {k \in S : k <= x}
<1>1. \A x \in S : x \in upto(x) /\ upto(x) \in SUBSET S
  OBVIOUS
<1>2. \A x \in S : IsFiniteSet(upto(x)) /\ Cardinality(upto(x)) \in Nat /\ Cardinality(upto(x)) <= Cardinality(S)
  <2> HIDE DEF upto
  <2> QED
    BY <1>1, PartsAreFinite
<1>3. Cardinality(upto(n)) # 0
  <2> HIDE DEF upto
  <2> QED
    BY <1>1, <1>2, FS_EmptySet
<1>4. ASSUME NEW m \in S, n < m PROVE Cardinality(upto(n)) < Cardinality(upto(m))
  <2>1. upto(n) \subseteq upto(m) /\ m \notin upto(n)
    <3>1. \A k \in S : k <= n => k <= m
      BY <1>4
    <3>2. ~(m <= n)
      BY <1>4
    <3> QED
      BY <3>1, <3>2
  <2> HIDE DEF upto
  <2>2. upto(n) # upto(m)
    BY <1>1, <2>1
  <2>3. Cardinality(upto(n)) <= Cardinality(upto(m))
    BY <1>2, <2>1, FS_Subset
  <2>4. Cardinality(upto(n)) # Cardinality(upto(m))
    BY <1>2, <2>1, <2>2, FS_Subset
  <2> QED
    BY <1>2, <2>3, <2>4
<1> QED
  BY <1>2, <1>3, <1>4 DEF Rank

\* The first n of a set.
FirstOnes(S, n) == {i \in S : Cardinality({k \in S : k < i}) < n}

\* The first elements of a set are below all the others.
LEMMA FirstComeFirst ==
    ASSUME NEW S \in SUBSET Nat, IsFiniteSet(S), NEW n \in Nat,
           NEW i \in FirstOnes(S, n), NEW h \in S, h <= i
    PROVE  h \in FirstOnes(S, n)
<1> DEFINE below(x) == {k \in S : k < x}
<1>1. below(h) \subseteq below(i) /\ below(i) \in SUBSET S
  <2>1. ASSUME NEW k \in S, k < h PROVE k < i
    <3>1. k \in Nat /\ h \in Nat /\ i \in Nat
      BY DEF FirstOnes
    <3> QED
      BY <2>1, <3>1
  <2> QED
    BY <2>1
<1>2. Cardinality(below(i)) < n
  BY DEF FirstOnes
<1>3. Cardinality(below(h)) < n
  <2> HIDE DEF below
  <2>1. /\ Cardinality(below(h)) \in Nat /\ Cardinality(below(i)) \in Nat
        /\ Cardinality(below(h)) <= Cardinality(below(i))
    BY <1>1, PartsAreFinite
  <2> QED
    BY <1>2, <2>1
<1> QED
  BY <1>3 DEF FirstOnes

Event == [seq : Nat, kind : {"record", "overflow"}, recs : SUBSET Nat]
Stream == [id : Nat, active : BOOLEAN, max : Nat \ {0}, ring : Seq(Event), log : Seq(SUBSET Nat),
           over : BOOLEAN, ids : [Nodes -> Nat], live : SUBSET Nodes]
Used(s) == {n \in Nodes : s.ids[n] # 0}

\* The ring has the newest events of the log, which reports only what has happened.
RingOK(s) ==
    /\ Len(s.ring) <= s.max /\ Len(s.ring) <= Len(s.log)
    /\ \A i \in 1..Len(s.ring) : /\ s.ring[i].seq = Len(s.log) - Len(s.ring) + i
                                 /\ s.ring[i].recs = s.log[s.ring[i].seq]
LogOK(s, n) == \A i \in 1..Len(s.log) : s.log[i] \subseteq 1..n

\* No two nodes have the same id.
IdsOK(s) ==
    /\ s.live \subseteq Used(s)
    /\ \A n \in Used(s) : s.ids[n] <= Cardinality(Used(s))
    /\ \A n, m \in Used(s) : s.ids[n] = s.ids[m] => n = m

StreamOK(s, m, n) == s \in Stream /\ s.id <= m /\ RingOK(s) /\ LogOK(s, n) /\ IdsOK(s)

\* Stream t is stream s, later.
Continues(s, t) ==
    /\ t.id = s.id
    /\ Len(s.log) <= Len(t.log) /\ \A i \in 1..Len(s.log) : t.log[i] = s.log[i]
    /\ \A n \in Used(s) : t.ids[n] = s.ids[n]

NewStream(id) == [NoStream EXCEPT !.id = id, !.active = TRUE]

LEMMA NewStreamOK ==
    ASSUME NEW m \in Nat, NEW n \in Nat
    PROVE  StreamOK(NoStream, m, n) /\ StreamOK(NewStream(m), m, n) /\ NewStream(m).id = m
<1> DEFINE new == NewStream(m)
<1>1. NoStream \in Stream /\ new \in Stream
  <2>1. Default \in Nat \ {0} /\ <<>> \in Seq(Event) /\ <<>> \in Seq(SUBSET Nat) /\ [k \in Nodes |-> 0] \in [Nodes -> Nat]
    BY DomAssumption
  <2> DEFINE zero == [k \in Nodes |-> 0]
  <2>2. NoStream = [id |-> 0, active |-> FALSE, max |-> Default, ring |-> <<>>, log |-> <<>>, over |-> FALSE,
                    ids |-> zero, live |-> {}]
    BY DEF NoStream
  <2> HIDE DEF zero
  <2>3. NoStream \in Stream
    BY <2>1, <2>2 DEF Stream, zero
  <2>4. new \in Stream
    BY <2>3 DEF Stream, NewStream
  <2> QED
    BY <2>3, <2>4
<1>2. /\ NoStream.id = 0 /\ new.id = m /\ Len(NoStream.ring) = 0 /\ Len(new.ring) = 0
      /\ Len(NoStream.log) = 0 /\ Len(new.log) = 0 /\ NoStream.live = {} /\ new.live = {}
      /\ Used(NoStream) = {} /\ Used(new) = {}
  BY DEF NoStream, NewStream, Used
<1> HIDE DEF new
<1> QED
  BY <1>1, <1>2 DEF StreamOK, RingOK, LogOK, IdsOK, Stream, new

LEMMA TrimsOldest ==
    ASSUME NEW ring \in Seq(Event), NEW max \in Nat \ {0}
    PROVE  LET t == Trim(ring, max)
           IN  /\ t \in Seq(Event) /\ Len(t) <= max /\ Len(t) <= Len(ring)
               /\ \A i \in 1..Len(t) : t[i] = ring[Len(ring) - Len(t) + i]
<1>1. CASE Len(ring) <= max
  BY <1>1 DEF Trim
<1>2. CASE Len(ring) > max
  <2>1. Trim(ring, max) = SubSeq(ring, Len(ring) - max + 1, Len(ring))
    BY <1>2 DEF Trim
  <2>2. /\ Trim(ring, max) \in Seq(Event) /\ Len(Trim(ring, max)) = max
        /\ \A i \in 1..max : Trim(ring, max)[i] = ring[Len(ring) - max + i]
    <3>1. Len(ring) \in Nat /\ Len(ring) - max + 1 \in 1..Len(ring)
      BY <1>2
    <3>2. \A i \in (Len(ring) - max + 1)..Len(ring) : ring[i] \in Event
      BY <3>1
    <3>3. Trim(ring, max) \in Seq(Event)
      BY <2>1, <3>1
    <3>4. Len(Trim(ring, max)) = max
      BY <2>1, <3>1
    <3>5. \A i \in 1..max : Trim(ring, max)[i] = ring[Len(ring) - max + i]
      BY <2>1, <3>1
    <3> QED
      BY <3>3, <3>4, <3>5
  <2> QED
    BY <1>2, <2>2
<1> QED
  BY <1>1, <1>2

\* What the page pushes: records up to the k-th.
Report(k) == [kind : {"record", "overflow"}, recs : SUBSET (1..k)]

\* Pushing events extends the stream.
LEMMA PushOK ==
    ASSUME NEW s, NEW m \in Nat, NEW n \in Nat, StreamOK(s, m, n), NEW k \in Nat, n <= k,
           NEW es \in Seq(Report(k))
    PROVE  StreamOK(Push(s, es), m, k) /\ Continues(s, Push(s, es))
<1> DEFINE numbered == [i \in DOMAIN es |-> [seq |-> Len(s.log) + i, kind |-> es[i].kind, recs |-> es[i].recs]]
           recs == [i \in DOMAIN es |-> es[i].recs]
           longer == s.ring \o numbered
           log == s.log \o recs
           ring == Trim(longer, s.max)
           t == [s EXCEPT !.ring = ring, !.log = log]
<1>1. s \in Stream /\ s.ring \in Seq(Event) /\ s.log \in Seq(SUBSET Nat) /\ s.max \in Nat \ {0}
  BY DEF StreamOK, Stream
<1>0. /\ DOMAIN es = 1..Len(es) /\ Len(es) \in Nat
      /\ \A i \in 1..Len(es) : /\ es[i].kind \in {"record", "overflow"}
                               /\ es[i].recs \in SUBSET (1..k) /\ es[i].recs \in SUBSET Nat
  <2>1. \A i \in 1..Len(es) : es[i] \in Report(k)
    OBVIOUS
  <2>2. (1..k) \subseteq Nat
    OBVIOUS
  <2> QED
    BY <2>1, <2>2 DEF Report
<1>2. /\ numbered \in Seq(Event) /\ Len(numbered) = Len(es)
      /\ \A i \in 1..Len(es) : numbered[i].seq = Len(s.log) + i /\ numbered[i].recs = es[i].recs
  <2>1. Len(s.log) \in Nat
    BY <1>1
  <2>2. \A i \in 1..Len(es) : numbered[i] \in Event
    BY <1>0, <2>1 DEF Event
  <2> QED
    BY <1>0, <2>2
<1>3. recs \in Seq(SUBSET Nat) /\ Len(recs) = Len(es) /\ \A i \in 1..Len(es) : recs[i] = es[i].recs
  BY <1>0
<1> HIDE DEF numbered, recs
<1>4. /\ longer \in Seq(Event) /\ Len(longer) = Len(s.ring) + Len(es)
      /\ log \in Seq(SUBSET Nat) /\ Len(log) = Len(s.log) + Len(es)
  <2>1. /\ longer \in Seq(Event) /\ Len(longer) = Len(s.ring) + Len(numbered)
        /\ log \in Seq(SUBSET Nat) /\ Len(log) = Len(s.log) + Len(recs)
    BY <1>1, <1>2, <1>3, ConcatProperties, ZenonT(60)
  <2> QED
    BY <1>2, <1>3, <2>1
<1>5. /\ \A i \in 1..Len(s.log) : log[i] = s.log[i]
      /\ \A i \in 1..Len(es) : log[Len(s.log) + i] = es[i].recs
      /\ \A i \in 1..Len(s.ring) : longer[i] = s.ring[i]
      /\ \A i \in 1..Len(es) : longer[Len(s.ring) + i] = numbered[i]
  BY <1>0, <1>1, <1>2, <1>3, ConcatProperties
<1> HIDE DEF longer, log
<1>6. \A i \in 1..Len(longer) : /\ longer[i].seq = Len(log) - Len(longer) + i
                                /\ longer[i].recs = log[longer[i].seq]
  <2> SUFFICES ASSUME NEW i \in 1..Len(longer)
               PROVE  longer[i].seq = Len(log) - Len(longer) + i /\ longer[i].recs = log[longer[i].seq]
    OBVIOUS
  <2>0. /\ Len(s.ring) \in Nat /\ Len(s.log) \in Nat /\ Len(es) \in Nat /\ i \in Nat /\ 1 <= i
        /\ Len(longer) \in Nat /\ Len(log) \in Nat
        /\ Len(s.ring) <= Len(s.log)
        /\ Len(log) - Len(longer) = Len(s.log) - Len(s.ring)
    <3>1. /\ Len(s.ring) \in Nat /\ Len(s.log) \in Nat /\ Len(es) \in Nat
          /\ Len(s.ring) <= Len(s.log)
      BY <1>0, <1>1 DEF StreamOK, RingOK
    <3> QED
      BY <1>4, <3>1
  <2>1. CASE i <= Len(s.ring)
    <3>1. longer[i] = s.ring[i]
      BY <1>5, <2>0, <2>1
    <3>2. s.ring[i].seq = Len(s.log) - Len(s.ring) + i /\ s.ring[i].recs = s.log[s.ring[i].seq]
      <4>1. i \in 1..Len(s.ring)
        BY <2>0, <2>1
      <4> QED
        BY <4>1 DEF StreamOK, RingOK
    <3>3. s.ring[i].seq \in 1..Len(s.log)
      <4> DEFINE l == Len(s.log)
                 q == Len(s.ring)
      <4>1. l \in Nat /\ q \in Nat /\ q <= l /\ i \in Nat /\ 1 <= i /\ i <= q /\ s.ring[i].seq = l - q + i
        BY <2>0, <2>1, <3>2
      <4> HIDE DEF l, q
      <4>2. s.ring[i].seq \in 1..l
        BY <4>1
      <4> QED
        BY <4>2 DEF l
    <3> QED
      BY <1>5, <2>0, <3>1, <3>2, <3>3
  <2>2. CASE i > Len(s.ring)
    <3> DEFINE h == i - Len(s.ring)
    <3>1. h \in 1..Len(es) /\ i = Len(s.ring) + h
      BY <1>4, <2>0, <2>2
    <3>3. longer[i] = numbered[h]
      BY <1>5, <3>1
    <3>2. numbered[h].seq = Len(s.log) + h /\ numbered[h].recs = es[h].recs
      BY <1>2, <3>1
    <3>4. numbered[h].recs = log[numbered[h].seq]
      BY <1>5, <3>1, <3>2
    <3>5. Len(s.log) + h = Len(log) - Len(longer) + i
      <4> DEFINE l == Len(s.log)
                 q == Len(s.ring)
      <4>1. l \in Nat /\ q \in Nat /\ h \in Nat /\ i = q + h /\ Len(log) - Len(longer) = l - q
        BY <2>0, <3>1
      <4> HIDE DEF l, q, h
      <4>2. l + h = l - q + i
        BY <4>1
      <4> QED
        BY <4>1, <4>2 DEF l
    <3> QED
      BY <3>2, <3>3, <3>4, <3>5
  <2> QED
    BY <2>0, <2>1, <2>2
<1>7. /\ ring \in Seq(Event) /\ Len(ring) <= s.max /\ Len(ring) <= Len(longer)
      /\ \A i \in 1..Len(ring) : ring[i] = longer[Len(longer) - Len(ring) + i]
  BY <1>1, <1>4, TrimsOldest
<1>8. Len(ring) \in Nat /\ Len(longer) \in Nat /\ Len(log) \in Nat /\ Len(longer) <= Len(log)
  BY <1>1, <1>4, <1>7 DEF StreamOK, RingOK
<1> HIDE DEF ring
<1>9. /\ t \in Stream /\ t.ring = ring /\ t.log = log /\ t.id = s.id /\ t.max = s.max
      /\ t.ids = s.ids /\ t.live = s.live
  BY <1>1, <1>4, <1>7 DEF Stream
<1>10. RingOK(t)
  <2>1. \A i \in 1..Len(ring) : /\ ring[i].seq = Len(log) - Len(ring) + i
                                /\ ring[i].recs = log[ring[i].seq]
    <3> SUFFICES ASSUME NEW i \in 1..Len(ring)
                 PROVE  ring[i].seq = Len(log) - Len(ring) + i /\ ring[i].recs = log[ring[i].seq]
      OBVIOUS
    <3> DEFINE h == Len(longer) - Len(ring) + i
    <3>1. h \in 1..Len(longer) /\ ring[i] = longer[h]
      BY <1>7, <1>8
    <3>2. longer[h].seq = Len(log) - Len(longer) + h /\ longer[h].recs = log[longer[h].seq]
      BY <1>6, <3>1
    <3> QED
      BY <1>8, <3>1, <3>2
  <2> QED
    BY <1>7, <1>8, <1>9, <2>1 DEF RingOK
<1>11. LogOK(t, k)
  <2>1. ASSUME NEW i \in 1..Len(log) PROVE log[i] \subseteq 1..k
    <3>0. Len(s.log) \in Nat /\ Len(es) \in Nat
      BY <1>1
    <3>1. CASE i <= Len(s.log)
      <4>1. s.log[i] \subseteq 1..n
        BY <3>0, <3>1 DEF StreamOK, LogOK
      <4>2. log[i] = s.log[i] /\ 1..n \subseteq 1..k
        BY <1>5, <3>0, <3>1
      <4> QED
        BY <4>1, <4>2
    <3>2. CASE i > Len(s.log)
      <4> DEFINE h == i - Len(s.log)
      <4>1. h \in 1..Len(es) /\ i = Len(s.log) + h
        BY <1>4, <3>0, <3>2
      <4>2. es[h].recs \in SUBSET (1..k) /\ log[i] = es[h].recs
        BY <1>0, <1>5, <4>1
      <4> HIDE DEF h
      <4> QED
        BY <4>2
    <3> QED
      BY <3>0, <3>1, <3>2
  <2> QED
    BY <1>9, <2>1 DEF LogOK
<1>12. IdsOK(t)
  BY <1>9 DEF StreamOK, IdsOK, Used
<1>13. Push(s, es) = t
  BY DEF Push, t, ring, log, longer, numbered, recs
<1> HIDE DEF t
<1>14. Continues(s, t)
  BY <1>1, <1>4, <1>5, <1>9 DEF Continues, Used
<1> QED
  BY <1>9, <1>10, <1>11, <1>12, <1>13, <1>14 DEF StreamOK

\* Nodes that get an id get one of their own.
LEMMA NamedOK ==
    ASSUME NEW s, NEW m \in Nat, NEW n \in Nat, StreamOK(s, m, n), NEW ns \in SUBSET Nodes
    PROVE  /\ StreamOK(Named(s, ns), m, n) /\ Continues(s, Named(s, ns))
           /\ \A x \in ns : Named(s, ns).ids[x] # 0
<1> DEFINE new == {x \in ns : s.ids[x] = 0}
           used == Cardinality(Used(s))
           ids == [x \in Nodes |-> IF x \in new THEN used + Rank(new, x) ELSE s.ids[x]]
           live == s.live \cup new
           t == [s EXCEPT !.ids = ids, !.live = live]
<1>1. s \in Stream /\ s.ids \in [Nodes -> Nat] /\ s.live \in SUBSET Nodes
  BY DEF StreamOK, Stream
<1>2. /\ Nodes \subseteq Nat /\ IsFiniteSet(Nodes)
      /\ Used(s) \in SUBSET Nodes /\ new \in SUBSET Nodes /\ Used(s) \cap new = {}
      /\ ns \subseteq Used(s) \cup new
  BY <1>1, DomAssumption DEF Used
<1>3. /\ IsFiniteSet(Used(s)) /\ IsFiniteSet(new) /\ used \in Nat /\ Cardinality(new) \in Nat
      /\ Cardinality(Used(s) \cup new) = used + Cardinality(new)
  <2> HIDE DEF new
  <2>1. IsFiniteSet(Used(s)) /\ IsFiniteSet(new)
    BY <1>2, FS_Subset
  <2>2. /\ Cardinality(Used(s)) \in Nat /\ Cardinality(new) \in Nat /\ Cardinality(Used(s) \cap new) = 0
        /\ Cardinality(Used(s) \cup new) = Cardinality(Used(s)) + Cardinality(new) - Cardinality(Used(s) \cap new)
    BY <1>2, <2>1, FS_CardinalityType, FS_Union, FS_EmptySet
  <2> QED
    BY <2>1, <2>2
<1>4. \A x \in new : /\ x \in Nodes /\ Rank(new, x) \in Nat /\ 1 <= Rank(new, x)
                      /\ Rank(new, x) <= Cardinality(new)
                      /\ \A y \in new : x < y => Rank(new, x) < Rank(new, y)
  <2> HIDE DEF new
  <2> QED
    BY <1>2, <1>3, Ranks
<1>5. Named(s, ns) = t
  <2>1. ids = [x \in Nodes |-> IF x \in new THEN used + Cardinality({k \in new : k <= x}) ELSE s.ids[x]]
    BY DEF Rank
  <2> QED
    BY <2>1 DEF Named, Used
<1> HIDE DEF new, used
<1>6. ids \in [Nodes -> Nat]
  BY <1>1, <1>3, <1>4
<1>7. /\ \A x \in new : ids[x] = used + Rank(new, x) /\ ids[x] # 0
      /\ \A x \in Used(s) : ids[x] = s.ids[x] /\ ids[x] # 0 /\ ids[x] <= used
      /\ \A x \in Nodes : ids[x] # 0 => x \in Used(s) \cup new
  <2>1. \A x \in new : ids[x] = used + Rank(new, x)
    BY <1>2
  <2>2. \A x \in Nodes \ new : ids[x] = s.ids[x]
    OBVIOUS
  <2>3. \A x \in Used(s) : x \in Nodes \ new
    BY <1>2
  <2>4. \A x \in Used(s) : s.ids[x] # 0 /\ s.ids[x] <= used
    BY DEF Used, StreamOK, IdsOK, used
  <2>5. \A x \in Nodes \ Used(s) : s.ids[x] = 0
    BY DEF Used
  <2> HIDE DEF ids
  <2>6. \A x \in new : ids[x] # 0
    BY <1>3, <1>4, <2>1
  <2> QED
    BY <2>1, <2>2, <2>3, <2>4, <2>5, <2>6
<1> HIDE DEF ids, live
<1>8. t \in Stream /\ t.ids = ids /\ t.live = live /\ t.id = s.id /\ t.ring = s.ring /\ t.log = s.log /\ t.max = s.max
  <2>1. live \in SUBSET Nodes
    BY <1>1, <1>2 DEF live
  <2> QED
    BY <1>1, <1>6, <2>1 DEF Stream
<1> HIDE DEF t
<1>9. Used(t) = Used(s) \cup new
  BY <1>2, <1>7, <1>8 DEF Used
<1>10. IdsOK(t)
  <2>1. t.live \subseteq Used(t)
    BY <1>8, <1>9 DEF live, StreamOK, IdsOK
  <2>2. \A x \in Used(t) : ids[x] <= used + Cardinality(new)
    <3>1. \A x \in new : ids[x] <= used + Cardinality(new)
      BY <1>3, <1>4, <1>7
    <3>2. ASSUME NEW x \in Used(s) PROVE ids[x] <= used + Cardinality(new)
      <4>1. ids[x] \in Nat /\ ids[x] <= used
        BY <1>2, <1>6, <1>7
      <4> QED
        BY <1>3, <4>1
    <3> QED
      BY <1>9, <3>1, <3>2
  <2>3. ASSUME NEW x \in Used(t), NEW y \in Used(t), ids[x] = ids[y] PROVE x = y
    <3>0. \A a \in Used(s), b \in new : ids[a] # ids[b]
      <4> SUFFICES ASSUME NEW a \in Used(s), NEW b \in new PROVE ids[a] # ids[b]
        OBVIOUS
      <4>1. ids[a] \in Nat /\ ids[a] <= used /\ ids[b] = used + Rank(new, b) /\ Rank(new, b) \in Nat /\ 1 <= Rank(new, b)
        BY <1>2, <1>4, <1>6, <1>7
      <4> QED
        BY <1>3, <4>1
    <3>1. CASE x \in Used(s) /\ y \in Used(s)
      <4>1. s.ids[x] = s.ids[y]
        BY <1>7, <2>3, <3>1
      <4> QED
        BY <3>1, <4>1 DEF StreamOK, IdsOK
    <3>2. CASE x \in new /\ y \in new
      <4>1. x \in Nat /\ y \in Nat /\ Rank(new, x) = Rank(new, y)
        <5>1. x \in Nat /\ y \in Nat /\ Rank(new, x) \in Nat /\ Rank(new, y) \in Nat
          BY <1>2, <1>4, <3>2
        <5>2. used + Rank(new, x) = used + Rank(new, y)
          BY <1>7, <2>3, <3>2
        <5> QED
          BY <1>3, <5>1, <5>2
      <4>2. ~(x < y) /\ ~(y < x)
        BY <1>4, <3>2, <4>1
      <4> QED
        BY <4>1, <4>2
    <3>3. CASE (x \in Used(s) /\ y \in new) \/ (x \in new /\ y \in Used(s))
      BY <2>3, <3>0, <3>3
    <3> QED
      BY <1>9, <3>1, <3>2, <3>3
  <2> QED
    BY <1>3, <1>8, <1>9, <2>1, <2>2, <2>3 DEF IdsOK, used
<1>11. RingOK(t) /\ LogOK(t, n)
  BY <1>8 DEF StreamOK, RingOK, LogOK
<1>12. Continues(s, t)
  <2>1. Len(s.log) \in Nat
    BY <1>1 DEF Stream
  <2> QED
    BY <1>7, <1>8, <2>1 DEF Continues
<1>13. \A x \in ns : t.ids[x] # 0
  BY <1>2, <1>7, <1>8
<1> QED
  BY <1>5, <1>8, <1>10, <1>11, <1>12, <1>13 DEF StreamOK

\* What a stop, a drain and a removed node change keeps the stream what it is.
LEMMA FlagsOK ==
    ASSUME NEW s, NEW m, NEW n, StreamOK(s, m, n), NEW flag \in BOOLEAN, NEW live \in SUBSET s.live
    PROVE  /\ StreamOK([s EXCEPT !.over = flag], m, n) /\ Continues(s, [s EXCEPT !.over = flag])
           /\ StreamOK([s EXCEPT !.active = flag], m, n) /\ Continues(s, [s EXCEPT !.active = flag])
           /\ StreamOK([s EXCEPT !.live = live], m, n) /\ Continues(s, [s EXCEPT !.live = live])
<1>1. s \in Stream /\ s.live \in SUBSET Nodes /\ Len(s.log) \in Nat /\ live \in SUBSET Nodes
  BY DEF StreamOK, Stream
<1> DEFINE t1 == [s EXCEPT !.over = flag]
           t2 == [s EXCEPT !.active = flag]
           t3 == [s EXCEPT !.live = live]
<1>2. \A t \in {t1, t2, t3} : /\ t \in Stream /\ t.id = s.id /\ t.ring = s.ring /\ t.log = s.log /\ t.max = s.max
                              /\ t.ids = s.ids /\ t.live \subseteq s.live
  BY <1>1 DEF Stream
<1> HIDE DEF t1, t2, t3
<1>3. ASSUME NEW t \in {t1, t2, t3} PROVE StreamOK(t, m, n) /\ Continues(s, t)
  <2>1. /\ t \in Stream /\ t.id = s.id /\ t.ring = s.ring /\ t.log = s.log /\ t.max = s.max
        /\ t.ids = s.ids /\ t.live \subseteq s.live
    BY <1>2
  <2>2. RingOK(t) /\ LogOK(t, n)
    BY <2>1 DEF StreamOK, RingOK, LogOK
  <2>3. Used(t) = Used(s)
    BY <2>1 DEF Used
  <2>4. IdsOK(t)
    BY <2>1, <2>3 DEF StreamOK, IdsOK
  <2>5. Continues(s, t)
    BY <1>1, <2>1 DEF Continues
  <2> QED
    BY <2>1, <2>2, <2>4, <2>5 DEF StreamOK
<1> QED
  BY <1>3 DEF t1, t2, t3

LEMMA ContinuesOn ==
    ASSUME NEW s \in Stream, NEW t \in Stream, NEW u \in Stream, Continues(s, t), Continues(t, u), IdsOK(t)
    PROVE  Continues(s, s) /\ Continues(s, u)
<1>1. Len(s.log) \in Nat /\ Len(t.log) \in Nat /\ Len(u.log) \in Nat
  BY DEF Stream
<1>2. \A i \in 1..Len(s.log) : i \in 1..Len(t.log)
  BY <1>1 DEF Continues
<1>3. \A n \in Used(s) : n \in Used(t)
  BY DEF Continues, Used
<1> QED
  BY <1>1, <1>2, <1>3 DEF Continues

LEMMA ReportsOK ==
    ASSUME NEW s, NEW m \in Nat, NEW n \in Nat, StreamOK(s, m, n), NEW node \in Nodes, NEW does
    PROVE  StreamOK(Reports(s, does, node), m, n) /\ Continues(s, Reports(s, does, node))
<1> DEFINE t == Named(s, {node})
           u == [t EXCEPT !.live = @ \ {node}]
<1>1. StreamOK(t, m, n) /\ Continues(s, t)
  BY NamedOK
<1> HIDE DEF t
<1>2. StreamOK(u, m, n) /\ Continues(t, u)
  <2> DEFINE rest == t.live \ {node}
  <2>1. u = [t EXCEPT !.live = rest]
    BY <1>1 DEF StreamOK, Stream
  <2>2. rest \in SUBSET t.live
    OBVIOUS
  <2> HIDE DEF rest, u
  <2> QED
    BY <1>1, <2>1, <2>2, FlagsOK
<1> HIDE DEF u
<1>3. Continues(s, s) /\ Continues(s, u)
  BY <1>1, <1>2, ContinuesOn DEF StreamOK
<1> QED
  BY <1>1, <1>2, <1>3 DEF Reports, t, u

LEMMA ObservesOK ==
    ASSUME NEW s, NEW m \in Nat, StreamOK(s, m, happened), happened \in Nat, NEW node \in Nodes, NEW does,
           NEW size \in 1..(Batch + 1)
    PROVE  /\ StreamOK(Observes(s, size, does, node), m, happened + size)
           /\ Continues(s, Observes(s, size, does, node))
<1> DEFINE t == IF size <= Batch THEN Reports(s, does, node) ELSE [s EXCEPT !.over = TRUE]
           k == happened + size
<1>1. Batch \in Nat \ {0} /\ size \in Nat /\ 1 <= size /\ k \in Nat /\ happened <= k
  BY DomAssumption
<1>2. StreamOK(t, m, happened) /\ Continues(s, t)
  BY ReportsOK, FlagsOK
<1>3. \A i \in 1..size : [kind |-> "record", recs |-> {happened + i}] \in Report(k)
  <2>1. \A i \in 1..size : happened + i \in 1..k
    BY <1>1
  <2> QED
    BY <2>1 DEF Report
<1>4. Events(size) \in Seq(Report(k))
  <2>1. CASE size <= Batch
    <3> DEFINE records == [i \in 1..size |-> [kind |-> "record", recs |-> {happened + i}]]
    <3>1. Events(size) = records
      BY <2>1 DEF Events
    <3>2. records \in Seq(Report(k))
      BY <1>1, <1>3
    <3> QED
      BY <3>1, <3>2
  <2>2. CASE ~(size <= Batch)
    <3> DEFINE records == [i \in 1..Batch |-> [kind |-> "record", recs |-> {happened + i}]]
    <3>1. Events(size) = <<Overflow(size)>> \o records
      BY <2>2 DEF Events
    <3>2. \A i \in 1..Batch : i \in 1..size
      BY <1>1, <2>2
    <3>3. records \in Seq(Report(k))
      BY <1>1, <1>3, <3>2
    <3>4. Overflow(size) \in Report(k)
      <4>1. (happened + Batch + 1)..(happened + size) \subseteq 1..k
        BY <1>1
      <4> QED
        BY <4>1 DEF Overflow, Report
    <3> HIDE DEF records
    <3> DEFINE first == <<Overflow(size)>>
    <3>5. first \in Seq(Report(k))
      BY <3>4
    <3>6. Events(size) = first \o records
      BY <3>1
    <3> HIDE DEF first, k
    <3> QED
      BY <3>3, <3>5, <3>6, ConcatProperties
  <2> QED
    BY <2>1, <2>2
<1>5. Observes(s, size, does, node) = Push(t, Events(size))
  BY DEF Observes
<1> HIDE DEF t, k
<1>6. StreamOK(Push(t, Events(size)), m, k) /\ Continues(t, Push(t, Events(size)))
  BY <1>1, <1>2, <1>4, PushOK
<1>7. Continues(s, Push(t, Events(size)))
  BY <1>2, <1>6, ContinuesOn DEF StreamOK
<1> QED
  BY <1>5, <1>6, <1>7 DEF k

\* A document boots a stream once.
LEMMA BootsOK ==
    ASSUME NEW s, NEW n \in Nat, made \in Nat, StreamOK(s, made, n)
    PROVE  /\ s.active => Boots(s) = s
           /\ ~s.active => Boots(s).id = made + 1
           /\ StreamOK(Boots(s), made + 1, n)
<1>1. CASE s.active
  BY <1>1 DEF Boots, StreamOK, Stream
<1>2. CASE ~s.active
  <2>1. Boots(s) = NewStream(made + 1) /\ made + 1 \in Nat
    BY <1>2 DEF Boots, NewStream
  <2> QED
    BY <1>2, <2>1, NewStreamOK
<1> QED
  BY <1>1, <1>2

LEMMA SmallerRingOK ==
    ASSUME NEW s, NEW m \in Nat, NEW n \in Nat, StreamOK(s, m, n), NEW max \in Nat \ {0}
    PROVE  LET t == [s EXCEPT !.max = max, !.ring = Trim(@, max)]
           IN  StreamOK(t, m, n) /\ Continues(s, t)
<1> DEFINE ring == Trim(s.ring, max)
           t == [s EXCEPT !.max = max, !.ring = ring]
<1>1. s \in Stream /\ s.ring \in Seq(Event) /\ Len(s.log) \in Nat /\ Len(s.ring) \in Nat
  BY DEF StreamOK, Stream
<1>2. /\ ring \in Seq(Event) /\ Len(ring) <= max /\ Len(ring) <= Len(s.ring)
      /\ \A i \in 1..Len(ring) : ring[i] = s.ring[Len(s.ring) - Len(ring) + i]
  BY <1>1, TrimsOldest
<1>3. t = [s EXCEPT !.max = max, !.ring = Trim(@, max)]
  BY <1>1 DEF Stream
<1> HIDE DEF ring
<1>4. Len(ring) \in Nat
  BY <1>2
<1>5. /\ t \in Stream /\ t.id = s.id /\ t.ring = ring /\ t.log = s.log /\ t.max = max
      /\ t.ids = s.ids /\ t.live = s.live
  BY <1>1, <1>2 DEF Stream
<1> HIDE DEF t
<1>6. RingOK(t)
  <2>1. Len(s.ring) <= Len(s.log)
    BY DEF StreamOK, RingOK
  <2>2. ASSUME NEW i \in 1..Len(ring)
        PROVE  ring[i].seq = Len(s.log) - Len(ring) + i /\ ring[i].recs = s.log[ring[i].seq]
    <3> DEFINE h == Len(s.ring) - Len(ring) + i
    <3>1. h \in 1..Len(s.ring) /\ ring[i] = s.ring[h]
      BY <1>1, <1>2, <1>4
    <3>2. s.ring[h].seq = Len(s.log) - Len(s.ring) + h /\ s.ring[h].recs = s.log[s.ring[h].seq]
      BY <3>1 DEF StreamOK, RingOK
    <3> DEFINE l == Len(s.log)
               q == Len(s.ring)
               p == Len(ring)
    <3>3. l \in Nat /\ q \in Nat /\ p \in Nat /\ i \in Int /\ h = q - p + i
      BY <1>1, <1>4
    <3>4. ring[i].seq = l - q + h /\ ring[i].recs = s.log[ring[i].seq]
      BY <3>1, <3>2
    <3> HIDE DEF l, q, p, h
    <3>5. l - q + h = l - p + i
      BY <3>3
    <3> QED
      BY <3>4, <3>5 DEF l, p
  <2> QED
    BY <1>1, <1>2, <1>4, <1>5, <2>1, <2>2 DEF RingOK
<1>7. LogOK(t, n) /\ IdsOK(t) /\ Continues(s, t)
  BY <1>1, <1>5 DEF StreamOK, LogOK, IdsOK, Used, Continues
<1> QED
  BY <1>3, <1>5, <1>6, <1>7 DEF StreamOK

-----------------------------------------------------------------------------
(* What an agent knows of a stream.                                        *)

Reference == [gen : Nat, key : Nat, node : Nat, doc : Nat]
Agent == [stream : Nat, cursor : Nat, known : SUBSET Nat, told : BOOLEAN, ref : Reference,
          hits : SUBSET [ref : Reference, doc : Nat, node : Nat, steady : BOOLEAN]]

\* Up to its cursor it has every record, or was told; its reference, if it is of this stream, is of this
\* document and of the node that still has that id.
Knows(me, s) ==
    /\ me.cursor <= Len(s.log)
    /\ ~me.told => \A seq \in 1..me.cursor : s.log[seq] \subseteq me.known
Refers(ref, s, d) == ref.doc = d /\ ref.node \in Used(s) /\ s.ids[ref.node] = ref.key
HitOwn(hits) == \A hit \in hits : hit.steady => hit.ref.doc = hit.doc /\ hit.ref.node = hit.node
AgentOK(me, s, m, d) ==
    /\ me \in Agent /\ me.stream <= m /\ me.ref.gen <= m
    /\ me.stream = 0 => me.cursor = 0
    /\ me.stream = s.id /\ s.id # 0 => Knows(me, s)
    /\ me.ref.gen = s.id /\ s.id # 0 => Refers(me.ref, s, d)
    /\ HitOwn(me.hits)

LEMMA AgentGoesOn ==
    ASSUME NEW s \in Stream, NEW t \in Stream, NEW m \in Nat, NEW k \in Nat, m <= k, NEW d, NEW me,
           AgentOK(me, s, m, d), Continues(s, t)
    PROVE  AgentOK(me, t, k, d)
<1>1. me \in Agent /\ me.stream \in Nat /\ me.cursor \in Nat /\ me.ref \in Reference /\ me.ref.gen \in Nat
  BY DEF AgentOK, Agent, Reference
<1>2. t.id = s.id /\ Len(s.log) \in Nat /\ Len(t.log) \in Nat /\ Len(s.log) <= Len(t.log)
  BY DEF Continues, Stream
<1>3. Knows(me, s) => Knows(me, t)
  <2>1. ASSUME Knows(me, s), NEW seq \in 1..me.cursor PROVE t.log[seq] = s.log[seq]
    BY <1>1, <1>2, <2>1 DEF Knows, Continues
  <2> QED
    BY <1>1, <1>2, <2>1 DEF Knows
<1>4. Refers(me.ref, s, d) => Refers(me.ref, t, d)
  BY DEF Refers, Continues, Used
<1> QED
  BY <1>1, <1>2, <1>3, <1>4 DEF AgentOK

LEMMA AgentLeftBehind ==
    ASSUME NEW s, NEW t, NEW m \in Nat, NEW k \in Nat, m <= k, NEW d, NEW e, NEW me,
           AgentOK(me, s, m, d), t.id = 0 \/ t.id = m + 1
    PROVE  AgentOK(me, t, k, e)
<1>1. me \in Agent /\ me.stream \in Nat /\ me.ref \in Reference /\ me.ref.gen \in Nat
  BY DEF AgentOK, Agent, Reference
<1>2. me.stream <= m /\ me.ref.gen <= m
  BY DEF AgentOK
<1>3. t.id # 0 => me.stream # t.id /\ me.ref.gen # t.id
  BY <1>1, <1>2
<1>4. me.stream <= k /\ me.ref.gen <= k
  BY <1>1, <1>2
<1> QED
  BY <1>3, <1>4 DEF AgentOK

-----------------------------------------------------------------------------
(* The invariant.                                                          *)

\* A tool that goes on to ask the page has a stream there to ask.
Ready(r) == At(r, "configure") \/ At(r, "wait") \/ (At(r, "call") /\ tool[r].name # "status")
Booted ==
    /\ stream.active => stream.id # 0
    /\ \A r \in Readers : (At(r, "boot") => script) /\ (Ready(r) => script /\ stream.id # 0)

\* An action whose node is still in view was given it by its reference.
Aiming(r) == At(r, "press") \/ At(r, "input")
Aimed == \A r \in Readers : Aiming(r) /\ Steady(r) => reader[r].ref.doc = doc /\ reader[r].ref.node = view.node

View == [by : Readers \cup {None}, node : Nat]
Types ==
    /\ view \in View
    /\ doc \in Nat /\ connected \subseteq Nodes /\ happened \in Nat /\ made \in Nat
    /\ binding \in BOOLEAN /\ script \in BOOLEAN
    /\ entry \in [id : Nat, refsLive : BOOLEAN] /\ entry.id <= made
    /\ DOMAIN tool = Readers /\ (\A r \in Readers : DOMAIN tool[r] = {"at", "name", "todo"})
    /\ DOMAIN reader = Readers

Agents == \A r \in Readers : AgentOK(reader[r], stream, made, doc)
DomInv == Types /\ StreamOK(stream, made, happened) /\ Booted /\ Agents /\ Aimed

LEMMA DomInvInit == Init => DomInv
<1> SUFFICES ASSUME Init PROVE DomInv
  OBVIOUS
<1>1. PICK plan \in Plans : tool = [r \in Readers |-> [Idle EXCEPT !.todo = plan.runs[r]]]
  BY DEF Init
<1>2. /\ DOMAIN tool = Readers
      /\ \A r \in Readers : DOMAIN tool[r] = {"at", "name", "todo"} /\ tool[r].at = "none"
  BY <1>1 DEF Idle
<1>3. Types
  <2>1. entry = [id |-> 0, refsLive |-> FALSE] /\ made = 0
    BY DEF Init
  <2>2. entry \in [id : Nat, refsLive : BOOLEAN] /\ entry.id <= made
    BY <2>1
  <2>3. view \in View
    BY DEF Init, Elsewhere, View
  <2> QED
    BY <1>2, <2>2, <2>3 DEF Init, Types
<1>4. StreamOK(stream, made, happened)
  BY NewStreamOK DEF Init
<1>5. Booted
  <2>1. ~stream.active
    BY DEF Init, NoStream
  <2> QED
    BY <1>2, <2>1 DEF Booted, Ready, At
<1>6. ASSUME NEW r \in Readers PROVE AgentOK(reader[r], stream, made, doc)
  <2>1. /\ reader[r] = [stream |-> 0, cursor |-> 0, known |-> {}, told |-> FALSE, ref |-> NoRef, hits |-> {}]
        /\ stream.id = 0 /\ made = 0
    BY DEF Init, NoStream
  <2>2. NoRef \in Reference /\ NoRef.gen = 0
    BY DEF NoRef, Reference
  <2> QED
    BY <2>1, <2>2 DEF AgentOK, Agent, HitOwn
<1>7. Aimed
  BY <1>2 DEF Aimed, Aiming, At
<1> QED
  BY <1>3, <1>4, <1>5, <1>6, <1>7 DEF DomInv, Agents

\* Nobody's node is in view.
LEMMA ElsewhereOK == Elsewhere \in View /\ \A r \in Readers : Elsewhere.by # r
BY DomAssumption DEF Elsewhere, View

\* Whatever one agent does short of aiming, the others' aims are what they were.
LEMMA AimsStand ==
    ASSUME DomInv, NEW r \in Readers, ~Aiming(r)', \A q \in Readers \ {r} : tool'[q] = tool[q],
           doc' = doc, view' \in {view, Elsewhere}, \A q \in Readers \ {r} : reader'[q] = reader[q]
    PROVE  Aimed' /\ view' \in View
<1>1. ASSUME NEW q \in Readers, Aiming(q)', view'.by = q PROVE reader'[q].ref.doc = doc /\ reader'[q].ref.node = view'.node
  <2>1. q # r /\ view' = view /\ tool'[q] = tool[q] /\ reader'[q] = reader[q]
    BY <1>1, ElsewhereOK
  <2> QED
    BY <1>1, <2>1 DEF DomInv, Aimed, Aiming, At, Steady
<1> QED
  BY <1>1, ElsewhereOK DEF Aimed, Steady, DomInv, Types

\* When no agent learns anything, it is enough to look at the stream.
LEMMA OnlyThePage ==
    ASSUME DomInv, reader' = reader, made' \in Nat, made <= made', StreamOK(stream, made, happened)',
           \/ doc' = doc /\ Continues(stream, stream')
           \/ stream'.id = 0 \/ stream'.id = made + 1
    PROVE  Agents'
<1>1. stream \in Stream /\ stream' \in Stream /\ made \in Nat
  BY DEF DomInv, Types, StreamOK
<1>2. ASSUME NEW r \in Readers PROVE AgentOK(reader[r], stream', made', doc')
  <2>1. AgentOK(reader[r], stream, made, doc)
    BY DEF DomInv, Agents
  <2>2. CASE doc' = doc /\ Continues(stream, stream')
    BY <1>1, <2>1, <2>2, AgentGoesOn
  <2>3. CASE stream'.id = 0 \/ stream'.id = made + 1
    BY <1>1, <2>1, <2>3, AgentLeftBehind
  <2> QED
    BY <2>2, <2>3
<1> QED
  BY <1>2 DEF Agents

\* A tool moves on: what was prepared for it is still there.
Asks(r, at) == at \in {"configure", "wait"} \/ (at = "call" /\ tool[r].name # "status")

LEMMA ToolMoves ==
    ASSUME DomInv, NEW r \in Readers, NEW at \in {"none", "boot", "configure", "call", "wait", "press", "input"},
           tool' = [tool EXCEPT ![r].at = at], script => script',
           at = "boot" \/ Asks(r, at) => script', Asks(r, at) => stream'.id # 0,
           stream.id # 0 => stream'.id # 0, stream'.active => stream'.id # 0
    PROVE  /\ Booted' /\ DOMAIN tool' = Readers
           /\ \A q \in Readers : DOMAIN tool'[q] = {"at", "name", "todo"}
<1>1. /\ DOMAIN tool = Readers /\ \A q \in Readers : DOMAIN tool[q] = {"at", "name", "todo"}
  BY DEF DomInv, Types
<1>2. /\ DOMAIN tool' = Readers /\ \A q \in Readers : DOMAIN tool'[q] = {"at", "name", "todo"}
      /\ tool'[r].at = at /\ tool'[r].name = tool[r].name
      /\ \A q \in Readers \ {r} : tool'[q] = tool[q]
  BY <1>1
<1>3. ASSUME NEW q \in Readers PROVE (At(q, "boot")' => script') /\ (Ready(q)' => script' /\ stream'.id # 0)
  <2>1. CASE q = r
    BY <1>2, <2>1 DEF At, Ready, Asks
  <2>2. CASE q # r
    BY <1>2, <2>2 DEF At, Ready, DomInv, Booted
  <2> QED
    BY <2>1, <2>2
<1> QED
  BY <1>2, <1>3 DEF Booted

LEMMA AimsStandWhen ==
    ASSUME DomInv, NEW r \in Readers, NEW at \in {"none", "boot", "configure", "call", "wait"},
           tool' = [tool EXCEPT ![r].at = at],
           doc' = doc, view' \in {view, Elsewhere}, \A q \in Readers \ {r} : reader'[q] = reader[q]
    PROVE  Aimed' /\ view' \in View
<1>1. DOMAIN tool = Readers /\ "at" \in DOMAIN tool[r]
  BY DEF DomInv, Types
<1>2. tool'[r].at = at /\ \A q \in Readers \ {r} : tool'[q] = tool[q]
  BY <1>1
<1>3. ~Aiming(r)'
  BY <1>2 DEF Aiming, At
<1> QED
  BY <1>2, <1>3, AimsStand

LEMMA RecordOK ==
    ASSUME Types, NEW id \in Nat, id <= made, NEW refsLive, Record(id, refsLive)
    PROVE  entry' \in [id : Nat, refsLive : BOOLEAN] /\ entry'.id <= made
<1> DEFINE e == IF id # 0 /\ id # entry.id THEN [id |-> id, refsLive |-> FALSE] ELSE entry
<1>1. e \in [id : Nat, refsLive : BOOLEAN] /\ e.id <= made
  BY DEF Types
<1>2. entry' = IF refsLive = "same" THEN e ELSE [e EXCEPT !.refsLive = (refsLive = "yes")]
  BY DEF Record
<1> HIDE DEF e
<1>3. (refsLive = "yes") \in BOOLEAN
  OBVIOUS
<1> QED
  BY <1>1, <1>2, <1>3

\* Whatever one agent learns, the others keep what they have.
LEMMA OneAgentLearns ==
    ASSUME DomInv, NEW r \in Readers, NEW me, reader' = [reader EXCEPT ![r] = me],
           doc' = doc, made' = made, stream' \in Stream, Continues(stream, stream'),
           AgentOK(me, stream', made, doc)
    PROVE  DOMAIN reader' = Readers /\ Agents' /\ \A q \in Readers \ {r} : reader'[q] = reader[q]
<1>1. stream \in Stream /\ made \in Nat /\ DOMAIN reader = Readers
  BY DEF DomInv, Types, StreamOK
<1>2. ASSUME NEW q \in Readers PROVE AgentOK(reader'[q], stream', made, doc)
  <2>1. CASE q = r
    BY <1>1, <2>1
  <2>2. CASE q # r
    <3>1. AgentOK(reader[q], stream, made, doc) /\ reader'[q] = reader[q]
      BY <1>1, <2>2 DEF DomInv, Agents
    <3> QED
      BY <1>1, <3>1, AgentGoesOn
  <2> QED
    BY <2>1, <2>2
<1> QED
  BY <1>1, <1>2 DEF Agents

LEMMA MutatesKeeps == ASSUME DomInv, Mutates PROVE DomInv'
<1>1. PICK size \in 1..(Batch + 1), node \in Nodes, does \in {"changes", "adds", "removes", "moves"} :
         /\ connected' = CASE does = "adds" -> connected \cup {node}
                            [] does = "removes" -> connected \ {node}
                            [] OTHER -> connected
         /\ happened' = happened + size
         /\ stream' = IF stream.active THEN Observes(stream, size, does, node) ELSE stream
         /\ view' = Elsewhere
         /\ UNCHANGED <<doc, made, binding, script, entry, tool, reader>>
  BY DEF Mutates
<1>2. /\ happened \in Nat /\ size \in Nat /\ happened' \in Nat /\ happened <= happened' /\ made \in Nat
      /\ StreamOK(stream, made, happened) /\ stream \in Stream
  BY <1>1, DomAssumption DEF DomInv, Types, StreamOK
<1>3. StreamOK(stream, made, happened')
  <2>1. 1..happened \subseteq 1..happened'
    BY <1>2
  <2> QED
    BY <1>2, <2>1 DEF StreamOK, LogOK
<1>4. StreamOK(stream', made, happened') /\ Continues(stream, stream')
  <2>1. CASE stream.active
    BY <1>1, <1>2, <2>1, ObservesOK
  <2>2. CASE ~stream.active
    <3>1. stream' = stream
      BY <1>1, <2>2
    <3>2. Continues(stream, stream)
      BY <1>2 DEF Continues, Stream
    <3> QED
      BY <1>3, <3>1, <3>2
  <2> QED
    BY <2>1, <2>2
<1>5. connected' \subseteq Nodes
  BY <1>1 DEF DomInv, Types
<1>6. Types' /\ Aimed'
  BY <1>1, <1>2, <1>5, ElsewhereOK DEF DomInv, Types, Aimed, Steady
<1>7. Booted'
  <2>1. stream'.id = stream.id
    BY <1>4 DEF Continues
  <2>2. stream'.active => stream.active
    BY <1>1
  <2> QED
    BY <1>1, <2>1, <2>2 DEF DomInv, Booted, Ready, At
<1>8. Agents'
  BY <1>1, <1>2, <1>4, OnlyThePage
<1> QED
  BY <1>1, <1>4, <1>6, <1>7, <1>8 DEF DomInv

LEMMA NavigatesKeeps == ASSUME DomInv, Navigates PROVE DomInv'
<1>1. /\ doc \in Nat /\ made \in Nat /\ doc' = doc + 1 /\ happened' = 0 /\ connected' = Nodes /\ view' = Elsewhere
      /\ UNCHANGED <<binding, script, entry, tool, reader>>
      /\ IF script THEN stream' = Boots(NoStream) /\ made' = made + 1 ELSE stream' = NoStream /\ made' = made
  BY DEF Navigates, DomInv, Types
<1>2. NoStream.active = FALSE /\ NoStream.id = 0
  BY DEF NoStream
<1>3. /\ made' \in Nat /\ made <= made' /\ StreamOK(stream', made', 0)
      /\ script => stream'.id = made + 1
      /\ ~script => stream'.id = 0 /\ ~stream'.active
  <2>1. CASE script
    <3>1. StreamOK(NoStream, made, 0)
      BY <1>1, NewStreamOK
    <3> QED
      BY <1>1, <1>2, <2>1, <3>1, BootsOK
  <2>2. CASE ~script
    BY <1>1, <1>2, <2>2, NewStreamOK
  <2> QED
    BY <2>1, <2>2
<1>4. Types' /\ Aimed'
  <2>1. entry'.id <= made'
    <3>1. entry.id \in Nat /\ entry.id <= made
      BY DEF DomInv, Types
    <3> QED
      BY <1>1, <1>3, <3>1
  <2>2. Aimed'
    BY <1>1, ElsewhereOK DEF Aimed, Steady
  <2> QED
    BY <1>1, <1>3, <2>1, <2>2, ElsewhereOK DEF DomInv, Types
<1>5. Booted'
  <2>1. made + 1 # 0
    BY <1>1
  <2> QED
    BY <1>1, <1>3, <2>1 DEF DomInv, Booted, Ready, At
<1>6. Agents'
  BY <1>1, <1>3, OnlyThePage
<1> QED
  BY <1>1, <1>3, <1>4, <1>5, <1>6 DEF DomInv

LEMMA ShiftsKeeps == ASSUME DomInv, Shifts PROVE DomInv'
<1>1. view' = Elsewhere /\ UNCHANGED <<doc, connected, happened, stream, made, binding, script, entry, tool, reader>>
  BY DEF Shifts
<1> QED
  BY <1>1, ElsewhereOK DEF DomInv, Types, Booted, At, Ready, Agents, Aimed, Steady

-----------------------------------------------------------------------------
(* The steps of a tool.                                                    *)

\* A tool's step keeps the document; the rest is the stream, the entry and the agents.
LEMMA ToolKeeps ==
    ASSUME DomInv, doc' = doc, connected' = connected, happened' = happened,
           made' \in Nat, binding' \in BOOLEAN, script' \in BOOLEAN,
           entry' \in [id : Nat, refsLive : BOOLEAN], entry'.id <= made',
           StreamOK(stream', made', happened), DOMAIN reader' = Readers, Agents',
           Booted', Aimed', view' \in View, DOMAIN tool' = Readers,
           \A q \in Readers : DOMAIN tool'[q] = {"at", "name", "todo"}
    PROVE  DomInv'
BY DEF DomInv, Types

\* What a step leaves alone stays as good as it was.
LEMMA Untouched ==
    ASSUME DomInv
    PROVE  /\ happened \in Nat /\ made \in Nat /\ doc \in Nat /\ binding \in BOOLEAN /\ script \in BOOLEAN
           /\ stream \in Stream /\ StreamOK(stream, made, happened) /\ Continues(stream, stream)
           /\ stream.id \in Nat /\ stream.id <= made /\ (stream.active => stream.id # 0)
           /\ entry \in [id : Nat, refsLive : BOOLEAN] /\ entry.id <= made
           /\ DOMAIN reader = Readers /\ view \in View
BY DEF DomInv, Types, StreamOK, Stream, Booted, Continues

LEMMA BeginsKeeps == ASSUME DomInv, NEW r \in Readers, Begins(r) PROVE DomInv'
<1>1. /\ DOMAIN tool = Readers /\ \A q \in Readers : DOMAIN tool[q] = {"at", "name", "todo"}
  BY DEF DomInv, Types
<1>2. /\ UNCHANGED <<pageVars, binding, script, entry, reader>>
      /\ \E name, at, todo : /\ tool' = [tool EXCEPT ![r] = [at |-> at, name |-> name, todo |-> todo]]
                             /\ at = (IF name = "status" THEN "call" ELSE "install")
  BY DEF Begins
<1>3. PICK name, at, todo : /\ tool' = [tool EXCEPT ![r] = [at |-> at, name |-> name, todo |-> todo]]
                            /\ at = (IF name = "status" THEN "call" ELSE "install")
  BY <1>2
<1>4. /\ DOMAIN tool' = Readers /\ tool'[r] = [at |-> at, name |-> name, todo |-> todo]
      /\ \A q \in Readers \ {r} : tool'[q] = tool[q]
  BY <1>1, <1>3
<1>5. /\ \A q \in Readers : DOMAIN tool'[q] = {"at", "name", "todo"}
      /\ tool'[r].at = at /\ tool'[r].name = name
  BY <1>1, <1>4
<1>6. Booted'
  <2>1. ASSUME NEW q \in Readers PROVE (At(q, "boot")' => script) /\ (Ready(q)' => script /\ stream.id # 0)
    <3>1. CASE q = r
      BY <1>3, <1>5, <3>1 DEF At, Ready
    <3>2. CASE q # r
      BY <1>4, <3>2 DEF At, Ready, DomInv, Booted
    <3> QED
      BY <3>1, <3>2
  <2> QED
    BY <1>2, <2>1 DEF Booted, pageVars, DomInv
<1>7. Agents'
  BY <1>2 DEF pageVars, Agents, DomInv
<1>8. Aimed' /\ view' \in View
  <2>1. ~Aiming(r)'
    BY <1>3, <1>5 DEF Aiming, At
  <2> QED
    BY <1>2, <1>4, <2>1, AimsStand DEF pageVars
<1> QED
  BY <1>2, <1>4, <1>5, <1>6, <1>7, <1>8, Untouched, ToolKeeps DEF pageVars

LEMMA InstallsKeeps == ASSUME DomInv, NEW r \in Readers, Installs(r) PROVE DomInv'
<1>1. UNCHANGED <<pageVars, entry, reader>> /\ binding' \in BOOLEAN /\ script' \in BOOLEAN /\ (script => script')
  <2>1. /\ UNCHANGED <<pageVars, entry, reader>>
        /\ binding' = TRUE \/ binding' = binding
        /\ script' = TRUE \/ script' = script
    BY DEF Installs
  <2>2. UNCHANGED <<pageVars, entry, reader>>
    BY <2>1
  <2>3. binding' \in BOOLEAN /\ script' \in BOOLEAN
    BY <2>1, Untouched
  <2>4. script => script'
    BY <2>1
  <2> QED
    BY <2>2, <2>3, <2>4
<1>2. Agents'
  BY <1>1 DEF pageVars, Agents, DomInv
<1>3. /\ Booted' /\ DOMAIN tool' = Readers
      /\ \A q \in Readers : DOMAIN tool'[q] = {"at", "name", "todo"}
  <2>1. CASE tool' = tool /\ script' = script
    BY <1>1, <2>1 DEF DomInv, Types, Booted, At, Ready, pageVars
  <2>2. CASE script' /\ Goes(r, "boot")
    <3>1. ~Asks(r, "boot")
      BY DEF Asks
    <3> QED
      BY <1>1, <2>2, <3>1, Untouched, ToolMoves DEF pageVars, Goes
  <2> QED
    BY <1>1, <2>1, <2>2 DEF Installs
<1>4. Aimed' /\ view' \in View
  <2>1. view' = view /\ doc' = doc /\ reader' = reader
    BY <1>1 DEF pageVars
  <2>2. CASE tool' = tool
    BY <2>1, <2>2, Untouched DEF DomInv, Aimed, Aiming, At, Steady
  <2>3. CASE Goes(r, "boot")
    BY <2>1, <2>3, AimsStandWhen DEF Goes
  <2> QED
    BY <2>2, <2>3 DEF Installs
<1> QED
  BY <1>1, <1>2, <1>3, <1>4, Untouched, ToolKeeps DEF pageVars

LEMMA PreparesKeeps == ASSUME DomInv, NEW r \in Readers, Prepares(r) PROVE DomInv'
<1> DEFINE at == IF tool[r].name = "start" THEN "configure" ELSE "call"
<1>1. /\ stream' = Boots(stream) /\ made' = (IF stream.active THEN made ELSE made + 1)
      /\ tool' = [tool EXCEPT ![r].at = at] /\ script
      /\ UNCHANGED <<doc, connected, happened, view, binding, script, entry, reader>>
  BY DEF Prepares, Goes, At, DomInv, Booted
<1>2. made' \in Nat /\ made <= made'
  BY <1>1, Untouched
<1>3. /\ stream'.id # 0 /\ StreamOK(stream', made', happened)
      /\ Continues(stream, stream') \/ stream'.id = made + 1
  <2>1. CASE stream.active
    BY <1>1, <2>1, BootsOK, Untouched
  <2>2. CASE ~stream.active
    <3>1. made + 1 # 0
      BY Untouched
    <3> QED
      BY <1>1, <2>2, <3>1, BootsOK, Untouched
  <2> QED
    BY <2>1, <2>2
<1>4. Agents'
  BY <1>1, <1>2, <1>3, OnlyThePage
<1>5. entry' \in [id : Nat, refsLive : BOOLEAN] /\ entry'.id <= made'
  <2>1. entry.id \in Nat
    BY Untouched
  <2> QED
    BY <1>1, <1>2, <2>1, Untouched
<1>6. at \in {"none", "boot", "configure", "call", "wait"}
  OBVIOUS
<1> HIDE DEF at
<1>7. /\ Booted' /\ DOMAIN tool' = Readers
      /\ \A q \in Readers : DOMAIN tool'[q] = {"at", "name", "todo"}
  BY <1>1, <1>3, <1>6, ToolMoves
<1>8. Aimed' /\ view' \in View
  BY <1>1, <1>6, AimsStandWhen
<1> QED
  BY <1>1, <1>2, <1>3, <1>4, <1>5, <1>7, <1>8, Untouched, ToolKeeps

LEMMA ConfiguresKeeps == ASSUME DomInv, NEW r \in Readers, Configures(r) PROVE DomInv'
<1>1. /\ tool' = [tool EXCEPT ![r].at = "call"] /\ script /\ stream.id # 0
      /\ UNCHANGED <<doc, connected, happened, made, view, binding, script, entry, reader>>
  BY DEF Configures, Goes, At, Ready, DomInv, Booted
<1>2. PICK max \in Rings : stream' = [stream EXCEPT !.max = max, !.ring = Trim(@, max)]
  BY <1>1 DEF Configures
<1>3. max \in Nat \ {0}
  BY DomAssumption
<1>4. StreamOK(stream', made, happened) /\ Continues(stream, stream')
  BY <1>2, <1>3, Untouched, SmallerRingOK
<1>5. stream'.id = stream.id
  BY <1>4 DEF Continues
<1>6. Agents'
  BY <1>1, <1>4, Untouched, OnlyThePage
<1>7. /\ Booted' /\ DOMAIN tool' = Readers
      /\ \A q \in Readers : DOMAIN tool'[q] = {"at", "name", "todo"}
  BY <1>1, <1>5, ToolMoves
<1>8. Aimed' /\ view' \in View
  BY <1>1, AimsStandWhen
<1> QED
  BY <1>1, <1>4, <1>6, <1>7, <1>8, Untouched, ToolKeeps

\* What a call that failed may have done: the stream is another, or the old one goes on.
LEMMA DoneOK ==
    ASSUME DomInv, NEW r \in Readers, stream' \in {stream} \cup Done(r),
           made' = IF stream'.id > made THEN made + 1 ELSE made
    PROVE  /\ made' \in Nat /\ made <= made' /\ StreamOK(stream', made', happened)
           /\ Continues(stream, stream') \/ (stream'.id = made + 1 /\ stream'.id # 0)
           /\ stream'.active => stream'.id # 0
<1>1. ASSUME StreamOK(stream', made, happened), Continues(stream, stream'), stream'.active => stream.active
      PROVE  /\ made' \in Nat /\ made <= made' /\ StreamOK(stream', made', happened)
             /\ Continues(stream, stream') \/ (stream'.id = made + 1 /\ stream'.id # 0)
             /\ stream'.active => stream'.id # 0
  <2>1. stream'.id = stream.id
    BY <1>1 DEF Continues
  <2>2. made' = made
    BY <2>1, Untouched
  <2> QED
    BY <1>1, <2>1, <2>2, Untouched
<1>2. CASE stream' = Boots(stream)
  <2>1. CASE stream.active
    <3>1. stream' = stream
      BY <1>2, <2>1, BootsOK, Untouched
    <3> QED
      BY <1>1, <3>1, Untouched
  <2>2. CASE ~stream.active
    <3>1. stream'.id = made + 1 /\ StreamOK(stream', made + 1, happened)
      BY <1>2, <2>2, BootsOK, Untouched
    <3>2. made' = made + 1 /\ made + 1 # 0 /\ made + 1 \in Nat /\ made <= made + 1
      BY <3>1, Untouched
    <3> QED
      BY <3>1, <3>2
  <2> QED
    BY <2>1, <2>2
<1>3. ASSUME NEW max \in Rings, stream' = [stream EXCEPT !.max = max, !.ring = Trim(@, max)]
      PROVE  StreamOK(stream', made, happened) /\ Continues(stream, stream') /\ stream'.active = stream.active
  <2>1. max \in Nat \ {0}
    BY DomAssumption
  <2>2. StreamOK(stream', made, happened) /\ Continues(stream, stream')
    BY <1>3, <2>1, Untouched, SmallerRingOK
  <2>3. stream'.active = stream.active
    BY <1>3, Untouched DEF Stream
  <2> QED
    BY <2>2, <2>3
<1>4. ASSUME stream' = Named(stream, connected)
      PROVE  StreamOK(stream', made, happened) /\ Continues(stream, stream') /\ stream'.active = stream.active
  <2>1. connected \in SUBSET Nodes
    BY DEF DomInv, Types
  <2>2. StreamOK(stream', made, happened) /\ Continues(stream, stream')
    BY <1>4, <2>1, Untouched, NamedOK
  <2>3. stream'.active = stream.active
    BY <1>4, Untouched DEF Named, Stream
  <2> QED
    BY <2>2, <2>3
<1>5. ASSUME stream' = [stream EXCEPT !.over = FALSE] \/ stream' = [stream EXCEPT !.active = FALSE]
      PROVE  StreamOK(stream', made, happened) /\ Continues(stream, stream') /\ (stream'.active => stream.active)
  <2> DEFINE over == [stream EXCEPT !.over = FALSE]
             stopped == [stream EXCEPT !.active = FALSE]
  <2>1. /\ StreamOK(over, made, happened) /\ Continues(stream, over)
        /\ StreamOK(stopped, made, happened) /\ Continues(stream, stopped)
    BY Untouched, FlagsOK
  <2>2. over.active = stream.active /\ stopped.active = FALSE
    BY Untouched DEF Stream
  <2>3. stream' = over \/ stream' = stopped
    BY <1>5
  <2> HIDE DEF over, stopped
  <2> QED
    BY <2>1, <2>2, <2>3
<1>6. CASE stream' = stream
  BY <1>1, <1>6, Untouched
<1>7. \/ stream' = stream \/ stream' = Boots(stream) \/ stream' = Named(stream, connected)
      \/ \E max \in Rings : stream' = [stream EXCEPT !.max = max, !.ring = Trim(@, max)]
      \/ stream' = [stream EXCEPT !.over = FALSE] \/ stream' = [stream EXCEPT !.active = FALSE]
  BY DEF Done
<1> QED
  BY <1>1, <1>2, <1>3, <1>4, <1>5, <1>6, <1>7

LEMMA FailsKeeps == ASSUME DomInv, NEW r \in Readers, Fails(r) PROVE DomInv'
<1>1. /\ tool' = [tool EXCEPT ![r].at = "none"]
      /\ UNCHANGED <<doc, connected, happened, entry, reader>>
      /\ made' = IF stream'.id > made THEN made + 1 ELSE made
      /\ stream' \in {stream} \cup Done(r) /\ view' \in {view, Elsewhere}
  BY DEF Fails, Ends
<1>2. /\ made' \in Nat /\ made <= made' /\ StreamOK(stream', made', happened)
      /\ Continues(stream, stream') \/ (stream'.id = made + 1 /\ stream'.id # 0)
      /\ stream'.active => stream'.id # 0
  BY <1>1, DoneOK
<1>3. Agents'
  BY <1>1, <1>2, OnlyThePage
<1>4. entry' \in [id : Nat, refsLive : BOOLEAN] /\ entry'.id <= made'
  <2>1. entry.id \in Nat
    BY Untouched
  <2> QED
    BY <1>1, <1>2, <2>1, Untouched
<1>5. stream.id # 0 => stream'.id # 0
  BY <1>2 DEF Continues
<1>6. binding' \in BOOLEAN /\ script' \in BOOLEAN /\ (script => script')
  <2>1. At(r, "install") \in BOOLEAN
    BY DEF At
  <2>2. /\ binding' = binding \/ binding' = (binding \/ At(r, "install"))
        /\ script' = script \/ script' = (script \/ (binding /\ At(r, "install")))
    BY DEF Fails
  <2> QED
    BY <2>1, <2>2, Untouched
<1>7. /\ Booted' /\ DOMAIN tool' = Readers
      /\ \A q \in Readers : DOMAIN tool'[q] = {"at", "name", "todo"}
  <2>1. ~Asks(r, "none")
    BY DEF Asks
  <2> QED
    BY <1>1, <1>2, <1>5, <1>6, <2>1, ToolMoves
<1>8. Aimed' /\ view' \in View
  BY <1>1, AimsStandWhen
<1> QED
  BY <1>1, <1>2, <1>3, <1>4, <1>6, <1>7, <1>8, Untouched, ToolKeeps

\* The page answered: the tool ends, or waits, and the entry is recorded.
LEMMA AnswerKeeps ==
    ASSUME DomInv, NEW r \in Readers, ~At(r, "none"), NEW at \in {"none", "wait", "call"},
           tool' = [tool EXCEPT ![r].at = at],
           at # "none" => script /\ stream.id # 0,
           UNCHANGED <<doc, connected, happened, made, view, binding, script>>,
           \A q \in Readers \ {r} : reader'[q] = reader[q],
           entry' \in [id : Nat, refsLive : BOOLEAN], entry'.id <= made,
           StreamOK(stream', made, happened), stream'.id = stream.id, stream'.active => stream.active,
           DOMAIN reader' = Readers, Agents'
    PROVE  DomInv'
<1>1. /\ Booted' /\ DOMAIN tool' = Readers
      /\ \A q \in Readers : DOMAIN tool'[q] = {"at", "name", "todo"}
  <2>1. at \in {"none", "boot", "configure", "call", "wait"}
    OBVIOUS
  <2>2. Asks(r, at) => at # "none"
    BY DEF Asks
  <2>3. at # "boot"
    OBVIOUS
  <2>4. stream'.active => stream'.id # 0
    BY Untouched
  <2> QED
    BY <2>1, <2>2, <2>3, <2>4, ToolMoves
<1>2. Aimed' /\ view' \in View
  BY AimsStandWhen
<1> QED
  BY <1>1, <1>2, Untouched, ToolKeeps

\* An agent that has just seen the page knows it.
LEMMA UpToDateOK ==
    ASSUME DomInv, NEW r \in Readers, stream.id # 0
    PROVE  AgentOK(UpToDate(r), stream, made, doc)
<1>1. AgentOK(reader[r], stream, made, doc) /\ reader[r] \in Agent
  BY DEF DomInv, Agents, AgentOK
<1>2. stream.id \in Nat /\ stream.id <= made /\ Len(stream.log) \in Nat /\ 1..happened \in SUBSET Nat
  BY Untouched DEF Stream
<1> DEFINE me == UpToDate(r)
           l == Len(stream.log)
           all == 1..happened
<1> HIDE DEF l, all
<1>3. me = [reader[r] EXCEPT !.stream = stream.id, !.cursor = l, !.known = all, !.told = FALSE]
  BY DEF UpToDate, l, all
<1> HIDE DEF me
<1>4. /\ me \in Agent /\ me.stream = stream.id /\ me.cursor = l /\ me.known = all
      /\ me.ref = reader[r].ref /\ me.hits = reader[r].hits
  BY <1>1, <1>2, <1>3 DEF Agent, l, all
<1>5. Knows(me, stream)
  <2>1. \A i \in 1..l : stream.log[i] \subseteq all
    BY DEF DomInv, StreamOK, LogOK, l, all
  <2> QED
    BY <1>2, <1>4, <2>1 DEF Knows, l
<1> QED
  BY <1>1, <1>2, <1>4, <1>5 DEF AgentOK, me

LEMMA StartsKeeps == ASSUME DomInv, NEW r \in Readers, Starts(r) PROVE DomInv'
<1>1. /\ stream.id # 0 /\ ~At(r, "none")
      /\ UNCHANGED <<pageVars, binding, script>> /\ tool' = [tool EXCEPT ![r].at = "none"]
      /\ reader' = [reader EXCEPT ![r] = UpToDate(r)] /\ Record(stream.id, "same")
  BY DEF Starts, Running, At, Ends, Ready, DomInv, Booted
<1>2. entry' \in [id : Nat, refsLive : BOOLEAN] /\ entry'.id <= made
  BY <1>1, Untouched, RecordOK DEF DomInv
<1>3. DOMAIN reader' = Readers /\ Agents' /\ \A q \in Readers \ {r} : reader'[q] = reader[q]
  BY <1>1, Untouched, UpToDateOK, OneAgentLearns DEF pageVars
<1> QED
  BY <1>1, <1>2, <1>3, Untouched, AnswerKeeps DEF pageVars

LEMMA SnapshotsKeeps == ASSUME DomInv, NEW r \in Readers, Snapshots(r) PROVE DomInv'
<1>1. /\ stream.id # 0 /\ ~At(r, "none")
      /\ stream' = Named(stream, connected)
      /\ UNCHANGED <<doc, connected, happened, made, view, binding, script>>
      /\ tool' = [tool EXCEPT ![r].at = "none"] /\ Record(stream.id, "yes")
  BY DEF Snapshots, Running, At, Ends, Ready, DomInv, Booted
<1>2. PICK ref \in {Ref(stream', n) : n \in connected} \cup {NoRef} :
         reader' = [reader EXCEPT ![r] = [UpToDate(r) EXCEPT !.ref = ref]]
  BY DEF Snapshots
<1>3. connected \in SUBSET Nodes
  BY DEF DomInv, Types
<1>4. /\ StreamOK(stream', made, happened) /\ Continues(stream, stream') /\ stream' \in Stream
      /\ \A n \in connected : stream'.ids[n] # 0
  BY <1>1, <1>3, Untouched, NamedOK DEF StreamOK
<1>5. stream'.id = stream.id /\ (stream'.active => stream.active)
  <2>1. stream'.active = stream.active
    BY <1>1, Untouched DEF Named, Stream
  <2> QED
    BY <1>4, <2>1 DEF Continues
<1>6. entry' \in [id : Nat, refsLive : BOOLEAN] /\ entry'.id <= made
  BY <1>1, Untouched, RecordOK DEF DomInv
<1>7. /\ ref \in Reference /\ ref.gen <= made
      /\ ref.gen = stream'.id => Refers(ref, stream', doc)
  <2>1. CASE ref = NoRef
    BY <1>1, <1>5, <2>1, Untouched DEF NoRef, Reference
  <2>2. ASSUME NEW n \in connected, ref = Ref(stream', n)
        PROVE  /\ ref \in Reference /\ ref.gen <= made
               /\ ref.gen = stream'.id => Refers(ref, stream', doc)
    <3>1. n \in Nodes /\ n \in Nat /\ stream'.ids[n] \in Nat /\ n \in Used(stream')
      BY <1>3, <1>4, DomAssumption DEF Stream, Used
    <3>2. ref = [gen |-> stream.id, key |-> stream'.ids[n], node |-> n, doc |-> doc]
      BY <1>5, <2>2 DEF Ref, Generation
    <3> QED
      BY <3>1, <3>2, Untouched DEF Reference, Refers
  <2> QED
    BY <2>1, <2>2
<1> DEFINE up == UpToDate(r)
           me == [up EXCEPT !.ref = ref]
<1>8. AgentOK(me, stream', made, doc)
  <2>1. AgentOK(up, stream', made, doc)
    <3>1. AgentOK(up, stream, made, doc)
      BY <1>1, UpToDateOK
    <3> HIDE DEF up
    <3> QED
      BY <1>4, <3>1, Untouched, AgentGoesOn
  <2> HIDE DEF up
  <2>2. up \in Agent
    BY <2>1 DEF AgentOK
  <2>3. /\ me \in Agent /\ me.stream = up.stream /\ me.cursor = up.cursor /\ me.known = up.known
        /\ me.told = up.told /\ me.hits = up.hits /\ me.ref = ref
    BY <1>7, <2>2 DEF Agent
  <2> HIDE DEF me
  <2> QED
    BY <1>7, <2>1, <2>3 DEF AgentOK, Knows
<1>9. DOMAIN reader' = Readers /\ Agents' /\ \A q \in Readers \ {r} : reader'[q] = reader[q]
  BY <1>1, <1>2, <1>4, <1>8, OneAgentLearns
<1> QED
  BY <1>1, <1>4, <1>5, <1>6, <1>9, AnswerKeeps

LEMMA PollsKeeps == ASSUME DomInv, NEW r \in Readers, Polls(r) PROVE DomInv'
<1>1. /\ UNCHANGED <<pageVars, binding, script, entry, reader>> /\ ~At(r, "none")
      /\ script /\ stream.id # 0 /\ tool' = [tool EXCEPT ![r].at = "call"]
  BY DEF Polls, At, Ready, Goes, DomInv, Booted
<1>2. Agents'
  BY <1>1 DEF pageVars, Agents, DomInv
<1> QED
  BY <1>1, <1>2, Untouched, AnswerKeeps DEF pageVars

\* What a reference resolves to is its own node, in its own document.
LEMMA ResolvesOwn ==
    ASSUME DomInv, NEW r \in Readers, stream.id # 0, NEW n \in Resolves(reader[r].ref)
    PROVE  n \in Nat /\ reader[r].ref.doc = doc /\ reader[r].ref.node = n
<1> DEFINE ref == reader[r].ref
<1>1. AgentOK(reader[r], stream, made, doc)
  BY DEF DomInv, Agents
<1>2. n \in stream.live /\ stream.ids[n] = ref.key /\ ref.gen = stream.id
  BY DEF Resolves, Generation
<1>3. Refers(ref, stream, doc)
  BY <1>1, <1>2 DEF AgentOK
<1>4. n \in Used(stream) /\ n \in Nodes
  BY <1>2 DEF DomInv, StreamOK, IdsOK, Used
<1>5. n = ref.node
  BY <1>2, <1>3, <1>4 DEF Refers, DomInv, StreamOK, IdsOK
<1> QED
  BY <1>3, <1>4, <1>5, DomAssumption DEF Refers

\* New hits that are an agent's own leave it as good as it was.
LEMMA HitsOK ==
    ASSUME DomInv, NEW r \in Readers, NEW new, Hits(r, new),
           new \in SUBSET [ref : Reference, doc : Nat, node : Nat, steady : BOOLEAN], HitOwn(new),
           UNCHANGED <<doc, made, stream>>
    PROVE  /\ DOMAIN reader' = Readers /\ Agents' /\ \A q \in Readers \ {r} : reader'[q] = reader[q]
           /\ reader'[r].ref = reader[r].ref
<1> DEFINE me == reader[r]
           wiser == [me EXCEPT !.hits = @ \cup new]
<1>1. reader' = [reader EXCEPT ![r] = wiser] /\ DOMAIN reader = Readers
  BY Untouched DEF Hits
<1>2. AgentOK(me, stream, made, doc) /\ me \in Agent
  BY DEF DomInv, Agents, AgentOK
<1>3. /\ wiser \in Agent /\ wiser.stream = me.stream /\ wiser.cursor = me.cursor /\ wiser.known = me.known
      /\ wiser.told = me.told /\ wiser.ref = me.ref /\ wiser.hits = me.hits \cup new
  BY <1>2 DEF Agent
<1> HIDE DEF wiser, me
<1>4. AgentOK(wiser, stream, made, doc)
  BY <1>2, <1>3 DEF AgentOK, Knows, HitOwn
<1>5. DOMAIN reader' = Readers /\ Agents' /\ \A q \in Readers \ {r} : reader'[q] = reader[q]
  BY <1>1, <1>4, Untouched, OneAgentLearns
<1> QED
  BY <1>1, <1>3, <1>5 DEF me

\* An action that aims or sends its input leaves the stream alone.
LEMMA ActionKeeps ==
    ASSUME DomInv, NEW r \in Readers, NEW at \in {"none", "press", "input"}, tool' = [tool EXCEPT ![r].at = at],
           UNCHANGED <<doc, connected, happened, stream, made, binding, script, entry>>, view' \in View,
           DOMAIN reader' = Readers, Agents', \A q \in Readers \ {r} : reader'[q] = reader[q],
           view' = view \/ view'.by = r,
           view'.by = r /\ at # "none" => reader'[r].ref.doc = doc /\ reader'[r].ref.node = view'.node
    PROVE  DomInv'
<1>1. /\ Booted' /\ DOMAIN tool' = Readers
      /\ \A q \in Readers : DOMAIN tool'[q] = {"at", "name", "todo"}
  <2>1. ~Asks(r, at) /\ at # "boot"
    BY DEF Asks
  <2> QED
    BY <2>1, Untouched, ToolMoves
<1>2. DOMAIN tool = Readers /\ "at" \in DOMAIN tool[r]
  BY DEF DomInv, Types
<1>3. tool'[r].at = at /\ \A q \in Readers \ {r} : tool'[q] = tool[q]
  BY <1>2
<1>4. ASSUME NEW q \in Readers, Aiming(q)', view'.by = q
      PROVE  reader'[q].ref.doc = doc /\ reader'[q].ref.node = view'.node
  <2>1. CASE q = r
    BY <1>3, <1>4, <2>1 DEF Aiming, At
  <2>2. CASE q # r
    <3>1. view' = view /\ tool'[q] = tool[q] /\ reader'[q] = reader[q]
      BY <1>3, <1>4, <2>2
    <3> QED
      BY <1>4, <3>1 DEF DomInv, Aimed, Aiming, At, Steady
  <2> QED
    BY <2>1, <2>2
<1>5. Aimed'
  BY <1>4 DEF Aimed, Steady
<1> QED
  BY <1>1, <1>5, Untouched, ToolKeeps

LEMMA ActsKeeps == ASSUME DomInv, NEW r \in Readers, Acts(r) PROVE DomInv'
<1> DEFINE ref == reader[r].ref
<1>1. /\ stream.id # 0 /\ ~At(r, "none")
      /\ UNCHANGED <<doc, connected, happened, stream, made, binding, script>>
  BY DEF Acts, Running, At, Ready, DomInv, Booted
<1>2. CASE Ends(r) /\ (Record(0, "no") \/ entry' = entry) /\ UNCHANGED <<reader, view>>
  <2>1. entry' \in [id : Nat, refsLive : BOOLEAN] /\ entry'.id <= made
    <3>1. 0 \in Nat /\ 0 <= made
      BY Untouched
    <3> QED
      BY <1>2, <3>1, Untouched, RecordOK DEF DomInv
  <2>2. Agents'
    BY <1>1, <1>2 DEF Agents, DomInv
  <2> QED
    BY <1>1, <1>2, <2>1, <2>2, Untouched, AnswerKeeps DEF Ends
<1>3. ASSUME NEW n \in Resolves(ref), NEW next \in {"none", "press", "input"},
             Hits(r, {Hit(r, n, TRUE)}), view' = [by |-> r, node |-> n], Goes(r, next), entry' = entry
      PROVE  DomInv'
  <2>1. n \in Nat /\ ref.doc = doc /\ ref.node = n
    BY <1>1, ResolvesOwn
  <2>2. ref \in Reference
    BY DEF DomInv, Agents, AgentOK, Agent
  <2>3. Hit(r, n, TRUE) = [ref |-> ref, doc |-> doc, node |-> n, steady |-> TRUE]
    BY DEF Hit
  <2>4. /\ {Hit(r, n, TRUE)} \in SUBSET [ref : Reference, doc : Nat, node : Nat, steady : BOOLEAN]
        /\ HitOwn({Hit(r, n, TRUE)})
    <3> DEFINE hit == [ref |-> ref, doc |-> doc, node |-> n, steady |-> TRUE]
    <3>1. /\ hit \in [ref : Reference, doc : Nat, node : Nat, steady : BOOLEAN]
          /\ hit.ref = ref /\ hit.doc = doc /\ hit.node = n
      BY <2>1, <2>2, Untouched
    <3>2. Hit(r, n, TRUE) = hit
      BY <2>3
    <3> HIDE DEF hit
    <3> QED
      BY <2>1, <3>1, <3>2 DEF HitOwn
  <2>5. /\ DOMAIN reader' = Readers /\ Agents' /\ \A q \in Readers \ {r} : reader'[q] = reader[q]
        /\ reader'[r].ref = ref
    BY <1>1, <1>3, <2>4, HitsOK
  <2>6. view' \in View /\ view'.by = r /\ view'.node = n
    BY <1>3, <2>1 DEF View
  <2> QED
    BY <1>1, <1>3, <2>1, <2>5, <2>6, ActionKeeps DEF Goes
<1> QED
  BY <1>2, <1>3 DEF Acts

LEMMA InputsKeeps == ASSUME DomInv, NEW r \in Readers, Inputs(r) PROVE DomInv'
<1> DEFINE ref == reader[r].ref
<1>1. UNCHANGED <<doc, connected, happened, stream, made, view, binding, script, entry>> /\ Aiming(r)
  BY DEF Inputs, pageVars, Aiming
<1>2. PICK at \in {"none", "press", "input"} : tool' = [tool EXCEPT ![r].at = at]
  BY DEF Inputs, Goes, Ends
<1>3. PICK met \in IF Steady(r) THEN {{view.node}} ELSE {{}} \cup {{n} : n \in connected} :
         Hits(r, {Hit(r, n, Steady(r)) : n \in met})
  BY DEF Inputs, Meets
<1> DEFINE new == {Hit(r, n, Steady(r)) : n \in met}
<1>4. Steady(r) => ref.doc = doc /\ ref.node = view.node
  BY <1>1 DEF DomInv, Aimed
<1>5. \A n \in met : n \in Nat /\ (Steady(r) => n = view.node)
  <2>1. connected \subseteq Nat /\ view.node \in Nat
    BY Untouched, DomAssumption DEF DomInv, Types, View
  <2> QED
    BY <1>3, <2>1
<1>6. ref \in Reference /\ Steady(r) \in BOOLEAN
  BY DEF DomInv, Agents, AgentOK, Agent, Steady
<1>7. \A n \in met : Hit(r, n, Steady(r)) = [ref |-> ref, doc |-> doc, node |-> n, steady |-> Steady(r)]
  BY DEF Hit
<1>8. new \in SUBSET [ref : Reference, doc : Nat, node : Nat, steady : BOOLEAN] /\ HitOwn(new)
  <2>1. ASSUME NEW n \in met
        PROVE  /\ Hit(r, n, Steady(r)) \in [ref : Reference, doc : Nat, node : Nat, steady : BOOLEAN]
               /\ HitOwn({Hit(r, n, Steady(r))})
    BY <1>4, <1>5, <1>6, <1>7, Untouched DEF HitOwn
  <2> QED
    BY <2>1 DEF HitOwn
<1> HIDE DEF new
<1>9. /\ DOMAIN reader' = Readers /\ Agents' /\ \A q \in Readers \ {r} : reader'[q] = reader[q]
      /\ reader'[r].ref = ref
  BY <1>1, <1>3, <1>8, HitsOK DEF new
<1> QED
  BY <1>1, <1>2, <1>4, <1>9, Untouched, ActionKeeps DEF Steady

LEMMA StopsKeeps == ASSUME DomInv, NEW r \in Readers, Stops(r) PROVE DomInv'
<1>1. /\ ~At(r, "none") /\ stream' = [stream EXCEPT !.active = FALSE]
      /\ UNCHANGED <<doc, connected, happened, made, view, binding, script, reader>>
      /\ tool' = [tool EXCEPT ![r].at = "none"] /\ Record(0, "no")
  BY DEF Stops, Running, At, Ends
<1>2. entry' \in [id : Nat, refsLive : BOOLEAN] /\ entry'.id <= made
  <2>1. 0 \in Nat /\ 0 <= made
    BY Untouched
  <2> QED
    BY <1>1, <2>1, RecordOK DEF DomInv
<1>3. StreamOK(stream', made, happened) /\ Continues(stream, stream')
  BY <1>1, Untouched, FlagsOK
<1>4. stream'.id = stream.id /\ ~stream'.active
  BY <1>1, Untouched DEF Stream
<1>5. Agents'
  BY <1>1, <1>3, Untouched, OnlyThePage
<1> QED
  BY <1>1, <1>2, <1>3, <1>4, <1>5, Untouched, AnswerKeeps

LEMMA StatusKeeps == ASSUME DomInv, NEW r \in Readers, Status(r) PROVE DomInv'
<1>1. /\ ~At(r, "none") /\ UNCHANGED <<pageVars, binding, script, reader>>
      /\ tool' = [tool EXCEPT ![r].at = "none"] /\ Record(stream.id, "same")
  BY DEF Status, Running, At, Ends
<1>2. entry' \in [id : Nat, refsLive : BOOLEAN] /\ entry'.id <= made
  BY <1>1, Untouched, RecordOK DEF DomInv
<1>3. Agents'
  BY <1>1 DEF pageVars, Agents, DomInv
<1> QED
  BY <1>1, <1>2, <1>3, Untouched, AnswerKeeps DEF pageVars

\* What a drain gets, and the cursor that leaves.
Got(s, after, many) == FirstOf({i \in DOMAIN s.ring : s.ring[i].seq > after}, many)
Latest(s, after, many) == s.ring[Max(Got(s, after, many))].seq

\* The first events of the ring after a cursor are the records that follow it, without a gap.
LEMMA NoGap ==
    ASSUME NEW s, NEW m \in Nat, NEW n \in Nat, StreamOK(s, m, n),
           NEW after \in Nat, NEW many \in Nat, Got(s, after, many) # {}
    PROVE  /\ Latest(s, after, many) \in Nat /\ Latest(s, after, many) <= Len(s.log)
           /\ ~(after < s.ring[1].seq - 1) =>
                 \A seq \in (after + 1)..Latest(s, after, many) :
                     \E i \in Got(s, after, many) : s.log[seq] = s.ring[i].recs
<1> DEFINE got == Got(s, after, many)
           available == {i \in DOMAIN s.ring : s.ring[i].seq > after}
           l == Len(s.log)
           q == Len(s.ring)
           top == Max(got)
<1>1. /\ s.ring \in Seq(Event) /\ l \in Nat /\ q \in Nat /\ DOMAIN s.ring = 1..q /\ q <= l
      /\ \A i \in 1..q : s.ring[i].seq = l - q + i /\ s.ring[i].recs = s.log[s.ring[i].seq]
  BY DEF StreamOK, Stream, RingOK
<1> HIDE DEF l, q
<1>2. available \in SUBSET Nat /\ available \subseteq 1..q /\ IsFiniteSet(available)
  <2>1. available \subseteq 1..q
    BY <1>1
  <2> HIDE DEF available
  <2>2. IsFiniteSet(1..q)
    <3>1. q \in Int /\ 1 \in Int
      BY <1>1
    <3> QED
      BY <3>1, FS_Interval
  <2>3. 1..q \subseteq Nat
    BY <1>1
  <2> QED
    BY <2>1, <2>2, <2>3, FS_Subset
<1>3. got = FirstOnes(available, many) /\ got \subseteq available
  BY DEF Got, FirstOf, FirstOnes
<1> HIDE DEF got
<1>4. top \in got /\ top \in available /\ top \in 1..q
  <2> HIDE DEF available
  <2>0. got # {}
    BY DEF got
  <2>3. \A i \in got : i \in 1..q /\ i \in Nat
    BY <1>2, <1>3
  <2>4. \A i \in got : i <= q
    BY <1>1, <2>3
  <2>1. got \in SUBSET Nat /\ (\A i \in got : i <= q) /\ q \in Nat /\ got # {}
    BY <1>1, <2>0, <2>3, <2>4
  <2>2. top \in got
    BY <2>1, MaxOfBounded
  <2> HIDE DEF top
  <2> QED
    BY <1>2, <1>3, <2>2
<1> HIDE DEF top
<1>5. s.ring[top].seq = l - q + top /\ s.ring[top].seq > after /\ 1 \in 1..q
  BY <1>1, <1>4
<1>6. s.ring[1].seq = l - q + 1
  BY <1>1, <1>5
<1> HIDE DEF available
<1>7. ASSUME ~(after < s.ring[1].seq - 1), NEW seq \in (after + 1)..s.ring[top].seq PROVE \E i \in got : s.log[seq] = s.ring[i].recs
  <2> DEFINE i == seq - (l - q)
  <2>0. ~(after < l - q)
    <3> HIDE DEF available
    <3> QED
      BY <1>1, <1>6, <1>7
  <2>1. i \in 1..q /\ seq = l - q + i /\ seq > after /\ i <= top
    BY <1>1, <1>4, <1>5, <2>0
  <2>2. s.ring[i].seq = seq /\ s.log[seq] = s.ring[i].recs
    BY <1>1, <2>1
  <2>3. i \in available
    BY <1>1, <2>1, <2>2 DEF available
  <2> HIDE DEF i
  <2>4. i \in got
    BY <1>2, <1>3, <1>4, <2>1, <2>3, FirstComeFirst
  <2> QED
    BY <2>2, <2>4
<1>8. s.ring[top].seq \in Nat /\ s.ring[top].seq <= l
  BY <1>1, <1>4, <1>5
<1> QED
  BY <1>7, <1>8 DEF top, l, Latest, got

\* What the answer to a drain makes of an agent: its cursor is after, or the last event it got.
Wiser(me, id, cursor, known, told) == [me EXCEPT !.stream = id, !.cursor = cursor, !.known = known, !.told = told]

LEMMA WiserOK ==
    ASSUME NEW s \in Stream, NEW m \in Nat, NEW d, NEW me, AgentOK(me, s, m, d), s.id <= m, s.id # 0,
           NEW cursor \in Nat, cursor <= Len(s.log), NEW known \in SUBSET Nat, NEW told \in BOOLEAN,
           ~told => \A seq \in 1..cursor : s.log[seq] \subseteq known
    PROVE  AgentOK(Wiser(me, s.id, cursor, known, told), s, m, d)
<1> DEFINE you == Wiser(me, s.id, cursor, known, told)
<1>1. me \in Agent /\ s.id \in Nat
  BY DEF AgentOK, Stream
<1>2. /\ you \in Agent /\ you.stream = s.id /\ you.cursor = cursor /\ you.known = known /\ you.told = told
      /\ you.ref = me.ref /\ you.hits = me.hits
  BY <1>1 DEF Agent, Wiser
<1> HIDE DEF you
<1>3. AgentOK(you, s, m, d)
  BY <1>2 DEF AgentOK, Knows
<1> QED
  BY <1>3 DEF you

LEMMA DrainsKeeps == ASSUME DomInv, NEW r \in Readers, Drains(r) PROVE DomInv'
<1> DEFINE me == reader[r]
           reset == me.stream # 0 /\ me.stream # stream.id
           after == IF reset THEN 0 ELSE me.cursor
           dropped == reset \/ stream.over \/ RingDropped(after)
           available == {i \in DOMAIN stream.ring : stream.ring[i].seq > after}
<1>1. PICK limit \in Limits : \E many \in 1..limit :
         LET got == FirstOf(available, many)
             loud == \E i \in got : stream.ring[i].kind = "overflow"
             recs == UNION {stream.ring[i].recs : i \in {j \in got : stream.ring[j].kind = "record"}}
         IN  /\ \/ /\ reader' = [reader EXCEPT ![r] =
                                  [me EXCEPT !.stream = stream.id,
                                             !.cursor = IF got = {} THEN after ELSE stream.ring[Max(got)].seq,
                                             !.known = recs \cup IF reset THEN {} ELSE @,
                                             !.told = @ \/ dropped \/ loud \/ me.stream = 0]]
                   /\ Ends(r)
                \/ got = {} /\ ~dropped /\ Goes(r, "wait") /\ UNCHANGED reader
             /\ Record(stream.id, IF dropped THEN "no" ELSE "same")
  BY DEF Drains
<1> DEFINE got(many) == FirstOf(available, many)
           recs(many) == UNION {stream.ring[i].recs : i \in {j \in got(many) : stream.ring[j].kind = "record"}}
           loud(many) == \E i \in got(many) : stream.ring[i].kind = "overflow"
           cursor(many) == IF got(many) = {} THEN after ELSE stream.ring[Max(got(many))].seq
           known(many) == recs(many) \cup IF reset THEN {} ELSE me.known
           told(many) == me.told \/ dropped \/ loud(many) \/ me.stream = 0
           wiser(many) == Wiser(me, stream.id, cursor(many), known(many), told(many))
<1>2. AgentOK(me, stream, made, doc) /\ me \in Agent /\ DOMAIN reader = Readers
  BY DEF DomInv, Agents, AgentOK, Types
<1>3. PICK many \in 1..limit :
         /\ \/ reader' = [reader EXCEPT ![r] = wiser(many)] /\ Ends(r)
            \/ reader' = reader /\ Goes(r, "wait")
         /\ Record(stream.id, IF dropped THEN "no" ELSE "same")
  BY <1>1 DEF Wiser
<1>4. /\ ~At(r, "none") /\ script /\ stream.id # 0
      /\ stream' = [stream EXCEPT !.over = FALSE]
      /\ UNCHANGED <<doc, connected, happened, made, view, binding, script>>
  BY DEF Drains, Running, At, Ready, DomInv, Booted
<1>5. stream.ring \in Seq(Event) /\ Len(stream.log) \in Nat /\ many \in Nat
  BY Untouched DEF Stream
<1>6. /\ after \in Nat /\ after <= Len(stream.log) /\ me.known \in SUBSET Nat /\ me.told \in BOOLEAN
      /\ me.stream = 0 => after = 0
  BY <1>2, <1>4, <1>5 DEF Agent, AgentOK, Knows
<1>7. known(many) \in SUBSET Nat
  <2>1. \A i \in got(many) : i \in DOMAIN stream.ring
    BY DEF FirstOf
  <2>2. \A i \in DOMAIN stream.ring : stream.ring[i] \in Event
    BY <1>5
  <2>3. \A i \in got(many) : stream.ring[i].recs \in SUBSET Nat
    BY <2>1, <2>2 DEF Event
  <2> HIDE DEF got
  <2> QED
    BY <1>6, <2>3
<1>8. /\ cursor(many) \in Nat /\ cursor(many) <= Len(stream.log)
      /\ got(many) # {} /\ ~RingDropped(after) =>
            \A seq \in (after + 1)..cursor(many) : \E i \in got(many) : stream.log[seq] = stream.ring[i].recs
  <2>1. CASE got(many) = {}
    BY <1>6, <2>1
  <2>2. CASE got(many) # {}
    <3>1. stream.ring # <<>>
      <4>1. \A i \in got(many) : i \in DOMAIN stream.ring
        BY DEF FirstOf
      <4>2. stream.ring = <<>> => DOMAIN stream.ring = {}
        OBVIOUS
      <4> HIDE DEF got
      <4> QED
        BY <2>2, <4>1, <4>2
    <3>2. ~RingDropped(after) => ~(after < stream.ring[1].seq - 1)
      BY <3>1 DEF RingDropped
    <3>3. cursor(many) = stream.ring[Max(got(many))].seq
      BY <2>2
    <3>4. got(many) = Got(stream, after, many) /\ cursor(many) = Latest(stream, after, many)
      BY <3>3 DEF Got, Latest
    <3>5. Got(stream, after, many) # {}
      BY <2>2, <3>4
    <3> HIDE DEF after, cursor, got
    <3>6. made \in Nat /\ happened \in Nat /\ StreamOK(stream, made, happened) /\ after \in Nat /\ many \in Nat
      BY <1>5, <1>6, Untouched
    <3>7. /\ Latest(stream, after, many) \in Nat /\ Latest(stream, after, many) <= Len(stream.log)
          /\ ~(after < stream.ring[1].seq - 1) =>
                \A seq \in (after + 1)..Latest(stream, after, many) :
                    \E i \in Got(stream, after, many) : stream.log[seq] = stream.ring[i].recs
      BY <3>5, <3>6, NoGap
    <3> QED
      BY <3>2, <3>4, <3>7
  <2> QED
    BY <2>1, <2>2
<1>9. ASSUME ~told(many), NEW seq \in 1..cursor(many) PROVE stream.log[seq] \subseteq known(many)
  <2>1. /\ ~me.told /\ ~reset /\ after = me.cursor /\ ~RingDropped(after) /\ me.stream = stream.id /\ ~loud(many)
        /\ known(many) = recs(many) \cup me.known
    BY <1>9
  <2>2. CASE seq <= me.cursor
    <3>1. stream.log[seq] \subseteq me.known
      <4>1. seq \in 1..me.cursor
        <5>1. seq \in Nat /\ 1 <= seq
          BY <1>9
        <5>2. me.cursor \in Nat
          BY <1>6, <2>1
        <5> QED
          BY <2>2, <5>1, <5>2
      <4> QED
        BY <1>2, <1>4, <2>1, <4>1 DEF AgentOK, Knows
    <3> QED
      BY <2>1, <3>1
  <2>3. CASE ~(seq <= me.cursor)
    <3>1. got(many) # {} /\ seq \in (after + 1)..cursor(many)
      <4> HIDE DEF got
      <4>1. got(many) # {}
        BY <1>6, <2>1, <2>3
      <4>2. seq \in (after + 1)..cursor(many)
        <5> HIDE DEF cursor, after
        <5> QED
          BY <1>6, <1>8, <2>1, <2>3
      <4> QED
        BY <4>1, <4>2
    <3>2. PICK i \in got(many) : stream.log[seq] = stream.ring[i].recs
      BY <1>8, <2>1, <3>1
    <3>3. stream.ring[i].kind = "record"
      <4>1. stream.ring[i] \in Event
        BY <1>5 DEF FirstOf
      <4>2. stream.ring[i].kind # "overflow"
        BY <2>1
      <4> QED
        BY <4>1, <4>2 DEF Event
    <3> HIDE DEF got
    <3> QED
      BY <2>1, <3>2, <3>3
  <2> QED
    BY <2>2, <2>3
<1>10. told(many) \in BOOLEAN
  BY <1>6
<1>11. entry' \in [id : Nat, refsLive : BOOLEAN] /\ entry'.id <= made
  BY <1>3, Untouched, RecordOK DEF DomInv
<1> HIDE DEF cursor, known, told
<1>12. AgentOK(wiser(many), stream, made, doc)
  BY <1>2, <1>4, <1>7, <1>8, <1>9, <1>10, Untouched, WiserOK
<1> DEFINE you == wiser(many)
<1> HIDE DEF wiser, after, dropped, me
<1>13. StreamOK(stream', made, happened) /\ Continues(stream, stream') /\ stream' \in Stream
  BY <1>4, Untouched, FlagsOK DEF StreamOK
<1>14. stream'.id = stream.id /\ stream'.active = stream.active
  BY <1>4, Untouched DEF Stream
<1>15. AgentOK(wiser(many), stream', made, doc)
  BY <1>12, <1>13, Untouched, AgentGoesOn
<1>16. DOMAIN reader' = Readers /\ Agents' /\ \A q \in Readers \ {r} : reader'[q] = reader[q]
  <2>1. CASE reader' = reader
    BY <1>4, <1>13, <2>1, Untouched, OnlyThePage
  <2>2. CASE reader' = [reader EXCEPT ![r] = wiser(many)]
    BY <1>4, <1>13, <1>15, <2>2, OneAgentLearns
  <2> QED
    BY <1>3, <2>1, <2>2
<1>17. PICK at \in {"none", "wait"} : tool' = [tool EXCEPT ![r].at = at]
  BY <1>3 DEF Ends, Goes
<1> QED
  BY <1>4, <1>11, <1>13, <1>14, <1>16, <1>17, AnswerKeeps

LEMMA DomInvNext == DomInv /\ [Next]_vars => DomInv'
<1> SUFFICES ASSUME DomInv, [Next]_vars PROVE DomInv'
  OBVIOUS
<1>1. CASE Mutates
  BY <1>1, MutatesKeeps
<1>2. CASE Navigates
  BY <1>2, NavigatesKeeps
<1>3. ASSUME NEW r \in Readers, Step(r) PROVE DomInv'
  BY <1>3, BeginsKeeps, InstallsKeeps, PreparesKeeps, ConfiguresKeeps, FailsKeeps, StartsKeeps, SnapshotsKeeps,
     DrainsKeeps, PollsKeeps, ActsKeeps, InputsKeeps, StopsKeeps, StatusKeeps DEF Step
<1>4. CASE UNCHANGED vars
  BY <1>4 DEF vars, pageVars, DomInv, Types, Booted, At, Ready, Agents, Aimed, Aiming, Steady
<1>5. CASE Shifts
  BY <1>5, ShiftsKeeps
<1> QED
  BY <1>1, <1>2, <1>3, <1>4, <1>5 DEF Next

LEMMA DomInvHolds == Spec => []DomInv
<1> QED
  BY DomInvInit, DomInvNext, PTL DEF Spec

-----------------------------------------------------------------------------
(* What follows.                                                           *)

\* The stream, the entry of the session and the agents are well-formed, and the ring is the end of the log.
THEOREM DomTypes == Spec => []TypeOK
<1>1. DomInv => TypeOK
  <2> SUFFICES ASSUME DomInv PROVE TypeOK
    OBVIOUS
  <2>1. /\ stream \in Stream /\ RingOK(stream) /\ IdsOK(stream) /\ stream.ring \in Seq(Event)
        /\ DOMAIN stream.ring = 1..Len(stream.ring)
    BY Untouched DEF StreamOK, Stream
  <2>2. /\ Len(stream.ring) <= stream.max /\ Len(stream.ring) <= Len(stream.log)
        /\ \A i \in DOMAIN stream.ring : stream.ring[i].seq = Len(stream.log) - Len(stream.ring) + i
        /\ stream.live \subseteq {n \in Nodes : stream.ids[n] # 0}
    BY <2>1 DEF RingOK, IdsOK, Used
  <2>3. {binding, script, entry.refsLive, stream.active, stream.over} \subseteq BOOLEAN
    BY Untouched DEF Stream
  <2>4. entry.id \in 0..made /\ stream.id \in 0..made
    BY Untouched
  <2>5. \A r \in Readers : reader[r].stream \in 0..made
    BY DEF DomInv, Types, Agents, AgentOK, Agent
  <2>6. view.by \in Readers \cup {None}
    BY Untouched DEF View
  <2> QED
    BY <2>2, <2>3, <2>4, <2>5, <2>6 DEF TypeOK, DomInv, Types
<1> QED
  BY <1>1, DomInvHolds, PTL

\* Whatever agents, pages and failing calls do in between, an agent that was not told to look again has
\* every mutation record up to its cursor.
THEOREM AgentsMissNothing == Spec => []NothingMissed
<1>1. DomInv => NothingMissed
  BY DEF DomInv, Agents, AgentOK, Knows, NothingMissed
<1> QED
  BY <1>1, DomInvHolds, PTL

\* The lookup of an action finds the node its reference was given for, in the document it was given in, and the
\* input goes there too, unless something has happened to the page since.
THEOREM ReferencesAreSafe == Spec => []ActsOnItsOwn
<1>1. DomInv => ActsOnItsOwn
  BY DEF DomInv, Agents, AgentOK, HitOwn, ActsOnItsOwn
<1> QED
  BY <1>1, DomInvHolds, PTL
=============================================================================
