--------------------------- MODULE HitQueueProofs ---------------------------
(***************************************************************************)
(* The counts of the hits are never too low, a captain inherits none, and  *)
(* the queue of hits keeps the promise of HitBoxes, for every number of    *)
(* ships, slots, serials and reports.                                      *)
(***************************************************************************)
EXTENDS HitQueue, FiniteSetTheorems, FunctionTheorems, TLAPS

Inv == TypeOK /\ NothingUncounted /\ NothingInherited

USE DEF vars, queue

LEMMA Remainder ==
    ASSUME NEW a \in Nat, NEW b \in Nat \ {0}
    PROVE  a % b \in 0..(b - 1)
BY SMT

\* The slots, and the unread ones of a ship, are finitely many.
LEMMA SlotsFinite == IsFiniteSet(Slots)
<1>1. 0 \in Int /\ KNPLAY * KNHSHP - 1 \in Int
  BY SizesAssumption DEF SizesAssumption
<1> QED
  BY <1>1, FS_Interval DEF Slots

LEMMA UnreadFinite ==
    ASSUME NEW w
    PROVE  IsFiniteSet(Unread(w)) /\ Cardinality(Unread(w)) \in Nat
<1>1. Unread(w) \in SUBSET Slots
  BY DEF Unread
<1>2. IsFiniteSet(Unread(w))
  BY <1>1, SlotsFinite, FS_Subset
<1> QED
  BY <1>2, FS_CardinalityType

\* What a step does to the number of unread slots of a ship.
LEMMA NoneAdded ==
    ASSUME NEW w, Unread(w)' \subseteq Unread(w)
    PROVE  Cardinality(Unread(w)') <= Cardinality(Unread(w))
BY UnreadFinite, FS_Subset

LEMMA OneAdded ==
    ASSUME NEW w, NEW q, Unread(w)' \subseteq Unread(w) \cup {q}
    PROVE  /\ Cardinality(Unread(w)') \in Nat
           /\ Cardinality(Unread(w)') <= Cardinality(Unread(w)) + 1
<1> DEFINE More == Unread(w) \cup {q}
<1>1. IsFiniteSet(Unread(w)) /\ Cardinality(Unread(w)) \in Nat
  BY UnreadFinite
<1>2. IsFiniteSet(More) /\ Cardinality(More) \in Nat
  BY <1>1, FS_AddElement, FS_CardinalityType
<1>3. Cardinality(More) =
          IF q \in Unread(w) THEN Cardinality(Unread(w)) ELSE Cardinality(Unread(w)) + 1
  BY <1>1, FS_AddElement, Zenon
<1>4. /\ IsFiniteSet(Unread(w)')
      /\ Cardinality(Unread(w)') <= Cardinality(More)
  BY <1>2, FS_Subset
<1>5. Cardinality(Unread(w)') \in Nat
  BY <1>4, FS_CardinalityType
<1> HIDE DEF More
<1> QED
  BY <1>1, <1>2, <1>3, <1>4, <1>5

LEMMA OneRemoved ==
    ASSUME NEW w, NEW q \in Unread(w), Unread(w)' = Unread(w) \ {q}
    PROVE  Cardinality(Unread(w)') = Cardinality(Unread(w)) - 1
BY UnreadFinite, FS_RemoveElement

-----------------------------------------------------------------------------
LEMMA MakeHitKeeps ==
    ASSUME Inv, NEW s \in Ships, NEW who \in SUBSET Ships, MakeHit(s, who)
    PROVE  Inv'
<1>1. PICK q \in Slots :
          /\ serial' = [serial EXCEPT ![q] = hitser' % SerialLimit]
          /\ hitq' = [hitq EXCEPT ![q] = hitser']
          /\ to' = [to EXCEPT ![q] = who]
  BY DEF MakeHit, Ring
<1>2. hitser' \in 0..MaxHits
  BY SizesAssumption DEF SizesAssumption, Inv, TypeOK, MakeHit
<1>3. hitser' % SerialLimit \in 0..(SerialLimit - 1)
  <2>1. hitser' \in Nat /\ SerialLimit \in Nat \ {0}
    BY <1>2, SizesAssumption DEF SizesAssumption
  <2> QED
    BY <2>1, Remainder, Zenon
<1>4. TypeOK'
  <2>1. serial' \in [Slots -> 0..(SerialLimit - 1)]
    BY <1>1, <1>3 DEF Inv, TypeOK
  <2>2. hitq' \in [Slots -> 0..MaxHits] /\ to' \in [Slots -> SUBSET Ships]
    BY <1>1, <1>2 DEF Inv, TypeOK
  <2>3. hitflg' \in [Ships -> Nat]
    BY DEF Inv, TypeOK, MakeHit, Counted
  <2> QED
    BY <1>2, <2>1, <2>2, <2>3 DEF Inv, TypeOK, MakeHit
<1>5. ASSUME NEW w \in Ships
      PROVE  Cardinality(Unread(w)') <= hitflg'[w]
  <2>1. Cardinality(Unread(w)) \in Nat /\ Cardinality(Unread(w)) <= hitflg[w]
    BY UnreadFinite DEF Inv, NothingUncounted
  <2>2. hitflg[w] \in Nat
    BY DEF Inv, TypeOK
  <2>3. CASE w \in who
    <3>1. Unread(w)' \subseteq Unread(w) \cup {q}
      BY <1>1 DEF Inv, TypeOK, Unread
    <3>2. hitflg'[w] = hitflg[w] + 1
      BY <2>3 DEF MakeHit, Counted
    <3> QED
      BY <2>1, <2>2, <3>1, <3>2, OneAdded
  <2>4. CASE w \notin who
    <3>1. Unread(w)' \subseteq Unread(w)
      BY <1>1, <2>4 DEF Inv, TypeOK, Unread
    <3>2. hitflg'[w] = hitflg[w]
      BY <2>4 DEF MakeHit, Counted
    <3>3. Cardinality(Unread(w)') \in Nat
      BY <3>1, UnreadFinite, FS_Subset, FS_CardinalityType
    <3> QED
      BY <2>1, <2>2, <3>1, <3>2, <3>3, NoneAdded
  <2> QED
    BY <2>3, <2>4
<1>6. ASSUME NEW w \in Ships, alive'[w] = "free"
      PROVE  Unread(w)' = {} /\ hitflg'[w] = 0
  <2>1. alive[w] = "free" /\ w \notin who
    BY <1>6 DEF MakeHit, Reachable
  <2> QED
    BY <1>1, <2>1 DEF Inv, TypeOK, NothingInherited, MakeHit, Counted, Unread
<1> QED
  BY <1>4, <1>5, <1>6 DEF Inv, NothingUncounted, NothingInherited

\* A ship's own reads leave the other ships alone.
LEMMA OthersUnread ==
    ASSUME TypeOK, NEW w \in Ships, NEW v \in Ships, v # w,
           \A q \in Slots : to'[q] \in {to[q], to[q] \ {w}}
    PROVE  Unread(v)' = Unread(v)
BY DEF TypeOK, Unread

LEMMA OutHitKeeps ==
    ASSUME Inv, NEW w \in Ships, OutHit(w)
    PROVE  Inv'
<1>1. /\ hitflg[w] \in Nat /\ hitflg[w] > 0
      /\ hitflg' = [hitflg EXCEPT ![w] = @ - 1]
      /\ hitflg'[w] = hitflg[w] - 1
      /\ hitflg'[w] \in Nat
      /\ ~(hitflg'[w] < 0)
  BY DEF Inv, TypeOK, OutHit, GetHit
<1>2. UNCHANGED to \/ \E q \in Unread(w) : Read(w, q)
  BY DEF OutHit, GetHit
<1>3. UNCHANGED to => Unread(w) = {}
  <2>1. CASE Unread(w) = {}
    BY <2>1
  <2>2. CASE \E q \in Unread(w) : Read(w, q)
    BY <2>2 DEF Inv, TypeOK, Read, Unread
  <2> QED
    BY <1>1, <2>1, <2>2 DEF OutHit, GetHit
<1>4. TypeOK'
  BY <1>1, <1>2 DEF Inv, TypeOK, OutHit, Read, Unread
<1>5. Cardinality(Unread(w)') <= hitflg'[w]
  <2>1. /\ Cardinality(Unread(w)) \in Nat
        /\ Cardinality(Unread(w)) <= hitflg[w]
    BY UnreadFinite DEF Inv, NothingUncounted
  <2>2. CASE UNCHANGED to
    <3>1. Unread(w)' = {}
      BY <1>3, <2>2 DEF Unread
    <3> QED
      BY <1>1, <3>1, FS_EmptySet
  <2>3. CASE \E q \in Unread(w) : Read(w, q)
    <3>1. PICK q \in Unread(w) : Read(w, q)
      BY <2>3
    <3>2. Unread(w)' = Unread(w) \ {q}
      BY <3>1 DEF Inv, TypeOK, Read, Unread
    <3>3. Cardinality(Unread(w)') = Cardinality(Unread(w)) - 1
      BY <3>2, OneRemoved
    <3> QED
      BY <1>1, <2>1, <3>3
  <2> QED
    BY <1>2, <2>2, <2>3
<1>6. ASSUME NEW v \in Ships, v # w
      PROVE  Unread(v)' = Unread(v) /\ hitflg'[v] = hitflg[v]
  <2>1. \A q \in Slots : to'[q] \in {to[q], to[q] \ {w}}
    BY <1>2 DEF Inv, TypeOK, Read, Unread
  <2>2. Unread(v)' = Unread(v)
    BY <1>6, <2>1, OthersUnread DEF Inv
  <2> QED
    BY <1>1, <1>6, <2>2 DEF Inv, TypeOK
<1>7. NothingUncounted'
  BY <1>5, <1>6 DEF Inv, NothingUncounted
<1>8. NothingInherited'
  BY <1>6 DEF Inv, NothingInherited, OutHit
<1> QED
  BY <1>4, <1>7, <1>8 DEF Inv

\* The drain of FREE leaves nothing, because the count was not too low.
LEMMA DrainEmpties ==
    ASSUME Inv, NEW w \in Ships, Drain(w)
    PROVE  /\ Unread(w)' = {} /\ hitflg'[w] = 0
           /\ \A v \in Ships \ {w} : Unread(v)' = Unread(v) /\ hitflg'[v] = hitflg[v]
           /\ to' \in [Slots -> SUBSET Ships] /\ hitflg' \in [Ships -> Nat]
<1>1. hitflg[w] \in Nat /\ Cardinality(Unread(w)) <= hitflg[w]
  BY DEF Inv, TypeOK, NothingUncounted
<1>2. hitflg'[w] = 0 /\ hitflg' = [hitflg EXCEPT ![w] = 0]
  <2>1. (IF hitflg[w] > 0 THEN 0 ELSE hitflg[w]) = 0
    BY <1>1
  <2> QED
    BY <2>1 DEF Inv, TypeOK, Drain
<1>3. FirstUnread(w, hitflg[w]) = Unread(w)
  <2> SUFFICES ASSUME NEW q \in Unread(w)
               PROVE  Cardinality({p \in Unread(w) : p <= q}) <= hitflg[w]
    BY DEF FirstUnread
  <2> DEFINE Before == {p \in Unread(w) : p <= q}
  <2>1. IsFiniteSet(Unread(w)) /\ Cardinality(Unread(w)) \in Nat
    BY UnreadFinite
  <2>2. IsFiniteSet(Before) /\ Cardinality(Before) <= Cardinality(Unread(w))
    BY <2>1, FS_Subset
  <2>3. Cardinality(Before) \in Nat
    BY <2>2, FS_CardinalityType
  <2> HIDE DEF Before
  <2>4. Cardinality(Before) <= hitflg[w]
    BY <1>1, <2>1, <2>2, <2>3
  <2> QED
    BY <2>4 DEF Before
<1>4. to' = [q \in Slots |-> IF q \in Unread(w) THEN to[q] \ {w} ELSE to[q]]
  BY <1>3 DEF Drain
<1>5. Unread(w)' = {}
  BY <1>4 DEF Unread
<1>6. to' \in [Slots -> SUBSET Ships] /\ hitflg' \in [Ships -> Nat]
  BY <1>2, <1>4 DEF Inv, TypeOK
<1>7. ASSUME NEW v \in Ships \ {w}
      PROVE  Unread(v)' = Unread(v) /\ hitflg'[v] = hitflg[v]
  BY <1>2, <1>4, OthersUnread DEF Inv, TypeOK
<1> QED
  BY <1>2, <1>5, <1>6, <1>7

LEMMA FreeKeeps ==
    ASSUME Inv, NEW w \in Ships, Free(w) \/ FreeSleeps(w)
    PROVE  Inv'
<1>1. Drain(w)
  BY DEF Free, FreeSleeps
<1>2. TypeOK'
  BY <1>1, DrainEmpties DEF Inv, TypeOK, Free, FreeSleeps, Drain
<1>3. Cardinality(Unread(w)') <= hitflg'[w]
  <2>1. Unread(w)' = {} /\ hitflg'[w] = 0
    BY <1>1, DrainEmpties
  <2> QED
    BY <2>1, FS_EmptySet
<1>4. NothingUncounted'
  BY <1>1, <1>3, DrainEmpties DEF Inv, NothingUncounted
<1>5. ASSUME NEW v \in Ships, alive'[v] = "free"
      PROVE  v = w \/ alive[v] = "free"
  BY <1>5 DEF Inv, TypeOK, Free, FreeSleeps
<1>6. NothingInherited'
  BY <1>1, <1>5, DrainEmpties DEF Inv, NothingInherited
<1> QED
  BY <1>2, <1>4, <1>6 DEF Inv

LEMMA OthersKeep ==
    ASSUME Inv,
           \/ \E w \in Ships : FreeEnds(w) \/ Commission(w)
           \/ SetUp \/ UNCHANGED vars
    PROVE  Inv'
<1>1. CASE \E w \in Ships : FreeEnds(w) \/ Commission(w)
  BY <1>1 DEF Inv, TypeOK, NothingUncounted, NothingInherited, FreeEnds, Commission, Unread
<1>2. CASE SetUp
  <2>1. 0 \in 0..(SerialLimit - 1)
    BY SizesAssumption DEF SizesAssumption
  <2>2. \A w \in Ships : Unread(w)' = {} /\ hitflg'[w] = 0
    BY <1>2 DEF SetUp, Unread
  <2>3. TypeOK'
    BY <1>2, <2>1 DEF Inv, TypeOK, SetUp
  <2>4. NothingUncounted'
    BY <2>2, FS_EmptySet DEF NothingUncounted
  <2> QED
    BY <2>2, <2>3, <2>4 DEF Inv, NothingInherited
<1>3. CASE UNCHANGED vars
  BY <1>3 DEF Inv, TypeOK, NothingUncounted, NothingInherited, Unread
<1> QED
  BY <1>1, <1>2, <1>3

LEMMA Invariance == Spec => []Inv
<1>1. Init => Inv
  <2> SUFFICES ASSUME Init PROVE Inv
    OBVIOUS
  <2>1. 0 \in 0..(SerialLimit - 1) /\ 0 \in 0..MaxHits
    BY SizesAssumption DEF SizesAssumption
  <2>2. TypeOK
    BY <2>1 DEF Init, TypeOK
  <2>3. \A w \in Ships : Unread(w) = {} /\ hitflg[w] = 0
    BY DEF Init, Unread
  <2>4. NothingUncounted
    BY <2>3, FS_EmptySet DEF NothingUncounted
  <2> QED
    BY <2>2, <2>3, <2>4 DEF Inv, NothingInherited
<1>2. Inv /\ [Next]_vars => Inv'
  BY MakeHitKeeps, OutHitKeeps, FreeKeeps, OthersKeep DEF Next
<1> QED
  BY <1>1, <1>2, PTL DEF Spec

\* Type correctness of the hit queue (HITQL, HITQ, HITFLG, HITSER).
THEOREM HitQueueTypeCorrect == Spec => []TypeOK
BY Invariance, PTL DEF Inv

\* HITFLG never falls short of the reports a ship has still to read.
THEOREM CountsSuffice == Spec => []NothingUncounted
BY Invariance, PTL DEF Inv

\* FREE leaves a ship without hits for its next captain, if it does not sleep.
THEOREM NoInheritance == Spec => []NothingInherited
BY Invariance, PTL DEF Inv

-----------------------------------------------------------------------------
\* The implementation of HitBoxes.

\* The reports that a ship has still to see, and the slots of a sender in use.
Box == [w \in Ships |-> {Report(q) : q \in Unread(w)}]
Used(s) == {q \in Ring(s) : to[q] # {}}

\* The reports in the slots have different numbers, which are those of the
\* serials as long as these do not wrap.
Numbered ==
    /\ \A q \in Slots : to[q] # {} =>
          hitq[q] \in 1..hitser /\ serial[q] = hitq[q] % SerialLimit
    /\ \A p, q \in Slots :
          to[p] # {} /\ to[q] # {} /\ hitq[p] = hitq[q] => p = q

-----------------------------------------------------------------------------
\* Arithmetic of slots.
LEMMA Times ==
    ASSUME NEW k \in Nat, NEW a \in Int, NEW b \in Int, a <= b
    PROVE  k * a <= k * b
<1>1. k * (b - a) >= 0
  BY SMT
<1>2. k * (b - a) = k * b - k * a
  BY SMT
<1> QED
  BY <1>1, <1>2

\* A number lies in the interval of length k that its quotient by k begins.
LEMMA Quotient ==
    ASSUME NEW q \in Nat, NEW k \in Nat \ {0}
    PROVE  /\ q \div k \in Int
           /\ k * (q \div k) <= q
           /\ q < k * (q \div k) + k
BY SMT

\* The ring of a ship is an interval of KNHSHP slots.
LEMMA RingSize ==
    ASSUME NEW s \in Ships
    PROVE  IsFiniteSet(Ring(s)) /\ Cardinality(Ring(s)) = KNHSHP
<1>0. KNPLAY \in Nat /\ KNHSHP \in Nat \ {0} /\ s \in Nat /\ 1 <= s /\ s <= KNPLAY
  BY SizesAssumption DEF SizesAssumption, Ships
<1> DEFINE first == KNHSHP * (s - 1)
           last == first + KNHSHP - 1
<1>1. first \in Nat /\ last \in Int /\ last - first + 1 = KNHSHP /\ ~(first > last)
  <2>1. first \in Int /\ KNHSHP * 0 <= first
    BY <1>0, Times
  <2> QED
    BY <1>0, <2>1
<1>2. last <= KNPLAY * KNHSHP - 1
  <2>1. KNHSHP * s <= KNHSHP * KNPLAY
    BY <1>0, Times
  <2>2. KNHSHP * s = first + KNHSHP /\ KNHSHP * KNPLAY = KNPLAY * KNHSHP
    BY <1>0
  <2> QED
    BY <1>0, <1>1, <2>1, <2>2
<1>3. ASSUME NEW q \in Slots, Sender(q) = s PROVE q \in first..last
  <2>1. q \in Nat
    BY <1>0, <1>3 DEF Slots
  <2>2. q \div KNHSHP = s - 1
    BY <1>0, <1>3, <2>1, Quotient DEF Sender
  <2>3. first <= q /\ q < first + KNHSHP
    BY <1>0, <2>1, <2>2, Quotient
  <2> HIDE DEF first
  <2> QED
    BY <1>0, <1>1, <2>1, <2>3
<1>4. ASSUME NEW q \in first..last PROVE q \in Slots /\ Sender(q) = s
  <2> DEFINE d == q \div KNHSHP
  <2>1. q \in Nat /\ first <= q /\ q < first + KNHSHP
    BY <1>0, <1>1
  <2>2. d \in Int /\ KNHSHP * d <= q /\ q < KNHSHP * d + KNHSHP
    BY <1>0, <2>1, Quotient
  <2> HIDE DEF d
  <2>3. ~(d <= s - 2)
    <3> SUFFICES ASSUME d <= s - 2 PROVE FALSE
      OBVIOUS
    <3>1. KNHSHP * d <= KNHSHP * (s - 2)
      BY <1>0, <2>2, Times
    <3>2. KNHSHP * (s - 2) + KNHSHP = first
      BY <1>0
    <3>3. KNHSHP * d \in Int /\ KNHSHP * (s - 2) \in Int
      BY <1>0, <2>2
    <3> HIDE DEF first
    <3> QED
      BY <1>0, <1>1, <2>1, <2>2, <3>1, <3>2, <3>3
  <2>4. ~(s <= d)
    <3> SUFFICES ASSUME s <= d PROVE FALSE
      OBVIOUS
    <3>1. KNHSHP * s <= KNHSHP * d
      BY <1>0, <2>2, Times
    <3>2. KNHSHP * s = first + KNHSHP
      BY <1>0
    <3>3. KNHSHP * d \in Int /\ KNHSHP * s \in Int
      BY <1>0, <2>2
    <3> HIDE DEF first
    <3> QED
      BY <1>0, <1>1, <2>1, <2>2, <3>1, <3>2, <3>3
  <2>5. d = s - 1
    BY <1>0, <2>2, <2>3, <2>4
  <2>6. Sender(q) = s
    BY <1>0, <2>5 DEF Sender, d
  <2> HIDE DEF first
  <2>7. KNPLAY * KNHSHP - 1 \in Int
    BY <1>0
  <2>8. q \in Slots
    BY <1>0, <1>1, <1>2, <2>1, <2>7 DEF Slots
  <2> QED
    BY <2>6, <2>8
<1>5. Ring(s) = first..last
  BY <1>1, <1>3, <1>4 DEF Ring, Slots
<1> HIDE DEF first, last
<1> QED
  BY <1>1, <1>5, FS_Interval

-----------------------------------------------------------------------------
\* No slot is used at the start.
LEMMA NumberedInit == Init => Numbered
BY DEF Init, Numbered

\* What only reads, or forgets everything, leaves the numbers in order.
LEMMA NumberedKept ==
    ASSUME TypeOK, Numbered, hitser' = hitser, hitq' = hitq, to' \in [Slots -> SUBSET Ships],
           \A q \in Slots : to'[q] # {} => to[q] # {} /\ serial'[q] = serial[q]
    PROVE  Numbered'
BY DEF Numbered

\* MAKHIT gives the next number to the one slot it writes.
LEMMA NumberedNext == Inv /\ Numbered /\ [Next]_vars => Numbered'
<1> SUFFICES ASSUME Inv, Inv', Numbered, [Next]_vars PROVE Numbered'
  BY MakeHitKeeps, OutHitKeeps, FreeKeeps, OthersKeep DEF Next
<1>0. /\ hitser \in Nat /\ to \in [Slots -> SUBSET Ships] /\ hitq \in [Slots -> 0..MaxHits]
      /\ serial \in [Slots -> 0..(SerialLimit - 1)] /\ to' \in [Slots -> SUBSET Ships]
  BY DEF Inv, TypeOK
<1>1. ASSUME NEW s \in Ships, NEW who \in SUBSET Ships, MakeHit(s, who) PROVE Numbered'
  <2>1. PICK q \in Slots :
          /\ serial' = [serial EXCEPT ![q] = hitser' % SerialLimit]
          /\ hitq' = [hitq EXCEPT ![q] = hitser']
          /\ to' = [to EXCEPT ![q] = who]
    BY <1>1 DEF MakeHit, Ring
  <2>2. hitser' = hitser + 1
    BY <1>1 DEF MakeHit
  <2>3. ASSUME NEW p \in Slots, to'[p] # {}, p # q
        PROVE  /\ to[p] # {} /\ hitq'[p] = hitq[p] /\ serial'[p] = serial[p]
               /\ hitq'[p] \in 1..hitser
    BY <1>0, <2>1, <2>3 DEF Numbered
  <2>4. hitq'[q] = hitser' /\ serial'[q] = hitser' % SerialLimit
    BY <1>0, <2>1
  <2>5. \A p \in Slots : to'[p] # {} =>
            hitq'[p] \in 1..hitser' /\ serial'[p] = hitq'[p] % SerialLimit
    BY <1>0, <2>2, <2>3, <2>4 DEF Numbered
  <2>6. \A p, r \in Slots : to'[p] # {} /\ to'[r] # {} /\ hitq'[p] = hitq'[r] => p = r
    BY <1>0, <2>2, <2>3, <2>4 DEF Numbered
  <2> QED
    BY <2>5, <2>6 DEF Numbered
<1>2. ASSUME NEW w \in Ships, OutHit(w) PROVE Numbered'
  <2>1. \A q \in Slots : to'[q] # {} => to[q] # {}
    BY <1>0, <1>2 DEF OutHit, GetHit, Read, Unread
  <2> QED
    BY <1>0, <1>2, <2>1, NumberedKept DEF Inv, OutHit
<1>3. ASSUME NEW w \in Ships, Free(w) \/ FreeSleeps(w) PROVE Numbered'
  <2>1. Drain(w)
    BY <1>3 DEF Free, FreeSleeps
  <2>2. \A q \in Slots : to'[q] # {} => to[q] # {}
    BY <1>0, <2>1 DEF Drain
  <2> QED
    BY <1>0, <2>1, <2>2, NumberedKept DEF Inv, Drain
<1>4. ASSUME NEW w \in Ships, FreeEnds(w) \/ Commission(w) PROVE Numbered'
  BY <1>0, <1>4, NumberedKept DEF Inv, FreeEnds, Commission
<1>5. CASE SetUp
  BY <1>0, <1>5, NumberedKept DEF Inv, SetUp
<1>6. CASE UNCHANGED vars
  BY <1>0, <1>6, NumberedKept DEF Inv
<1> QED
  BY <1>1, <1>2, <1>3, <1>4, <1>5, <1>6 DEF Next

-----------------------------------------------------------------------------
\* What a sender's readers have not seen is what his used slots report.
LEMMA UnseenUsed ==
    ASSUME TypeOK, NEW s
    PROVE  Boxes!Unseen(s) = {Report(q) : q \in Used(s)}
<1>1. Boxes!Unseen(s) = {h \in UNION {Box[w] : w \in Ships} : h.from = s}
  BY DEF Boxes!Unseen, Box
<1>2. ASSUME NEW h \in Boxes!Unseen(s) PROVE \E q \in Used(s) : h = Report(q)
  <2>1. PICK w \in Ships : h \in Box[w]
    BY <1>1, <1>2
  <2>2. PICK q \in Unread(w) : h = Report(q)
    BY <2>1 DEF Box
  <2>3. Sender(q) = s
    BY <1>1, <1>2, <2>2 DEF Report
  <2> QED
    BY <2>2, <2>3 DEF Used, Ring, Unread
<1>3. ASSUME NEW q \in Used(s) PROVE Report(q) \in Boxes!Unseen(s)
  <2>1. PICK w \in Ships : w \in to[q]
    BY <1>3 DEF Used, Ring, TypeOK
  <2>2. Report(q) \in Box[w] /\ Report(q).from = s
    BY <1>3, <2>1 DEF Box, Unread, Used, Ring, Report
  <2> QED
    BY <1>1, <2>2
<1> QED
  BY <1>2, <1>3

\* HitBoxes counts with the same Cardinality.
LEMMA SameCardinality == \A S : Boxes!Cardinality(S) = Cardinality(S)
BY DEF Boxes!Cardinality, Cardinality

\* As many of them as there are used slots.
LEMMA UnseenCount ==
    ASSUME TypeOK, Numbered, NEW s \in Ships
    PROVE  Cardinality(Boxes!Unseen(s)) = Cardinality(Used(s))
<1> DEFINE S == Used(s)
           T == {Report(q) : q \in Used(s)}
           f == [q \in S |-> Report(q)]
<1>1. IsFiniteSet(S)
  BY RingSize, FS_Subset DEF Used
<1>2. ASSUME NEW p \in S, NEW q \in S, f[p] = f[q] PROVE p = q
  BY <1>2 DEF Report, Numbered, Used, Ring
<1>3. f \in Bijection(S, T)
  BY <1>2, Fun_IsBij
<1> HIDE DEF f
<1>4. ExistsBijection(S, T)
  BY <1>3 DEF ExistsBijection
<1> HIDE DEF S, T
<1>5. Cardinality(T) = Cardinality(S)
  BY <1>1, <1>4, FS_Bijection
<1> QED
  BY <1>5, UnseenUsed DEF S, T

-----------------------------------------------------------------------------
\* MAKHIT is a report; what it overwrites is the oldest of a full ring.
LEMMA MakeHitReports ==
    ASSUME Inv, Numbered, NEW s \in Ships, NEW who \in SUBSET Ships, MakeHit(s, who)
    PROVE  Boxes!Report(s, who)
<1>0. /\ hitser \in Nat /\ to \in [Slots -> SUBSET Ships] /\ hitq \in [Slots -> 0..MaxHits]
      /\ hitser' = hitser + 1 /\ KNHSHP \in Nat \ {0}
  BY SizesAssumption DEF SizesAssumption, Inv, TypeOK, MakeHit
<1>1. PICK q \in Ring(s) :
          /\ TakenSlot(s, q)
          /\ serial' = [serial EXCEPT ![q] = hitser' % SerialLimit]
          /\ hitq' = [hitq EXCEPT ![q] = hitser']
          /\ to' = [to EXCEPT ![q] = who]
  BY DEF MakeHit
<1> DEFINE new == [from |-> s, number |-> hitser']
<1>2. q \in Slots /\ Sender(q) = s
  BY DEF Ring
<1>3. ASSUME NEW w \in Ships
      PROVE  Unread(w)' = (Unread(w) \ {q}) \cup (IF w \in who THEN {q} ELSE {})
  BY <1>0, <1>1, <1>2 DEF Unread
<1>4. ASSUME NEW p \in Slots, p # q PROVE Report(p)' = Report(p)
  BY <1>0, <1>1, <1>2, <1>4 DEF Report, Sender
<1>5. Report(q)' = new
  BY <1>0, <1>1, <1>2 DEF Report, Sender
<1>6. ASSUME NEW w \in Ships
      PROVE  Box'[w] = {Report(p) : p \in Unread(w) \ {q}} \cup (IF w \in who THEN {new} ELSE {})
  <2>1. Box'[w] = {Report(p)' : p \in Unread(w)'}
    BY DEF Box
  <2>2. ASSUME NEW h \in Box'[w]
        PROVE  h \in {Report(p) : p \in Unread(w) \ {q}} \cup (IF w \in who THEN {new} ELSE {})
    <3>1. PICK p \in Unread(w)' : h = Report(p)'
      BY <2>1, <2>2
    <3>2. CASE p = q
      BY <1>3, <1>5, <3>1, <3>2
    <3>3. CASE p # q
      <4>1. p \in Unread(w) \ {q} /\ p \in Slots
        BY <1>3, <3>1, <3>3 DEF Unread
      <4> QED
        BY <1>4, <3>1, <3>3, <4>1
    <3> QED
      BY <3>2, <3>3
  <2>3. ASSUME NEW p \in Unread(w) \ {q} PROVE Report(p) \in Box'[w]
    <3>1. p \in Unread(w)' /\ p \in Slots /\ p # q
      BY <1>3, <2>3 DEF Unread
    <3>2. Report(p)' = Report(p)
      BY <1>4, <3>1
    <3> QED
      BY <2>1, <3>1, <3>2
  <2>4. w \in who => new \in Box'[w]
    BY <1>3, <1>5, <2>1
  <2> QED
    BY <2>2, <2>3, <2>4
<1>7. CASE to[q] = {}
  <2>1. \A w \in Ships : Unread(w) \ {q} = Unread(w)
    BY <1>7 DEF Unread
  <2>2. \A w \in Ships : Box'[w] = (Box[w] \ {}) \cup (IF w \in who THEN {new} ELSE {})
    BY <1>6, <2>1 DEF Box
  <2>3. Cardinality(Boxes!Unseen(s)) < KNHSHP
    <3>1. Cardinality(Boxes!Unseen(s)) = Cardinality(Used(s))
      BY UnseenCount DEF Inv
    <3>2. IsFiniteSet(Ring(s) \ {q}) /\ Cardinality(Ring(s) \ {q}) = KNHSHP - 1
      BY RingSize, FS_RemoveElement
    <3>3. Used(s) \subseteq Ring(s) \ {q}
      BY <1>7 DEF Used
    <3>4. Cardinality(Used(s)) <= KNHSHP - 1 /\ Cardinality(Used(s)) \in Nat
      BY <3>2, <3>3, FS_Subset, FS_CardinalityType
    <3> QED
      BY <1>0, <3>1, <3>4
  <2>4. Boxes!Deliver(s, who, {})
    BY <1>0, <2>2 DEF Boxes!Deliver, Box
  <2> QED
    BY <2>3, <2>4, SameCardinality DEF Boxes!Report
<1>8. CASE to[q] # {}
  <2>1. \A p \in Ring(s) : to[p] # {} /\ serial[q] <= serial[p]
    BY <1>1, <1>8 DEF TakenSlot
  <2>2. ASSUME NEW w \in Ships
        PROVE  {Report(p) : p \in Unread(w) \ {q}} = Box[w] \ {Report(q)}
    <3>1. ASSUME NEW p \in Unread(w), Report(p) = Report(q) PROVE p = q
      BY <1>2, <1>8, <3>1 DEF Report, Numbered, Unread
    <3> QED
      BY <3>1 DEF Box
  <2>3. Boxes!Deliver(s, who, {Report(q)})
    <3>1. \A w \in Ships : Box'[w] = (Box[w] \ {Report(q)}) \cup (IF w \in who THEN {new} ELSE {})
      BY <1>6, <2>2
    <3> QED
      BY <1>0, <3>1 DEF Boxes!Deliver, Box
  <2>4. Report(q) \in Boxes!Unseen(s)
    BY <1>8, UnseenUsed DEF Inv, Used
  <2>5. Cardinality(Boxes!Unseen(s)) = KNHSHP
    <3>1. Used(s) = Ring(s)
      BY <2>1 DEF Used
    <3> QED
      BY <3>1, RingSize, UnseenCount DEF Inv
  <2>6. ASSUME hitser < SerialLimit, NEW g \in Boxes!Unseen(s)
        PROVE  Report(q).number <= g.number
    <3>1. PICK p \in Used(s) : g = Report(p)
      BY UnseenUsed DEF Inv
    <3>2. /\ p \in Slots /\ to[p] # {} /\ hitq[p] \in 1..hitser /\ hitq[q] \in 1..hitser
          /\ serial[p] = hitq[p] % SerialLimit /\ serial[q] = hitq[q] % SerialLimit
      BY <1>2, <1>8, <3>1 DEF Used, Ring, Numbered
    <3>3. SerialLimit \in Nat \ {0}
      BY SizesAssumption DEF SizesAssumption
    <3>4. ASSUME NEW n \in 1..hitser PROVE n % SerialLimit = n
      BY <1>0, <2>6, <3>3, SMT
    <3>5. serial[q] <= serial[p]
      BY <2>1, <3>1 DEF Used
    <3> QED
      BY <3>1, <3>2, <3>4, <3>5 DEF Report
  <2>7. Boxes!MayLose(s, Report(q))
    BY <2>4, <2>5, <2>6, SameCardinality DEF Boxes!MayLose, Boxes!IsOldest
  <2> QED
    BY <2>3, <2>4, <2>7 DEF Boxes!Report
<1> QED
  BY <1>7, <1>8

\* A ship that only reads leaves the boxes of the others as they are.
LEMMA OthersBoxes ==
    ASSUME hitq' = hitq, NEW v, Unread(v)' = Unread(v), v \in Ships
    PROVE  Box'[v] = Box[v]
BY DEF Box, Report

\* GETHIT sees one report, or none.
LEMMA OutHitSees ==
    ASSUME Inv, Numbered, NEW w \in Ships, OutHit(w)
    PROVE  Boxes!See(w) \/ (Box' = Box /\ hitser' = hitser)
<1>0. to \in [Slots -> SUBSET Ships] /\ hitq' = hitq /\ hitser' = hitser
  BY DEF Inv, TypeOK, OutHit
<1>1. CASE UNCHANGED to
  <2>1. \A v \in Ships : Box'[v] = Box[v]
    BY <1>0, <1>1, OthersBoxes DEF Unread
  <2> QED
    BY <1>0, <2>1 DEF Box
<1>2. ASSUME NEW q \in Unread(w), Read(w, q) PROVE Boxes!See(w)
  <2>0. q \in Slots /\ w \in to[q]
    BY DEF Unread
  <2>1. Unread(w)' = Unread(w) \ {q}
    BY <1>0, <1>2, <2>0 DEF Read, Unread
  <2>2. ASSUME NEW p \in Unread(w), Report(p) = Report(q) PROVE p = q
    BY <2>0, <2>2 DEF Report, Numbered, Unread
  <2>3. Box'[w] = Box[w] \ {Report(q)}
    <3>1. Box'[w] = {Report(p) : p \in Unread(w) \ {q}}
      BY <1>0, <2>1 DEF Box, Report
    <3> QED
      BY <2>2, <3>1 DEF Box
  <2>4. ASSUME NEW v \in Ships, v # w PROVE Box'[v] = Box[v]
    <3>1. Unread(v)' = Unread(v)
      BY <1>0, <1>2, <2>0, <2>4 DEF Read, Unread
    <3> QED
      BY <1>0, <3>1, OthersBoxes
  <2>5. Box' = [Box EXCEPT ![w] = @ \ {Report(q)}]
    BY <2>3, <2>4 DEF Box
  <2>6. Report(q) \in Box[w]
    BY DEF Box
  <2> QED
    BY <1>0, <2>5, <2>6 DEF Boxes!See, Box
<1> QED
  BY <1>1, <1>2 DEF OutHit, GetHit

\* The drain of FREE discards a box, since it leaves nothing unread.
LEMMA DrainDiscards ==
    ASSUME Inv, NEW w \in Ships, Drain(w)
    PROVE  Boxes!Discard({w})
<1>0. hitq' = hitq /\ hitser' = hitser
  BY DEF Drain
<1>1. Box'[w] = {}
  BY DrainEmpties DEF Box
<1>2. \A v \in Ships \ {w} : Box'[v] = Box[v]
  BY <1>0, DrainEmpties, OthersBoxes
<1>3. Box' = [v \in Ships |-> IF v \in {w} THEN {} ELSE Box[v]]
  BY <1>1, <1>2 DEF Box
<1> QED
  BY <1>0, <1>3 DEF Boxes!Discard, Box

\* Empty rings are empty boxes.
LEMMA BoxesInit == Init => Boxes!Init
BY DEF Init, Boxes!Init, Unread

\* Every step of the queue is a step of the boxes, or a stutter.
LEMMA BoxesNext == Inv /\ Numbered /\ [Next]_vars => [Boxes!Next]_<<Box, hitser>>
<1> SUFFICES ASSUME Inv, Numbered, [Next]_vars PROVE Boxes!Next \/ (Box' = Box /\ hitser' = hitser)
  OBVIOUS
<1>1. ASSUME NEW s \in Ships, NEW who \in SUBSET Ships, MakeHit(s, who) PROVE Boxes!Next
  BY <1>1, MakeHitReports DEF Boxes!Next
<1>2. ASSUME NEW w \in Ships, OutHit(w) PROVE Boxes!Next \/ (Box' = Box /\ hitser' = hitser)
  BY <1>2, OutHitSees DEF Boxes!Next
<1>3. ASSUME NEW w \in Ships, Free(w) \/ FreeSleeps(w) PROVE Boxes!Next
  BY <1>3, DrainDiscards DEF Boxes!Next, Free, FreeSleeps
<1>4. ASSUME UNCHANGED queue PROVE Box' = Box /\ hitser' = hitser
  BY <1>4 DEF Box, Report, Unread
<1>5. CASE SetUp
  <2>1. \A w \in Ships : Unread(w)' = {}
    BY <1>5 DEF SetUp, Unread
  <2>2. Box' = [v \in Ships |-> IF v \in Ships THEN {} ELSE Box[v]]
    BY <2>1 DEF Box
  <2>3. Boxes!Discard(Ships)
    BY <1>5, <2>2 DEF Boxes!Discard, Box, SetUp
  <2> QED
    BY <2>3 DEF Boxes!Next
<1> QED
  BY <1>1, <1>2, <1>3, <1>4, <1>5 DEF Next, FreeEnds, Commission

\* HITQL, HITQ and HITFLG keep the promise of HitBoxes: each report is seen once
\* by each of its recipients, and only the oldest of a full ring is lost while
\* the serials have not wrapped.
THEOREM ImplementsBoxes == Spec => BoxesSpec
<1>1. Spec => []Numbered
  BY NumberedInit, NumberedNext, Invariance, PTL DEF Spec
<1> QED
  BY <1>1, BoxesInit, BoxesNext, Invariance, PTL DEF Spec, BoxesSpec, Boxes!Spec, Box
=============================================================================
