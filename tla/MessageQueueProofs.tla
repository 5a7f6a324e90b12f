------------------------- MODULE MessageQueueProofs -------------------------
(***************************************************************************)
(* For any number of ships, slots, messages and sleepers.                  *)
(*                                                                         *)
(* A walk along the links is a sequence es with Follows(q, es), and one    *)
(* that ends is the list of the queue: Lists(q, es).  The routines on the  *)
(* link words are described by what they leave of such a list (LeftOf),    *)
(* UPDT by what it appends, RSRV by the readers it evicts until a slot is  *)
(* free.  Claims is what types and ListWellFormed need to be inductive: a  *)
(* reserved slot still names the captain who reserved it, since a REMV,    *)
(* even a stale one, takes only its own captain out of a slot.             *)
(*                                                                         *)
(* From there: only a stale REMV breaks the list; only it, and a refused   *)
(* SRCH, leave a message uncounted; and until then the table behaves like  *)
(* Mailboxes, where a mailbox is the increasing enumeration of the places  *)
(* of its ship's messages in the list.                                     *)
(***************************************************************************)
EXTENDS MessageQueue, FiniteSetTheorems, FunctionTheorems, SequenceTheorems,
    WellFoundedInduction, TLAPS

\* Induction and recursion, in a form that needs no operator for a parameter.
LEMMA Ordered == \E R : IsWellFoundedOn(R, Nat) /\ \A x, y \in Nat : y < x => <<y, x>> \in R
<1>1. IsWellFoundedOn(OpToRel(<, Nat), Nat)
  BY NatLessThanWellFounded
<1>2. \A x, y \in Nat : y < x => <<y, x>> \in OpToRel(<, Nat)
  BY DEF OpToRel
<1> QED
  BY <1>1, <1>2

\* A property of some natural number has a least one.
LEMMA Least ==
    ASSUME NEW T \in SUBSET Nat, T # {}
    PROVE  \E x \in T : \A y \in T : x <= y
<1>1. PICK R : IsWellFoundedOn(R, Nat) /\ \A x, y \in Nat : y < x => <<y, x>> \in R
  BY Ordered
<1>2. PICK x \in T : \A y \in T : ~(<<y, x>> \in R)
  BY <1>1, WFMin
<1>3. ASSUME NEW y \in T PROVE x <= y
  <2>1. x \in Nat /\ y \in Nat
    OBVIOUS
  <2>2. ~(y < x)
    BY <1>1, <1>2, <2>1, Zenon
  <2> QED
    BY <2>1, <2>2
<1> QED
  BY <1>3

\* What holds of 0, and of n + 1 when of n, holds up to any N.
LEMMA UpTo ==
    ASSUME NEW N \in Nat, NEW T, 0 \in T, \A n \in 1..N : n - 1 \in T => n \in T
    PROVE  0..N \subseteq T
<1> DEFINE Rest == {n \in 0..N : n \notin T}
<1>1. ASSUME Rest # {} PROVE FALSE
  <2>1. Rest \in SUBSET Nat
    OBVIOUS
  <2> HIDE DEF Rest
  <2>2. PICK n \in Rest : \A k \in Rest : n <= k
    BY <1>1, <2>1, Least
  <2> USE DEF Rest
  <2>3. n \in 1..N /\ n - 1 \in 0..N /\ n - 1 \in T
    BY <2>2
  <2> QED
    BY <2>3, <2>2
<1> QED
  BY <1>1

\* f begins with a and goes on by F, for n steps.
Iterated(F, S, a, n, f) ==
    f \in [0..n -> S] /\ f[0] = a /\ \A k \in 1..n : f[k] = F[f[k - 1]]

\* There is a function on 0..N that iterates F from a.
LEMMA Iterates ==
    ASSUME NEW N \in Nat, NEW S, NEW a \in S, NEW F \in [S -> S]
    PROVE  \E f : Iterated(F, S, a, N, f)
<1>1. PICK T : \A n : n \in T <=> n \in 0..N /\ \E f : Iterated(F, S, a, n, f)
  <2> WITNESS {n \in 0..N : \E f : Iterated(F, S, a, n, f)}
  <2> QED
    OBVIOUS
<1>2. 0 \in T
  <2>1. Iterated(F, S, a, 0, [k \in 0..0 |-> a])
    BY DEF Iterated
  <2>2. 0 \in 0..N
    OBVIOUS
  <2> QED
    BY <1>1, <2>1, <2>2
<1>3. ASSUME NEW n \in 1..N, n - 1 \in T PROVE n \in T
  <2>1. PICK f : Iterated(F, S, a, n - 1, f)
    BY <1>1, <1>3
  <2>2. Iterated(F, S, a, n, [k \in 0..n |-> IF k = n THEN F[f[n - 1]] ELSE f[k]])
    BY <2>1 DEF Iterated
  <2>3. n \in 0..N
    OBVIOUS
  <2> QED
    BY <1>1, <2>2, <2>3
<1>4. N \in T
  BY <1>2, <1>3, UpTo
<1> QED
  BY <1>1, <1>4

-----------------------------------------------------------------------------
\* What the walk along the links finds.
Before(es, n) == IF n = 1 THEN Header ELSE es[n - 1]
LastOf(es) == Before(es, Len(es) + 1)

\* es follows the links of q.
Follows(q, es) ==
    /\ es \in Seq(Indices)
    /\ \A k \in 1..Len(es) : es[k] = q.next[Before(es, k)]

\* ... for n links, or to the end.
Walked(q, n, es) ==
    /\ Follows(q, es) /\ Len(es) <= n
    /\ Len(es) < n => q.next[LastOf(es)] = Header

\* ... to the end, and the list is not longer than the table.
Lists(q, es) == Follows(q, es) /\ q.next[LastOf(es)] = Header /\ Len(es) <= Slots

\* A sequence as a function.
LEMMA SeqFacts ==
    ASSUME NEW S, NEW es \in Seq(S)
    PROVE  /\ Len(es) \in Nat /\ es \in [1..Len(es) -> S]
           /\ es = <<>> <=> Len(es) = 0
BY SMT

\* What the links lead through are slots.
LEMMA FollowsType ==
    ASSUME NEW q, NEW es, Follows(q, es), NEW k \in 1..Len(es) + 1
    PROVE  Before(es, k) \in Links /\ (k # 1 => Before(es, k) \in Indices)
<1>1. Len(es) \in Nat /\ es \in [1..Len(es) -> Indices]
  BY SeqFacts DEF Follows
<1> QED
  BY <1>1 DEF Before, Links

\* One more step of the walk.
LEMMA WalkedMore ==
    ASSUME NEW q \in Queues, NEW n \in Nat, NEW es, Walked(q, n, es)
    PROVE  Walked(q, n + 1, Followed(q, es))
<1>1. /\ es \in Seq(Indices) /\ Len(es) \in Nat
      /\ es \in [1..Len(es) -> Indices] /\ (es = <<>> <=> Len(es) = 0)
  BY SeqFacts DEF Walked, Follows
<1> DEFINE i == q.next[LastOf(es)]
<1>2. i \in Links
  BY FollowsType, <1>1 DEF Walked, Queues, LastOf
<1>3. Followed(q, es) = IF i = Header THEN es ELSE Append(es, i)
  BY <1>1 DEF Followed, LastOf, Before
<1>4. CASE i = Header
  BY <1>1, <1>3, <1>4 DEF Walked
<1>5. CASE i # Header
  <2> DEFINE fs == Append(es, i)
  <2>1. i \in Indices
    BY <1>2, <1>5 DEF Links
  <2>2. /\ fs \in Seq(Indices) /\ Len(fs) = Len(es) + 1
        /\ \A k \in 1..Len(es) : fs[k] = es[k]
        /\ fs[Len(es) + 1] = i
    BY <1>1, <2>1
  <2> HIDE DEF fs
  <2>3. \A k \in 1..Len(es) + 1 : Before(fs, k) = Before(es, k)
    BY <1>1, <2>2 DEF Before
  <2>4. Follows(q, fs)
    BY <1>1, <2>2, <2>3 DEF Follows, Walked, LastOf
  <2>5. Len(fs) = n + 1
    BY <1>1, <1>5, <2>2 DEF Walked
  <2> QED
    BY <1>3, <1>5, <2>4, <2>5 DEF Walked, fs
<1> QED
  BY <1>4, <1>5

Stage(q, P) == {Followed(q, es) : es \in P}

\* The walk is a sequence of links, wherever it comes from.
LEMMA FollowedType ==
    ASSUME NEW q \in Queues, NEW es \in Seq(Links)
    PROVE  Followed(q, es) \in Seq(Links)
<1>1. /\ Len(es) \in Nat /\ es \in [1..Len(es) -> Links] /\ (es = <<>> <=> Len(es) = 0)
  BY SeqFacts
<1> DEFINE j == IF es = <<>> THEN Header ELSE es[Len(es)]
<1>2. j \in Links
  BY <1>1 DEF Links
<1>3. q.next[j] \in Links
  BY <1>2 DEF Queues
<1> QED
  BY <1>3 DEF Followed

\* Entries: the walk from the header, to the end of the list or beyond every bound.
LEMMA EntriesAre ==
    ASSUME NEW q \in Queues
    PROVE  Walked(q, Slots + 1, Entries(q))
<1>0. Slots + 1 \in Nat /\ Slots \in Nat
  BY SlotsAssumption DEF SlotsAssumption
<1> DEFINE Rec(f) == f = [n \in 0..Slots + 1 |->
                IF n = 0 THEN {<<>>} ELSE {Followed(q, es) : es \in f[n - 1]}]
<1>1. \E f : Rec(f)
  <2> DEFINE S == SUBSET Seq(Links)
  <2>1. PICK F : F = [P \in S |-> Stage(q, P)]
    OBVIOUS
  <2>2. F \in [S -> S] /\ {<<>>} \in S
    <3>1. \A P \in S : Stage(q, P) \in S
      BY FollowedType DEF Stage
    <3> QED
      BY <2>1, <3>1
  <2> HIDE DEF S
  <2>3. PICK f : Iterated(F, S, {<<>>}, Slots + 1, f)
    BY <1>0, <2>2, Iterates
  <2>4. ASSUME NEW n \in 0..Slots + 1
        PROVE  f[n] = IF n = 0 THEN {<<>>} ELSE {Followed(q, es) : es \in f[n - 1]}
    <3>1. n # 0 => f[n - 1] \in S /\ f[n] = F[f[n - 1]]
      BY <1>0, <2>3 DEF Iterated
    <3>2. n # 0 => f[n] = Stage(q, f[n - 1])
      BY <2>1, <3>1
    <3>3. f[0] = {<<>>}
      BY <2>3 DEF Iterated
    <3> QED
      BY <3>2, <3>3 DEF Stage
  <2>5. DOMAIN f = 0..Slots + 1 /\ f = [n \in DOMAIN f |-> f[n]]
    BY <2>3 DEF Iterated
  <2> QED
    BY <2>4, <2>5, Zenon
<1>2. PICK f : Rec(f) /\ Entries(q) = CHOOSE es \in f[Slots + 1] : TRUE
  BY <1>1, Zenon DEF Entries
<1>3. f[0] = {<<>>} /\ \A n \in 1..Slots + 1 : f[n] = {Followed(q, es) : es \in f[n - 1]}
  BY <1>0, <1>2
<1>4. PICK T : \A n : n \in T <=> n \in 0..Slots + 1 /\ \E es : f[n] = {es} /\ Walked(q, n, es)
  <2> WITNESS {n \in 0..Slots + 1 : \E es : f[n] = {es} /\ Walked(q, n, es)}
  <2> QED
    OBVIOUS
<1>5. 0 \in T
  <2>1. Walked(q, 0, <<>>)
    BY DEF Walked, Follows
  <2>2. 0 \in 0..Slots + 1
    BY <1>0
  <2> QED
    BY <1>3, <1>4, <2>1, <2>2, Zenon
<1>6. ASSUME NEW n \in 1..Slots + 1, n - 1 \in T PROVE n \in T
  <2>1. PICK es : f[n - 1] = {es} /\ Walked(q, n - 1, es)
    BY <1>4, <1>6
  <2>2. f[n] = {Followed(q, es)}
    <3>1. f[n] = Stage(q, f[n - 1])
      BY <1>3 DEF Stage
    <3>2. Stage(q, {es}) = {Followed(q, es)}
      BY DEF Stage
    <3> QED
      BY <2>1, <3>1, <3>2, Zenon
  <2>3. n - 1 \in Nat /\ n - 1 + 1 = n /\ n \in 0..Slots + 1
    BY <1>0
  <2>4. Walked(q, n - 1 + 1, Followed(q, es))
    BY <2>1, <2>3, WalkedMore
  <2> QED
    BY <1>4, <2>2, <2>3, <2>4
<1>7. Slots + 1 \in T
  BY <1>0, <1>5, <1>6, UpTo
<1>8. PICK es : f[Slots + 1] = {es} /\ Walked(q, Slots + 1, es)
  BY <1>4, <1>7
<1>9. Entries(q) = es
  BY <1>2, <1>8, Zenon
<1> QED
  BY <1>8, <1>9

\* What a list is, link by link.
LEMMA ListFacts ==
    ASSUME NEW q, NEW es, Lists(q, es)
    PROVE  /\ Len(es) \in Nat /\ Len(es) <= Slots
           /\ \A k \in 1..Len(es) : es[k] \in Indices /\ es[k] \in Nat /\ es[k] # Header
           /\ \A k \in 1..Len(es) : k # 1 => es[k] = q.next[es[k - 1]]
           /\ Len(es) # 0 => es[1] = q.next[Header] /\ q.next[es[Len(es)]] = Header
           /\ Len(es) = 0 => q.next[Header] = Header
           /\ LastOf(es) = IF Len(es) = 0 THEN Header ELSE es[Len(es)]
<1>1. Len(es) \in Nat /\ es \in [1..Len(es) -> Indices] /\ Len(es) <= Slots
  BY SeqFacts DEF Lists, Follows
<1>2. \A k \in 1..Len(es) : es[k] \in Indices /\ es[k] \in Nat /\ es[k] # Header
  <2>1. \A i \in Indices : i \in Nat /\ i # Header
    BY DEF Indices, Header
  <2> QED
    BY <1>1, <2>1
<1>3. LastOf(es) = IF Len(es) = 0 THEN Header ELSE es[Len(es)]
  BY <1>1 DEF LastOf, Before
<1>4. \A k \in 1..Len(es) : es[k] = q.next[Before(es, k)]
  BY DEF Lists, Follows
<1>5. \A k \in 1..Len(es) : k # 1 => es[k] = q.next[es[k - 1]]
  BY <1>4 DEF Before
<1>6. Len(es) # 0 => es[1] = q.next[Header]
  BY <1>1, <1>4 DEF Before
<1>7. q.next[LastOf(es)] = Header
  BY DEF Lists
<1> QED
  BY <1>1, <1>2, <1>3, <1>5, <1>6, <1>7

\* A walk that ends has found the whole list.
LEMMA EndsLists ==
    ASSUME NEW q \in Queues, Ends(q)
    PROVE  Lists(q, Entries(q))
<1>1. Len(Entries(q)) \in Nat /\ Slots \in Nat
  BY EntriesAre, SeqFacts, SlotsAssumption DEF Walked, Follows, SlotsAssumption
<1> QED
  BY <1>1, EntriesAre DEF Walked, Lists, Ends

\* There is one list only, and Entries is it.
LEMMA ListsUnique ==
    ASSUME NEW q \in Queues, NEW es, Lists(q, es)
    PROVE  Entries(q) = es /\ Ends(q)
<1>0. Slots \in Nat
  BY SlotsAssumption DEF SlotsAssumption
<1>1. PICK fs : fs = Entries(q)
  OBVIOUS
<1>2. Walked(q, Slots + 1, fs)
  BY <1>1, EntriesAre
<1>3. /\ es \in Seq(Indices) /\ Len(es) \in Nat /\ es \in [1..Len(es) -> Indices]
      /\ fs \in Seq(Indices) /\ Len(fs) \in Nat /\ fs \in [1..Len(fs) -> Indices]
  BY <1>2, SeqFacts DEF Walked, Lists, Follows
<1>4. PICK T : \A n : n \in T <=>
        n \in Nat /\ \A k \in 1..n : k <= Len(es) /\ k <= Len(fs) => es[k] = fs[k]
  <2> WITNESS {n \in Nat : \A k \in 1..n : k <= Len(es) /\ k <= Len(fs) => es[k] = fs[k]}
  <2> QED
    OBVIOUS
<1>5. 0 \in T
  BY <1>4
<1>6. ASSUME NEW n \in 1..Slots + 1, n - 1 \in T PROVE n \in T
  <2>1. ASSUME n <= Len(es), n <= Len(fs) PROVE es[n] = fs[n]
    <3>1. Before(es, n) = Before(fs, n)
      BY <1>4, <1>6, <2>1, <1>3 DEF Before
    <3>2. es[n] = q.next[Before(es, n)] /\ fs[n] = q.next[Before(fs, n)]
      BY <1>2, <1>3, <2>1 DEF Lists, Walked, Follows
    <3> QED
      BY <3>1, <3>2
  <2> QED
    BY <1>4, <1>6, <2>1
<1>7. Slots + 1 \in T
  BY <1>0, <1>5, <1>6, UpTo
<1>8. \A k \in 1..Slots + 1 : k <= Len(es) /\ k <= Len(fs) => es[k] = fs[k]
  BY <1>4, <1>7
<1>9. Len(es) <= Slots /\ Len(fs) <= Slots + 1
  BY <1>2 DEF Lists, Walked
<1>10. ASSUME Len(es) < Len(fs) PROVE FALSE
  <2>1. Before(es, Len(es) + 1) = Before(fs, Len(es) + 1)
    BY <1>0, <1>3, <1>8, <1>9, <1>10 DEF Before
  <2>2. fs[Len(es) + 1] = q.next[Before(fs, Len(es) + 1)]
    BY <1>2, <1>3, <1>10 DEF Walked, Follows
  <2>3. fs[Len(es) + 1] # Header
    BY <1>3, <1>10 DEF Indices, Header
  <2> QED
    BY <2>1, <2>2, <2>3 DEF Lists, LastOf
<1>11. ASSUME Len(fs) < Len(es) PROVE FALSE
  <2>1. Before(es, Len(fs) + 1) = Before(fs, Len(fs) + 1)
    BY <1>0, <1>3, <1>8, <1>9, <1>11 DEF Before
  <2>2. es[Len(fs) + 1] = q.next[Before(es, Len(fs) + 1)]
    BY <1>3, <1>11 DEF Lists, Follows
  <2>3. es[Len(fs) + 1] # Header
    BY <1>3, <1>11 DEF Indices, Header
  <2>4. q.next[LastOf(fs)] = Header
    BY <1>0, <1>2, <1>3, <1>9, <1>11 DEF Walked
  <2> QED
    BY <2>1, <2>2, <2>3, <2>4 DEF LastOf
<1>12. Len(es) = Len(fs)
  <2>1. Len(es) \in Nat /\ Len(fs) \in Nat
    BY <1>3
  <2> QED
    BY <1>10, <1>11, <2>1
<1>13. es = fs
  BY <1>0, <1>3, <1>8, <1>9, <1>12
<1> QED
  BY <1>1, <1>9, <1>12, <1>13 DEF Ends

\* No slot is twice in a list that ends.
LEMMA ListsInjective ==
    ASSUME NEW q, NEW es, Lists(q, es),
           NEW i \in 1..Len(es), NEW j \in 1..Len(es), es[i] = es[j]
    PROVE  i = j
<1>1. Len(es) \in Nat /\ i \in Int /\ j \in Int
  BY ListFacts
<1> DEFINE Twice(d) == \E a, b \in 1..Len(es) : a < b /\ es[a] = es[b] /\ d = Len(es) - b
<1>2. \A d \in Nat : ~Twice(d)
  <2>1. PICK T : \A d : d \in T <=> d \in Nat /\ Twice(d)
    <3> WITNESS {d \in Nat : Twice(d)}
    <3> QED
      OBVIOUS
  <2>2. SUFFICES ASSUME T # {} PROVE FALSE
    BY <2>1
  <2>3. T \in SUBSET Nat
    BY <2>1
  <2>4. PICK d \in T : \A e \in T : d <= e
    BY <2>2, <2>3, Least
  <2>5. PICK a, b \in 1..Len(es) : a < b /\ es[a] = es[b] /\ d = Len(es) - b
    BY <2>1, <2>4
  <2>6. a + 1 \in 1..Len(es) /\ a + 1 # 1 /\ a + 1 - 1 = a
    BY <1>1, <2>5
  <2>7. es[a + 1] = q.next[es[a]] /\ es[a + 1] # Header
    BY <2>6, ListFacts
  <2>8. CASE b = Len(es)
    <3>1. Len(es) # 0
      BY <2>8
    <3>2. q.next[es[b]] = Header
      BY <2>8, <3>1, ListFacts
    <3> QED
      BY <2>5, <2>7, <3>2
  <2>9. CASE b # Len(es)
    <3>1. b + 1 \in 1..Len(es) /\ b + 1 # 1 /\ b + 1 - 1 = b
      BY <1>1, <2>9
    <3>2. es[b + 1] = q.next[es[b]]
      BY <3>1, ListFacts
    <3>3. a + 1 < b + 1 /\ d - 1 = Len(es) - (b + 1) /\ d - 1 \in Nat
      BY <1>1, <2>5, <2>9
    <3>4. Twice(d - 1)
      BY <2>5, <2>6, <2>7, <3>1, <3>2, <3>3
    <3>5. d - 1 \in T
      BY <2>1, <3>3, <3>4
    <3>6. d \in Nat
      BY <2>3
    <3> QED
      BY <2>4, <3>5, <3>6
  <2> QED
    BY <2>8, <2>9
<1>3. ASSUME i < j PROVE FALSE
  <2>1. Twice(Len(es) - j) /\ Len(es) - j \in Nat
    BY <1>1, <1>3
  <2> QED
    BY <1>2, <2>1
<1>4. ASSUME j < i PROVE FALSE
  <2>1. Twice(Len(es) - i) /\ Len(es) - i \in Nat
    BY <1>1, <1>4
  <2> QED
    BY <1>2, <2>1
<1> QED
  BY <1>1, <1>3, <1>4

\* Neighbours in the list have different links in front of them.
LEMMA BeforeDiffers ==
    ASSUME NEW q, NEW es, Lists(q, es), NEW i \in 1..Len(es) + 1
    PROVE  /\ \A j \in 1..Len(es) + 1 : Before(es, i) = Before(es, j) => i = j
           /\ \A n \in 1..Len(es) : Before(es, i) = es[n] => i = n + 1
<1>1. Len(es) \in Nat /\ \A k \in 1..Len(es) : es[k] # Header
  BY ListFacts
<1>2. \A k, n \in 1..Len(es) : es[k] = es[n] => k = n
  BY ListsInjective
<1>3. \A n \in 1..Len(es) : Before(es, i) = es[n] => i = n + 1
  BY <1>1, <1>2 DEF Before
<1>4. \A j \in 1..Len(es) + 1 : Before(es, i) = Before(es, j) => i = j
  BY <1>1, <1>2 DEF Before
<1> QED
  BY <1>3, <1>4

-----------------------------------------------------------------------------
\* A list that is as it should be: UPDT finds its end, and every entry has a reader.
Sound(q, es) ==
    /\ q \in Queues /\ Lists(q, es)
    /\ q.last = LastOf(es)
    /\ \A k \in 1..Len(es) : q.to[es[k]] # {}

\* es without its n-th entry.
Without(es, n) == [k \in 1..Len(es) - 1 |-> IF k < n THEN es[k] ELSE es[k + 1]]

\* Where REMV finds it.
At(es, n) == [prev |-> Before(es, n), slot |-> es[n]]

\* A list without its n-th entry.
LEMMA WithoutFacts ==
    ASSUME NEW es \in Seq(Indices), NEW n \in 1..Len(es)
    PROVE  /\ Without(es, n) \in Seq(Indices)
           /\ Len(Without(es, n)) = Len(es) - 1
           /\ \A k \in 1..Len(es) - 1 : Without(es, n)[k] = IF k < n THEN es[k] ELSE es[k + 1]
           /\ \A k \in 1..Len(es) :
                Before(Without(es, n), k) = IF k <= n THEN Before(es, k) ELSE es[k]
<1>1. Len(es) \in Nat /\ es \in [1..Len(es) -> Indices]
  BY SeqFacts
<1> DEFINE fs == Without(es, n)
<1>2. Len(es) - 1 \in Nat /\ fs \in [1..Len(es) - 1 -> Indices]
  BY <1>1 DEF Without
<1>3. fs \in Seq(Indices) /\ Len(fs) = Len(es) - 1
  BY <1>2
<1>4. \A k \in 1..Len(es) - 1 : fs[k] = IF k < n THEN es[k] ELSE es[k + 1]
  BY DEF Without
<1>5. ASSUME NEW k \in 1..Len(es)
      PROVE  Before(fs, k) = IF k <= n THEN Before(es, k) ELSE es[k]
  <2>1. CASE k = 1
    BY <1>1, <2>1 DEF Before
  <2>2. CASE k # 1
    <3>1. k - 1 \in 1..Len(es) - 1 /\ k - 1 + 1 = k /\ (k - 1 < n <=> k <= n)
      BY <1>1, <2>2
    <3>2. fs[k - 1] = IF k <= n THEN es[k - 1] ELSE es[k]
      BY <1>4, <3>1
    <3> HIDE DEF fs
    <3> QED
      BY <2>2, <3>2 DEF Before
  <2> QED
    BY <2>1, <2>2
<1> QED
  BY <1>3, <1>4, <1>5

\* Unlinking the n-th entry leaves the others in their order, and the end at the end.
LEMMA UnlinkAt ==
    ASSUME NEW q, NEW es, Sound(q, es), NEW n \in 1..Len(es)
    PROVE  /\ Sound(Unlink(q, At(es, n), q.next[es[n]]), Without(es, n))
           /\ IsFree(Unlink(q, At(es, n), q.next[es[n]]), es[n])
           /\ \A i \in Indices : i # es[n] => Unlink(q, At(es, n), q.next[es[n]]).to[i] = q.to[i]
           /\ \A i \in Indices : i # es[n] /\ i # Before(es, n) =>
                Unlink(q, At(es, n), q.next[es[n]]).next[i] = q.next[i]
<1>1. q \in Queues /\ Lists(q, es) /\ es \in Seq(Indices) /\ Len(es) \in Nat
  BY ListFacts DEF Sound, Lists, Follows
<1>2. /\ es[n] \in Indices /\ es[n] \in Links /\ Before(es, n) \in Links
      /\ q.next[es[n]] \in Links /\ Before(es, n) # es[n] /\ q.last \in Links
  <2>1. es[n] \in Indices
    BY <1>1, ListFacts
  <2>2. Before(es, n) \in Links /\ n \in 1..Len(es) + 1
    BY <1>1, FollowsType DEF Lists
  <2>3. Before(es, n) # es[n]
    BY <1>1, <2>2, BeforeDiffers
  <2> QED
    BY <1>1, <2>1, <2>2, <2>3 DEF Links, Queues
<1>3. PICK p : p = Unlink(q, At(es, n), q.next[es[n]])
  OBVIOUS
<1>4. PICK fs : fs = Without(es, n)
  OBVIOUS
<1>5. /\ \A i \in Links : p.next[i] = IF i = es[n] THEN 0
                          ELSE IF i = Before(es, n) THEN q.next[es[n]] ELSE q.next[i]
      /\ p.to = [q.to EXCEPT ![es[n]] = {}]
      /\ p.last = IF q.next[es[n]] = Header THEN Before(es, n) ELSE q.last
  BY <1>3 DEF Unlink, At
<1>6. p \in Queues
  <2>1. 0 \in Links
    BY <1>2, SlotsAssumption DEF Links, Indices, SlotsAssumption
  <2> QED
    BY <1>1, <1>2, <1>3, <2>1 DEF Queues, Unlink, At
<1>7. /\ fs \in Seq(Indices) /\ Len(fs) = Len(es) - 1
      /\ \A k \in 1..Len(es) - 1 : fs[k] = IF k < n THEN es[k] ELSE es[k + 1]
      /\ \A k \in 1..Len(es) : Before(fs, k) = IF k <= n THEN Before(es, k) ELSE es[k]
  BY <1>1, <1>4, WithoutFacts
\* The k-th of the others is where the links lead.
<1>8. ASSUME NEW k \in 1..Len(es)
      PROVE  p.next[Before(fs, k)] = IF k < n THEN es[k]
                                     ELSE IF k < Len(es) THEN es[k + 1] ELSE Header
  <2>1. k < Len(es) => q.next[es[k]] = es[k + 1]
    <3>1. k < Len(es) => k + 1 \in 1..Len(es) /\ k + 1 # 1 /\ k + 1 - 1 = k
      BY <1>1
    <3> QED
      BY <1>1, <3>1, ListFacts
  <2>2. k = Len(es) => q.next[es[k]] = Header
    <3>1. Len(es) # 0
      OBVIOUS
    <3> QED
      BY <1>1, <3>1, ListFacts
  <2>3. CASE k < n
    <3>1. Before(fs, k) = Before(es, k) /\ k \in 1..Len(es) + 1 /\ n \in 1..Len(es) + 1
      BY <1>1, <1>7, <2>3
    <3>2. Before(es, k) # es[n] /\ Before(es, k) # Before(es, n) /\ Before(es, k) \in Links
      BY <1>1, <2>3, <3>1, BeforeDiffers, FollowsType DEF Lists
    <3>3. es[k] = q.next[Before(es, k)]
      BY <1>1 DEF Lists, Follows
    <3> QED
      BY <1>5, <2>3, <3>1, <3>2, <3>3
  <2>4. CASE k = n
    <3>1. Before(fs, k) = Before(es, n)
      BY <1>1, <1>7, <2>4
    <3>2. p.next[Before(fs, k)] = q.next[es[n]]
      BY <1>2, <1>5, <3>1
    <3> QED
      BY <1>1, <2>1, <2>2, <2>4, <3>2
  <2>5. CASE n < k
    <3>1. Before(fs, k) = es[k]
      BY <1>1, <1>7, <2>5
    <3>2. es[k] \in Indices /\ es[k] # es[n]
      BY <1>1, <2>5, ListFacts, ListsInjective
    <3>3. n \in 1..Len(es) + 1 /\ n # k + 1
      BY <1>1, <2>5
    <3>4. es[k] # Before(es, n)
      BY <1>1, <3>3, BeforeDiffers
    <3>5. p.next[Before(fs, k)] = q.next[es[k]]
      BY <1>5, <3>1, <3>2, <3>4 DEF Links
    <3> QED
      BY <1>1, <2>1, <2>2, <2>5, <3>5
  <2> QED
    BY <1>1, <2>3, <2>4, <2>5
<1>9. Follows(p, fs)
  <2>1. ASSUME NEW k \in 1..Len(fs) PROVE fs[k] = p.next[Before(fs, k)]
    <3>1. k \in 1..Len(es) /\ k \in 1..Len(es) - 1 /\ k < Len(es)
      BY <1>1, <1>7
    <3> QED
      BY <1>7, <1>8, <3>1
  <2> QED
    BY <1>7, <2>1 DEF Follows
<1>10. LastOf(fs) = Before(fs, Len(es)) /\ p.next[LastOf(fs)] = Header
  <2>1. Len(fs) + 1 = Len(es) /\ Len(es) \in 1..Len(es) /\ ~(Len(es) < n)
    BY <1>1, <1>7
  <2> QED
    BY <1>1, <1>8, <2>1 DEF LastOf
<1>11. Lists(p, fs)
  <2>1. Len(fs) <= Slots
    BY <1>1, <1>7, ListFacts, SlotsAssumption DEF SlotsAssumption
  <2> QED
    BY <1>9, <1>10, <2>1 DEF Lists
<1>12. p.last = LastOf(fs)
  <2>1. Len(es) # 0 /\ Len(es) \in 1..Len(es)
    BY <1>1
  <2>2. q.next[es[Len(es)]] = Header /\ LastOf(es) = es[Len(es)]
    BY <1>1, <2>1, ListFacts
  <2>3. CASE n = Len(es)
    BY <1>1, <1>5, <1>7, <1>10, <2>2, <2>3
  <2>4. CASE n # Len(es)
    <3>1. n + 1 \in 1..Len(es) /\ n + 1 # 1 /\ n + 1 - 1 = n
      BY <1>1, <2>4
    <3>2. q.next[es[n]] # Header
      BY <1>1, <3>1, ListFacts
    <3>3. p.last = es[Len(es)]
      BY <1>5, <2>2, <3>2 DEF Sound
    <3>4. Before(fs, Len(es)) = es[Len(es)]
      BY <1>1, <1>7, <2>1, <2>4
    <3> QED
      BY <1>10, <3>3, <3>4
  <2> QED
    BY <2>3, <2>4
<1>13. ASSUME NEW k \in 1..Len(fs) PROVE p.to[fs[k]] # {}
  <2>1. k \in 1..Len(es) - 1 /\ k \in 1..Len(es) /\ k + 1 \in 1..Len(es)
    BY <1>1, <1>7
  <2>2. PICK j \in 1..Len(es) : fs[k] = es[j] /\ j # n
    BY <1>1, <1>7, <2>1
  <2>3. es[j] \in Indices /\ es[j] # es[n]
    BY <1>1, <2>2, ListFacts, ListsInjective
  <2>4. p.to[es[j]] = q.to[es[j]]
    BY <1>1, <1>5, <2>3 DEF Queues
  <2> QED
    BY <2>2, <2>4 DEF Sound
<1>14. IsFree(p, es[n])
  BY <1>1, <1>2, <1>5 DEF IsFree, Queues
<1>15. /\ \A i \in Indices : i # es[n] => p.to[i] = q.to[i]
       /\ \A i \in Indices : i # es[n] /\ i # Before(es, n) => p.next[i] = q.next[i]
  BY <1>1, <1>2, <1>5 DEF Queues, Links
<1> QED
  BY <1>3, <1>4, <1>6, <1>11, <1>12, <1>13, <1>14, <1>15 DEF Sound

-----------------------------------------------------------------------------
\* The slots of a list.
In(es) == {es[k] : k \in 1..Len(es)}

\* The list fs of p is what is left of the list es of q: its entries are in the
\* old order, those that are gone have free slots, and no slot has new readers.
LeftOf(q, es, p, fs) ==
    /\ Sound(p, fs)
    /\ In(fs) \subseteq In(es)
    /\ \A k, l \in 1..Len(fs) : \A i, j \in 1..Len(es) :
          fs[k] = es[i] /\ fs[l] = es[j] => (k < l <=> i < j)
    /\ \A i \in Indices \ In(es) : p.next[i] = q.next[i]
    /\ \A i \in In(es) \ In(fs) : IsFree(p, i)
    /\ \A i \in Indices : p.to[i] \subseteq q.to[i] /\ (i \notin In(es) => p.to[i] = q.to[i])

\* Nothing lost: a list is what is left of itself.
LEMMA LeftAll ==
    ASSUME NEW q, NEW es, Sound(q, es)
    PROVE  LeftOf(q, es, q, es)
<1>1. Lists(q, es) /\ Len(es) \in Nat
  BY ListFacts DEF Sound
<1>2. \A i, j \in 1..Len(es) : es[i] = es[j] => i = j
  BY <1>1, ListsInjective
<1> QED
  BY <1>1, <1>2 DEF LeftOf

\* What is left of what is left.
LEMMA LeftOfLeft ==
    ASSUME NEW q, NEW es, NEW p, NEW fs, NEW r, NEW gs,
           LeftOf(q, es, p, fs), LeftOf(p, fs, r, gs), Sound(q, es)
    PROVE  LeftOf(q, es, r, gs)
<1>1. Sound(r, gs) /\ In(gs) \subseteq In(es)
  BY DEF LeftOf
<1>2. ASSUME NEW k \in 1..Len(gs), NEW l \in 1..Len(gs),
             NEW i \in 1..Len(es), NEW j \in 1..Len(es), gs[k] = es[i], gs[l] = es[j]
      PROVE  k < l <=> i < j
  <2>1. PICK a, b \in 1..Len(fs) : gs[k] = fs[a] /\ gs[l] = fs[b]
    <3>1. gs[k] \in In(fs) /\ gs[l] \in In(fs)
      BY DEF LeftOf, In
    <3> QED
      BY <3>1 DEF In
  <2>2. k < l <=> a < b
    BY <2>1 DEF LeftOf
  <2>3. a < b <=> i < j
    <3>1. fs[a] = es[i] /\ fs[b] = es[j]
      BY <1>2, <2>1
    <3>2. \A k1, l1 \in 1..Len(fs) : \A i1, j1 \in 1..Len(es) :
            fs[k1] = es[i1] /\ fs[l1] = es[j1] => (k1 < l1 <=> i1 < j1)
      BY Zenon DEF LeftOf
    <3> QED
      BY <3>1, <3>2
  <2> QED
    BY <2>2, <2>3
<1>3. \A i \in Indices \ In(es) : r.next[i] = q.next[i]
  BY DEF LeftOf
<1>4. ASSUME NEW i \in In(es) \ In(gs) PROVE IsFree(r, i)
  <2>1. CASE i \in In(fs)
    BY <2>1 DEF LeftOf
  <2>2. CASE i \notin In(fs)
    <3>1. i \in Indices
      BY ListFacts DEF Sound, In
    <3>2. IsFree(p, i) /\ r.next[i] = p.next[i] /\ r.to[i] = p.to[i]
      BY <2>2, <3>1 DEF LeftOf
    <3> QED
      BY <3>2 DEF IsFree
  <2> QED
    BY <2>1, <2>2
<1>5. \A i \in Indices : r.to[i] \subseteq q.to[i] /\ (i \notin In(es) => r.to[i] = q.to[i])
  BY DEF LeftOf
<1> QED
  BY <1>1, <1>2, <1>3, <1>4, <1>5 DEF LeftOf

\* The ships have left the n-th entry, and nothing else has changed.
RemovedAt(q, es, n, ships, p) ==
    /\ \E fs : LeftOf(q, es, p, fs)
    /\ \A i \in Indices : p.to[i] = IF i = es[n] THEN q.to[i] \ ships ELSE q.to[i]

\* REMV at the n-th entry.
LEMMA RemoveAt ==
    ASSUME NEW q, NEW es, Sound(q, es), NEW n \in 1..Len(es), NEW ships,
           NEW p, p = RemoveShips(q, At(es, n), ships)
    PROVE  RemovedAt(q, es, n, ships, p)
<1>1. q \in Queues /\ Lists(q, es) /\ es \in Seq(Indices) /\ Len(es) \in Nat /\ es[n] \in Indices
  BY ListFacts DEF Sound, Lists, Follows
<1>3. CASE q.to[es[n]] \subseteq ships
  <2>1. p = Unlink(q, At(es, n), q.next[es[n]])
    BY <1>3 DEF RemoveShips, At
  <2>2. PICK fs : fs = Without(es, n)
    OBVIOUS
  <2>3. /\ Sound(p, fs) /\ IsFree(p, es[n])
        /\ \A i \in Indices : i # es[n] => p.to[i] = q.to[i]
        /\ \A i \in Indices : i # es[n] /\ i # Before(es, n) => p.next[i] = q.next[i]
    BY <2>1, <2>2, UnlinkAt
  <2>4. /\ Len(fs) = Len(es) - 1
        /\ \A k \in 1..Len(es) - 1 : fs[k] = IF k < n THEN es[k] ELSE es[k + 1]
    BY <1>1, <2>2, WithoutFacts
  <2>5. ASSUME NEW k \in 1..Len(fs)
        PROVE  \E i \in 1..Len(es) : fs[k] = es[i] /\ i = IF k < n THEN k ELSE k + 1
    BY <1>1, <2>4
  <2>6. In(fs) \subseteq In(es)
    BY <2>5 DEF In
  <2>7. ASSUME NEW k \in 1..Len(fs), NEW l \in 1..Len(fs),
               NEW i \in 1..Len(es), NEW j \in 1..Len(es), fs[k] = es[i], fs[l] = es[j]
        PROVE  k < l <=> i < j
    <3>1. i = (IF k < n THEN k ELSE k + 1) /\ j = (IF l < n THEN l ELSE l + 1)
      BY <1>1, <2>5, <2>7, ListsInjective
    <3> QED
      BY <1>1, <2>4, <3>1
  <2>8. ASSUME NEW i \in In(es) \ In(fs) PROVE i = es[n]
    <3>1. PICK k \in 1..Len(es) : i = es[k]
      BY DEF In
    <3>2. ASSUME k # n PROVE FALSE
      <4>1. CASE k < n
        <5>1. k \in 1..Len(es) - 1 /\ fs[k] = es[k]
          BY <1>1, <2>4, <4>1
        <5> QED
          BY <2>4, <2>8, <3>1, <5>1 DEF In
      <4>2. CASE n < k
        <5>1. k - 1 \in 1..Len(es) - 1 /\ fs[k - 1] = es[k]
          BY <1>1, <2>4, <4>2
        <5> QED
          BY <2>4, <2>8, <3>1, <5>1 DEF In
      <4> QED
        BY <1>1, <3>2, <4>1, <4>2
    <3> QED
      BY <3>1, <3>2
  <2>9. \A i \in Indices \ In(es) : i # es[n] /\ i # Before(es, n)
    <3>1. es[n] \in In(es)
      BY DEF In
    <3>2. ASSUME Before(es, n) \in Indices PROVE Before(es, n) \in In(es)
      <4>1. Before(es, n) # Header
        BY <3>2 DEF Indices, Header
      <4>2. n - 1 \in 1..Len(es)
        BY <1>1, <4>1 DEF Before
      <4> QED
        BY <4>1, <4>2 DEF Before, In
    <3> QED
      BY <3>1, <3>2
  <2>10. p.to[es[n]] = {}
    BY <2>3 DEF IsFree
  <2>11. \A i \in Indices : p.to[i] = IF i = es[n] THEN q.to[i] \ ships ELSE q.to[i]
    BY <1>3, <2>3, <2>10
  <2>12. LeftOf(q, es, p, fs)
    BY <2>3, <2>6, <2>7, <2>8, <2>9, <2>10, <2>11 DEF LeftOf
  <2> QED
    BY <2>11, <2>12 DEF RemovedAt
<1>4. CASE ~(q.to[es[n]] \subseteq ships)
  <2>1. p = [q EXCEPT !.to[es[n]] = @ \ ships]
    BY <1>4 DEF RemoveShips, At
  <2>2. p \in Queues /\ p.next = q.next /\ p.last = q.last
    BY <1>1, <2>1 DEF Queues
  <2>3. \A i \in Indices : p.to[i] = IF i = es[n] THEN q.to[i] \ ships ELSE q.to[i]
    BY ONLY <1>1, <2>1 DEF Queues
  <2>4. Lists(p, es)
    BY <1>1, <2>2 DEF Lists, Follows
  <2>5. \A k \in 1..Len(es) : p.to[es[k]] # {}
    <3>1. \A k \in 1..Len(es) : es[k] \in Indices /\ q.to[es[k]] # {}
      BY <1>1, ListFacts DEF Sound
    <3> QED
      BY <1>4, <2>3, <3>1
  <2>6. Sound(p, es)
    BY <2>2, <2>4, <2>5 DEF Sound
  <2>7. LeftOf(q, es, q, es)
    BY LeftAll
  <2>8. es[n] \in In(es)
    BY DEF In
  <2>9. LeftOf(q, es, p, es)
    BY <2>2, <2>3, <2>6, <2>7, <2>8 DEF LeftOf
  <2> QED
    BY <2>3, <2>9 DEF RemovedAt
<1> QED
  BY <1>3, <1>4

-----------------------------------------------------------------------------
\* What a search finds.
LEMMA MinIs ==
    ASSUME NEW S \in SUBSET Nat, S # {}
    PROVE  Min(S) \in S /\ \A x \in S : Min(S) <= x
<1>1. \E x \in S : \A y \in S : x <= y
  BY Least
<1> QED
  BY <1>1 DEF Min

\* Hits are the places of the ship's entries in the list.
LEMMA HitsAre ==
    ASSUME NEW q \in Queues, NEW es, Lists(q, es), NEW w
    PROVE  Hits(q, w) = {n \in 1..Len(es) : w \in q.to[es[n]]}
<1>1. Entries(q) = es
  BY ListsUnique
<1>2. DOMAIN es = 1..Len(es)
  BY SeqFacts DEF Lists, Follows
<1> QED
  BY <1>1, <1>2 DEF Hits

\* The first entry for the ship.
LEMMA PlaceAt ==
    ASSUME NEW q \in Queues, NEW es, Lists(q, es), NEW w, Hits(q, w) # {}
    PROVE  \E n \in 1..Len(es) :
              /\ w \in q.to[es[n]] /\ Place(q, w) = At(es, n)
              /\ \A k \in 1..Len(es) : w \in q.to[es[k]] => n <= k
<1>1. Entries(q) = es
  BY ListsUnique
<1>2. PICK hits : hits = Hits(q, w)
  OBVIOUS
<1>3. hits = {n \in 1..Len(es) : w \in q.to[es[n]]}
  BY <1>2, HitsAre
<1>4. hits \in SUBSET Nat /\ hits # {}
  BY <1>2, <1>3
<1>5. PICK n : n = Min(hits)
  OBVIOUS
<1>6. n \in hits /\ \A x \in hits : n <= x
  BY <1>4, <1>5, MinIs
<1>7. Place(q, w) = [prev |-> IF n = 1 THEN Header ELSE es[n - 1], slot |-> es[n]]
  BY <1>1, <1>2, <1>4, <1>5 DEF Place
<1> QED
  BY <1>3, <1>6, <1>7 DEF At, Before

\* The readers' slots, of those in a set.
ReadBy(q, C, w) == {i \in C : w \in q.to[i]}

\* One round of the eviction.
Purged(q, w) == IF Hits(q, w) = {} THEN q ELSE RemoveShips(q, Place(q, w), {w})

\* One round takes the ship out of one entry, if there is one for it, and nobody else out of any.
LEMMA PurgedLeft ==
    ASSUME NEW q, NEW es, Sound(q, es), NEW p, NEW fs, LeftOf(q, es, p, fs), NEW w
    PROVE  /\ \E gs : LeftOf(q, es, Purged(p, w), gs)
           /\ \A i \in Indices : Purged(p, w).to[i] \in {p.to[i], p.to[i] \ {w}}
           /\ \/ ReadBy(p, In(es), w) = {} /\ Purged(p, w) = p
              \/ \E i \in In(es) :
                  w \in p.to[i] /\ ReadBy(Purged(p, w), In(es), w) = ReadBy(p, In(es), w) \ {i}
<1>1. p \in Queues /\ Sound(p, fs) /\ Lists(p, fs) /\ In(fs) \subseteq In(es)
  BY DEF LeftOf, Sound
<1>2. CASE Hits(p, w) = {}
  <2>1. \A k \in 1..Len(fs) : w \notin p.to[fs[k]]
    <3>1. Hits(p, w) = {n \in 1..Len(fs) : w \in p.to[fs[n]]}
      BY <1>1, HitsAre
    <3> QED
      BY <1>2, <3>1
  <2>2. \A i \in In(es) : w \notin p.to[i]
    BY <2>1 DEF LeftOf, IsFree, In
  <2> QED
    BY <1>2, <2>2 DEF Purged, ReadBy
<1>3. CASE Hits(p, w) # {}
  <2>1. PICK n \in 1..Len(fs) : w \in p.to[fs[n]] /\ Place(p, w) = At(fs, n)
    BY <1>1, <1>3, PlaceAt
  <2>2. PICK r : r = Purged(p, w)
    OBVIOUS
  <2>3. r = RemoveShips(p, At(fs, n), {w})
    BY <1>3, <2>1, <2>2 DEF Purged
  <2>4. /\ \E gs : LeftOf(p, fs, r, gs)
        /\ \A i \in Indices : r.to[i] = IF i = fs[n] THEN p.to[i] \ {w} ELSE p.to[i]
    <3>1. PICK ships : ships = {w}
      OBVIOUS
    <3>2. r = RemoveShips(p, At(fs, n), ships)
      BY <2>3, <3>1
    <3>3. RemovedAt(p, fs, n, ships, r)
      BY <1>1, <3>2, RemoveAt
    <3> QED
      BY <3>1, <3>3 DEF RemovedAt
  <2>5. \E gs : LeftOf(q, es, r, gs)
    BY <2>4, LeftOfLeft
  <2>6. fs[n] \in In(es)
    BY <1>1 DEF In
  <2>7. In(es) \subseteq Indices
    BY ListFacts DEF Sound, In
  <2>8. ReadBy(r, In(es), w) = ReadBy(p, In(es), w) \ {fs[n]}
    BY <2>4, <2>7 DEF ReadBy
  <2> QED
    BY <2>1, <2>2, <2>4, <2>5, <2>6, <2>8
<1> QED
  BY <1>2, <1>3

\* A list has finitely many slots.
LEMMA InFinite ==
    ASSUME NEW q, NEW es, Sound(q, es)
    PROVE  /\ In(es) \subseteq Indices
           /\ IsFiniteSet(In(es)) /\ Cardinality(In(es)) <= Slots
           /\ IsFiniteSet(Indices) /\ Cardinality(Indices) = Slots
<1>0. Slots \in Nat /\ 0 \in Int /\ Slots - 1 \in Int
  BY SlotsAssumption DEF SlotsAssumption
<1>1. In(es) \subseteq Indices
  BY ListFacts DEF Sound, In
<1>2. IsFiniteSet(Indices) /\ Cardinality(Indices) = Slots
  BY <1>0, FS_Interval DEF Indices
<1>3. IsFiniteSet(In(es)) /\ Cardinality(In(es)) <= Slots
  BY <1>1, <1>2, FS_Subset
<1> QED
  BY <1>1, <1>2, <1>3

\* After as many rounds as the table has slots, one ship has left every entry.
LEMMA EvictOf ==
    ASSUME NEW q, NEW es, Sound(q, es), Len(es) # 0
    PROVE  \E w \in q.to[es[1]] :
              /\ \E fs : LeftOf(q, es, Evict(q), fs)
              /\ \A i \in In(es) : Evict(q).to[i] = q.to[i] \ {w}
<1>1. /\ q \in Queues /\ Lists(q, es) /\ Len(es) \in Nat /\ es[1] = q.next[Header]
      /\ Slots \in Nat /\ 1 \in 1..Len(es) /\ es[1] \in Indices
  BY ListFacts, SlotsAssumption DEF Sound, SlotsAssumption
<1>2. PICK w : w = Min(q.to[q.next[Header]])
  OBVIOUS
<1>3. w \in q.to[es[1]]
  <2>1. q.to[es[1]] # {} /\ q.to[es[1]] \in SUBSET Nat
    BY <1>1 DEF Sound, Queues, Ships
  <2> QED
    BY <1>1, <1>2, <2>1, MinIs
<1> DEFINE S == {p \in Queues : \E fs : LeftOf(q, es, p, fs)}
           Rec(r) == r = [n \in 0..Slots |-> IF n = 0 THEN q
                ELSE LET p == r[n - 1]
                     IN  IF Hits(p, w) = {} THEN p ELSE RemoveShips(p, Place(p, w), {w})]
<1>4. q \in S
  BY <1>1, LeftAll
<1>5. PICK F : F = [p \in S |-> Purged(p, w)]
  OBVIOUS
<1>6. F \in [S -> S]
  <2>1. ASSUME NEW p \in S PROVE Purged(p, w) \in S
    <3>1. PICK gs : LeftOf(q, es, Purged(p, w), gs)
      BY <2>1, PurgedLeft
    <3> QED
      BY <3>1 DEF LeftOf, Sound
  <2> HIDE DEF S
  <2> QED
    BY <1>5, <2>1
<1> HIDE DEF S
<1>7. PICK f : Iterated(F, S, q, Slots, f)
  BY <1>1, <1>4, <1>6, Iterates
<1>8. f \in [0..Slots -> S] /\ f[0] = q /\ \A n \in 1..Slots : f[n] = Purged(f[n - 1], w)
  <2>1. f \in [0..Slots -> S] /\ f[0] = q /\ \A n \in 1..Slots : f[n] = F[f[n - 1]]
    BY <1>7 DEF Iterated
  <2>2. \A n \in 1..Slots : f[n - 1] \in S
    BY <1>1, <2>1
  <2> QED
    BY <1>5, <2>1, <2>2
<1>9. Rec(f)
  <2>1. ASSUME NEW n \in 0..Slots
        PROVE  f[n] = IF n = 0 THEN q ELSE Purged(f[n - 1], w)
    BY <1>1, <1>8
  <2>2. f = [n \in 0..Slots |-> f[n]]
    BY <1>8
  <2> QED
    BY <2>1, <2>2, Zenon DEF Purged
<1>10. PICK r : Rec(r) /\ Evict(q) = r[Slots]
  <2>1. \E g : g = [n \in 0..Slots |-> IF n = 0 THEN q
                ELSE LET p == g[n - 1]
                     IN  IF Hits(p, Min(q.to[q.next[Header]])) = {} THEN p
                         ELSE RemoveShips(p, Place(p, Min(q.to[q.next[Header]])),
                                          {Min(q.to[q.next[Header]])})]
    BY <1>2, <1>9, Zenon
  <2> QED
    BY <1>2, <2>1, Zenon DEF Evict
<1>11. r[0] = q /\ \A n \in 1..Slots : r[n] = Purged(r[n - 1], w)
  <2>1. r = [n \in 0..Slots |-> IF n = 0 THEN q ELSE Purged(r[n - 1], w)]
    BY <1>10, Zenon DEF Purged
  <2> QED
    BY <1>1, <2>1
<1> DEFINE Good(n) == /\ \E fs : LeftOf(q, es, r[n], fs)
                      /\ \A i \in Indices : q.to[i] \ {w} \subseteq r[n].to[i]
                      /\ IsFiniteSet(ReadBy(r[n], In(es), w))
                      /\ Cardinality(ReadBy(r[n], In(es), w)) <= Slots - n
<1>12. PICK T : \A n : n \in T <=> n \in 0..Slots /\ Good(n)
  <2> WITNESS {n \in 0..Slots : Good(n)}
  <2> QED
    OBVIOUS
<1>13. 0 \in T
  <2>1. ReadBy(q, In(es), w) \in SUBSET In(es)
    BY DEF ReadBy
  <2>2. /\ IsFiniteSet(ReadBy(q, In(es), w))
        /\ Cardinality(ReadBy(q, In(es), w)) <= Cardinality(In(es))
        /\ Cardinality(ReadBy(q, In(es), w)) \in Nat /\ Cardinality(In(es)) \in Nat
    BY <2>1, InFinite, FS_Subset, FS_CardinalityType
  <2>3. Cardinality(ReadBy(q, In(es), w)) <= Slots - 0
    BY <1>1, <2>2, InFinite
  <2>4. Good(0)
    BY <1>11, <2>2, <2>3, LeftAll
  <2> QED
    BY <1>1, <1>12, <2>4
<1>14. ASSUME NEW n \in 1..Slots, n - 1 \in T PROVE n \in T
  <2>1. PICK p : p = r[n - 1]
    OBVIOUS
  <2>2. PICK o : o = r[n]
    OBVIOUS
  <2>3. o = Purged(p, w)
    BY <1>11, <2>1, <2>2
  <2>4. PICK fs : LeftOf(q, es, p, fs)
    BY <1>12, <1>14, <2>1
  <2>5. /\ \A i \in Indices : q.to[i] \ {w} \subseteq p.to[i]
        /\ IsFiniteSet(ReadBy(p, In(es), w))
        /\ Cardinality(ReadBy(p, In(es), w)) <= Slots - (n - 1)
        /\ Cardinality(ReadBy(p, In(es), w)) \in Nat
    BY <1>12, <1>14, <2>1, FS_CardinalityType
  <2>6. /\ \E gs : LeftOf(q, es, o, gs)
        /\ \A i \in Indices : o.to[i] \in {p.to[i], p.to[i] \ {w}}
        /\ \/ ReadBy(p, In(es), w) = {} /\ o = p
           \/ \E i \in In(es) :
                  w \in p.to[i] /\ ReadBy(o, In(es), w) = ReadBy(p, In(es), w) \ {i}
    BY <2>3, <2>4, PurgedLeft
  <2>7. \A i \in Indices : q.to[i] \ {w} \subseteq o.to[i]
    BY <2>5, <2>6
  <2>8. /\ IsFiniteSet(ReadBy(o, In(es), w))
        /\ Cardinality(ReadBy(o, In(es), w)) <= Slots - n
    <3>1. CASE ReadBy(p, In(es), w) = {} /\ o = p
      <4>1. Cardinality(ReadBy(o, In(es), w)) = 0
        BY <3>1, FS_EmptySet, Zenon
      <4>2. 0 <= Slots - n
        BY <1>1
      <4> QED
        BY <2>5, <3>1, <4>1, <4>2
    <3>2. CASE \E i \in In(es) :
                  w \in p.to[i] /\ ReadBy(o, In(es), w) = ReadBy(p, In(es), w) \ {i}
      <4>1. PICK i \in ReadBy(p, In(es), w) : ReadBy(o, In(es), w) = ReadBy(p, In(es), w) \ {i}
        BY <3>2 DEF ReadBy
      <4>2. /\ IsFiniteSet(ReadBy(o, In(es), w))
            /\ Cardinality(ReadBy(o, In(es), w)) = Cardinality(ReadBy(p, In(es), w)) - 1
        BY <2>5, <4>1, FS_RemoveElement
      <4> QED
        BY <1>1, <2>5, <4>2
    <3> QED
      BY <2>6, <3>1, <3>2
  <2>9. n \in 0..Slots
    OBVIOUS
  <2> QED
    BY <1>12, <2>2, <2>6, <2>7, <2>8, <2>9
<1>15. Good(Slots)
  <2>1. 0..Slots \subseteq T
    BY <1>1, <1>13, <1>14, UpTo
  <2>2. Slots \in T
    BY <1>1, <2>1
  <2> QED
    BY <1>12, <2>2
<1>16. ReadBy(r[Slots], In(es), w) = {}
  <2>1. Cardinality(ReadBy(r[Slots], In(es), w)) = 0
    BY <1>1, <1>15, FS_CardinalityType
  <2> QED
    BY <1>15, <2>1, FS_EmptySet
<1>17. \A i \in In(es) : Evict(q).to[i] = q.to[i] \ {w}
  <2>1. In(es) \subseteq Indices
    BY InFinite
  <2>2. \A i \in In(es) : w \notin r[Slots].to[i]
    BY <1>16 DEF ReadBy
  <2>3. \A i \in Indices : r[Slots].to[i] \subseteq q.to[i]
    BY <1>15 DEF LeftOf
  <2> QED
    BY <1>10, <1>15, <2>1, <2>2, <2>3
<1> QED
  BY <1>3, <1>10, <1>15, <1>17

\* R holds every slot that is neither in the list nor free, and not the whole table.
HasRoom(q, es, R) ==
    /\ IsFiniteSet(R) /\ Cardinality(R) < Slots
    /\ \A i \in Indices \ In(es) : IsFree(q, i) \/ i \in R

HasFree(q) == \E i \in Indices : IsFree(q, i)

\* The ships that read an entry of C.
Readers(q, C) == {w \in Ships : \E i \in C : w \in q.to[i]}

\* One round of RSRV.
Roomier(q) == IF HasFree(q) THEN q ELSE Evict(q)

\* An eviction is possible whenever one is needed, and takes one ship out of every entry.
LEMMA EvictLeft ==
    ASSUME NEW q, NEW es, Sound(q, es), NEW R, HasRoom(q, es, R),
           NEW p, NEW fs, LeftOf(q, es, p, fs), ~HasFree(p)
    PROVE  /\ \E gs : LeftOf(q, es, Evict(p), gs)
           /\ \E w \in Readers(p, In(es)) : \A i \in In(es) : Evict(p).to[i] = p.to[i] \ {w}
<1>1. In(es) \subseteq Indices /\ IsFiniteSet(Indices) /\ Cardinality(Indices) = Slots
  BY InFinite
<1>2. In(fs) = In(es)
  BY <1>1 DEF LeftOf, HasFree
<1>3. Sound(p, fs) /\ Len(fs) \in Nat /\ p \in Queues
  BY ListFacts DEF LeftOf, Sound
<1>4. Len(fs) # 0
  <2>1. SUFFICES ASSUME Len(fs) = 0 PROVE FALSE
    OBVIOUS
  <2>2. In(es) = {}
    <3>1. In(fs) = {}
      BY <2>1 DEF In
    <3> QED
      BY <1>2, <3>1
  <2>3. ASSUME NEW i \in Indices PROVE i \in R
    <3>1. p.next[i] = q.next[i] /\ p.to[i] = q.to[i]
      BY <2>2 DEF LeftOf
    <3> QED
      BY <2>2, <3>1 DEF HasFree, IsFree, HasRoom
  <2>4. Indices \in SUBSET R
    BY <2>3
  <2>5. Slots <= Cardinality(R) /\ Cardinality(R) \in Nat
    BY <1>1, <2>4, FS_Subset, FS_CardinalityType DEF HasRoom
  <2> QED
    BY <2>5, SlotsAssumption DEF HasRoom, SlotsAssumption
<1>5. PICK r : r = Evict(p)
  OBVIOUS
<1>6. PICK w \in p.to[fs[1]] :
          /\ \E gs : LeftOf(p, fs, r, gs)
          /\ \A i \in In(fs) : r.to[i] = p.to[i] \ {w}
  BY <1>3, <1>4, <1>5, EvictOf
<1>7. \E gs : LeftOf(q, es, r, gs)
  BY <1>6, LeftOfLeft
<1>8. w \in Readers(p, In(es))
  <2>1. fs[1] \in In(es)
    <3>1. 1 \in 1..Len(fs)
      BY <1>3, <1>4
    <3>2. fs[1] \in In(fs)
      BY <3>1 DEF In
    <3> QED
      BY <1>2, <3>2
  <2>2. p.to[fs[1]] \subseteq Ships
    BY <1>1, <1>3, <2>1 DEF Queues
  <2> QED
    BY <1>6, <2>1, <2>2 DEF Readers
<1> QED
  BY <1>2, <1>5, <1>6, <1>7, <1>8

\* Every ship has kept its mail in the slots of C, or has lost all of it.
WholeMail(q, C, p) ==
    \A w \in Ships : \/ \A i \in C : w \in p.to[i] <=> w \in q.to[i]
                     \/ \A i \in C : w \notin p.to[i]

\* What RSRV leaves of the list when it makes room.
RoomMade(q, es, p) ==
    /\ \E fs : LeftOf(q, es, p, fs)
    /\ HasFree(p)
    /\ WholeMail(q, In(es), p)
    /\ HasFree(q) => p = q

\* RSRV has a free slot after KNPLAY evictions at the most: each has one reader less to evict.
LEMMA MakeRoomOf ==
    ASSUME NEW q, NEW es, Sound(q, es), NEW R, HasRoom(q, es, R)
    PROVE  RoomMade(q, es, MakeRoom(q))
<1>1. KNPLAY \in Nat /\ q \in Queues /\ In(es) \subseteq Indices
  BY SlotsAssumption, InFinite DEF Sound, SlotsAssumption
<1>2. IsFiniteSet(Ships) /\ Cardinality(Ships) = KNPLAY
  <2>1. 1 \in Int /\ KNPLAY \in Int /\ ~(1 > KNPLAY)
    BY SlotsAssumption DEF SlotsAssumption
  <2>2. IsFiniteSet(1..KNPLAY) /\ Cardinality(1..KNPLAY) = KNPLAY - 1 + 1
    BY <2>1, FS_Interval
  <2> QED
    BY <1>1, <2>2 DEF Ships
<1> DEFINE S == {p \in Queues : \E fs : LeftOf(q, es, p, fs)}
           Rec(r) == r = [n \in 0..KNPLAY |-> IF n = 0 THEN q
                ELSE LET p == r[n - 1]
                     IN  IF \E i \in Indices : IsFree(p, i) THEN p ELSE Evict(p)]
<1>3. q \in S
  BY <1>1, LeftAll
<1>4. PICK F : F = [p \in S |-> Roomier(p)]
  OBVIOUS
<1>5. F \in [S -> S]
  <2>1. ASSUME NEW p \in S PROVE Roomier(p) \in S
    <3>1. PICK gs : LeftOf(q, es, Roomier(p), gs)
      BY <2>1, EvictLeft DEF Roomier
    <3> QED
      BY <3>1 DEF LeftOf, Sound
  <2> HIDE DEF S
  <2> QED
    BY <1>4, <2>1
<1> HIDE DEF S
<1>6. PICK f : Iterated(F, S, q, KNPLAY, f)
  BY <1>1, <1>3, <1>5, Iterates
<1>7. f \in [0..KNPLAY -> S] /\ f[0] = q /\ \A n \in 1..KNPLAY : f[n] = Roomier(f[n - 1])
  <2>1. f \in [0..KNPLAY -> S] /\ f[0] = q /\ \A n \in 1..KNPLAY : f[n] = F[f[n - 1]]
    BY <1>6 DEF Iterated
  <2>2. \A n \in 1..KNPLAY : f[n - 1] \in S
    BY <1>1, <2>1
  <2> QED
    BY <1>4, <2>1, <2>2
<1>8. Rec(f)
  <2>1. ASSUME NEW n \in 0..KNPLAY
        PROVE  f[n] = IF n = 0 THEN q ELSE Roomier(f[n - 1])
    BY <1>1, <1>7
  <2>2. f = [n \in 0..KNPLAY |-> f[n]]
    BY <1>7
  <2> QED
    BY <2>1, <2>2, Zenon DEF Roomier, HasFree
<1>9. PICK r : Rec(r) /\ MakeRoom(q) = r[KNPLAY]
  BY <1>8, Zenon DEF MakeRoom
<1>10. r[0] = q /\ \A n \in 1..KNPLAY : r[n] = Roomier(r[n - 1])
  <2>1. r = [n \in 0..KNPLAY |-> IF n = 0 THEN q ELSE Roomier(r[n - 1])]
    BY <1>9, Zenon DEF Roomier, HasFree
  <2> QED
    BY <1>1, <2>1
<1> DEFINE Good(n) ==
              /\ \E fs : LeftOf(q, es, r[n], fs)
              /\ WholeMail(q, In(es), r[n])
              /\ HasFree(q) => r[n] = q
              /\ HasFree(r[n]) \/ Cardinality(Readers(r[n], In(es))) <= KNPLAY - n
<1>11. PICK T : \A n : n \in T <=> n \in 0..KNPLAY /\ Good(n)
  <2> WITNESS {n \in 0..KNPLAY : Good(n)}
  <2> QED
    OBVIOUS
<1>12. \A p : IsFiniteSet(Readers(p, In(es))) /\ Cardinality(Readers(p, In(es))) \in Nat
                /\ Cardinality(Readers(p, In(es))) <= KNPLAY
  <2>1. \A p : Readers(p, In(es)) \in SUBSET Ships
    BY DEF Readers
  <2> QED
    BY <1>2, <2>1, FS_Subset, FS_CardinalityType
<1>13. 0 \in T
  <2>1. Cardinality(Readers(q, In(es))) <= KNPLAY - 0
    BY <1>1, <1>12
  <2>2. Good(0)
    BY <1>10, <2>1, LeftAll DEF WholeMail
  <2> QED
    BY <1>1, <1>11, <2>2
<1>14. ASSUME NEW n \in 1..KNPLAY, n - 1 \in T PROVE n \in T
  <2>1. PICK p : p = r[n - 1]
    OBVIOUS
  <2>2. PICK o : o = r[n]
    OBVIOUS
  <2>3. o = Roomier(p) /\ n \in 0..KNPLAY
    BY <1>10, <2>1, <2>2
  <2>4. /\ \E fs : LeftOf(q, es, p, fs)
        /\ WholeMail(q, In(es), p)
        /\ HasFree(q) => p = q
        /\ HasFree(p) \/ Cardinality(Readers(p, In(es))) <= KNPLAY - (n - 1)
    BY <1>11, <1>14, <2>1
  <2>5. CASE HasFree(p)
    <3>1. o = p
      BY <2>3, <2>5 DEF Roomier
    <3> QED
      BY <1>11, <2>2, <2>3, <2>4, <2>5, <3>1
  <2>6. CASE ~HasFree(p)
    <3>1. o = Evict(p)
      BY <2>3, <2>6 DEF Roomier
    <3>2. PICK fs : LeftOf(q, es, p, fs)
      BY <2>4
    <3>3. /\ \E gs : LeftOf(q, es, o, gs)
          /\ \E w \in Readers(p, In(es)) : \A i \in In(es) : o.to[i] = p.to[i] \ {w}
      BY <2>6, <3>1, <3>2, EvictLeft
    <3>4. PICK v \in Readers(p, In(es)) : \A i \in In(es) : o.to[i] = p.to[i] \ {v}
      BY <3>3
    <3>5. Readers(o, In(es)) = Readers(p, In(es)) \ {v}
      BY <3>4 DEF Readers
    <3>6. Cardinality(Readers(o, In(es))) = Cardinality(Readers(p, In(es))) - 1
      BY <1>12, <3>4, <3>5, FS_RemoveElement
    <3>7. Cardinality(Readers(o, In(es))) <= KNPLAY - n
      BY <1>1, <1>12, <2>4, <2>6, <3>6
    <3>8. WholeMail(q, In(es), o)
      <4> SUFFICES ASSUME NEW w \in Ships
                   PROVE  \/ \A i \in In(es) : w \in o.to[i] <=> w \in q.to[i]
                          \/ \A i \in In(es) : w \notin o.to[i]
        BY DEF WholeMail
      <4>1. CASE w = v
        BY <3>4, <4>1
      <4>2. CASE w # v
        BY <2>4, <3>4, <4>2 DEF WholeMail
      <4> QED
        BY <4>1, <4>2
    <3>9. ~HasFree(q)
      BY <2>4, <2>6
    <3>10. Good(n)
      BY <2>2, <3>3, <3>7, <3>8, <3>9
    <3> QED
      BY <1>11, <2>3, <3>10
  <2> QED
    BY <2>5, <2>6
<1>15. Good(KNPLAY)
  <2>1. 0..KNPLAY \subseteq T
    BY <1>1, <1>13, <1>14, UpTo
  <2>2. KNPLAY \in T
    BY <1>1, <2>1
  <2> QED
    BY <1>11, <2>2
<1>16. HasFree(r[KNPLAY])
  <2>1. SUFFICES ASSUME ~HasFree(r[KNPLAY]) PROVE FALSE
    OBVIOUS
  <2>2. PICK fs : LeftOf(q, es, r[KNPLAY], fs)
    BY <1>15
  <2>3. \E w : w \in Readers(r[KNPLAY], In(es))
    BY <2>1, <2>2, EvictLeft
  <2>4. Cardinality(Readers(r[KNPLAY], In(es))) = 0
    BY <1>1, <1>12, <1>15, <2>1
  <2>5. Readers(r[KNPLAY], In(es)) = {}
    BY <1>12, <2>4, FS_EmptySet
  <2> QED
    BY <2>3, <2>5
<1> QED
  BY <1>9, <1>15, <1>16 DEF RoomMade

-----------------------------------------------------------------------------
\* The list together with the slots that are reserved: c and x stand for PC and X2.
Reserving(c, w) == c[w] \in {"cancel", "publish"}

Owned(q, C, c, x) ==
    /\ \A i \in Indices \ C :
          IsFree(q, i) \/ \E w \in Ships : Reserving(c, w) /\ x[w].slot = i
    /\ \A w \in Ships : Reserving(c, w) =>
          /\ x[w].slot \in Indices \ C
          /\ \A v \in Ships : Reserving(c, v) /\ x[v].slot = x[w].slot => v = w
          /\ w \in q.to[x[w].slot]

Whole(q, es, c, x) == Sound(q, es) /\ Owned(q, In(es), c, x)

\* The reserved slots are not touched when entries are lost.
LEMMA WholeLeft ==
    ASSUME NEW q, NEW es, NEW c, NEW x, Whole(q, es, c, x), NEW p, NEW fs, LeftOf(q, es, p, fs)
    PROVE  Whole(p, fs, c, x)
<1>1. In(fs) \subseteq In(es) /\ Sound(p, fs)
  BY DEF LeftOf
<1>2. \A i \in Indices \ In(fs) :
        IsFree(p, i) \/ \E w \in Ships : Reserving(c, w) /\ x[w].slot = i
  BY DEF Whole, Owned, LeftOf, IsFree
<1>3. \A w \in Ships : Reserving(c, w) => w \in p.to[x[w].slot]
  BY DEF Whole, Owned, LeftOf
<1> QED
  BY <1>1, <1>2, <1>3 DEF Whole, Owned

\* Only the captains who reserve matter.
LEMMA WholeSame ==
    ASSUME NEW q, NEW es, NEW c, NEW x, Whole(q, es, c, x), NEW d, NEW y,
           \A w \in Ships : /\ Reserving(c, w) <=> Reserving(d, w)
                            /\ Reserving(c, w) => y[w].slot = x[w].slot
    PROVE  Whole(q, es, d, y)
BY DEF Whole, Owned

\* What is outside of the list does not matter to it.
LEMMA SoundOutside ==
    ASSUME NEW q, NEW es, Sound(q, es), NEW p \in Queues, p.last = q.last,
           p.next[Header] = q.next[Header],
           \A i \in In(es) : p.next[i] = q.next[i] /\ p.to[i] = q.to[i]
    PROVE  Sound(p, es)
<1>1. Lists(q, es) /\ es \in Seq(Indices) /\ Len(es) \in Nat
  BY ListFacts DEF Sound, Lists, Follows
<1>2. ASSUME NEW k \in 1..Len(es) + 1
      PROVE  p.next[Before(es, k)] = q.next[Before(es, k)]
  <2>1. CASE k = 1
    BY <2>1 DEF Before
  <2>2. CASE k # 1
    <3>1. es[k - 1] \in In(es)
      BY <1>1, <2>2 DEF In
    <3> QED
      BY <2>2, <3>1 DEF Before
  <2> QED
    BY <2>1, <2>2
<1>3. Follows(p, es)
  BY <1>1, <1>2 DEF Follows, Lists
<1>4. p.next[LastOf(es)] = Header
  BY <1>1, <1>2 DEF Lists, LastOf
<1>5. \A k \in 1..Len(es) : p.to[es[k]] # {}
  BY DEF Sound, In
<1> QED
  BY <1>1, <1>3, <1>4, <1>5 DEF Sound, Lists

\* A free slot is not in the list, and nobody's reservation.
LEMMA FreeOutside ==
    ASSUME NEW q, NEW es, NEW c, NEW x, Whole(q, es, c, x), NEW i \in Indices, IsFree(q, i)
    PROVE  /\ i \notin In(es)
           /\ \A w \in Ships : Reserving(c, w) => x[w].slot # i
BY DEF Whole, Sound, Owned, IsFree, In

\* RSRV: captain w reserves a free slot.
LEMMA WholeReserved ==
    ASSUME NEW q, NEW es, NEW c, NEW x, Whole(q, es, c, x),
           NEW i \in Indices, IsFree(q, i), NEW w \in Ships, ~Reserving(c, w),
           NEW d, NEW y, Reserving(d, w), y[w].slot = i,
           \A v \in Ships \ {w} : d[v] = c[v] /\ y[v] = x[v]
    PROVE  Whole(Reserved(q, i), es, d, y)
<1>1. q \in Queues /\ i \notin In(es) /\ i # Header /\ i \in Links
  <2>1. i \notin In(es)
    BY FreeOutside
  <2> QED
    BY <2>1 DEF Whole, Sound, Indices, Header, Links
<1>2. PICK p : p = Reserved(q, i)
  OBVIOUS
<1>3. /\ p \in Queues /\ p.last = q.last
      /\ \A j \in Links : j # i => p.next[j] = q.next[j]
      /\ \A j \in Indices : j # i => p.to[j] = q.to[j]
      /\ p.next[i] = Header /\ p.to[i] = Ships
  BY ONLY <1>1, <1>2, i \in Indices DEF Reserved, Queues, Links
<1>4. In(es) \subseteq Indices
  BY InFinite DEF Whole
<1>5. Sound(p, es)
  <2>1. Header \in Links
    BY DEF Links
  <2> QED
    BY <1>1, <1>3, <1>4, <2>1, SoundOutside DEF Whole, Links
<1>6. ASSUME NEW j \in Indices \ In(es)
      PROVE  IsFree(p, j) \/ \E v \in Ships : Reserving(d, v) /\ y[v].slot = j
  <2>1. CASE j = i
    BY <2>1
  <2>2. CASE j # i
    <3>1. IsFree(q, j) => IsFree(p, j)
      BY <1>3, <2>2 DEF IsFree, Links
    <3>2. \A v \in Ships : Reserving(c, v) => Reserving(d, v) /\ y[v] = x[v]
      BY DEF Reserving
    <3> QED
      BY <3>1, <3>2 DEF Whole, Owned
  <2> QED
    BY <2>1, <2>2
<1>7. \A v \in Ships : Reserving(d, v) /\ v # w => Reserving(c, v) /\ y[v] = x[v] /\ x[v].slot # i
  BY FreeOutside DEF Reserving
<1>8. ASSUME NEW v \in Ships, Reserving(d, v)
      PROVE  /\ y[v].slot \in Indices \ In(es)
             /\ \A u \in Ships : Reserving(d, u) /\ y[u].slot = y[v].slot => u = v
             /\ v \in p.to[y[v].slot]
  <2>1. CASE v = w
    BY <1>1, <1>3, <1>7, <2>1
  <2>2. CASE v # w
    BY <1>3, <1>7, <1>8, <2>2 DEF Whole, Owned
  <2> QED
    BY <2>1, <2>2
<1> QED
  BY <1>2, <1>5, <1>6, <1>8 DEF Whole, Owned

\* A list without repetitions has at most as many entries as the table has slots.
LEMMA ShortEnough ==
    ASSUME NEW es \in Seq(Indices), \A i, j \in 1..Len(es) : es[i] = es[j] => i = j
    PROVE  Len(es) <= Slots
<1>1. Len(es) \in Nat /\ es \in [1..Len(es) -> Indices]
  BY SeqFacts
<1>2. es \in Injection(1..Len(es), Indices)
  BY <1>1 DEF Injection, IsInjective
<1>3. IsFiniteSet(Indices) /\ Cardinality(Indices) = Slots
  <2>1. Slots \in Nat /\ 0 \in Int /\ Slots - 1 \in Int
    BY SlotsAssumption DEF SlotsAssumption
  <2> QED
    BY <2>1, FS_Interval DEF Indices
<1>4. Cardinality(1..Len(es)) <= Slots
  BY <1>2, <1>3, FS_Injection
<1>5. Cardinality(1..Len(es)) = Len(es)
  <2>1. 1 \in Int /\ Len(es) \in Int
    BY <1>1
  <2>2. Cardinality(1..Len(es)) = IF 1 > Len(es) THEN 0 ELSE Len(es) - 1 + 1
    BY <2>1, FS_Interval
  <2> QED
    BY <1>1, <2>2
<1> QED
  BY <1>4, <1>5

\* UPDT: the slot that captain w had reserved becomes the last entry.
LEMMA WholeLinked ==
    ASSUME NEW q, NEW es, NEW c, NEW x, Whole(q, es, c, x),
           NEW w \in Ships, Reserving(c, w), NEW ships \in SUBSET Ships, ships # {},
           NEW i, i = x[w].slot,
           NEW d, ~Reserving(d, w), \A v \in Ships \ {w} : d[v] = c[v]
    PROVE  Whole(Linked(q, i, ships), Append(es, i), d, x)
<1>1. /\ q \in Queues /\ i \in Indices \ In(es) /\ i # Header
      /\ Lists(q, es) /\ es \in Seq(Indices) /\ Len(es) \in Nat /\ q.last = LastOf(es)
  BY ListFacts DEF Whole, Owned, Sound, Lists, Follows, Indices, Header
<1>2. PICK p : p = Linked(q, i, ships)
  OBVIOUS
<1>3. PICK fs : fs = Append(es, i)
  OBVIOUS
<1>4. /\ fs \in Seq(Indices) /\ Len(fs) = Len(es) + 1 /\ Len(es) + 1 \in Nat
      /\ \A k \in 1..Len(es) : fs[k] = es[k]
      /\ fs[Len(es) + 1] = i
  BY <1>1, <1>3
<1>5. /\ p.last = i
      /\ \A j \in Links : p.next[j] = IF j = q.last THEN i ELSE IF j = i THEN Header ELSE q.next[j]
      /\ \A j \in Indices : p.to[j] = IF j = i THEN ships ELSE q.to[j]
  BY ONLY <1>1, <1>2 DEF Linked, Queues
<1>6. p \in Queues
  <2>1. i \in Links /\ Header \in Links
    BY <1>1 DEF Links
  <2> QED
    BY <1>1, <1>2, <2>1 DEF Queues, Linked
<1>7. \A k \in 1..Len(es) : es[k] \in Indices /\ es[k] \in Links /\ es[k] # i
  BY <1>1, ListFacts DEF In, Links
<1>8. In(fs) = In(es) \cup {i}
  <2>1. ASSUME NEW j \in In(fs) PROVE j \in In(es) \cup {i}
    BY <1>1, <1>4 DEF In
  <2>2. In(es) \subseteq In(fs)
    <3>1. \A k \in 1..Len(es) : k \in 1..Len(fs) /\ es[k] = fs[k]
      BY <1>1, <1>4
    <3> QED
      BY <3>1 DEF In
  <2>3. i \in In(fs)
    <3>1. Len(es) + 1 \in 1..Len(fs)
      BY <1>4
    <3> QED
      BY <1>4, <3>1 DEF In
  <2> QED
    BY <2>1, <2>2, <2>3
<1>9. \A k \in 1..Len(es) + 1 : Before(fs, k) = Before(es, k)
  BY <1>1, <1>4 DEF Before
<1>10. ASSUME NEW k \in 1..Len(fs) PROVE fs[k] = p.next[Before(fs, k)]
  <2>1. Before(es, k) \in Links /\ Before(es, k) # i /\ k \in 1..Len(es) + 1
    <3>1. k \in 1..Len(es) + 1
      BY <1>4
    <3>2. Before(es, k) # i
      <4>1. k # 1 => k - 1 \in 1..Len(es)
        BY <1>1, <3>1
      <4> QED
        BY <1>1, <1>7, <4>1 DEF Before
    <3> QED
      BY <1>1, <3>1, <3>2, FollowsType DEF Lists
  <2>2. CASE k = Len(es) + 1
    BY <1>1, <1>4, <1>5, <1>9, <2>1, <2>2 DEF LastOf
  <2>3. CASE k # Len(es) + 1
    <3>1. k \in 1..Len(es)
      BY <1>1, <2>1, <2>3
    <3>2. Before(es, k) # q.last
      <4>1. Len(es) + 1 \in 1..Len(es) + 1
        BY <1>1
      <4> QED
        BY <1>1, <2>1, <2>3, <4>1, BeforeDiffers DEF LastOf
    <3>3. es[k] = q.next[Before(es, k)]
      BY <1>1, <3>1 DEF Lists, Follows
    <3> QED
      BY <1>4, <1>5, <1>9, <2>1, <3>1, <3>2, <3>3
  <2> QED
    BY <2>2, <2>3
<1>11. LastOf(fs) = i /\ p.next[i] = Header
  <2>1. LastOf(fs) = i
    BY <1>1, <1>4 DEF LastOf, Before
  <2>2. q.last # i
    <3>1. LastOf(es) = IF Len(es) = 0 THEN Header ELSE es[Len(es)]
      BY <1>1, ListFacts
    <3> QED
      BY <1>1, <1>7, <3>1
  <2> QED
    BY <1>1, <1>5, <2>1, <2>2 DEF Links
<1>12. Len(fs) <= Slots
  <2>1. ASSUME NEW a \in 1..Len(fs), NEW b \in 1..Len(fs), fs[a] = fs[b] PROVE a = b
    <3>1. \A k \in 1..Len(fs) : k # Len(es) + 1 => k \in 1..Len(es) /\ fs[k] = es[k] /\ es[k] # i
      BY <1>1, <1>4, <1>7
    <3>2. \A k, l \in 1..Len(es) : es[k] = es[l] => k = l
      BY <1>1, ListsInjective
    <3> QED
      BY <1>4, <2>1, <3>1, <3>2
  <2> QED
    BY <1>4, <2>1, ShortEnough
<1>13. ASSUME NEW k \in 1..Len(fs) PROVE p.to[fs[k]] # {}
  <2>1. CASE k = Len(es) + 1
    BY <1>1, <1>4, <1>5, <2>1
  <2>2. CASE k # Len(es) + 1
    <3>1. k \in 1..Len(es)
      BY <1>1, <1>4, <2>2
    <3>2. p.to[fs[k]] = q.to[es[k]]
      BY <1>4, <1>5, <1>7, <3>1
    <3> QED
      BY <3>1, <3>2 DEF Whole, Sound
  <2> QED
    BY <2>1, <2>2
<1>14. Sound(p, fs)
  BY <1>4, <1>5, <1>6, <1>10, <1>11, <1>12, <1>13 DEF Sound, Lists, Follows
<1>15. \A v \in Ships : Reserving(d, v) => Reserving(c, v) /\ v # w /\ x[v].slot # i
  BY DEF Whole, Owned, Reserving
<1>16. ASSUME NEW j \in Indices \ In(fs)
       PROVE  IsFree(p, j) \/ \E v \in Ships : Reserving(d, v) /\ x[v].slot = j
  <2>1. j \in Indices \ In(es) /\ j # i /\ j \in Links
    BY <1>8 DEF Links
  <2>2. j # q.last
    <3>1. LastOf(es) = IF Len(es) = 0 THEN Header ELSE es[Len(es)]
      BY <1>1, ListFacts
    <3> QED
      BY <1>1, <2>1, <3>1 DEF In, Indices, Header
  <2>3. IsFree(q, j) => IsFree(p, j)
    BY <1>5, <2>1, <2>2 DEF IsFree
  <2>4. \A v \in Ships : Reserving(c, v) /\ x[v].slot = j => Reserving(d, v)
    BY <2>1 DEF Reserving
  <2> QED
    BY <2>1, <2>3, <2>4 DEF Whole, Owned
<1>17. ASSUME NEW v \in Ships, Reserving(d, v)
       PROVE  /\ x[v].slot \in Indices \ In(fs)
              /\ \A u \in Ships : Reserving(d, u) /\ x[u].slot = x[v].slot => u = v
              /\ v \in p.to[x[v].slot]
  BY <1>5, <1>8, <1>15, <1>17 DEF Whole, Owned
<1> QED
  BY <1>2, <1>3, <1>14, <1>16, <1>17 DEF Whole, Owned

\* The slot that captain w had reserved is given up.
LEMMA WholeCancelled ==
    ASSUME NEW q, NEW es, NEW c, NEW x, Whole(q, es, c, x),
           NEW w \in Ships, Reserving(c, w), NEW place, place.slot = x[w].slot, place.prev = Nowhere,
           NEW d, ~Reserving(d, w), \A v \in Ships \ {w} : d[v] = c[v]
    PROVE  Whole(RemoveAll(q, place), es, d, x)
<1>1. PICK i : i = place.slot
  OBVIOUS
<1>2. q \in Queues /\ i \in Indices \ In(es) /\ i # Header /\ i = x[w].slot /\ i \in Links
  BY <1>1 DEF Whole, Owned, Sound, Indices, Header, Links
<1>3. PICK p : p = RemoveAll(q, place)
  OBVIOUS
<1>4. /\ p.last = q.last
      /\ \A j \in Links : p.next[j] = IF j = i THEN 0 ELSE q.next[j]
      /\ \A j \in Indices : p.to[j] = IF j = i THEN {} ELSE q.to[j]
  <2>1. \A j \in Links : j # place.prev
    BY DEF Links, Indices, Header, Nowhere
  <2>2. 0 # Header
    BY DEF Header
  <2>3. p = Unlink(q, place, 0)
    BY <1>1, <1>2, <1>3 DEF RemoveAll
  <2>4. p.last = q.last
    BY <2>2, <2>3 DEF Unlink
  <2>5. \A j \in Links : p.next[j] = IF j = i THEN 0 ELSE q.next[j]
    BY <1>1, <2>1, <2>3 DEF Unlink
  <2>6. \A j \in Indices : p.to[j] = IF j = i THEN {} ELSE q.to[j]
    BY <1>1, <1>2, <2>3 DEF Unlink, Queues
  <2> QED
    BY <2>4, <2>5, <2>6
<1>5. p \in Queues
  <2>1. 0 \in Links
    BY <1>2, SlotsAssumption DEF Links, Indices, SlotsAssumption
  <2>2. p = Unlink(q, place, 0)
    BY <1>1, <1>2, <1>3 DEF RemoveAll
  <2>3. q.last \in Links
    BY <1>2 DEF Queues
  <2> QED
    BY <1>1, <1>2, <2>1, <2>2, <2>3 DEF Unlink, Queues, Header
<1>6. In(es) \subseteq Indices
  BY InFinite DEF Whole
<1>7. Sound(p, es)
  <2>1. Header \in Links
    BY DEF Links
  <2> QED
    BY <1>2, <1>4, <1>5, <1>6, <2>1, SoundOutside DEF Whole, Links
<1>8. \A v \in Ships : Reserving(d, v) => Reserving(c, v) /\ v # w /\ x[v].slot # i
  BY <1>2 DEF Whole, Owned, Reserving
<1>9. ASSUME NEW j \in Indices \ In(es)
      PROVE  IsFree(p, j) \/ \E v \in Ships : Reserving(d, v) /\ x[v].slot = j
  <2>1. CASE j = i
    BY <1>4, <2>1 DEF IsFree, Links
  <2>2. CASE j # i
    <3>1. IsFree(q, j) => IsFree(p, j)
      BY <1>4, <2>2 DEF IsFree, Links
    <3>2. \A v \in Ships : Reserving(c, v) /\ x[v].slot = j => Reserving(d, v)
      BY <1>2, <2>2 DEF Reserving
    <3> QED
      BY <3>1, <3>2 DEF Whole, Owned
  <2> QED
    BY <2>1, <2>2
<1>10. ASSUME NEW v \in Ships, Reserving(d, v)
       PROVE  /\ x[v].slot \in Indices \ In(es)
              /\ \A u \in Ships : Reserving(d, u) /\ x[u].slot = x[v].slot => u = v
              /\ v \in p.to[x[v].slot]
  BY <1>4, <1>8, <1>10 DEF Whole, Owned
<1> QED
  BY <1>3, <1>7, <1>9, <1>10 DEF Whole, Owned

\* There is a slot.
LEMMA SlotZero == 0 \in Indices /\ 0 \in Links /\ Slots \in Nat
<1>1. IsFiniteSet(Senders) /\ Cardinality(Senders) \in Nat
  <2>1. 1 \in Int /\ KNPLAY \in Int
    BY SlotsAssumption DEF SlotsAssumption
  <2>2. IsFiniteSet(Ships) /\ Senders \in SUBSET Ships
    BY <2>1, SlotsAssumption, FS_Interval DEF Ships, SlotsAssumption
  <2> QED
    BY <2>2, FS_Subset, FS_CardinalityType
<1> QED
  BY <1>1, SlotsAssumption DEF SlotsAssumption, Indices, Links

\* SETQM, when nobody reserves.
LEMMA WholeEmpty ==
    ASSUME NEW c, NEW x, \A w \in Ships : ~Reserving(c, w)
    PROVE  EmptyQueue \in Queues /\ Whole(EmptyQueue, <<>>, c, x)
<1>1. EmptyQueue \in Queues
  BY SlotZero DEF EmptyQueue, Queues, Links
<1>2. Lists(EmptyQueue, <<>>) /\ LastOf(<<>>) = Header
  <2>1. Follows(EmptyQueue, <<>>)
    BY DEF Follows
  <2>2. LastOf(<<>>) = Header
    BY DEF LastOf, Before
  <2>3. EmptyQueue.next[Header] = Header
    BY DEF EmptyQueue, Links
  <2>4. Len(<<>>) <= Slots
    BY SlotZero
  <2> QED
    BY <2>1, <2>2, <2>3, <2>4 DEF Lists
<1>3. Sound(EmptyQueue, <<>>)
  BY <1>1, <1>2 DEF Sound, EmptyQueue
<1>4. \A i \in Indices : IsFree(EmptyQueue, i)
  BY DEF IsFree, EmptyQueue, Links, Indices, Header
<1> QED
  BY <1>1, <1>3, <1>4 DEF Whole, Owned

\* The link words keep their type.
LEMMA UnlinkType ==
    ASSUME NEW q \in Queues, NEW place, place.prev \in Links, NEW after \in Links
    PROVE  Unlink(q, place, after) \in Queues
<1>1. \A i \in Links : q.next[i] \in Links
  BY DEF Queues
<1> QED
  BY <1>1, SlotZero DEF Unlink, Queues

\* REMV.X takes none but its ships out of any slot, wherever its place is.
LEMMA RemoveType ==
    ASSUME NEW q \in Queues, NEW place, place.prev \in Links, place.slot \in Indices, NEW ships
    PROVE  /\ RemoveShips(q, place, ships) \in Queues
           /\ \A i \in Indices : q.to[i] \ ships \subseteq RemoveShips(q, place, ships).to[i]
<1>1. q.next[place.slot] \in Links
  BY DEF Queues, Links
<1>2. PICK p : p = RemoveShips(q, place, ships)
  OBVIOUS
<1>3. PICK s : s = place.slot
  OBVIOUS
<1>4. CASE q.to[place.slot] \subseteq ships
  <2>1. p = Unlink(q, place, q.next[place.slot])
    BY <1>2, <1>4 DEF RemoveShips
  <2>2. p \in Queues
    BY <1>1, <2>1, UnlinkType
  <2>3. \A i \in Indices : p.to[i] = IF i = s THEN {} ELSE q.to[i]
    BY <1>3, <2>1 DEF Unlink, Queues
  <2> QED
    BY <1>2, <1>3, <1>4, <2>2, <2>3
<1>5. CASE ~(q.to[place.slot] \subseteq ships)
  <2>1. p = [q EXCEPT !.to[s] = @ \ ships]
    BY <1>2, <1>3, <1>5 DEF RemoveShips
  <2>2. p \in Queues /\ \A i \in Indices : p.to[i] = IF i = s THEN q.to[i] \ ships ELSE q.to[i]
    BY ONLY q \in Queues, <1>3, place.slot \in Indices, <2>1 DEF Queues
  <2> QED
    BY <1>2, <2>2
<1> QED
  BY <1>4, <1>5

-----------------------------------------------------------------------------
\* The invariant: besides the types, who composes and for whom, what X2 names
\* where it matters, and that a reserved slot still bears the name of its captain.
Composing ==
    \A w \in Ships :
        /\ pc[w] \in {"prompt", "cancel", "publish"} => w \in Senders
        /\ pc[w] \in {"prompt", "publish"} => dbits[w] # {}

Places ==
    \A w \in Ships :
        /\ Reserving(pc, w) => x2[w].prev = Nowhere
        /\ pc[w] = "remove" => x2[w].prev \in Links /\ x2[w].slot \in Indices

Claims ==
    \A w \in Ships :
        Reserving(pc, w) => x2[w].slot \in Indices /\ w \in queue.to[x2[w].slot]

IInv == TypeOK /\ Composing /\ Places /\ Claims

\* ListWellFormed, of any list.
WellFormed(q, c, x) ==
    /\ Ends(q)
    /\ q.last \in Range(Entries(q)) \cup {Header} /\ q.next[q.last] = Header
    /\ \A i \in Range(Entries(q)) : q.to[i] # {}
    /\ \A i \in Indices \ Range(Entries(q)) :
          IsFree(q, i) \/ \E w \in Ships : Reserving(c, w) /\ x[w].slot = i
    /\ \A w \in Ships : Reserving(c, w) =>
          /\ x[w].slot \notin Range(Entries(q))
          /\ \A v \in Ships : Reserving(c, v) /\ x[v].slot = x[w].slot => v = w

\* The slots of the list, as ListWellFormed names them.
LEMMA RangeIn ==
    ASSUME NEW q, NEW es, Lists(q, es)
    PROVE  Range(es) = In(es)
<1>1. DOMAIN es = 1..Len(es)
  BY SeqFacts DEF Lists, Follows
<1> QED
  BY <1>1 DEF Range, In

\* ListWellFormed in the terms of these proofs,
LEMMA WellFormedWhole ==
    ASSUME NEW q \in Queues, NEW c, NEW x, WellFormed(q, c, x),
           \A w \in Ships : Reserving(c, w) => x[w].slot \in Indices /\ w \in q.to[x[w].slot]
    PROVE  Whole(q, Entries(q), c, x)
<1>1. PICK es : es = Entries(q)
  OBVIOUS
<1>2. Lists(q, es)
  BY <1>1, EndsLists DEF WellFormed
<1>3. Range(es) = In(es) /\ Len(es) \in Nat
  BY <1>2, RangeIn, ListFacts
<1>4. q.last \in In(es) \cup {Header} /\ q.next[q.last] = Header /\ \A i \in In(es) : q.to[i] # {}
  BY <1>1, <1>3 DEF WellFormed
<1>5. q.last = LastOf(es)
  <2>1. LastOf(es) = IF Len(es) = 0 THEN Header ELSE es[Len(es)]
    BY <1>2, ListFacts
  <2>2. CASE q.last = Header
    <3>1. ASSUME Len(es) # 0 PROVE FALSE
      <4>1. 1 \in 1..Len(es)
        BY <1>3, <3>1
      <4>2. es[1] = q.next[Header] /\ es[1] # Header
        BY <1>2, <3>1, <4>1, ListFacts
      <4> QED
        BY <1>4, <2>2, <4>2
    <3> QED
      BY <2>1, <2>2, <3>1
  <2>3. CASE q.last # Header
    <3>1. PICK k \in 1..Len(es) : q.last = es[k]
      BY <1>4, <2>3 DEF In
    <3>2. ASSUME k # Len(es) PROVE FALSE
      <4>1. k + 1 \in 1..Len(es) /\ k + 1 # 1 /\ k + 1 - 1 = k
        BY <1>3, <3>2
      <4>2. es[k + 1] = q.next[es[k]] /\ es[k + 1] # Header
        BY <1>2, <4>1, ListFacts
      <4> QED
        BY <1>4, <3>1, <4>2
    <3> QED
      BY <1>3, <2>1, <3>1, <3>2
  <2> QED
    BY <2>2, <2>3
<1>6. Sound(q, es)
  BY <1>2, <1>4, <1>5 DEF Sound, In
<1>7. Owned(q, In(es), c, x)
  <2>1. \A i \in Indices \ In(es) : IsFree(q, i) \/ \E w \in Ships : Reserving(c, w) /\ x[w].slot = i
    BY <1>1, <1>3 DEF WellFormed
  <2>2. \A w \in Ships : Reserving(c, w) =>
          /\ x[w].slot \in Indices \ In(es)
          /\ \A v \in Ships : Reserving(c, v) /\ x[v].slot = x[w].slot => v = w
          /\ w \in q.to[x[w].slot]
    BY <1>1, <1>3 DEF WellFormed
  <2> QED
    BY <2>1, <2>2 DEF Owned
<1> QED
  BY <1>1, <1>6, <1>7 DEF Whole

\* ... and back.
LEMMA WholeWellFormed ==
    ASSUME NEW q, NEW es, NEW c, NEW x, Whole(q, es, c, x)
    PROVE  /\ WellFormed(q, c, x)
           /\ \A w \in Ships : Reserving(c, w) => x[w].slot \in Indices /\ w \in q.to[x[w].slot]
<1>1. q \in Queues /\ Lists(q, es) /\ Len(es) \in Nat /\ q.last = LastOf(es)
  BY ListFacts DEF Whole, Sound
<1>2. Entries(q) = es /\ Ends(q) /\ Range(es) = In(es)
  BY <1>1, ListsUnique, RangeIn
<1>3. q.last \in In(es) \cup {Header} /\ q.next[q.last] = Header
  <2>1. LastOf(es) = IF Len(es) = 0 THEN Header ELSE es[Len(es)]
    BY <1>1, ListFacts
  <2>2. Len(es) # 0 => Len(es) \in 1..Len(es)
    BY <1>1
  <2>3. q.next[LastOf(es)] = Header
    BY <1>1 DEF Lists
  <2> QED
    BY <1>1, <2>1, <2>2, <2>3 DEF In
<1>4. \A i \in In(es) : q.to[i] # {}
  BY DEF Whole, Sound, In
<1> QED
  BY <1>2, <1>3, <1>4 DEF Whole, Owned, WellFormed

\* The same of the current state,
LEMMA WholeNow ==
    ASSUME IInv, ListWellFormed
    PROVE  Whole(queue, Entries(queue), pc, x2)
<1>1. PICK q, c, x : q = queue /\ c = pc /\ x = x2
  OBVIOUS
<1>2. q \in Queues
  BY <1>1 DEF IInv, TypeOK
<1>3. WellFormed(q, c, x)
  BY <1>1 DEF ListWellFormed, Chain, WellFormed, Reserving
<1>4. \A w \in Ships : Reserving(c, w) => x[w].slot \in Indices /\ w \in q.to[x[w].slot]
  BY <1>1 DEF IInv, Claims
<1>5. Whole(q, Entries(q), c, x)
  BY <1>2, <1>3, <1>4, WellFormedWhole
<1> QED
  BY <1>1, <1>5

\* ... and of the next one.
LEMMA WholeNext ==
    ASSUME NEW es, Whole(queue', es, pc', x2')
    PROVE  ListWellFormed' /\ Claims'
<1>1. PICK q, c, x : q = queue' /\ c = pc' /\ x = x2'
  OBVIOUS
<1>2. Whole(q, es, c, x)
  BY <1>1
<1>3. /\ WellFormed(q, c, x)
      /\ \A w \in Ships : Reserving(c, w) => x[w].slot \in Indices /\ w \in q.to[x[w].slot]
  BY <1>2, WholeWellFormed
<1> QED
  BY <1>1, <1>3 DEF ListWellFormed, Chain, WellFormed, Reserving, Claims

-----------------------------------------------------------------------------
\* The steps.
LEMMA Initially == Init => IInv
<1> SUFFICES ASSUME Init PROVE IInv
  OBVIOUS
<1>1. EmptyQueue \in Queues
  <2>1. \A w \in Ships : ~Reserving(pc, w)
    BY DEF Init, Reserving
  <2> QED
    BY <2>1, WholeEmpty
<1>2. TypeOK
  <2>1. text \in [Indices -> Messages]
    BY DEF Init
  <2>2. x2 \in [Ships -> [prev : Links \cup {Nowhere}, slot : 0..Slots]]
    BY SlotZero DEF Init
  <2> QED
    BY <1>1, <2>1, <2>2 DEF Init, TypeOK
<1> QED
  BY <1>2 DEF Init, IInv, Composing, Places, Claims, Reserving

\* A step that leaves the queue and the reservations alone.
LEMMA QueueKept ==
    ASSUME IInv, ListWellFormed, queue' = queue,
           \A w \in Ships : /\ Reserving(pc, w) <=> Reserving(pc', w)
                            /\ Reserving(pc, w) => x2'[w].slot = x2[w].slot
    PROVE  ListWellFormed' /\ Claims'
<1>1. PICK q, c, x, d, y, es :
        q = queue /\ c = pc /\ x = x2 /\ d = pc' /\ y = x2' /\ es = Entries(queue)
  OBVIOUS
<1>2. Whole(q, es, c, x)
  BY <1>1, WholeNow
<1>3. \A w \in Ships : /\ Reserving(c, w) <=> Reserving(d, w)
                       /\ Reserving(c, w) => y[w].slot = x[w].slot
  BY <1>1
<1>4. Whole(q, es, d, y)
  BY <1>2, <1>3, WholeSame
<1> QED
  BY <1>1, <1>4, WholeNext

\* Where a search ends is a link and a slot, or no slot.
LEMMA PlaceType ==
    ASSUME IInv, ListWellFormed, NEW w \in Ships
    PROVE  /\ Place(queue, w) \in [prev : Links, slot : 0..Slots]
           /\ Hits(queue, w) # {} => Place(queue, w).slot \in Indices
<1>1. PICK q, es : q = queue /\ es = Entries(queue)
  OBVIOUS
<1>2. q \in Queues /\ Lists(q, es) /\ Len(es) \in Nat
  BY <1>1, WholeNow, ListFacts DEF Whole, Sound
<1>3. CASE Hits(q, w) # {}
  <2>1. PICK n \in 1..Len(es) : Place(q, w) = At(es, n)
    BY <1>2, <1>3, PlaceAt
  <2>2. n \in 1..Len(es) + 1 /\ es[n] \in Indices
    BY <1>2, ListFacts
  <2>3. Before(es, n) \in Links
    BY <1>2, <2>2, FollowsType DEF Lists
  <2> QED
    BY <1>1, <2>1, <2>2, <2>3, SlotZero DEF At, Indices
<1>4. CASE Hits(q, w) = {}
  <2>1. Place(q, w) = [prev |-> Before(es, Len(es) + 1), slot |-> 0]
    BY <1>1, <1>4 DEF Place, Before
  <2>2. Before(es, Len(es) + 1) \in Links
    BY <1>2, FollowsType DEF Lists
  <2> QED
    BY <1>1, <1>4, <2>1, <2>2, SlotZero
<1> QED
  BY <1>3, <1>4

\* MSGFLG counts down from what is not 0.
LEMMA CountedDown ==
    ASSUME NEW f \in [Ships -> Nat], NEW w \in Ships, f[w] # 0
    PROVE  [f EXCEPT ![w] = @ - 1] \in [Ships -> Nat]
<1>1. f[w] - 1 \in Nat
  <2>1. f[w] \in Nat
    OBVIOUS
  <2> QED
    BY <2>1
<1> QED
  BY <1>1

\* Board, Leave, Refused, GiveUp: the queue is not touched.
LEMMA BoardKept ==
    ASSUME IInv, ListWellFormed, NEW w \in Ships, Board(w) \/ Leave(w) \/ Refused(w) \/ GiveUp(w)
    PROVE  IInv' /\ ListWellFormed'
<1>1. TypeOK /\ Composing /\ Places /\ Claims
  BY DEF IInv
<1>2. /\ pc[w] \in {"away", "ready", "refused"}
      /\ \E here \in {"away", "ready", "refused"} : pc' = [pc EXCEPT ![w] = here]
      /\ UNCHANGED <<queue, text, dbits, x2, copied, buffer, hung>>
      /\ msgflg' \in [Ships -> Nat]
  <2>1. CASE Board(w)
    BY <1>1, <2>1 DEF Board, Is, Goto, TypeOK
  <2>2. CASE Leave(w)
    BY <1>1, <2>2 DEF Leave, Is, Goto, TypeOK
  <2>3. CASE Refused(w)
    <3>1. msgflg[w] # 0 /\ msgflg' = [msgflg EXCEPT ![w] = @ - 1]
      BY <2>3 DEF Refused, Gets
    <3>2. [msgflg EXCEPT ![w] = @ - 1] \in [Ships -> Nat]
      BY <1>1, <3>1, CountedDown DEF TypeOK
    <3> QED
      BY <2>3, <3>1, <3>2 DEF Refused, Gets, Is, Goto
  <2>4. CASE GiveUp(w)
    BY <1>1, <2>4 DEF GiveUp, Is, Goto, TypeOK
  <2> QED
    BY <2>1, <2>2, <2>3, <2>4
<1>3. \A v \in Ships : pc'[v] = pc[v] \/ (v = w /\ pc'[v] \in {"away", "ready", "refused"})
  BY <1>1, <1>2 DEF TypeOK
<1>4. TypeOK'
  BY <1>1, <1>2 DEF TypeOK
<1>5. Composing' /\ Places'
  BY <1>1, <1>2, <1>3 DEF Composing, Places, Reserving
<1>6. ListWellFormed' /\ Claims'
  BY <1>2, <1>3, QueueKept DEF Reserving
<1> QED
  BY <1>4, <1>5, <1>6 DEF IInv

\* TELL: the message has a recipient.
LEMMA TellKept ==
    ASSUME IInv, ListWellFormed, NEW w \in Senders, NEW ships \in Addressed[w], Tell(w, ships)
    PROVE  IInv' /\ ListWellFormed'
<1>1. TypeOK /\ Composing /\ Places /\ Claims
  BY DEF IInv
<1>2. w \in Ships /\ ships \in SUBSET Ships /\ ships # {}
  BY SlotsAssumption DEF SlotsAssumption, Tell
<1>3. /\ pc[w] = "ready" /\ pc' = [pc EXCEPT ![w] = "prompt"]
      /\ dbits' = [dbits EXCEPT ![w] = ships]
      /\ UNCHANGED <<queue, text, msgflg, x2, copied, buffer, hung>>
  BY DEF Tell, Is, Goto
<1>4. TypeOK'
  BY <1>1, <1>2, <1>3 DEF TypeOK
<1>5. Composing' /\ Places'
  BY <1>1, <1>2, <1>3 DEF Composing, Places, Reserving, TypeOK
<1>6. ListWellFormed' /\ Claims'
  <2>1. \A v \in Ships : Reserving(pc, v) <=> Reserving(pc', v)
    BY <1>1, <1>3 DEF Reserving, TypeOK
  <2> QED
    BY <1>3, <2>1, QueueKept
<1> QED
  BY <1>4, <1>5, <1>6 DEF IInv

\* SRCH that finds nothing.
LEMMA MissKept ==
    ASSUME IInv, ListWellFormed, NEW w \in Ships, Miss(w)
    PROVE  IInv' /\ ListWellFormed'
<1>1. TypeOK /\ Composing /\ Places /\ Claims
  BY DEF IInv
<1>2. /\ pc[w] = "ready" /\ x2' = [x2 EXCEPT ![w] = Place(queue, w)]
      /\ msgflg' = [msgflg EXCEPT ![w] = 0]
      /\ UNCHANGED <<queue, text, pc, dbits, copied, buffer, hung>>
  BY DEF Miss, Gets, Is
<1>3. x2' \in [Ships -> [prev : Links \cup {Nowhere}, slot : 0..Slots]]
  BY <1>1, <1>2, PlaceType DEF TypeOK
<1>4. TypeOK'
  BY <1>1, <1>2, <1>3 DEF TypeOK
<1>5. \A v \in Ships : v # w => x2'[v] = x2[v]
  BY <1>1, <1>2 DEF TypeOK
<1>6. Composing' /\ Places'
  BY <1>1, <1>2, <1>5 DEF Composing, Places, Reserving
<1>7. ListWellFormed' /\ Claims'
  <2>1. \A v \in Ships : Reserving(pc, v) => x2'[v].slot = x2[v].slot
    BY <1>2, <1>5 DEF Reserving
  <2> QED
    BY <1>2, <2>1, QueueKept
<1> QED
  BY <1>4, <1>6, <1>7 DEF IInv

\* Those who reserve are senders: the reserved slots are fewer than the table has.
LEMMA RoomFor ==
    ASSUME NEW q, NEW es, NEW c, NEW x, Whole(q, es, c, x),
           \A w \in Ships : Reserving(c, w) => w \in Senders
    PROVE  \E R : /\ HasRoom(q, es, R)
                  /\ Cardinality(R) \in Nat /\ Cardinality(R) <= Cardinality(Senders)
<1>1. IsFiniteSet(Senders) /\ Cardinality(Senders) \in Nat /\ Slots > Cardinality(Senders) /\ Slots \in Nat
  <2>1. 1 \in Int /\ KNPLAY \in Int
    BY SlotsAssumption DEF SlotsAssumption
  <2>2. IsFiniteSet(Ships) /\ Senders \in SUBSET Ships
    BY <2>1, SlotsAssumption, FS_Interval DEF Ships, SlotsAssumption
  <2>3. IsFiniteSet(Senders) /\ Cardinality(Senders) \in Nat
    BY <2>2, FS_Subset, FS_CardinalityType
  <2> QED
    BY <2>3, SlotsAssumption DEF SlotsAssumption
<1>2. PICK W : \A w : w \in W <=> w \in Ships /\ Reserving(c, w)
  <2> WITNESS {w \in Ships : Reserving(c, w)}
  <2> QED
    OBVIOUS
<1>3. W \in SUBSET Senders
  BY <1>2
<1>4. IsFiniteSet(W) /\ Cardinality(W) <= Cardinality(Senders) /\ Cardinality(W) \in Nat
  BY <1>1, <1>3, FS_Subset, FS_CardinalityType
<1>5. PICK f : f = [w \in W |-> x[w].slot]
  OBVIOUS
<1>6. PICK R : R = {x[w].slot : w \in W}
  OBVIOUS
<1>7. f \in Surjection(W, R)
  BY <1>5, <1>6 DEF Surjection
<1>8. IsFiniteSet(R) /\ Cardinality(R) <= Cardinality(W) /\ Cardinality(R) \in Nat
  BY <1>4, <1>7, FS_Surjection, FS_CardinalityType
<1>9. \A i \in Indices \ In(es) : IsFree(q, i) \/ i \in R
  BY <1>2, <1>6 DEF Whole, Owned
<1>10. Cardinality(R) <= Cardinality(Senders) /\ Cardinality(R) < Slots
  BY <1>1, <1>4, <1>8
<1> QED
  BY <1>8, <1>9, <1>10 DEF HasRoom

\* RSRV comes to a free slot, whatever has to be evicted for it.
LEMMA RoomIs ==
    ASSUME IInv, ListWellFormed, NEW q, q = MakeRoom(queue), NEW i, i = RoomIn(q)
    PROVE  /\ RoomMade(queue, Entries(queue), q)
           /\ \E fs : LeftOf(queue, Entries(queue), q, fs) /\ Whole(q, fs, pc, x2)
           /\ q \in Queues /\ i \in Indices /\ IsFree(q, i)
<1>1. PICK o, es, c, x : o = queue /\ es = Entries(queue) /\ c = pc /\ x = x2
  OBVIOUS
<1>2. Whole(o, es, c, x)
  BY <1>1, WholeNow
<1>3. \A w \in Ships : Reserving(c, w) => w \in Senders
  BY <1>1 DEF IInv, Composing, Reserving
<1>4. PICK R : HasRoom(o, es, R)
  BY <1>2, <1>3, RoomFor
<1>5. RoomMade(o, es, q)
  <2>1. q = MakeRoom(o)
    BY <1>1
  <2> QED
    BY <1>2, <1>4, <2>1, MakeRoomOf DEF Whole
<1>6. PICK fs : LeftOf(o, es, q, fs)
  BY <1>5 DEF RoomMade
<1>7. Whole(q, fs, c, x) /\ q \in Queues
  BY <1>2, <1>6, WholeLeft DEF Whole, Sound
<1>8. i \in Indices /\ IsFree(q, i)
  <2>1. PICK free : \A j : j \in free <=> j \in Indices /\ IsFree(q, j)
    <3> WITNESS {j \in Indices : IsFree(q, j)}
    <3> QED
      OBVIOUS
  <2>2. free # {} /\ free \in SUBSET Nat
    BY <1>5, <2>1 DEF RoomMade, HasFree, Indices
  <2>3. free = {j \in Indices : IsFree(q, j)}
    BY <2>1
  <2>4. i = Min(free)
    BY <2>3 DEF RoomIn
  <2>5. i \in free
    BY <2>2, <2>4, MinIs
  <2> QED
    BY <2>1, <2>5
<1> QED
  BY <1>1, <1>5, <1>6, <1>7, <1>8

\* RSRV keeps the type.
LEMMA ReservedType ==
    ASSUME NEW q \in Queues, NEW i \in Indices
    PROVE  Reserved(q, i) \in Queues
BY DEF Reserved, Queues, Links

\* MAKMSG keeps the type of MSGFLG.
LEMMA CountedType ==
    ASSUME TypeOK, NEW ships \in SUBSET Ships
    PROVE  Counted(ships) \in [Ships -> Nat]
BY DEF TypeOK, Counted

\* RSRV, and no message for it.
LEMMA TooShortKept ==
    ASSUME IInv, ListWellFormed, NEW w \in Ships, TooShort(w)
    PROVE  IInv' /\ ListWellFormed'
<1>1. TypeOK /\ Composing /\ Places /\ Claims
  BY DEF IInv
<1>2. PICK q : q = MakeRoom(queue)
  OBVIOUS
<1>3. PICK i : i = RoomIn(q)
  OBVIOUS
<1>4. PICK fs : Whole(q, fs, pc, x2) /\ q \in Queues /\ i \in Indices /\ IsFree(q, i)
  BY <1>2, <1>3, RoomIs
<1>5. /\ pc[w] = "prompt" /\ pc' = [pc EXCEPT ![w] = "cancel"]
      /\ queue' = Reserved(q, i)
      /\ x2' = [x2 EXCEPT ![w] = [prev |-> Nowhere, slot |-> i]]
      /\ UNCHANGED <<text, msgflg, dbits, copied, buffer, hung>>
  BY <1>2, <1>3 DEF TooShort, Is, Goto
<1>6. x2' \in [Ships -> [prev : Links \cup {Nowhere}, slot : 0..Slots]]
  BY <1>1, <1>4, <1>5, SlotZero DEF TypeOK, Indices
<1>7. TypeOK'
  BY <1>1, <1>4, <1>5, <1>6, ReservedType DEF TypeOK
<1>8. /\ x2'[w].prev = Nowhere /\ x2'[w].slot = i /\ pc'[w] = "cancel"
      /\ \A v \in Ships \ {w} : x2'[v] = x2[v] /\ pc'[v] = pc[v]
  BY <1>1, <1>5 DEF TypeOK
<1>9. Composing' /\ Places'
  BY <1>1, <1>5, <1>8 DEF Composing, Places, Reserving
<1>10. ListWellFormed' /\ Claims'
  <2>1. PICK c, x, d, y : c = pc /\ x = x2 /\ d = pc' /\ y = x2'
    OBVIOUS
  <2>2. ~Reserving(c, w) /\ Reserving(d, w)
    BY <1>5, <1>8, <2>1 DEF Reserving
  <2>3. \A v \in Ships \ {w} : d[v] = c[v] /\ y[v] = x[v]
    BY <1>8, <2>1
  <2>4. Whole(Reserved(q, i), fs, d, y)
    BY <1>4, <1>8, <2>1, <2>2, <2>3, WholeReserved
  <2> QED
    BY <1>5, <2>1, <2>4, WholeNext
<1> QED
  BY <1>7, <1>9, <1>10 DEF IInv

\* REMV of the reservation.
LEMMA CancelKept ==
    ASSUME IInv, ListWellFormed, NEW w \in Ships, Cancel(w)
    PROVE  IInv' /\ ListWellFormed'
<1>1. TypeOK /\ Composing /\ Places /\ Claims
  BY DEF IInv
<1>2. /\ pc[w] = "cancel" /\ pc' = [pc EXCEPT ![w] = "ready"]
      /\ queue' = RemoveAll(queue, x2[w])
      /\ dbits' = [dbits EXCEPT ![w] = {}]
      /\ UNCHANGED <<text, msgflg, x2, copied, buffer, hung>>
  BY DEF Cancel, Is, Goto
<1>3. PICK q, es, c, x, d, place :
        q = queue /\ es = Entries(queue) /\ c = pc /\ x = x2 /\ d = pc' /\ place = x2[w]
  OBVIOUS
<1>4. Whole(q, es, c, x)
  BY <1>3, WholeNow
<1>5. Reserving(c, w) /\ ~Reserving(d, w) /\ \A v \in Ships \ {w} : d[v] = c[v]
  BY <1>1, <1>2, <1>3 DEF Reserving, TypeOK
<1>6. place.slot = x[w].slot /\ place.prev = Nowhere
  BY <1>1, <1>2, <1>3 DEF Places, Reserving
<1>7. Whole(RemoveAll(q, place), es, d, x)
  BY <1>4, <1>5, <1>6, WholeCancelled
<1>8. ListWellFormed' /\ Claims' /\ queue' \in Queues
  BY <1>2, <1>3, <1>7, WholeNext DEF Whole, Sound
<1>9. TypeOK'
  BY <1>1, <1>2, <1>8 DEF TypeOK
<1>10. Composing' /\ Places'
  BY <1>1, <1>2 DEF Composing, Places, Reserving, TypeOK
<1> QED
  BY <1>8, <1>9, <1>10 DEF IInv

\* MAKMSG's end, from UPDT on; c and y are PC and X2 as the reservation leaves them.
LEMMA PublishedKept ==
    ASSUME IInv, NEW w \in Ships, NEW q, NEW i, NEW es, NEW c, NEW y,
           Published(w, q, i), dbits[w] # {}, pc' = [pc EXCEPT ![w] = "ready"],
           Whole(q, es, c, y), Reserving(c, w), y[w].slot = i, y = x2',
           \A v \in Ships \ {w} : c[v] = pc[v]
    PROVE  /\ queue' \in Queues /\ msgflg' \in [Ships -> Nat] /\ dbits' \in [Ships -> SUBSET Ships]
           /\ ListWellFormed' /\ Claims'
<1>1. TypeOK
  BY DEF IInv
<1>2. PICK ships, d : ships = dbits[w] /\ d = pc'
  OBVIOUS
<1>3. ships \in SUBSET Ships /\ ships # {}
  BY <1>1, <1>2 DEF TypeOK
<1>4. queue' = Linked(q, i, ships) /\ msgflg' = Counted(ships) /\ dbits' = [dbits EXCEPT ![w] = {}]
  BY <1>2 DEF Published
<1>5. ~Reserving(d, w) /\ \A v \in Ships \ {w} : d[v] = c[v]
  BY <1>1, <1>2 DEF Reserving, TypeOK
<1>6. Whole(Linked(q, i, ships), Append(es, i), d, y)
  BY <1>3, <1>5, WholeLinked
<1>7. ListWellFormed' /\ Claims' /\ queue' \in Queues
  <2>1. PICK fs : fs = Append(es, i)
    OBVIOUS
  <2>2. Whole(queue', fs, pc', x2')
    BY <1>2, <1>4, <1>6, <2>1
  <2> QED
    BY <2>2, WholeNext DEF Whole, Sound
<1>8. msgflg' \in [Ships -> Nat]
  BY <1>1, <1>3, <1>4, CountedType
<1> QED
  BY <1>1, <1>4, <1>7, <1>8 DEF TypeOK

\* UPDT after a sleep.
LEMMA PublishKept ==
    ASSUME IInv, ListWellFormed, NEW w \in Ships, Publish(w)
    PROVE  IInv' /\ ListWellFormed'
<1>1. TypeOK /\ Composing /\ Places /\ Claims
  BY DEF IInv
<1>2. /\ pc[w] = "publish" /\ pc' = [pc EXCEPT ![w] = "ready"]
      /\ Published(w, queue, x2[w].slot) /\ dbits' = [dbits EXCEPT ![w] = {}]
      /\ UNCHANGED <<text, x2, copied, buffer, hung>>
  BY DEF Publish, Is, Goto, Published
<1>3. PICK q, es, c, x, i :
        q = queue /\ es = Entries(queue) /\ c = pc /\ x = x2 /\ i = x2[w].slot
  OBVIOUS
<1>4. Whole(q, es, c, x) /\ Reserving(c, w) /\ dbits[w] # {}
  BY <1>1, <1>2, <1>3, WholeNow DEF Reserving, Composing
<1>5. Published(w, q, i)
  BY <1>2, <1>3
<1>6. /\ queue' \in Queues /\ msgflg' \in [Ships -> Nat] /\ dbits' \in [Ships -> SUBSET Ships]
      /\ ListWellFormed' /\ Claims'
  BY <1>2, <1>3, <1>4, <1>5, PublishedKept
<1>7. TypeOK'
  BY <1>1, <1>2, <1>6 DEF TypeOK
<1>8. Composing' /\ Places'
  BY <1>1, <1>2 DEF Composing, Places, Reserving, TypeOK
<1> QED
  BY <1>6, <1>7, <1>8 DEF IInv

\* RSRV, and UPDT at once or after a sleep.
LEMMA SendKept ==
    ASSUME IInv, ListWellFormed, NEW w \in Senders, NEW m \in Texts[w], Send(w, m)
    PROVE  IInv' /\ ListWellFormed'
<1>1. TypeOK /\ Composing /\ Places /\ Claims
  BY DEF IInv
<1>2. PICK q : q = MakeRoom(queue)
  OBVIOUS
<1>3. PICK i : i = RoomIn(q)
  OBVIOUS
<1>4. PICK fs : Whole(q, fs, pc, x2) /\ q \in Queues /\ i \in Indices /\ IsFree(q, i)
  BY <1>2, <1>3, RoomIs
<1>5. /\ pc[w] = "prompt" /\ text' = [text EXCEPT ![i] = m]
      /\ x2' = [x2 EXCEPT ![w] = [prev |-> Nowhere, slot |-> i]]
      /\ UNCHANGED <<copied, buffer, hung>>
      /\ \/ Published(w, Reserved(q, i), i)
         \/ /\ queue' = Reserved(q, i)
            /\ pc' = [pc EXCEPT ![w] = "publish"]
            /\ UNCHANGED <<msgflg, dbits>>
  BY <1>2, <1>3 DEF Send, Is, Goto
<1>6. w \in Ships /\ m \in Messages
  BY SlotsAssumption DEF SlotsAssumption, Messages, Range, Senders
<1>7. x2' \in [Ships -> [prev : Links \cup {Nowhere}, slot : 0..Slots]]
  BY <1>1, <1>4, <1>5, <1>6, SlotZero DEF TypeOK, Indices
<1>8. text' \in [Indices -> Messages]
  BY <1>1, <1>5, <1>6 DEF TypeOK
<1>9. /\ x2'[w].prev = Nowhere /\ x2'[w].slot = i
      /\ \A v \in Ships \ {w} : x2'[v] = x2[v]
  BY <1>1, <1>5, <1>6 DEF TypeOK
<1>10. PICK p, c, x, d, y :
         p = Reserved(q, i) /\ c = pc /\ x = x2 /\ d = [pc EXCEPT ![w] = "publish"] /\ y = x2'
  OBVIOUS
<1>11. /\ ~Reserving(c, w) /\ Reserving(d, w)
       /\ \A v \in Ships \ {w} : d[v] = c[v] /\ y[v] = x[v]
  BY <1>1, <1>5, <1>6, <1>9, <1>10 DEF Reserving, TypeOK
<1>12. Whole(p, fs, d, y) /\ y[w].slot = i
  <2>1. Whole(q, fs, c, x) /\ y[w].slot = i
    BY <1>4, <1>9, <1>10
  <2>2. Whole(Reserved(q, i), fs, d, y)
    BY <1>4, <1>6, <1>11, <2>1, WholeReserved
  <2> QED
    BY <1>10, <2>1, <2>2
<1>13. CASE Published(w, Reserved(q, i), i)
  <2>1. pc' = [pc EXCEPT ![w] = "ready"] /\ dbits' = [dbits EXCEPT ![w] = {}] /\ dbits[w] # {}
    BY <1>1, <1>5, <1>6, <1>13 DEF Published, Goto, Composing
  <2>2. /\ queue' \in Queues /\ msgflg' \in [Ships -> Nat] /\ dbits' \in [Ships -> SUBSET Ships]
        /\ ListWellFormed' /\ Claims'
    <3>1. Published(w, p, i)
      BY <1>10, <1>13
    <3>2. \A v \in Ships \ {w} : d[v] = pc[v]
      BY <1>10, <1>11
    <3> QED
      BY <1>6, <1>10, <1>11, <1>12, <2>1, <3>1, <3>2, PublishedKept
  <2>3. TypeOK'
    BY <1>1, <1>5, <1>7, <1>8, <2>1, <2>2 DEF TypeOK
  <2>4. Composing' /\ Places'
    BY <1>1, <1>6, <1>9, <2>1 DEF Composing, Places, Reserving, TypeOK
  <2> QED
    BY <2>2, <2>3, <2>4 DEF IInv
<1>14. CASE /\ queue' = Reserved(q, i)
            /\ pc' = [pc EXCEPT ![w] = "publish"]
            /\ UNCHANGED <<msgflg, dbits>>
  <2>1. TypeOK'
    BY <1>1, <1>4, <1>5, <1>7, <1>8, <1>14, ReservedType DEF TypeOK
  <2>2. Composing' /\ Places'
    BY <1>1, <1>5, <1>6, <1>9, <1>14 DEF Composing, Places, Reserving, TypeOK
  <2>3. Whole(queue', fs, pc', x2')
    BY <1>10, <1>12, <1>14
  <2> QED
    BY <2>1, <2>2, <2>3, WholeNext DEF IInv
<1> QED
  BY <1>5, <1>13, <1>14

\* REMV at the place that a search for w finds now.
LEMMA TakenKept ==
    ASSUME IInv, ListWellFormed, NEW w \in Ships, Hits(queue, w) # {},
           queue' = RemoveShips(queue, Place(queue, w), {w}),
           \A v \in Ships : /\ Reserving(pc, v) <=> Reserving(pc', v)
                            /\ Reserving(pc, v) => x2'[v].slot = x2[v].slot
    PROVE  queue' \in Queues /\ ListWellFormed' /\ Claims'
<1>1. PICK q, es, c, x, d, y, p, ships :
        /\ q = queue /\ es = Entries(queue) /\ c = pc /\ x = x2 /\ d = pc' /\ y = x2'
        /\ p = queue' /\ ships = {w}
  OBVIOUS
<1>2. Whole(q, es, c, x) /\ Sound(q, es) /\ Lists(q, es) /\ q \in Queues
  BY <1>1, WholeNow DEF Whole, Sound
<1>3. PICK n \in 1..Len(es) : Place(q, w) = At(es, n)
  <2>1. Hits(q, w) # {}
    BY <1>1
  <2> QED
    BY <1>2, <2>1, PlaceAt
<1>4. p = RemoveShips(q, At(es, n), ships)
  BY <1>1, <1>3
<1>5. PICK fs : LeftOf(q, es, p, fs)
  BY <1>2, <1>4, RemoveAt DEF RemovedAt
<1>6. Whole(p, fs, c, x)
  BY <1>2, <1>5, WholeLeft
<1>7. \A v \in Ships : /\ Reserving(c, v) <=> Reserving(d, v)
                       /\ Reserving(c, v) => y[v].slot = x[v].slot
  BY <1>1
<1>8. Whole(p, fs, d, y)
  BY <1>6, <1>7, WholeSame
<1> QED
  BY <1>1, <1>8, WholeNext DEF Whole, Sound

\* GETMSG that finds a message.
LEMMA ReadKept ==
    ASSUME IInv, ListWellFormed, NEW w \in Ships, Read(w)
    PROVE  IInv' /\ ListWellFormed'
<1>1. TypeOK /\ Composing /\ Places /\ Claims
  BY DEF IInv
<1>2. PICK place : place = Place(queue, w)
  OBVIOUS
<1>3. /\ pc[w] = "ready" /\ Hits(queue, w) # {}
      /\ msgflg[w] # 0 /\ msgflg' = [msgflg EXCEPT ![w] = @ - 1]
      /\ x2' = [x2 EXCEPT ![w] = place]
      /\ copied' = [copied EXCEPT ![w] = text[place.slot]]
      /\ \/ /\ queue' = RemoveShips(queue, place, {w})
            /\ buffer' \in {[buffer EXCEPT ![w] = text[place.slot]], buffer}
            /\ pc' = pc
         \/ /\ pc' = [pc EXCEPT ![w] = "remove"]
            /\ queue' = queue /\ buffer' = buffer
      /\ UNCHANGED <<text, dbits, hung>>
  BY <1>2 DEF Read, Gets, Is, Goto, Shown
<1>4. place \in [prev : Links, slot : 0..Slots] /\ place.slot \in Indices
  BY <1>2, <1>3, PlaceType
<1>5. x2' \in [Ships -> [prev : Links \cup {Nowhere}, slot : 0..Slots]]
  BY <1>1, <1>3, <1>4 DEF TypeOK
<1>6. /\ copied' \in [Ships -> Messages] /\ buffer' \in [Ships -> Messages]
      /\ pc' \in [Ships -> {"away", "ready", "prompt", "cancel", "publish", "remove", "refused"}]
  <2>1. text[place.slot] \in Messages
    BY <1>1, <1>4 DEF TypeOK
  <2> QED
    BY <1>1, <1>3, <2>1 DEF TypeOK
<1>7. msgflg' \in [Ships -> Nat]
  BY <1>1, <1>3, CountedDown DEF TypeOK
<1>8. x2'[w] = place /\ \A v \in Ships : v # w => x2'[v] = x2[v] /\ pc'[v] = pc[v]
  BY <1>1, <1>3 DEF TypeOK
<1>9. pc'[w] \in {"ready", "remove"}
  BY <1>1, <1>3 DEF TypeOK
<1>10. \A v \in Ships : /\ Reserving(pc, v) <=> Reserving(pc', v)
                        /\ Reserving(pc, v) => x2'[v].slot = x2[v].slot
  BY <1>3, <1>8, <1>9 DEF Reserving
<1>11. queue' \in Queues /\ ListWellFormed' /\ Claims'
  <2>1. CASE queue' = queue
    BY <1>1, <1>10, <2>1, QueueKept DEF TypeOK
  <2>2. CASE queue' = RemoveShips(queue, place, {w})
    BY <1>2, <1>3, <1>10, <2>2, TakenKept
  <2> QED
    BY <1>3, <2>1, <2>2
<1>12. TypeOK'
  BY <1>1, <1>3, <1>5, <1>6, <1>7, <1>11 DEF TypeOK
<1>13. Composing' /\ Places'
  BY <1>1, <1>3, <1>4, <1>8, <1>9, <1>10 DEF Composing, Places, Reserving
<1> QED
  BY <1>11, <1>12, <1>13 DEF IInv

\* A stale REMV may break the list, but no type and no claim.
LEMMA RemoveKept ==
    ASSUME IInv, ListWellFormed, NEW w \in Ships, Remove(w)
    PROVE  IInv' /\ (ListWellFormed' \/ StaleRemove(w))
<1>1. TypeOK /\ Composing /\ Places /\ Claims
  BY DEF IInv
<1>2. /\ pc[w] = "remove" /\ pc' = [pc EXCEPT ![w] = "ready"]
      /\ queue' = RemoveShips(queue, x2[w], {w})
      /\ buffer' \in {[buffer EXCEPT ![w] = copied[w]], buffer}
      /\ UNCHANGED <<text, msgflg, dbits, x2, copied, hung>>
  BY DEF Remove, Is, Goto, Shown
<1>3. PICK q, place, p, ships : q = queue /\ place = x2[w] /\ p = queue' /\ ships = {w}
  OBVIOUS
<1>4. place.prev \in Links /\ place.slot \in Indices
  BY <1>1, <1>2, <1>3 DEF Places
<1>5. p \in Queues /\ \A i \in Indices : q.to[i] \ ships \subseteq p.to[i]
  <2>1. p = RemoveShips(q, place, ships) /\ q \in Queues
    BY <1>1, <1>2, <1>3 DEF TypeOK
  <2> QED
    BY <1>4, <2>1, RemoveType
<1>6. TypeOK'
  <2>1. buffer' \in [Ships -> Messages]
    BY <1>1, <1>2 DEF TypeOK
  <2> QED
    BY <1>1, <1>2, <1>3, <1>5, <2>1 DEF TypeOK
<1>7. \A v \in Ships : Reserving(pc, v) <=> Reserving(pc', v)
  BY <1>1, <1>2 DEF Reserving, TypeOK
<1>8. Composing' /\ Places'
  BY <1>1, <1>2, <1>7 DEF Composing, Places, Reserving, TypeOK
<1>9. Claims'
  <2>1. SUFFICES ASSUME NEW v \in Ships, Reserving(pc', v)
                 PROVE  x2[v].slot \in Indices /\ v \in p.to[x2[v].slot]
    BY <1>2, <1>3 DEF Claims
  <2>2. Reserving(pc, v) /\ v # w
    BY <1>2, <1>7, <2>1 DEF Reserving
  <2>3. x2[v].slot \in Indices /\ v \in q.to[x2[v].slot] /\ v \notin ships
    BY <1>1, <1>3, <2>2 DEF Claims
  <2> QED
    BY <1>5, <2>3
<1>10. ASSUME ~StaleRemove(w) PROVE ListWellFormed'
  <2>1. Hits(queue, w) # {} /\ Place(queue, w) = x2[w]
    BY <1>10 DEF StaleRemove
  <2> QED
    BY <1>2, <1>7, <2>1, TakenKept
<1> QED
  BY <1>6, <1>8, <1>9, <1>10 DEF IInv

\* SETQM.
LEMMA RecreateKept ==
    ASSUME IInv, Recreate
    PROVE  IInv' /\ ListWellFormed'
<1>1. TypeOK /\ Composing /\ Places /\ Claims
  BY DEF IInv
<1>2. /\ \A w \in Ships : pc[w] = "away"
      /\ queue' = EmptyQueue /\ msgflg' = [w \in Ships |-> 0]
      /\ UNCHANGED <<text, pc, dbits, x2, copied, buffer, hung>>
  BY DEF Recreate
<1>3. Whole(queue', <<>>, pc', x2') /\ queue' \in Queues
  <2>1. PICK c, x : c = pc' /\ x = x2'
    OBVIOUS
  <2>2. \A w \in Ships : ~Reserving(c, w)
    BY <1>2, <2>1 DEF Reserving
  <2> QED
    BY <1>2, <2>1, <2>2, WholeEmpty
<1>4. TypeOK'
  BY <1>1, <1>2, <1>3 DEF TypeOK
<1>5. Composing' /\ Places'
  BY <1>1, <1>2 DEF Composing, Places, Reserving
<1>6. ListWellFormed' /\ Claims'
  <2>1. PICK es : es = <<>>
    OBVIOUS
  <2> QED
    BY <1>3, <2>1, WholeNext
<1> QED
  BY <1>4, <1>5, <1>6 DEF IInv

\* Every step.
LEMMA StepKept ==
    ASSUME IInv, Next
    PROVE  IInv' /\ (ListWellFormed' \/ \E w \in Ships : StaleRemove(w))
<1>1. ListWellFormed /\ Answered
  BY DEF Next
<1>2. ASSUME NEW w \in Ships, Board(w) \/ Leave(w) \/ Refused(w) \/ GiveUp(w)
      PROVE  IInv' /\ ListWellFormed'
  BY <1>1, <1>2, BoardKept
<1>3. ASSUME NEW w \in Ships, TooShort(w) PROVE IInv' /\ ListWellFormed'
  BY <1>1, <1>3, TooShortKept
<1>4. ASSUME NEW w \in Ships, Cancel(w) PROVE IInv' /\ ListWellFormed'
  BY <1>1, <1>4, CancelKept
<1>5. ASSUME NEW w \in Ships, Publish(w) PROVE IInv' /\ ListWellFormed'
  BY <1>1, <1>5, PublishKept
<1>6. ASSUME NEW w \in Ships, Miss(w) PROVE IInv' /\ ListWellFormed'
  BY <1>1, <1>6, MissKept
<1>7. ASSUME NEW w \in Ships, Read(w) PROVE IInv' /\ ListWellFormed'
  BY <1>1, <1>7, ReadKept
<1>8. ASSUME NEW w \in Ships, Remove(w) PROVE IInv' /\ (ListWellFormed' \/ StaleRemove(w))
  BY <1>1, <1>8, RemoveKept
<1>9. ASSUME NEW w \in Senders, NEW ships \in Addressed[w], Tell(w, ships)
      PROVE  IInv' /\ ListWellFormed'
  BY <1>1, <1>9, TellKept
<1>10. ASSUME NEW w \in Senders, NEW m \in Texts[w], Send(w, m) PROVE IInv' /\ ListWellFormed'
  BY <1>1, <1>10, SendKept
<1>11. ASSUME Recreate PROVE IInv' /\ ListWellFormed'
  BY <1>11, RecreateKept
<1> QED
  BY <1>1, <1>2, <1>3, <1>4, <1>5, <1>6, <1>7, <1>8, <1>9, <1>10, <1>11 DEF Answered

\* The invariant.
LEMMA Invariance == Spec => []IInv
<1>1. Init => IInv
  BY Initially
<1>2. IInv /\ [Next]_vars => IInv'
  <2>1. ASSUME IInv, Next PROVE IInv'
    BY <2>1, StepKept
  <2>2. ASSUME IInv, UNCHANGED vars PROVE IInv'
    BY <2>2 DEF IInv, TypeOK, Composing, Places, Claims, Reserving, vars
  <2> QED
    BY <2>1, <2>2
<1> QED
  BY <1>1, <1>2, PTL DEF Spec

\* The link words, MSGFLG, DBITS, X2 and the texts keep their types: a link names a
\* slot or the header, MSGFLG never counts below 0, X2 never leaves the table.
THEOREM TypeCorrect == Spec => []TypeOK
<1>1. IInv => TypeOK
  BY DEF IInv
<1> QED
  BY <1>1, Invariance, PTL

\* RSRV, UPDT, SRCH and REMV keep the list and the table in agreement, whatever sleeps
\* between them: only a REMV whose place is stale breaks the list.
THEOREM ListKept == Spec => OnlyStaleBreaks
<1>1. IInv /\ [Next]_vars =>
        [ListWellFormed => ListWellFormed' \/ \E w \in Ships : StaleRemove(w)]_vars
  BY StepKept
<1> QED
  BY <1>1, Invariance, PTL DEF Spec, OnlyStaleBreaks

-----------------------------------------------------------------------------
\* How many messages wait for a ship.
LEMMA HitsCount ==
    ASSUME NEW q, NEW es, Sound(q, es), NEW w
    PROVE  /\ IsFiniteSet(ReadBy(q, In(es), w))
           /\ Cardinality(Hits(q, w)) = Cardinality(ReadBy(q, In(es), w))
<1>1. q \in Queues /\ Lists(q, es) /\ Len(es) \in Nat
  BY ListFacts DEF Sound
<1>2. PICK hits : hits = {n \in 1..Len(es) : w \in q.to[es[n]]}
  OBVIOUS
<1>3. Hits(q, w) = hits
  BY <1>1, <1>2, HitsAre
<1>4. PICK slots : slots = ReadBy(q, In(es), w)
  OBVIOUS
<1>5. IsFiniteSet(hits)
  <2>1. PICK all : all = 1..Len(es)
    OBVIOUS
  <2>2. hits \subseteq all
    BY <1>2, <2>1
  <2>3. IsFiniteSet(all)
    BY <1>1, <2>1, FS_Interval
  <2> QED
    BY <2>2, <2>3, FS_Subset
<1>6. PICK f : f = [n \in hits |-> es[n]]
  OBVIOUS
<1>7. f \in Bijection(hits, slots)
  <2>1. f \in [hits -> slots]
    BY <1>2, <1>4, <1>6 DEF ReadBy, In
  <2>2. \A a, b \in hits : f[a] = f[b] => a = b
    BY <1>1, <1>2, <1>6, ListsInjective
  <2>3. \A i \in slots : \E a \in hits : f[a] = i
    BY <1>2, <1>4, <1>6 DEF ReadBy, In
  <2> QED
    BY <2>1, <2>2, <2>3, Fun_IsBij
<1>8. IsFiniteSet(slots) /\ Cardinality(slots) = Cardinality(hits)
  BY <1>5, <1>7, FS_Bijection DEF ExistsBijection
<1> QED
  BY <1>3, <1>4, <1>8

\* Fewer entries to read, fewer hits,
LEMMA FewerHits ==
    ASSUME NEW q, NEW es, Sound(q, es), NEW p, NEW fs, Sound(p, fs), NEW w,
           ReadBy(p, In(fs), w) \subseteq ReadBy(q, In(es), w)
    PROVE  /\ Cardinality(Hits(q, w)) \in Nat /\ Cardinality(Hits(p, w)) \in Nat
           /\ Cardinality(Hits(p, w)) <= Cardinality(Hits(q, w))
           /\ \A i \in ReadBy(q, In(es), w) \ ReadBy(p, In(fs), w) :
                Cardinality(Hits(p, w)) + 1 <= Cardinality(Hits(q, w))
<1>1. PICK S, T : S = ReadBy(q, In(es), w) /\ T = ReadBy(p, In(fs), w)
  OBVIOUS
<1>2. /\ IsFiniteSet(S) /\ Cardinality(Hits(q, w)) = Cardinality(S)
      /\ IsFiniteSet(T) /\ Cardinality(Hits(p, w)) = Cardinality(T)
  BY <1>1, HitsCount
<1>3. Cardinality(S) \in Nat /\ Cardinality(T) \in Nat /\ Cardinality(T) <= Cardinality(S)
  BY <1>1, <1>2, FS_CardinalityType, FS_Subset
<1>4. ASSUME NEW i \in S, i \notin T PROVE Cardinality(T) + 1 <= Cardinality(S)
  <2>1. T # S /\ T \subseteq S
    BY <1>1, <1>4
  <2>2. Cardinality(T) < Cardinality(S)
    BY <1>2, <1>3, <2>1, FS_Subset
  <2> QED
    BY <1>3, <2>2
<1> QED
  BY <1>1, <1>2, <1>3, <1>4

\* ... and one more, at most one hit more.
LEMMA OneHitMore ==
    ASSUME NEW q, NEW es, Sound(q, es), NEW p, NEW fs, Sound(p, fs), NEW w, NEW i,
           ReadBy(p, In(fs), w) \subseteq ReadBy(q, In(es), w) \cup {i}
    PROVE  Cardinality(Hits(p, w)) <= Cardinality(Hits(q, w)) + 1
<1>1. PICK S, T : S = ReadBy(q, In(es), w) /\ T = ReadBy(p, In(fs), w)
  OBVIOUS
<1>2. /\ IsFiniteSet(S) /\ Cardinality(Hits(q, w)) = Cardinality(S)
      /\ IsFiniteSet(T) /\ Cardinality(Hits(p, w)) = Cardinality(T)
  BY <1>1, HitsCount
<1>3. PICK U : U = S \cup {i}
  OBVIOUS
<1>4. IsFiniteSet(U) /\ Cardinality(U) <= Cardinality(S) + 1 /\ Cardinality(U) \in Nat
  <2>1. IsFiniteSet(U) /\ (Cardinality(U) = Cardinality(S) \/ Cardinality(U) = Cardinality(S) + 1)
    BY <1>2, <1>3, FS_AddElement
  <2> QED
    BY <1>2, <2>1, FS_CardinalityType
<1>5. Cardinality(T) <= Cardinality(U) /\ Cardinality(T) \in Nat
  <2>1. T \subseteq U
    BY <1>1, <1>3
  <2> QED
    BY <1>2, <1>4, <2>1, FS_Subset, FS_CardinalityType
<1>6. Cardinality(S) \in Nat
  BY <1>2, FS_CardinalityType
<1> QED
  BY <1>2, <1>4, <1>5, <1>6

\* What is left of a list holds no message that was not in it.
LEMMA LeftReads ==
    ASSUME NEW q, NEW es, NEW p, NEW fs, Sound(q, es), LeftOf(q, es, p, fs), NEW w
    PROVE  ReadBy(p, In(fs), w) \subseteq ReadBy(q, In(es), w)
<1>1. In(fs) \subseteq In(es) /\ In(es) \subseteq Indices
  BY InFinite DEF LeftOf
<1> QED
  BY <1>1 DEF LeftOf, ReadBy

\* A reservation is nobody's message.
LEMMA ReservedReads ==
    ASSUME NEW q \in Queues, NEW es, NEW i \in Indices, i \notin In(es), In(es) \subseteq Indices, NEW w
    PROVE  ReadBy(Reserved(q, i), In(es), w) = ReadBy(q, In(es), w)
BY DEF ReadBy, Reserved, Queues

\* UPDT brings its recipients one message.
LEMMA LinkedReads ==
    ASSUME NEW q \in Queues, NEW es \in Seq(Indices), NEW i \in Indices, i \notin In(es), NEW ships, NEW w
    PROVE  ReadBy(Linked(q, i, ships), In(Append(es, i)), w) =
              ReadBy(q, In(es), w) \cup (IF w \in ships THEN {i} ELSE {})
<1>1. PICK fs, p : fs = Append(es, i) /\ p = Linked(q, i, ships)
  OBVIOUS
<1>2. /\ Len(es) \in Nat /\ Len(fs) = Len(es) + 1 /\ fs[Len(es) + 1] = i
      /\ \A k \in 1..Len(es) : fs[k] = es[k] /\ es[k] \in Indices
  BY <1>1
<1>3. In(fs) = In(es) \cup {i}
  <2>1. \A k \in 1..Len(fs) : k \in 1..Len(es) \/ k = Len(es) + 1
    BY <1>2
  <2>2. Len(es) + 1 \in 1..Len(fs) /\ \A k \in 1..Len(es) : k \in 1..Len(fs)
    BY <1>2
  <2> QED
    BY <1>2, <2>1, <2>2 DEF In
<1>4. \A j \in Indices : p.to[j] = IF j = i THEN ships ELSE q.to[j]
  BY <1>1 DEF Linked, Queues
<1>5. In(es) \subseteq Indices
  BY <1>2 DEF In
<1>6. ReadBy(p, In(fs), w) = ReadBy(q, In(es), w) \cup (IF w \in ships THEN {i} ELSE {})
  BY <1>3, <1>4, <1>5 DEF ReadBy
<1> QED
  BY <1>1, <1>6

\* What MSGFLG counts for a ship, and GETMSG has counted down for it already.
Due(f, c, w) == f[w] + (IF c[w] \in {"remove", "refused"} THEN 1 ELSE 0)

\* A message that comes is counted, and whoever counts down takes one.
LEMMA CountKept ==
    ASSUME TypeOK, TypeOK', NothingUncounted,
           NEW es, Sound(queue, es), NEW fs, Sound(queue', fs),
           \A w \in Ships :
              \/ /\ ReadBy(queue', In(fs), w) \subseteq ReadBy(queue, In(es), w)
                 /\ Due(msgflg, pc, w) <= Due(msgflg', pc', w)
              \/ \E i : /\ ReadBy(queue', In(fs), w) \subseteq ReadBy(queue, In(es), w) \cup {i}
                        /\ Due(msgflg, pc, w) + 1 <= Due(msgflg', pc', w)
              \/ \E i \in ReadBy(queue, In(es), w) :
                    /\ ReadBy(queue', In(fs), w) \subseteq ReadBy(queue, In(es), w) \ {i}
                    /\ Due(msgflg, pc, w) <= Due(msgflg', pc', w) + 1
    PROVE  NothingUncounted'
<1>1. PICK q, p, f, g, c, d : q = queue /\ p = queue' /\ f = msgflg /\ g = msgflg' /\ c = pc /\ d = pc'
  OBVIOUS
<1>2. SUFFICES ASSUME NEW w \in Ships
               PROVE  Cardinality(Hits(p, w)) <= Due(g, d, w)
  BY <1>1 DEF NothingUncounted, Due
<1>3. Sound(q, es) /\ Sound(p, fs)
  BY <1>1
<1>4. Due(f, c, w) \in Nat /\ Due(g, d, w) \in Nat
  BY <1>1 DEF TypeOK, Due
<1>5. Cardinality(Hits(q, w)) <= Due(f, c, w)
  BY <1>1 DEF NothingUncounted, Due
<1>6. Cardinality(Hits(q, w)) \in Nat /\ Cardinality(Hits(p, w)) \in Nat
  BY <1>3, HitsCount, FS_CardinalityType
<1>7. CASE /\ ReadBy(p, In(fs), w) \subseteq ReadBy(q, In(es), w)
           /\ Due(f, c, w) <= Due(g, d, w)
  <2>1. Cardinality(Hits(p, w)) <= Cardinality(Hits(q, w))
    BY <1>3, <1>7, FewerHits
  <2> QED
    BY <1>4, <1>5, <1>6, <1>7, <2>1
<1>8. ASSUME NEW i, ReadBy(p, In(fs), w) \subseteq ReadBy(q, In(es), w) \cup {i},
             Due(f, c, w) + 1 <= Due(g, d, w)
      PROVE  Cardinality(Hits(p, w)) <= Due(g, d, w)
  <2>1. Cardinality(Hits(p, w)) <= Cardinality(Hits(q, w)) + 1
    BY <1>3, <1>8, OneHitMore
  <2> QED
    BY <1>4, <1>5, <1>6, <1>8, <2>1
<1>9. ASSUME NEW i \in ReadBy(q, In(es), w), ReadBy(p, In(fs), w) \subseteq ReadBy(q, In(es), w) \ {i},
             Due(f, c, w) <= Due(g, d, w) + 1
      PROVE  Cardinality(Hits(p, w)) <= Due(g, d, w)
  <2>1. Cardinality(Hits(p, w)) + 1 <= Cardinality(Hits(q, w))
    <3>1. /\ ReadBy(p, In(fs), w) \subseteq ReadBy(q, In(es), w)
          /\ i \in ReadBy(q, In(es), w) \ ReadBy(p, In(fs), w)
      BY <1>9
    <3> QED
      BY <1>3, <3>1, FewerHits
  <2> QED
    BY <1>4, <1>5, <1>6, <1>9, <2>1
<1> QED
  BY <1>1, <1>7, <1>8, <1>9

\* The list of a galaxy as it is.
LEMMA SoundNow ==
    ASSUME IInv, ListWellFormed
    PROVE  Sound(queue, Entries(queue)) /\ queue \in Queues
BY WholeNow DEF Whole, Sound

\* A step that leaves the queue alone.
LEMMA QueueCounted ==
    ASSUME IInv, IInv', ListWellFormed, NothingUncounted, queue' = queue,
           \A w \in Ships : Due(msgflg, pc, w) <= Due(msgflg', pc', w)
    PROVE  NothingUncounted'
<1>1. PICK es : es = Entries(queue)
  OBVIOUS
<1>2. Sound(queue, es)
  BY <1>1, SoundNow
<1> QED
  BY <1>2, CountKept DEF IInv

\* RSRV: making room and reserving the slot brings nobody a message.
LEMMA RoomReserved ==
    ASSUME IInv, ListWellFormed, NEW w \in Ships, pc[w] = "prompt",
           NEW q, q = MakeRoom(queue), NEW i, i = RoomIn(q)
    PROVE  \E fs, p, d, y :
              /\ p = Reserved(q, i) /\ Whole(p, fs, d, y)
              /\ d = [pc EXCEPT ![w] = "publish"] /\ y[w].slot = i
              /\ \A v : ReadBy(p, In(fs), v) \subseteq ReadBy(queue, In(Entries(queue)), v)
<1>1. PICK fs : /\ LeftOf(queue, Entries(queue), q, fs) /\ Whole(q, fs, pc, x2)
                /\ q \in Queues /\ i \in Indices /\ IsFree(q, i)
  BY RoomIs
<1>2. PICK o, es, c, x, p, d, y :
        /\ o = queue /\ es = Entries(queue) /\ c = pc /\ x = x2 /\ p = Reserved(q, i)
        /\ d = [pc EXCEPT ![w] = "publish"]
        /\ y = [x2 EXCEPT ![w] = [prev |-> Nowhere, slot |-> i]]
  OBVIOUS
<1>3. /\ ~Reserving(c, w) /\ Reserving(d, w) /\ y[w].slot = i
      /\ \A v \in Ships \ {w} : d[v] = c[v] /\ y[v] = x[v]
  BY <1>2 DEF Reserving, IInv, TypeOK
<1>4. Whole(q, fs, c, x)
  BY <1>1, <1>2
<1>5. Whole(p, fs, d, y)
  <2>1. Whole(Reserved(q, i), fs, d, y)
    BY <1>1, <1>3, <1>4, WholeReserved
  <2> QED
    BY <1>2, <2>1
<1>6. i \notin In(fs) /\ In(fs) \subseteq Indices
  BY <1>1, <1>4, FreeOutside, InFinite DEF Whole
<1>7. ASSUME NEW v PROVE ReadBy(p, In(fs), v) \subseteq ReadBy(o, In(es), v)
  <2>1. ReadBy(p, In(fs), v) = ReadBy(q, In(fs), v)
    BY <1>1, <1>2, <1>6, ReservedReads
  <2>2. Sound(o, es) /\ LeftOf(o, es, q, fs)
    BY <1>1, <1>2, SoundNow
  <2> QED
    BY <2>1, <2>2, LeftReads
<1> QED
  BY <1>2, <1>3, <1>5, <1>7

\* The steps, seen from MSGFLG: RSRV without a message,
LEMMA TooShortCounted ==
    ASSUME IInv, IInv', ListWellFormed, NothingUncounted, NEW w \in Ships, TooShort(w)
    PROVE  NothingUncounted'
<1>1. /\ pc[w] = "prompt" /\ pc' = [pc EXCEPT ![w] = "cancel"] /\ msgflg' = msgflg
      /\ queue' = Reserved(MakeRoom(queue), RoomIn(MakeRoom(queue)))
  BY DEF TooShort, Is, Goto
<1>2. PICK q, i : q = MakeRoom(queue) /\ i = RoomIn(q)
  OBVIOUS
<1>3. PICK fs, p, d, y :
              /\ p = Reserved(q, i) /\ Whole(p, fs, d, y)
              /\ \A v : ReadBy(p, In(fs), v) \subseteq ReadBy(queue, In(Entries(queue)), v)
  BY <1>1, <1>2, RoomReserved
<1>4. PICK es : es = Entries(queue)
  OBVIOUS
<1>5. Sound(queue, es) /\ Sound(queue', fs)
  BY <1>1, <1>2, <1>3, <1>4, SoundNow DEF Whole
<1>6. \A v \in Ships : ReadBy(queue', In(fs), v) \subseteq ReadBy(queue, In(es), v)
  BY <1>1, <1>2, <1>3, <1>4
<1>7. \A v \in Ships : Due(msgflg, pc, v) <= Due(msgflg', pc', v)
  BY <1>1 DEF Due, IInv, TypeOK
<1> QED
  BY <1>5, <1>6, <1>7, CountKept DEF IInv

\* ... REMV of the reservation,
LEMMA CancelCounted ==
    ASSUME IInv, IInv', ListWellFormed, NothingUncounted, NEW w \in Ships, Cancel(w)
    PROVE  NothingUncounted'
<1>1. /\ pc[w] = "cancel" /\ pc' = [pc EXCEPT ![w] = "ready"] /\ msgflg' = msgflg
      /\ queue' = RemoveAll(queue, x2[w])
  BY DEF Cancel, Is, Goto
<1>2. PICK q, es, c, x, d, place :
        q = queue /\ es = Entries(queue) /\ c = pc /\ x = x2 /\ d = pc' /\ place = x2[w]
  OBVIOUS
<1>3. Whole(q, es, c, x) /\ Reserving(c, w)
  BY <1>1, <1>2, WholeNow DEF Reserving
<1>4. ~Reserving(d, w) /\ \A v \in Ships \ {w} : d[v] = c[v]
  BY <1>1, <1>2 DEF Reserving, IInv, TypeOK
<1>5. place.slot = x[w].slot /\ place.prev = Nowhere
  BY <1>1, <1>2 DEF IInv, Places, Reserving
<1>6. PICK p : p = RemoveAll(q, place)
  OBVIOUS
<1>7. Whole(p, es, d, x)
  <2>1. Whole(RemoveAll(q, place), es, d, x)
    BY <1>3, <1>4, <1>5, WholeCancelled
  <2> QED
    BY <1>6, <2>1
<1>8. In(es) \subseteq Indices /\ place.slot \in Indices
  BY <1>3, <1>5, InFinite DEF Whole, Owned
<1>9. \A j \in Indices : p.to[j] \subseteq q.to[j]
  <2>1. p = Unlink(q, place, 0) /\ q \in Queues
    BY <1>3, <1>6, <1>8 DEF RemoveAll, Whole, Sound
  <2> QED
    BY <2>1 DEF Unlink, Queues
<1>10. \A v \in Ships : ReadBy(p, In(es), v) \subseteq ReadBy(q, In(es), v)
  BY <1>8, <1>9 DEF ReadBy
<1>11. \A v \in Ships : Due(msgflg, pc, v) <= Due(msgflg', pc', v)
  BY <1>1 DEF Due, IInv, TypeOK
<1>12. queue' = p /\ queue = q /\ Sound(queue, es) /\ Sound(queue', es)
  BY <1>1, <1>2, <1>3, <1>6, <1>7 DEF Whole
<1> QED
  BY <1>10, <1>11, <1>12, CountKept DEF IInv

\* UPDT and the counting that follows it: each recipient has one message more.
LEMMA PublishedCounted ==
    ASSUME IInv, IInv', NothingUncounted, NEW w \in Ships, pc[w] \in {"prompt", "publish"},
           NEW es, Sound(queue, es), NEW q, NEW i, NEW fs, NEW c, NEW y,
           Whole(q, fs, c, y), Reserving(c, w), y[w].slot = i,
           \A v \in Ships \ {w} : c[v] = pc[v],
           \A v : ReadBy(q, In(fs), v) \subseteq ReadBy(queue, In(es), v),
           Published(w, q, i)
    PROVE  NothingUncounted'
<1>1. PICK ships, d, p, gs : ships = dbits[w] /\ d = pc' /\ p = Linked(q, i, ships) /\ gs = Append(fs, i)
  OBVIOUS
<1>2. ships \in SUBSET Ships /\ ships # {}
  BY <1>1 DEF IInv, TypeOK, Composing
<1>3. /\ queue' = p /\ msgflg' = Counted(ships) /\ pc' = [pc EXCEPT ![w] = "ready"]
  BY <1>1 DEF Published, Goto
<1>4. ~Reserving(d, w) /\ \A v \in Ships \ {w} : d[v] = c[v]
  BY <1>1, <1>3 DEF Reserving, IInv, TypeOK
<1>5. Whole(Linked(q, i, ships), Append(fs, i), d, y)
  BY <1>2, <1>4, WholeLinked
<1>6. Sound(queue', gs)
  BY <1>1, <1>3, <1>5 DEF Whole
<1>7. q \in Queues /\ fs \in Seq(Indices) /\ i \in Indices /\ i \notin In(fs)
  BY DEF Whole, Owned, Sound, Lists, Follows
<1>8. ASSUME NEW v PROVE ReadBy(queue', In(gs), v) = ReadBy(q, In(fs), v) \cup (IF v \in ships THEN {i} ELSE {})
  <2>1. ReadBy(Linked(q, i, ships), In(Append(fs, i)), v) =
          ReadBy(q, In(fs), v) \cup (IF v \in ships THEN {i} ELSE {})
    BY <1>7, LinkedReads
  <2> QED
    BY <1>1, <1>3, <2>1
<1>9. ASSUME NEW v \in Ships
      PROVE  /\ v \in ships => Due(msgflg, pc, v) + 1 <= Due(msgflg', pc', v)
             /\ v \notin ships => Due(msgflg, pc, v) <= Due(msgflg', pc', v)
  <2>1. /\ msgflg[v] \in Nat /\ msgflg'[v] = IF v \in ships THEN msgflg[v] + 1 ELSE msgflg[v]
        /\ pc[v] \in {"remove", "refused"} <=> pc'[v] \in {"remove", "refused"}
    BY <1>3 DEF Counted, IInv, TypeOK
  <2> QED
    BY <2>1 DEF Due
<1>10. ASSUME NEW v \in Ships
       PROVE  \/ /\ ReadBy(queue', In(gs), v) \subseteq ReadBy(queue, In(es), v)
                 /\ Due(msgflg, pc, v) <= Due(msgflg', pc', v)
              \/ \E j : /\ ReadBy(queue', In(gs), v) \subseteq ReadBy(queue, In(es), v) \cup {j}
                        /\ Due(msgflg, pc, v) + 1 <= Due(msgflg', pc', v)
  <2>1. CASE v \in ships
    BY <1>8, <1>9, <2>1
  <2>2. CASE v \notin ships
    BY <1>8, <1>9, <2>2
  <2> QED
    BY <2>1, <2>2
<1> QED
  BY <1>6, <1>10, CountKept DEF IInv

\* ... UPDT after a sleep,
LEMMA PublishCounted ==
    ASSUME IInv, IInv', ListWellFormed, NothingUncounted, NEW w \in Ships, Publish(w)
    PROVE  NothingUncounted'
<1>1. PICK q, es, c, x, i :
        q = queue /\ es = Entries(queue) /\ c = pc /\ x = x2 /\ i = x2[w].slot
  OBVIOUS
<1>2. pc[w] = "publish" /\ Published(w, q, i)
  BY <1>1 DEF Publish, Is
<1>3. Whole(q, es, c, x) /\ Reserving(c, w) /\ Sound(queue, es)
  BY <1>1, <1>2, WholeNow DEF Reserving, Whole
<1>4. /\ x[w].slot = i /\ \A v \in Ships \ {w} : c[v] = pc[v]
      /\ \A v : ReadBy(q, In(es), v) \subseteq ReadBy(queue, In(es), v)
  BY <1>1
<1> QED
  BY <1>2, <1>3, <1>4, PublishedCounted

\* ... RSRV and UPDT,
LEMMA SendCounted ==
    ASSUME IInv, IInv', ListWellFormed, NothingUncounted,
           NEW w \in Senders, NEW m \in Texts[w], Send(w, m)
    PROVE  NothingUncounted'
<1>1. PICK q, i, es : q = MakeRoom(queue) /\ i = RoomIn(q) /\ es = Entries(queue)
  OBVIOUS
<1>2. /\ pc[w] = "prompt"
      /\ \/ Published(w, Reserved(q, i), i)
         \/ /\ queue' = Reserved(q, i) /\ pc' = [pc EXCEPT ![w] = "publish"]
            /\ UNCHANGED <<msgflg, dbits>>
  BY <1>1 DEF Send, Is, Goto
<1>3. w \in Ships
  BY SlotsAssumption DEF SlotsAssumption
<1>4. PICK fs, p, d, y :
              /\ p = Reserved(q, i) /\ Whole(p, fs, d, y)
              /\ d = [pc EXCEPT ![w] = "publish"] /\ y[w].slot = i
              /\ \A v : ReadBy(p, In(fs), v) \subseteq ReadBy(queue, In(es), v)
  BY <1>1, <1>2, <1>3, RoomReserved
<1>5. Sound(queue, es)
  BY <1>1, SoundNow
<1>6. CASE Published(w, Reserved(q, i), i)
  <2>1. Published(w, p, i) /\ Reserving(d, w) /\ \A v \in Ships \ {w} : d[v] = pc[v]
    BY <1>3, <1>4, <1>6 DEF Reserving, IInv, TypeOK
  <2> QED
    BY <1>2, <1>3, <1>4, <1>5, <2>1, PublishedCounted
<1>7. CASE /\ queue' = Reserved(q, i) /\ pc' = [pc EXCEPT ![w] = "publish"]
           /\ UNCHANGED <<msgflg, dbits>>
  <2>1. Sound(queue', fs) /\ \A v \in Ships : ReadBy(queue', In(fs), v) \subseteq ReadBy(queue, In(es), v)
    BY <1>4, <1>7 DEF Whole
  <2>2. \A v \in Ships : Due(msgflg, pc, v) <= Due(msgflg', pc', v)
    BY <1>2, <1>7 DEF Due, IInv, TypeOK
  <2> QED
    BY <1>5, <2>1, <2>2, CountKept DEF IInv
<1> QED
  BY <1>2, <1>6, <1>7

\* SRCH finds nothing: nothing was there to be counted.
LEMMA MissCounted ==
    ASSUME IInv, IInv', ListWellFormed, NothingUncounted, NEW w \in Ships, Miss(w)
    PROVE  NothingUncounted'
<1>1. /\ queue' = queue /\ pc' = pc /\ pc[w] = "ready" /\ Hits(queue, w) = {}
      /\ msgflg' = [msgflg EXCEPT ![w] = 0]
  BY DEF Miss, Gets, Is
<1>2. PICK q : q = queue
  OBVIOUS
<1>3. Cardinality(Hits(q, w)) = 0
  BY <1>1, <1>2, FS_EmptySet
<1>4. \A v \in Ships : msgflg'[v] = IF v = w THEN 0 ELSE msgflg[v]
  BY <1>1 DEF IInv, TypeOK
<1>5. ASSUME NEW v \in Ships
      PROVE  Cardinality(Hits(q, v)) <= msgflg'[v] + (IF pc[v] \in {"remove", "refused"} THEN 1 ELSE 0)
  BY <1>1, <1>2, <1>3, <1>4 DEF NothingUncounted
<1> QED
  BY <1>1, <1>2, <1>5 DEF NothingUncounted

\* REMV of what a search finds takes one message from the ship, and none from the others.
LEMMA TakenCounted ==
    ASSUME IInv, IInv', ListWellFormed, NothingUncounted, NEW w \in Ships, Hits(queue, w) # {},
           queue' = RemoveShips(queue, Place(queue, w), {w}),
           Due(msgflg, pc, w) <= Due(msgflg', pc', w) + 1,
           \A v \in Ships \ {w} : Due(msgflg, pc, v) <= Due(msgflg', pc', v)
    PROVE  NothingUncounted'
<1>1. PICK q, es, p, ships : q = queue /\ es = Entries(queue) /\ p = queue' /\ ships = {w}
  OBVIOUS
<1>2. Sound(q, es) /\ Lists(q, es) /\ q \in Queues /\ In(es) \subseteq Indices
  BY <1>1, SoundNow, InFinite DEF Sound
<1>3. PICK n \in 1..Len(es) : w \in q.to[es[n]] /\ Place(q, w) = At(es, n)
  <2>1. Hits(q, w) # {}
    BY <1>1
  <2> QED
    BY <1>2, <2>1, PlaceAt
<1>4. p = RemoveShips(q, At(es, n), ships)
  BY <1>1, <1>3
<1>5. RemovedAt(q, es, n, ships, p)
  BY <1>2, <1>4, RemoveAt
<1>6. PICK fs : LeftOf(q, es, p, fs)
  BY <1>5 DEF RemovedAt
<1>7. Sound(p, fs) /\ \A v : ReadBy(p, In(fs), v) \subseteq ReadBy(q, In(es), v)
  BY <1>2, <1>6, LeftReads DEF LeftOf
<1>8. es[n] \in ReadBy(q, In(es), w) /\ es[n] \notin ReadBy(p, In(fs), w)
  <2>1. es[n] \in In(es) /\ es[n] \in Indices
    BY <1>2 DEF In
  <2>2. w \notin p.to[es[n]]
    BY <1>1, <1>5, <2>1 DEF RemovedAt
  <2> QED
    BY <1>3, <2>1, <2>2 DEF ReadBy
<1>9. /\ ReadBy(queue', In(fs), w) \subseteq ReadBy(queue, In(es), w) \ {es[n]}
      /\ es[n] \in ReadBy(queue, In(es), w)
  BY <1>1, <1>7, <1>8
<1>10. \A v \in Ships \ {w} : ReadBy(queue', In(fs), v) \subseteq ReadBy(queue, In(es), v)
  BY <1>1, <1>7
<1>11. Sound(queue, es) /\ Sound(queue', fs)
  BY <1>1, <1>2, <1>7
<1> QED
  BY <1>9, <1>10, <1>11, CountKept DEF IInv

\* GETMSG that finds a message.
LEMMA ReadCounted ==
    ASSUME IInv, IInv', ListWellFormed, NothingUncounted, NEW w \in Ships, Read(w)
    PROVE  NothingUncounted'
<1>1. /\ pc[w] = "ready" /\ Hits(queue, w) # {}
      /\ msgflg[w] # 0 /\ msgflg' = [msgflg EXCEPT ![w] = @ - 1]
      /\ \/ queue' = RemoveShips(queue, Place(queue, w), {w}) /\ pc' = pc
         \/ pc' = [pc EXCEPT ![w] = "remove"] /\ queue' = queue
  BY DEF Read, Gets, Is, Goto
<1>2. /\ msgflg[w] \in Nat /\ msgflg'[w] = msgflg[w] - 1
      /\ \A v \in Ships \ {w} : msgflg[v] \in Nat /\ msgflg'[v] = msgflg[v]
  BY <1>1 DEF IInv, TypeOK
<1>3. CASE queue' = RemoveShips(queue, Place(queue, w), {w}) /\ pc' = pc
  <2>1. Due(msgflg, pc, w) <= Due(msgflg', pc', w) + 1
    BY <1>2, <1>3 DEF Due
  <2>2. \A v \in Ships \ {w} : Due(msgflg, pc, v) <= Due(msgflg', pc', v)
    BY <1>2, <1>3 DEF Due
  <2> QED
    BY <1>1, <1>3, <2>1, <2>2, TakenCounted
<1>4. CASE pc' = [pc EXCEPT ![w] = "remove"] /\ queue' = queue
  <2>1. pc'[w] = "remove" /\ \A v \in Ships \ {w} : pc'[v] = pc[v]
    BY <1>4 DEF IInv, TypeOK
  <2>2. \A v \in Ships : Due(msgflg, pc, v) <= Due(msgflg', pc', v)
    BY <1>1, <1>2, <2>1 DEF Due
  <2> QED
    BY <1>4, <2>2, QueueCounted
<1> QED
  BY <1>1, <1>3, <1>4

\* REMV after a sleep.
LEMMA RemoveCounted ==
    ASSUME IInv, IInv', ListWellFormed, NothingUncounted, NEW w \in Ships, Remove(w), ~StaleRemove(w)
    PROVE  NothingUncounted'
<1>1. /\ pc[w] = "remove" /\ pc' = [pc EXCEPT ![w] = "ready"] /\ msgflg' = msgflg
      /\ queue' = RemoveShips(queue, x2[w], {w})
  BY DEF Remove, Is, Goto
<1>2. Hits(queue, w) # {} /\ Place(queue, w) = x2[w]
  BY DEF StaleRemove
<1>3. /\ \A v \in Ships : msgflg[v] \in Nat
      /\ pc'[w] = "ready" /\ \A v \in Ships \ {w} : pc'[v] = pc[v]
  BY <1>1 DEF IInv, TypeOK
<1>4. Due(msgflg, pc, w) <= Due(msgflg', pc', w) + 1
  BY <1>1, <1>3 DEF Due
<1>5. \A v \in Ships \ {w} : Due(msgflg, pc, v) <= Due(msgflg', pc', v)
  BY <1>1, <1>3 DEF Due
<1> QED
  BY <1>1, <1>2, <1>4, <1>5, TakenCounted

\* SETQM clears MSGFLG.
LEMMA RecreateCounted ==
    ASSUME IInv', Recreate
    PROVE  NothingUncounted'
<1>1. PICK q, es, x, c : q = queue' /\ es = <<>> /\ x = x2' /\ c = pc'
  OBVIOUS
<1>2. q = EmptyQueue /\ \A w \in Ships : ~Reserving(c, w)
  BY <1>1 DEF Recreate, Reserving
<1>3. Sound(q, es) /\ In(es) = {}
  <2>1. Whole(EmptyQueue, <<>>, c, x)
    BY <1>2, WholeEmpty
  <2>2. Sound(q, es)
    BY <1>1, <1>2, <2>1 DEF Whole
  <2>3. Len(es) = 0
    BY <1>1
  <2> QED
    BY <2>2, <2>3 DEF In
<1>4. ASSUME NEW w PROVE Cardinality(Hits(q, w)) = 0
  <2>1. ReadBy(q, In(es), w) = {}
    BY <1>3 DEF ReadBy
  <2> QED
    BY <1>3, <2>1, HitsCount, FS_EmptySet
<1> QED
  BY <1>1, <1>4 DEF NothingUncounted, IInv, TypeOK

\* Every step but a GETMSG that was refused, or a stale REMV, keeps the count.
LEMMA StepCounted ==
    ASSUME IInv, Next
    PROVE  NothingUncounted' \/ \E w \in Ships : GiveUp(w) \/ StaleRemove(w)
<1>1. ListWellFormed /\ NothingUncounted /\ Answered
  BY DEF Next
<1>2. IInv'
  BY StepKept
<1>3. ASSUME NEW w \in Ships, Board(w) \/ Leave(w) \/ Refused(w) PROVE NothingUncounted'
  <2>1. queue' = queue /\ \A v \in Ships : Due(msgflg, pc, v) <= Due(msgflg', pc', v)
    BY <1>3 DEF Board, Leave, Refused, Gets, Is, Goto, Due, IInv, TypeOK
  <2> QED
    BY <1>1, <1>2, <2>1, QueueCounted
<1>4. ASSUME NEW w \in Senders, NEW ships \in Addressed[w], Tell(w, ships) PROVE NothingUncounted'
  <2>1. queue' = queue /\ \A v \in Ships : Due(msgflg, pc, v) <= Due(msgflg', pc', v)
    BY <1>4 DEF Tell, Is, Goto, Due, IInv, TypeOK
  <2> QED
    BY <1>1, <1>2, <2>1, QueueCounted
<1>5. ASSUME NEW w \in Ships, TooShort(w) PROVE NothingUncounted'
  BY <1>1, <1>2, <1>5, TooShortCounted
<1>6. ASSUME NEW w \in Ships, Cancel(w) PROVE NothingUncounted'
  BY <1>1, <1>2, <1>6, CancelCounted
<1>7. ASSUME NEW w \in Ships, Publish(w) PROVE NothingUncounted'
  BY <1>1, <1>2, <1>7, PublishCounted
<1>8. ASSUME NEW w \in Ships, Miss(w) PROVE NothingUncounted'
  BY <1>1, <1>2, <1>8, MissCounted
<1>9. ASSUME NEW w \in Ships, Read(w) PROVE NothingUncounted'
  BY <1>1, <1>2, <1>9, ReadCounted
<1>10. ASSUME NEW w \in Ships, Remove(w), ~StaleRemove(w) PROVE NothingUncounted'
  BY <1>1, <1>2, <1>10, RemoveCounted
<1>11. ASSUME NEW w \in Senders, NEW m \in Texts[w], Send(w, m) PROVE NothingUncounted'
  BY <1>1, <1>2, <1>11, SendCounted
<1>12. ASSUME Recreate PROVE NothingUncounted'
  BY <1>2, <1>12, RecreateCounted
<1> QED
  BY <1>1, <1>3, <1>4, <1>5, <1>6, <1>7, <1>8, <1>9, <1>10, <1>11, <1>12 DEF Answered

\* MSGFLG never falls short of the messages that wait for a ship, however RSRV evicts and
\* SRCH misses, unless GETMSG takes a refused SRCH for an empty mailbox, or a REMV is stale.
THEOREM MessagesCounted == Spec => OnlyRefusedUncounts
<1>1. IInv /\ [Next]_vars =>
        [NothingUncounted =>
            NothingUncounted' \/ \E w \in Ships : GiveUp(w) \/ StaleRemove(w)]_vars
  BY StepCounted
<1> QED
  BY <1>1, Invariance, PTL DEF Spec, OnlyRefusedUncounts

-----------------------------------------------------------------------------
\* The increasing enumeration of a finite set of numbers.
Nth(H, k) == CHOOSE n \in H : Cardinality({l \in H : l < n}) = k - 1

Enumerates(H, n, g) ==
    /\ n \in Nat /\ g \in [1..n -> H]
    /\ \A k, l \in 1..n : k < l => g[k] < g[l]
    /\ \A h \in H : \E k \in 1..n : g[k] = h

\* The rank of an element: how many are below it.
LEMMA Ranks ==
    ASSUME NEW H \in SUBSET Nat, IsFiniteSet(H)
    PROVE  \E rank \in [H -> Nat] :
              /\ \A n \in H : rank[n] = Cardinality({l \in H : l < n}) /\ rank[n] + 1 <= Cardinality(H)
              /\ \A m, n \in H : m < n => rank[m] < rank[n]
<1>1. PICK rank : rank = [n \in H |-> Cardinality({l \in H : l < n})]
  OBVIOUS
<1>2. ASSUME NEW n \in H
      PROVE  \E B : /\ \A l : l \in B <=> l \in H /\ l < n
                    /\ IsFiniteSet(B) /\ rank[n] = Cardinality(B) /\ rank[n] \in Nat
                    /\ rank[n] + 1 <= Cardinality(H)
  <2>1. PICK B : B = {l \in H : l < n}
    OBVIOUS
  <2>2. B \subseteq H /\ n \notin B
    BY <2>1
  <2>3. IsFiniteSet(B) /\ Cardinality(B) <= Cardinality(H) /\ Cardinality(B) # Cardinality(H)
    BY <2>2, FS_Subset
  <2>4. Cardinality(B) \in Nat /\ Cardinality(H) \in Nat
    BY <2>3, FS_CardinalityType
  <2>5. rank[n] = Cardinality(B)
    BY <1>1, <2>1
  <2>6. Cardinality(B) + 1 <= Cardinality(H)
    BY <2>3, <2>4
  <2>7. \A l : l \in B <=> l \in H /\ l < n
    BY <2>1
  <2> QED
    BY <2>3, <2>4, <2>5, <2>6, <2>7
<1>3. ASSUME NEW m \in H, NEW n \in H, m < n PROVE rank[m] < rank[n]
  <2>1. PICK A : /\ \A l : l \in A <=> l \in H /\ l < m
                 /\ IsFiniteSet(A) /\ rank[m] = Cardinality(A) /\ rank[m] \in Nat
    BY <1>2
  <2>2. PICK B : /\ \A l : l \in B <=> l \in H /\ l < n
                 /\ IsFiniteSet(B) /\ rank[n] = Cardinality(B) /\ rank[n] \in Nat
    BY <1>2
  <2>3. A \subseteq B /\ m \in B /\ m \notin A
    <3>1. \A l \in H : l \in Nat
      OBVIOUS
    <3>2. m \in Nat /\ n \in Nat
      OBVIOUS
    <3>3. \A l \in Nat : (l < m => l < n) /\ ~(m < m)
      BY <1>3, <3>2
    <3> QED
      BY <1>3, <2>1, <2>2, <3>1, <3>2, <3>3
  <2>4. Cardinality(A) <= Cardinality(B) /\ Cardinality(A) # Cardinality(B)
    BY <2>2, <2>3, FS_Subset
  <2> QED
    BY <2>1, <2>2, <2>4
<1>4. rank \in [H -> Nat]
  BY <1>1, <1>2
<1> QED
  BY <1>1, <1>2, <1>3, <1>4

\* A function that runs through a finite set of numbers in their order.
LEMMA Enumerated ==
    ASSUME NEW H \in SUBSET Nat, IsFiniteSet(H)
    PROVE  \E g : Enumerates(H, Cardinality(H), g)
<1>1. PICK rank \in [H -> Nat] :
              /\ \A n \in H : rank[n] + 1 <= Cardinality(H)
              /\ \A m, n \in H : m < n => rank[m] < rank[n]
  BY Ranks
<1>2. PICK N : N = Cardinality(H) /\ N \in Nat
  BY FS_CardinalityType
<1>3. PICK f, all : f = [n \in H |-> rank[n] + 1] /\ all = 1..N
  OBVIOUS
<1>4. f \in Injection(H, all)
  <2>1. f \in [H -> all]
    BY <1>1, <1>2, <1>3
  <2>2. \A m, n \in H : f[m] = f[n] => m = n
    <3>1. SUFFICES ASSUME NEW m \in H, NEW n \in H, f[m] = f[n], m # n PROVE FALSE
      OBVIOUS
    <3>2. rank[m] = rank[n] /\ rank[m] \in Nat
      BY <1>1, <1>3, <3>1
    <3>3. m < n \/ n < m
      BY <3>1
    <3> QED
      BY <1>1, <3>2, <3>3
  <2> QED
    BY <2>1, <2>2, Fun_IsInj
<1>5. IsFiniteSet(all) /\ Cardinality(all) = N
  BY <1>2, <1>3, FS_Interval
<1>6. f \in Surjection(H, all)
  BY <1>2, <1>4, <1>5, FS_Injection
<1>7. \A k \in 1..N : \E n \in H : rank[n] + 1 = k
  BY <1>3, <1>6 DEF Surjection
<1>8. PICK g : g = [k \in 1..N |-> CHOOSE n \in H : rank[n] + 1 = k]
  OBVIOUS
<1>9. ASSUME NEW k \in 1..N
      PROVE  g[k] \in H /\ g[k] \in Nat /\ rank[g[k]] + 1 = k /\ rank[g[k]] \in Nat
  <2>1. g[k] \in H /\ rank[g[k]] + 1 = k
    BY <1>7, <1>8
  <2> QED
    BY <2>1
<1>10. ASSUME NEW k \in 1..N, NEW l \in 1..N, k < l PROVE g[k] < g[l]
  <2>1. /\ g[k] \in H /\ g[k] \in Nat /\ rank[g[k]] + 1 = k /\ rank[g[k]] \in Nat
        /\ g[l] \in H /\ g[l] \in Nat /\ rank[g[l]] + 1 = l /\ rank[g[l]] \in Nat
    BY <1>9
  <2>2. rank[g[k]] < rank[g[l]]
    BY <1>10, <2>1
  <2>3. ~(rank[g[l]] < rank[g[k]]) /\ rank[g[k]] # rank[g[l]]
    BY <2>1, <2>2
  <2>4. ~(g[l] < g[k]) /\ g[l] # g[k]
    BY <1>1, <2>1, <2>3
  <2> QED
    BY <2>1, <2>4
<1>11. ASSUME NEW h \in H PROVE \E k \in 1..N : g[k] = h
  <2>1. PICK k : k = rank[h] + 1
    OBVIOUS
  <2>2. k \in 1..N
    BY <1>1, <1>2, <2>1
  <2>3. rank[g[k]] = rank[h] /\ g[k] \in H
    <3>1. g[k] \in H /\ rank[g[k]] + 1 = k /\ rank[g[k]] \in Nat /\ rank[h] \in Nat
      BY <1>9, <2>2
    <3> QED
      BY <2>1, <3>1
  <2>4. g[k] = h
    <3>1. ~(g[k] < h) /\ ~(h < g[k])
      <4>1. rank[h] \in Nat /\ ~(rank[h] < rank[h])
        OBVIOUS
      <4> QED
        BY <1>1, <2>3, <4>1
    <3>2. g[k] \in Nat /\ h \in Nat
      BY <2>3
    <3> QED
      BY <3>1, <3>2
  <2> QED
    BY <2>2, <2>4
<1>12. g \in [1..N -> H]
  BY <1>8, <1>9
<1> QED
  BY <1>2, <1>10, <1>11, <1>12 DEF Enumerates

\* There is but one, and it is the one that MailOf goes through.
LEMMA EnumeratesNth ==
    ASSUME NEW H \in SUBSET Nat, IsFiniteSet(H), NEW n, NEW g, Enumerates(H, n, g)
    PROVE  n = Cardinality(H) /\ \A k \in 1..n : g[k] = Nth(H, k)
<1>1. /\ n \in Nat /\ g \in [1..n -> H]
      /\ \A k, l \in 1..n : k < l => g[k] < g[l]
      /\ \A h \in H : \E k \in 1..n : g[k] = h
  BY DEF Enumerates
<1>2. \A k, l \in 1..n : g[k] = g[l] => k = l
  <2>1. SUFFICES ASSUME NEW k \in 1..n, NEW l \in 1..n, g[k] = g[l], k # l PROVE FALSE
    OBVIOUS
  <2>2. k < l \/ l < k
    BY <2>1
  <2>3. g[k] \in Nat /\ g[l] \in Nat
    BY <1>1
  <2> QED
    BY <1>1, <2>1, <2>2, <2>3
<1>3. ASSUME NEW k \in 0..n, NEW B, \A l : l \in B <=> l \in H /\ \E j \in 1..k : g[j] = l
      PROVE  Cardinality(B) = k
  <2>1. PICK f, all : f = [j \in 1..k |-> g[j]] /\ all = 1..k
    OBVIOUS
  <2>2. \A j \in 1..k : j \in 1..n
    BY <1>1
  <2>3. f \in Bijection(all, B)
    <3>1. f \in [all -> B]
      BY <1>1, <1>3, <2>1, <2>2
    <3>2. \A i, j \in all : f[i] = f[j] => i = j
      BY <1>2, <2>1, <2>2
    <3>3. \A l \in B : \E j \in all : f[j] = l
      BY <1>3, <2>1
    <3> QED
      BY <3>1, <3>2, <3>3, Fun_IsBij
  <2>4. IsFiniteSet(all) /\ Cardinality(all) = k
    BY <1>1, <2>1, FS_Interval
  <2> QED
    BY <2>3, <2>4, FS_Bijection DEF ExistsBijection
<1>4. n = Cardinality(H)
  <2>1. n \in 0..n
    BY <1>1
  <2>2. \A l : l \in H <=> l \in H /\ \E j \in 1..n : g[j] = l
    BY <1>1
  <2> QED
    BY <1>3, <2>1, <2>2
<1>5. PICK rank \in [H -> Nat] :
              /\ \A m \in H : rank[m] = Cardinality({l \in H : l < m})
              /\ \A l, m \in H : l < m => rank[l] < rank[m]
  BY Ranks
<1>6. ASSUME NEW k \in 1..n PROVE rank[g[k]] = k - 1
  <2>1. PICK B : B = {l \in H : l < g[k]}
    OBVIOUS
  <2>2. k - 1 \in 0..n /\ g[k] \in H
    BY <1>1
  <2>3. ASSUME NEW l \in H PROVE l < g[k] <=> \E j \in 1..k - 1 : g[j] = l
    <3>1. PICK i \in 1..n : g[i] = l
      BY <1>1
    <3>2. i < k <=> l < g[k]
      <4>1. i < k => g[i] < g[k]
        BY <1>1
      <4>2. k < i => g[k] < g[i]
        BY <1>1
      <4>3. g[i] \in Nat /\ g[k] \in Nat
        BY <1>1
      <4> QED
        BY <3>1, <4>1, <4>2, <4>3
    <3>3. i < k <=> \E j \in 1..k - 1 : g[j] = l
      <4>1. ASSUME NEW j \in 1..k - 1, g[j] = l PROVE i < k
        <5>1. j \in 1..n /\ i = j
          BY <1>1, <1>2, <3>1, <4>1
        <5> QED
          BY <5>1
      <4> QED
        BY <3>1, <4>1
    <3> QED
      BY <3>2, <3>3
  <2>4. \A l : l \in B <=> l \in H /\ \E j \in 1..k - 1 : g[j] = l
    BY <2>1, <2>3
  <2>5. Cardinality(B) = k - 1
    BY <1>3, <2>2, <2>4
  <2> QED
    BY <1>5, <2>1, <2>2, <2>5
<1>7. ASSUME NEW k \in 1..n PROVE g[k] = Nth(H, k)
  <2>1. g[k] \in H /\ Cardinality({l \in H : l < g[k]}) = k - 1
    BY <1>1, <1>5, <1>6
  <2>2. ASSUME NEW m \in H, Cardinality({l \in H : l < m}) = k - 1 PROVE m = g[k]
    <3>1. rank[m] = rank[g[k]] /\ rank[m] \in Nat
      BY <1>5, <1>6, <2>1, <2>2
    <3>2. ~(m < g[k]) /\ ~(g[k] < m)
      <4>1. \A l, j \in H : l < j => rank[l] < rank[j]
        BY <1>5
      <4>2. ~(rank[m] < rank[m])
        BY <3>1
      <4> QED
        BY <2>1, <3>1, <4>1, <4>2
    <3>3. m \in Nat /\ g[k] \in Nat
      BY <2>1
    <3> QED
      BY <3>2, <3>3
  <2> QED
    BY <2>1, <2>2 DEF Nth
<1> QED
  BY <1>4, <1>7

\* s holds the slots of w's messages, in the order of the list.
Listed(q, es, w, s) ==
    /\ s \in Seq(Indices)
    /\ \A k \in 1..Len(s) : s[k] \in ReadBy(q, In(es), w)
    /\ \A i \in ReadBy(q, In(es), w) : \E k \in 1..Len(s) : s[k] = i
    /\ \A k, l \in 1..Len(s) : \A a, b \in 1..Len(es) :
          s[k] = es[a] /\ s[l] = es[b] => (k < l <=> a < b)

\* MailOf, of any queue and any texts.
Mail(q, t, w) ==
    LET box[es \in Seq(Indices)] ==
            LET mine == {n \in DOMAIN es : w \in q.to[es[n]]}
            IN  [k \in 1..Cardinality(mine) |-> t[es[Nth(mine, k)]]]
    IN  box[Entries(q)]

\* MailOf is Mail of the current queue and texts.
LEMMA MailOfIs ==
    ASSUME NEW w
    PROVE  /\ MailOf(w) = Mail(queue, text, w)
           /\ MailOf(w)' = Mail(queue', text', w)
BY DEF MailOf, Mail, Nth

\* The places of w's messages in the list.
Mine(q, es, w) == {n \in 1..Len(es) : w \in q.to[es[n]]}

\* The mailbox, by the places of its messages.
LEMMA MailEnumerated ==
    ASSUME NEW q, NEW es, Sound(q, es), NEW t, NEW w, NEW H, H = Mine(q, es, w)
    PROVE  /\ Mail(q, t, w) = [k \in 1..Cardinality(H) |-> t[es[Nth(H, k)]]]
           /\ H \in SUBSET Nat /\ IsFiniteSet(H)
<1>1. q \in Queues /\ Lists(q, es) /\ es \in Seq(Indices) /\ Len(es) \in Nat
  BY ListFacts DEF Sound, Lists, Follows
<1>2. Entries(q) = es
  BY <1>1, ListsUnique
<1>3. PICK box : box = [fs \in Seq(Indices) |->
                  [k \in 1..Cardinality({n \in DOMAIN fs : w \in q.to[fs[n]]}) |->
                      t[fs[Nth({n \in DOMAIN fs : w \in q.to[fs[n]]}, k)]]]]
  OBVIOUS
<1>4. Mail(q, t, w) = box[es]
  BY <1>2, <1>3, Zenon DEF Mail
<1>5. DOMAIN es = 1..Len(es)
  BY <1>1
<1>6. H = {n \in DOMAIN es : w \in q.to[es[n]]}
  BY <1>5 DEF Mine
<1>7. box[es] = [k \in 1..Cardinality(H) |-> t[es[Nth(H, k)]]]
  BY <1>1, <1>3, <1>6, Zenon
<1>8. PICK all : all = 1..Len(es)
  OBVIOUS
<1>9. IsFiniteSet(all) /\ H \subseteq all
  BY <1>1, <1>8, FS_Interval DEF Mine
<1>10. IsFiniteSet(H)
  BY <1>9, FS_Subset
<1> QED
  BY <1>4, <1>7, <1>8, <1>9, <1>10

\* The slots of w's messages can be listed in their order,
LEMMA MailExists ==
    ASSUME NEW q, NEW es, Sound(q, es), NEW w
    PROVE  \E s : Listed(q, es, w, s)
<1>1. q \in Queues /\ Lists(q, es) /\ es \in Seq(Indices) /\ Len(es) \in Nat
  BY ListFacts DEF Sound, Lists, Follows
<1>2. PICK H : H = Mine(q, es, w)
  OBVIOUS
<1>3. H \in SUBSET Nat /\ IsFiniteSet(H)
  BY <1>2, MailEnumerated
<1>4. PICK n, g : Enumerates(H, n, g)
  BY <1>3, Enumerated
<1>5. /\ n \in Nat /\ g \in [1..n -> H]
      /\ \A k, l \in 1..n : k < l => g[k] < g[l]
      /\ \A h \in H : \E k \in 1..n : g[k] = h
  BY <1>4 DEF Enumerates
<1>6. PICK s : s = [k \in 1..n |-> es[g[k]]]
  OBVIOUS
<1>7. \A k \in 1..n : g[k] \in 1..Len(es) /\ w \in q.to[es[g[k]]] /\ es[g[k]] \in Indices
  BY <1>1, <1>2, <1>5 DEF Mine
<1>8. s \in Seq(Indices) /\ Len(s) = n /\ \A k \in 1..n : s[k] = es[g[k]]
  BY <1>5, <1>6, <1>7
<1>9. \A k \in 1..n : s[k] \in ReadBy(q, In(es), w)
  BY <1>7, <1>8 DEF ReadBy, In
<1>10. ASSUME NEW i \in ReadBy(q, In(es), w) PROVE \E k \in 1..n : s[k] = i
  <2>1. PICK m \in 1..Len(es) : es[m] = i /\ w \in q.to[i]
    BY DEF ReadBy, In
  <2>2. m \in H
    BY <1>2, <2>1 DEF Mine
  <2> QED
    BY <1>5, <1>8, <2>1, <2>2
<1>11. ASSUME NEW k \in 1..n, NEW l \in 1..n, NEW a \in 1..Len(es), NEW b \in 1..Len(es),
              s[k] = es[a], s[l] = es[b]
       PROVE  k < l <=> a < b
  <2>1. a = g[k] /\ b = g[l]
    BY <1>1, <1>7, <1>8, <1>11, ListsInjective
  <2>2. (k < l => a < b) /\ (l < k => b < a)
    BY <1>5, <2>1
  <2> QED
    BY <1>5, <2>1, <2>2
<1> QED
  BY <1>8, <1>9, <1>10, <1>11 DEF Listed

\* ... and the mailbox holds their texts.
LEMMA MailIs ==
    ASSUME NEW q, NEW es, Sound(q, es), NEW w, NEW s, Listed(q, es, w, s), NEW t
    PROVE  Len(s) \in Nat /\ Mail(q, t, w) = [k \in 1..Len(s) |-> t[s[k]]]
<1>1. q \in Queues /\ Lists(q, es) /\ es \in Seq(Indices) /\ Len(es) \in Nat
  BY ListFacts DEF Sound, Lists, Follows
<1>2. PICK H : H = Mine(q, es, w)
  OBVIOUS
<1>3. H \in SUBSET Nat /\ IsFiniteSet(H) /\ Mail(q, t, w) = [k \in 1..Cardinality(H) |-> t[es[Nth(H, k)]]]
  BY <1>2, MailEnumerated
<1>4. PICK n : n = Len(s) /\ n \in Nat
  BY DEF Listed
<1>5. /\ \A k \in 1..n : s[k] \in ReadBy(q, In(es), w)
      /\ \A i \in ReadBy(q, In(es), w) : \E k \in 1..n : s[k] = i
      /\ \A k, l \in 1..n : \A a, b \in 1..Len(es) :
          s[k] = es[a] /\ s[l] = es[b] => (k < l <=> a < b)
  BY <1>4 DEF Listed
<1>6. \A k \in 1..n : \E a \in H : es[a] = s[k]
  BY <1>2, <1>5 DEF ReadBy, In, Mine
<1>7. PICK g : g = [k \in 1..n |-> CHOOSE a \in H : es[a] = s[k]]
  OBVIOUS
<1>8. \A k \in 1..n : g[k] \in H /\ g[k] \in 1..Len(es) /\ es[g[k]] = s[k]
  BY <1>2, <1>6, <1>7 DEF Mine
<1>9. \A k, l \in 1..n : k < l => g[k] < g[l]
  BY <1>5, <1>8
<1>10. ASSUME NEW h \in H PROVE \E k \in 1..n : g[k] = h
  <2>1. h \in 1..Len(es) /\ es[h] \in ReadBy(q, In(es), w)
    <3>1. h \in 1..Len(es) /\ w \in q.to[es[h]]
      BY <1>2 DEF Mine
    <3> QED
      BY <3>1 DEF ReadBy, In
  <2>2. PICK k \in 1..n : s[k] = es[h]
    BY <1>5, <2>1
  <2>3. g[k] \in 1..Len(es) /\ es[g[k]] = es[h]
    BY <1>8, <2>2
  <2>4. g[k] = h
    BY <1>1, <2>1, <2>3, ListsInjective
  <2> QED
    BY <2>4
<1>11. g \in [1..n -> H]
  BY <1>7, <1>8
<1>12. Enumerates(H, n, g)
  BY <1>4, <1>9, <1>10, <1>11 DEF Enumerates
<1>13. n = Cardinality(H) /\ \A k \in 1..n : g[k] = Nth(H, k)
  BY <1>3, <1>12, EnumeratesNth
<1>14. \A k \in 1..n : es[Nth(H, k)] = s[k]
  BY <1>8, <1>13
<1>15. [k \in 1..n |-> t[es[Nth(H, k)]]] = [k \in 1..n |-> t[s[k]]]
  BY <1>14
<1> QED
  BY <1>3, <1>4, <1>13, <1>15

\* Sequences.
Through(t, s, m) == [k \in 1..m |-> t[s[k]]]

\* The texts of a sequence of slots.
LEMMA Mapped ==
    ASSUME NEW m \in Nat, NEW s, NEW t, NEW A, A = Through(t, s, m)
    PROVE  \E S : A \in Seq(S) /\ Len(A) = m /\ \A k \in 1..m : A[k] = t[s[k]]
<1>1. PICK S : S = {t[s[k]] : k \in 1..m}
  OBVIOUS
<1>2. A \in [1..m -> S] /\ \A k \in 1..m : A[k] = t[s[k]]
  BY <1>1 DEF Through
<1>3. A \in Seq(S) /\ Len(A) = m
  BY <1>2
<1> QED
  BY <1>2, <1>3

\* The first of a sequence, and the others.
LEMMA HeadAndTail ==
    ASSUME NEW S, NEW A \in Seq(S), NEW m \in Nat, Len(A) = m, m # 0
    PROVE  A # <<>> /\ Head(A) = A[1] /\ Tail(A) = [k \in 1..m - 1 |-> A[k + 1]]
<1>1. A # <<>>
  OBVIOUS
<1>2. /\ Tail(A) \in Seq(S) /\ Len(Tail(A)) = m - 1
      /\ \A k \in 1..m - 1 : Tail(A)[k] = A[k + 1]
  BY <1>1, HeadTailProperties
<1>3. PICK B : B = Tail(A)
  OBVIOUS
<1>4. B = [k \in 1..m - 1 |-> B[k]]
  <2>1. B \in Seq(S) /\ Len(B) = m - 1
    BY <1>2, <1>3
  <2> QED
    BY <2>1, LenProperties
<1>5. Head(A) = A[1]
  BY <1>1
<1> QED
  BY <1>1, <1>2, <1>3, <1>4, <1>5

\* A sequence with one more at the end.
LEMMA OneMore ==
    ASSUME NEW S, NEW A \in Seq(S), NEW m \in Nat, Len(A) = m, NEW x
    PROVE  A \o <<x>> = [k \in 1..m + 1 |-> IF k = m + 1 THEN x ELSE A[k]]
<1>1. PICK T, B : T = S \cup {x} /\ B = <<x>>
  OBVIOUS
<1>2. A \in Seq(T) /\ B \in Seq(T) /\ Len(B) = 1 /\ B[1] = x
  BY <1>1
<1>3. PICK C : C = A \o B
  OBVIOUS
<1>4. /\ C \in Seq(T) /\ Len(C) = m + 1
      /\ \A k \in 1..m + 1 : C[k] = IF k <= m THEN A[k] ELSE B[k - m]
  <2>1. /\ A \o B \in Seq(T) /\ Len(A \o B) = Len(A) + Len(B)
        /\ \A k \in 1..Len(A) + Len(B) : (A \o B)[k] = IF k <= Len(A) THEN A[k] ELSE B[k - Len(A)]
    BY <1>2, ConcatProperties
  <2> QED
    BY <1>2, <1>3, <2>1
<1>5. \A k \in 1..m : C[k] = A[k]
  BY <1>4
<1>6. C[m + 1] = x
  BY <1>2, <1>4
<1>7. C = [k \in 1..m + 1 |-> C[k]]
  BY <1>4
<1>8. \A k \in 1..m + 1 : C[k] = IF k = m + 1 THEN x ELSE A[k]
  BY <1>5, <1>6
<1> QED
  BY <1>1, <1>3, <1>7, <1>8

\* The entries of both lists come in the same order.
InOrder(es, fs) ==
    \A k, l \in 1..Len(fs) : \A i, j \in 1..Len(es) :
        fs[k] = es[i] /\ fs[l] = es[j] => (k < l <=> i < j)

\* A list has its own order.
LEMMA InOrderItself ==
    ASSUME NEW q, NEW es, Lists(q, es)
    PROVE  InOrder(es, es)
<1>1. \A i, j \in 1..Len(es) : es[i] = es[j] => i = j
  BY ListsInjective
<1> QED
  BY <1>1 DEF InOrder

\* The same messages are in the mailbox.
LEMMA MailAgrees ==
    ASSUME NEW q, NEW es, Sound(q, es), NEW p, NEW fs, Sound(p, fs), InOrder(es, fs), NEW w,
           ReadBy(p, In(fs), w) = ReadBy(q, In(es), w),
           NEW t, NEW u, \A i \in ReadBy(q, In(es), w) : u[i] = t[i]
    PROVE  Mail(p, u, w) = Mail(q, t, w)
<1>1. PICK s : Listed(q, es, w, s)
  BY MailExists
<1>2. PICK n : n = Len(s) /\ n \in Nat
  BY <1>1 DEF Listed
<1>3. /\ s \in Seq(Indices)
      /\ \A k \in 1..n : s[k] \in ReadBy(q, In(es), w)
      /\ \A i \in ReadBy(q, In(es), w) : \E k \in 1..n : s[k] = i
      /\ \A k, l \in 1..n : \A a, b \in 1..Len(es) :
          s[k] = es[a] /\ s[l] = es[b] => (k < l <=> a < b)
  BY <1>1, <1>2 DEF Listed
<1>4. ASSUME NEW k \in 1..n, NEW l \in 1..n, NEW a \in 1..Len(fs), NEW b \in 1..Len(fs),
             s[k] = fs[a], s[l] = fs[b]
      PROVE  k < l <=> a < b
  <2>1. s[k] \in In(es) /\ s[l] \in In(es)
    BY <1>3 DEF ReadBy
  <2>2. PICK i, j \in 1..Len(es) : s[k] = es[i] /\ s[l] = es[j]
    BY <2>1 DEF In
  <2>3. k < l <=> i < j
    BY <1>3, <2>2
  <2>4. a < b <=> i < j
    BY <1>4, <2>2 DEF InOrder
  <2> QED
    BY <2>3, <2>4
<1>5. Listed(p, fs, w, s)
  BY <1>2, <1>3, <1>4 DEF Listed
<1>6. Mail(p, u, w) = [k \in 1..Len(s) |-> u[s[k]]] /\ Mail(q, t, w) = [k \in 1..Len(s) |-> t[s[k]]]
  BY <1>1, <1>5, MailIs
<1>7. \A k \in 1..Len(s) : u[s[k]] = t[s[k]]
  BY <1>2, <1>3
<1> QED
  BY <1>6, <1>7

\* Nobody reads from a list that has no entry for him.
LEMMA MailLost ==
    ASSUME NEW p, NEW fs, Sound(p, fs), NEW w, ReadBy(p, In(fs), w) = {}, NEW t
    PROVE  Mail(p, t, w) = <<>>
<1>1. PICK s : Listed(p, fs, w, s)
  BY MailExists
<1>2. Len(s) \in Nat /\ Mail(p, t, w) = [k \in 1..Len(s) |-> t[s[k]]]
  BY <1>1, MailIs
<1>3. Len(s) = 0
  <2>1. \A k \in 1..Len(s) : FALSE
    BY <1>1 DEF Listed
  <2> QED
    BY <1>2, <2>1
<1> QED
  BY <1>2, <1>3

\* The place of the first of w's messages.
FirstOf(q, es, w, n) ==
    /\ n \in 1..Len(es) /\ w \in q.to[es[n]]
    /\ \A k \in 1..Len(es) : w \in q.to[es[k]] => n <= k

\* From mailbox A it is taken, and leaves B.
TakenFrom(A, m, B) == A # <<>> /\ Head(A) = m /\ B = Tail(A)

AllBut(A, i, B) == \A j : j \in B <=> j \in A /\ j # i

\* It is taken out of the mailbox.
LEMMA MailTaken ==
    ASSUME NEW q, NEW es, Sound(q, es), NEW p, NEW fs, Sound(p, fs), InOrder(es, fs), NEW w,
           NEW n, FirstOf(q, es, w, n), NEW t,
           AllBut(ReadBy(q, In(es), w), es[n], ReadBy(p, In(fs), w))
    PROVE  TakenFrom(Mail(q, t, w), t[es[n]], Mail(p, t, w))
<1>0. /\ n \in 1..Len(es) /\ w \in q.to[es[n]]
      /\ \A k \in 1..Len(es) : w \in q.to[es[k]] => n <= k
      /\ \A i : i \in ReadBy(p, In(fs), w) <=> i \in ReadBy(q, In(es), w) /\ i # es[n]
  BY DEF FirstOf, AllBut
<1>1. PICK s : Listed(q, es, w, s)
  BY MailExists
<1>2. PICK m : m = Len(s) /\ m \in Nat
  BY <1>1 DEF Listed
<1>3. /\ s \in Seq(Indices)
      /\ \A k \in 1..m : s[k] \in ReadBy(q, In(es), w)
      /\ \A i \in ReadBy(q, In(es), w) : \E k \in 1..m : s[k] = i
      /\ \A k, l \in 1..m : \A a, b \in 1..Len(es) :
          s[k] = es[a] /\ s[l] = es[b] => (k < l <=> a < b)
  BY <1>1, <1>2 DEF Listed
<1>4. \A k \in 1..m : \E a \in 1..Len(es) : s[k] = es[a] /\ n <= a
  <2>1. SUFFICES ASSUME NEW k \in 1..m PROVE \E a \in 1..Len(es) : s[k] = es[a] /\ n <= a
    OBVIOUS
  <2>2. s[k] \in In(es) /\ w \in q.to[s[k]]
    BY <1>3 DEF ReadBy
  <2>3. PICK a \in 1..Len(es) : s[k] = es[a]
    BY <2>2 DEF In
  <2> QED
    BY <1>0, <2>2, <2>3
<1>5. Len(es) \in Nat /\ es[n] \in ReadBy(q, In(es), w)
  <2>1. es[n] \in In(es)
    BY <1>0 DEF In
  <2> QED
    BY <1>0, <2>1, ListFacts DEF ReadBy, Sound
<1>6. PICK h \in 1..m : s[h] = es[n]
  BY <1>3, <1>5
<1>7. m # 0 /\ 1 \in 1..m
  BY <1>2, <1>6
<1>8. h = 1
  <2>1. PICK a \in 1..Len(es) : s[1] = es[a] /\ n <= a
    BY <1>4, <1>7
  <2>2. 1 < h <=> a < n
    BY <1>0, <1>3, <1>6, <1>7, <2>1
  <2> QED
    BY <1>0, <1>2, <1>5, <1>6, <2>1, <2>2
<1>9. s[1] = es[n]
  BY <1>6, <1>8
<1>10. ASSUME NEW k \in 1..m, k # 1 PROVE s[k] # es[n]
  <2>1. SUFFICES ASSUME s[k] = es[n] PROVE FALSE
    OBVIOUS
  <2>2. 1 < k <=> n < n
    BY <1>0, <1>3, <1>7, <1>9, <2>1
  <2> QED
    BY <1>0, <1>2, <1>5, <1>10, <2>2
<1>11. PICK r : r = Tail(s)
  OBVIOUS
<1>12. /\ r \in Seq(Indices) /\ Len(r) = m - 1 /\ m - 1 \in Nat
       /\ \A k \in 1..m - 1 : r[k] = s[k + 1] /\ k + 1 \in 1..m
  BY <1>2, <1>3, <1>7, <1>11
<1>13. \A k \in 1..m - 1 : r[k] \in ReadBy(p, In(fs), w)
  <2>1. SUFFICES ASSUME NEW k \in 1..m - 1 PROVE r[k] \in ReadBy(p, In(fs), w)
    OBVIOUS
  <2>2. r[k] = s[k + 1] /\ k + 1 \in 1..m /\ k + 1 # 1
    BY <1>2, <1>12
  <2>3. s[k + 1] \in ReadBy(q, In(es), w) /\ s[k + 1] # es[n]
    BY <1>3, <1>10, <2>2
  <2> QED
    BY <1>0, <2>2, <2>3
<1>14. ASSUME NEW i \in ReadBy(p, In(fs), w) PROVE \E k \in 1..m - 1 : r[k] = i
  <2>1. i \in ReadBy(q, In(es), w) /\ i # es[n]
    BY <1>0
  <2>2. PICK k \in 1..m : s[k] = i
    BY <1>3, <2>1
  <2>3. k # 1
    BY <1>9, <2>1, <2>2
  <2>4. k - 1 \in 1..m - 1 /\ k - 1 + 1 = k
    BY <1>2, <2>3
  <2> QED
    BY <1>12, <2>2, <2>4
<1>15. ASSUME NEW k \in 1..m - 1, NEW l \in 1..m - 1, NEW a \in 1..Len(fs), NEW b \in 1..Len(fs),
              r[k] = fs[a], r[l] = fs[b]
       PROVE  k < l <=> a < b
  <2>1. r[k] = s[k + 1] /\ k + 1 \in 1..m /\ r[l] = s[l + 1] /\ l + 1 \in 1..m
    BY <1>12
  <2>2. PICK i, j \in 1..Len(es) : s[k + 1] = es[i] /\ s[l + 1] = es[j]
    BY <1>4, <2>1
  <2>3. k + 1 < l + 1 <=> i < j
    BY <1>3, <2>1, <2>2
  <2>4. a < b <=> i < j
    BY <1>15, <2>1, <2>2 DEF InOrder
  <2>5. k + 1 < l + 1 <=> k < l
    BY <1>2
  <2> QED
    BY <2>3, <2>4, <2>5
<1>16. Listed(p, fs, w, r)
  BY <1>12, <1>13, <1>14, <1>15 DEF Listed
<1>17. Mail(p, t, w) = [k \in 1..m - 1 |-> t[r[k]]]
  <2>1. Mail(p, t, w) = [k \in 1..Len(r) |-> t[r[k]]]
    BY <1>16, MailIs
  <2> QED
    BY <1>12, <2>1
<1>18. PICK A : A = Mail(q, t, w) /\ A = Through(t, s, m)
  BY <1>1, <1>2, MailIs DEF Through
<1>19. PICK S : A \in Seq(S) /\ Len(A) = m /\ \A k \in 1..m : A[k] = t[s[k]]
  BY <1>2, <1>18, Mapped
<1>20. A # <<>> /\ Head(A) = A[1] /\ Tail(A) = [k \in 1..m - 1 |-> A[k + 1]]
  BY <1>2, <1>7, <1>19, HeadAndTail
<1>21. \A k \in 1..m - 1 : A[k + 1] = t[r[k]]
  BY <1>12, <1>19
<1>22. Tail(A) = Mail(p, t, w)
  BY <1>17, <1>20, <1>21
<1>23. Head(A) = t[es[n]]
  BY <1>7, <1>9, <1>19, <1>20
<1> QED
  BY <1>18, <1>20, <1>22, <1>23 DEF TakenFrom

\* What a message to ships brings to the mailbox of w.
Joining(t, i, ships, w) == IF w \in ships THEN <<t[i]>> ELSE <<>>

\* UPDT of slot i for ships: queue q becomes p, its list es becomes fs.
Joined(q, es, i, ships, p, fs) ==
    /\ Sound(q, es) /\ i \in Indices /\ i \notin In(es)
    /\ p = Linked(q, i, ships) /\ fs = Append(es, i) /\ Sound(p, fs)

\* A message joins the mailboxes of its recipients, at the end.
LEMMA MailPosted ==
    ASSUME NEW q, NEW es, NEW i, NEW ships, NEW p, NEW fs, Joined(q, es, i, ships, p, fs), NEW w, NEW t
    PROVE  Mail(p, t, w) = Mail(q, t, w) \o Joining(t, i, ships, w)
<1>0. /\ Sound(q, es) /\ i \in Indices /\ i \notin In(es)
      /\ p = Linked(q, i, ships) /\ fs = Append(es, i) /\ Sound(p, fs)
  BY DEF Joined
<1> USE <1>0
<1>1. /\ q \in Queues /\ es \in Seq(Indices) /\ Len(es) \in Nat /\ Lists(q, es)
      /\ Len(fs) = Len(es) + 1 /\ fs[Len(es) + 1] = i
      /\ \A k \in 1..Len(es) : fs[k] = es[k] /\ es[k] \in In(es)
  BY ListFacts DEF Sound, Lists, Follows, In
<1>2. ReadBy(p, In(fs), w) = ReadBy(q, In(es), w) \cup (IF w \in ships THEN {i} ELSE {})
  <2>1. ReadBy(Linked(q, i, ships), In(Append(es, i)), w) =
          ReadBy(q, In(es), w) \cup (IF w \in ships THEN {i} ELSE {})
    BY <1>1, LinkedReads
  <2> QED
    BY <2>1
<1>3. PICK s : Listed(q, es, w, s)
  BY MailExists
<1>4. PICK m : m = Len(s) /\ m \in Nat
  BY <1>3 DEF Listed
<1>5. /\ s \in Seq(Indices)
      /\ \A k \in 1..m : s[k] \in ReadBy(q, In(es), w) /\ s[k] # i
      /\ \A j \in ReadBy(q, In(es), w) : \E k \in 1..m : s[k] = j
      /\ \A k, l \in 1..m : \A a, b \in 1..Len(es) :
          s[k] = es[a] /\ s[l] = es[b] => (k < l <=> a < b)
  <2>1. \A j \in ReadBy(q, In(es), w) : j # i
    BY DEF ReadBy
  <2> QED
    BY <1>3, <1>4, <2>1 DEF Listed
<1>6. Mail(q, t, w) = [k \in 1..m |-> t[s[k]]]
  BY <1>3, <1>4, MailIs
<1>7. \A a \in 1..Len(fs) : (a \in 1..Len(es) /\ fs[a] = es[a]) \/ (a = Len(es) + 1 /\ fs[a] = i)
  BY <1>1
<1>8. \A k \in 1..m : \A a \in 1..Len(fs) : s[k] = fs[a] => a \in 1..Len(es) /\ s[k] = es[a]
  BY <1>5, <1>7
<1>9. CASE w \notin ships
  <2>1. ReadBy(p, In(fs), w) = ReadBy(q, In(es), w)
    BY <1>2, <1>9
  <2>2. Listed(p, fs, w, s)
    BY <1>4, <1>5, <1>8, <2>1 DEF Listed
  <2>3. Mail(p, t, w) = Mail(q, t, w)
    BY <1>4, <1>6, <2>2, MailIs
  <2>4. PICK A : A = Mail(q, t, w) /\ A = Through(t, s, m)
    BY <1>6 DEF Through
  <2>5. PICK S : A \in Seq(S)
    BY <1>4, <2>4, Mapped
  <2>6. A \o <<>> = A
    BY <2>5, ConcatEmptySeq
  <2> QED
    BY <1>9, <2>3, <2>4, <2>6 DEF Joining
<1>10. CASE w \in ships
  <2>1. PICK r : r = Append(s, i)
    OBVIOUS
  <2>2. /\ r \in Seq(Indices) /\ Len(r) = m + 1 /\ r[m + 1] = i
        /\ \A k \in 1..m : r[k] = s[k]
    BY <1>4, <1>5, <2>1
  <2>3. \A k \in 1..m + 1 : (k \in 1..m /\ r[k] = s[k]) \/ (k = m + 1 /\ r[k] = i)
    BY <1>4, <2>2
  <2>4. \A k \in 1..m + 1 : r[k] \in ReadBy(p, In(fs), w)
    BY <1>2, <1>5, <1>10, <2>3
  <2>5. \A j \in ReadBy(p, In(fs), w) : \E k \in 1..m + 1 : r[k] = j
    <3>1. SUFFICES ASSUME NEW j \in ReadBy(p, In(fs), w) PROVE \E k \in 1..m + 1 : r[k] = j
      OBVIOUS
    <3>2. CASE j = i
      <4>1. m + 1 \in 1..m + 1
        BY <1>4
      <4> QED
        BY <2>2, <3>2, <4>1
    <3>3. CASE j # i
      <4>1. PICK k \in 1..m : s[k] = j
        BY <1>2, <1>5, <3>3
      <4>2. k \in 1..m + 1
        BY <1>4
      <4> QED
        BY <2>2, <4>1, <4>2
    <3> QED
      BY <3>2, <3>3
  <2>6. ASSUME NEW k \in 1..m + 1, NEW l \in 1..m + 1, NEW a \in 1..Len(fs), NEW b \in 1..Len(fs),
               r[k] = fs[a], r[l] = fs[b]
        PROVE  k < l <=> a < b
    <3>1. /\ k \in 1..m => a \in 1..Len(es) /\ s[k] = es[a]
          /\ l \in 1..m => b \in 1..Len(es) /\ s[l] = es[b]
      BY <1>8, <2>2, <2>6
    <3>2. ASSUME NEW c \in 1..Len(fs), fs[c] = i PROVE c = Len(es) + 1
      <4>1. \A d \in 1..Len(es) : es[d] # i
        BY <1>1
      <4> QED
        BY <1>7, <3>2, <4>1
    <3>3. /\ k = m + 1 => a = Len(es) + 1
          /\ l = m + 1 => b = Len(es) + 1
      BY <2>2, <2>6, <3>2
    <3>4. (k \in 1..m \/ k = m + 1) /\ (l \in 1..m \/ l = m + 1)
      BY <1>4
    <3>5. CASE k \in 1..m /\ l \in 1..m
      BY <1>5, <3>1, <3>5
    <3>6. CASE k = m + 1 \/ l = m + 1
      BY <1>1, <1>4, <3>1, <3>3, <3>4, <3>6
    <3> QED
      BY <3>4, <3>5, <3>6
  <2>7. Listed(p, fs, w, r)
    BY <2>2, <2>4, <2>5, <2>6 DEF Listed
  <2>8. Mail(p, t, w) = [k \in 1..m + 1 |-> t[r[k]]]
    BY <2>2, <2>7, MailIs
  <2>9. PICK A : A = Mail(q, t, w) /\ A = Through(t, s, m)
    BY <1>6 DEF Through
  <2>10. PICK S : A \in Seq(S) /\ Len(A) = m /\ \A k \in 1..m : A[k] = t[s[k]]
    BY <1>4, <2>9, Mapped
  <2>11. A \o <<t[i]>> = [k \in 1..m + 1 |-> IF k = m + 1 THEN t[i] ELSE A[k]]
    <3>1. PICK x : x = t[i]
      OBVIOUS
    <3>2. A \o <<x>> = [k \in 1..m + 1 |-> IF k = m + 1 THEN x ELSE A[k]]
      BY ONLY <1>4, <2>10, OneMore
    <3> QED
      BY <3>1, <3>2
  <2>12. \A k \in 1..m + 1 : t[r[k]] = IF k = m + 1 THEN t[i] ELSE A[k]
    BY <1>4, <2>2, <2>3, <2>10
  <2>13. Mail(p, t, w) = A \o <<t[i]>>
    BY <2>8, <2>11, <2>12
  <2> QED
    BY <1>10, <2>9, <2>13 DEF Joining
<1> QED
  BY <1>9, <1>10

\* What is left of a list, and a mailbox in it that has lost nothing.
LEMMA LeftMail ==
    ASSUME NEW q, NEW es, Sound(q, es), NEW p, NEW fs, LeftOf(q, es, p, fs), NEW v,
           \A i \in In(es) : v \in p.to[i] <=> v \in q.to[i]
    PROVE  InOrder(es, fs) /\ ReadBy(p, In(fs), v) = ReadBy(q, In(es), v)
<1>1. InOrder(es, fs)
  BY DEF LeftOf, InOrder
<1>2. In(fs) \subseteq In(es) /\ \A i \in In(es) : i \notin In(fs) => p.to[i] = {}
  BY DEF LeftOf, IsFree
<1>3. ReadBy(p, In(fs), v) = ReadBy(q, In(es), v)
  BY <1>2 DEF ReadBy
<1> QED
  BY <1>1, <1>3

\* REMV of the first of w's messages.
LEMMA RemovedMail ==
    ASSUME NEW q, NEW es, Sound(q, es), NEW w, NEW n, FirstOf(q, es, w, n),
           NEW ships, ships = {w}, NEW p, p = RemoveShips(q, At(es, n), ships), NEW t
    PROVE  /\ TakenFrom(Mail(q, t, w), t[es[n]], Mail(p, t, w))
           /\ \A v : v # w => Mail(p, t, v) = Mail(q, t, v)
<1>0. n \in 1..Len(es) /\ w \in q.to[es[n]]
  BY DEF FirstOf
<1>1. RemovedAt(q, es, n, ships, p)
  BY <1>0, RemoveAt
<1>2. PICK fs : LeftOf(q, es, p, fs)
  BY <1>1 DEF RemovedAt
<1>3. Sound(p, fs) /\ InOrder(es, fs)
  BY <1>2 DEF LeftOf, InOrder
<1>4. In(es) \subseteq Indices /\ es[n] \in In(es)
  BY <1>0, InFinite DEF In
<1>5. \A i \in In(es) : p.to[i] = IF i = es[n] THEN q.to[i] \ ships ELSE q.to[i]
  BY <1>1, <1>4 DEF RemovedAt
<1>6. In(fs) \subseteq In(es) /\ \A i \in In(es) : i \notin In(fs) => p.to[i] = {}
  BY <1>2 DEF LeftOf, IsFree
<1>7. AllBut(ReadBy(q, In(es), w), es[n], ReadBy(p, In(fs), w))
  <2>1. \A i \in In(es) : w \in p.to[i] <=> w \in q.to[i] /\ i # es[n]
    BY <1>5
  <2> QED
    BY <1>6, <2>1 DEF ReadBy, AllBut
<1>8. TakenFrom(Mail(q, t, w), t[es[n]], Mail(p, t, w))
  BY <1>3, <1>7, MailTaken
<1>9. ASSUME NEW v, v # w PROVE Mail(p, t, v) = Mail(q, t, v)
  <2>1. \A i \in In(es) : v \in p.to[i] <=> v \in q.to[i]
    BY <1>5, <1>9
  <2>2. ReadBy(p, In(fs), v) = ReadBy(q, In(es), v)
    BY <1>6, <2>1 DEF ReadBy
  <2> QED
    BY <1>3, <2>2, MailAgrees
<1> QED
  BY <1>8, <1>9

\* A table without a free slot holds as many unread messages as it has slots, but for those
\* that the senders reserve.
LEMMA Crowded ==
    ASSUME NEW q, NEW es, NEW c, NEW x, Whole(q, es, c, x),
           \A w \in Ships : Reserving(c, w) => w \in Senders, ~HasFree(q),
           NEW t, NEW P, \A e : e \in P <=> \E w \in Ships : \E k \in DOMAIN Mail(q, t, w) : e = <<w, k>>
    PROVE  Cardinality(P) >= Slots - Cardinality(Senders)
<1>1. Sound(q, es) /\ KNPLAY \in Nat /\ Slots \in Nat /\ Senders \subseteq Ships
  BY SlotsAssumption DEF Whole, SlotsAssumption
<1>2. /\ In(es) \subseteq Indices /\ IsFiniteSet(In(es))
      /\ IsFiniteSet(Indices) /\ Cardinality(Indices) = Slots
  BY <1>1, InFinite
<1>3. PICK L : L = [w \in Ships |-> CHOOSE s : Listed(q, es, w, s)]
  OBVIOUS
<1>4. ASSUME NEW w \in Ships PROVE Listed(q, es, w, L[w])
  <2>1. \E s : Listed(q, es, w, s)
    BY <1>1, MailExists
  <2> QED
    BY <1>3, <2>1
<1>5. ASSUME NEW w \in Ships PROVE DOMAIN Mail(q, t, w) = 1..Len(L[w])
  <2>1. Listed(q, es, w, L[w])
    BY <1>4
  <2>2. Mail(q, t, w) = [k \in 1..Len(L[w]) |-> t[L[w][k]]]
    BY <1>1, <2>1, MailIs
  <2> QED
    BY <2>2
<1>6. ASSUME NEW w \in Ships PROVE DOMAIN Mail(q, t, w) \subseteq 1..Slots
  <2>1. PICK H : H = Mine(q, es, w)
    OBVIOUS
  <2>2. Mail(q, t, w) = [k \in 1..Cardinality(H) |-> t[es[Nth(H, k)]]]
    BY <1>1, <2>1, MailEnumerated
  <2>3. PICK all : all = 1..Len(es)
    OBVIOUS
  <2>4. Len(es) \in Nat /\ Len(es) <= Slots
    BY <1>1, ListFacts DEF Sound
  <2>5. H \subseteq all /\ IsFiniteSet(all) /\ Cardinality(all) = Len(es)
    <3>1. IsFiniteSet(1..Len(es)) /\ Cardinality(1..Len(es)) = IF 1 > Len(es) THEN 0 ELSE Len(es) - 1 + 1
      BY <2>4, FS_Interval
    <3>2. Cardinality(1..Len(es)) = Len(es)
      BY <2>4, <3>1
    <3> QED
      BY <2>1, <2>3, <3>1, <3>2 DEF Mine
  <2>6. IsFiniteSet(H) /\ Cardinality(H) <= Len(es)
    BY <2>5, FS_Subset
  <2>7. Cardinality(H) \in Nat
    BY <2>6, FS_CardinalityType
  <2> QED
    BY <1>1, <2>2, <2>4, <2>6, <2>7
<1>7. IsFiniteSet(P)
  <2>1. PICK A, B : A = Ships /\ B = 1..Slots
    OBVIOUS
  <2>2. IsFiniteSet(A) /\ IsFiniteSet(B)
    BY <1>1, <2>1, FS_Interval DEF Ships
  <2>3. IsFiniteSet(A \X B)
    BY <2>2, FS_Product
  <2>4. P \subseteq A \X B
    BY <1>6, <2>1
  <2> QED
    BY <2>3, <2>4, FS_Subset
<1>8. PICK g : g = [e \in P |-> L[e[1]][e[2]]]
  OBVIOUS
<1>9. ASSUME NEW e \in P PROVE g[e] \in In(es)
  <2>0. PICK w \in Ships : \E k \in DOMAIN Mail(q, t, w) : e = <<w, k>>
    OBVIOUS
  <2>1. PICK k \in DOMAIN Mail(q, t, w) : e = <<w, k>>
    BY <2>0
  <2>2. k \in 1..Len(L[w]) /\ g[e] = L[w][k]
    BY <1>5, <1>8, <2>1
  <2>3. L[w][k] \in ReadBy(q, In(es), w)
    BY <1>4, <2>2 DEF Listed
  <2> QED
    BY <2>2, <2>3 DEF ReadBy
<1>10. ASSUME NEW i \in In(es) PROVE \E e \in P : g[e] = i
  <2>1. q.to[i] # {} /\ q.to[i] \subseteq Ships
    <3>1. \A k \in 1..Len(es) : q.to[es[k]] # {}
      BY <1>1 DEF Sound
    <3>2. i \in Indices /\ q \in Queues
      BY <1>1, <1>2 DEF Sound
    <3>3. q.to[i] \subseteq Ships
      BY <3>2 DEF Queues
    <3> QED
      BY <3>1, <3>3 DEF In
  <2>2. PICK w \in Ships : w \in q.to[i]
    BY <2>1
  <2>3. i \in ReadBy(q, In(es), w)
    BY <2>2 DEF ReadBy
  <2>4. PICK k \in 1..Len(L[w]) : L[w][k] = i
    BY <1>4, <2>3 DEF Listed
  <2>5. k \in DOMAIN Mail(q, t, w)
    BY <1>5
  <2>6. PICK e : e = <<w, k>>
    OBVIOUS
  <2>7. e \in P
    BY <2>5, <2>6
  <2>8. g[e] = i
    BY <1>8, <2>4, <2>6, <2>7
  <2> QED
    BY <2>7, <2>8
<1>11. g \in Surjection(P, In(es))
  <2>1. g \in [P -> In(es)]
    BY <1>8, <1>9
  <2> QED
    BY <1>10, <2>1, Fun_IsSurj
<1>12. Cardinality(In(es)) <= Cardinality(P) /\ Cardinality(P) \in Nat /\ Cardinality(In(es)) \in Nat
  BY <1>2, <1>7, <1>11, FS_Surjection, FS_CardinalityType
<1>13. PICK R : /\ HasRoom(q, es, R)
                /\ Cardinality(R) \in Nat /\ Cardinality(R) <= Cardinality(Senders)
  BY RoomFor
<1>14. IsFiniteSet(R) /\ \A i \in Indices \ In(es) : i \in R
  BY <1>13 DEF HasRoom, HasFree
<1>15. PICK U : U = In(es) \cup R
  OBVIOUS
<1>16. IsFiniteSet(U) /\ Cardinality(U) <= Cardinality(In(es)) + Cardinality(R) /\ Cardinality(U) \in Nat
  <2>1. /\ IsFiniteSet(U) /\ IsFiniteSet(In(es) \cap R)
        /\ Cardinality(U) = Cardinality(In(es)) + Cardinality(R) - Cardinality(In(es) \cap R)
    BY <1>2, <1>14, <1>15, FS_Union, FS_Intersection
  <2>2. Cardinality(In(es) \cap R) \in Nat /\ Cardinality(U) \in Nat
    BY <2>1, FS_CardinalityType
  <2> QED
    BY <1>12, <1>13, <2>1, <2>2
<1>17. Slots <= Cardinality(U)
  <2>1. Indices \subseteq U
    BY <1>14, <1>15
  <2> QED
    BY <1>2, <1>16, <2>1, FS_Subset
<1>18. Cardinality(Senders) \in Nat
  <2>1. IsFiniteSet(Ships)
    BY <1>1, FS_Interval DEF Ships
  <2>2. IsFiniteSet(Senders)
    BY <1>1, <2>1, FS_Subset
  <2> QED
    BY <2>2, FS_CardinalityType
<1> QED
  BY <1>1, <1>12, <1>13, <1>16, <1>17, <1>18

-----------------------------------------------------------------------------
\* The steps, seen from the mailboxes.
LEMMA Crowding ==
    ASSUME IInv, ListWellFormed, ~HasFree(queue)
    PROVE  Boxes!Unread >= Slots - Cardinality(Senders)
<1>1. PICK q, es, c, x, t : q = queue /\ es = Entries(queue) /\ c = pc /\ x = x2 /\ t = text
  OBVIOUS
<1>2. Whole(q, es, c, x) /\ ~HasFree(q)
  BY <1>1, WholeNow
<1>3. \A w \in Ships : Reserving(c, w) => w \in Senders
  BY <1>1 DEF IInv, Composing, Reserving
<1>4. PICK P : P = UNION {{<<w, k>> : k \in DOMAIN [v \in Ships |-> MailOf(v)][w]} : w \in Ships}
  OBVIOUS
<1>5. \A w \in Ships : [v \in Ships |-> MailOf(v)][w] = Mail(q, t, w)
  BY <1>1, MailOfIs
<1>6. \A e : e \in P <=> \E w \in Ships : \E k \in DOMAIN Mail(q, t, w) : e = <<w, k>>
  BY <1>4, <1>5
<1>7. Cardinality(P) >= Slots - Cardinality(Senders)
  BY <1>2, <1>3, <1>6, Crowded
<1>8. Boxes!Unread = Cardinality(P)
  BY <1>4, Zenon DEF Boxes!Unread, Boxes!Cardinality, Cardinality
<1> QED
  BY <1>7, <1>8

\* A mailbox that keeps its mail or, in a full table, loses it; new is what joins it.
Posted(v, new) ==
    \/ MailOf(v)' = MailOf(v) \o new
    \/ ~HasFree(queue) /\ MailOf(v)' = <<>> \o new

\* A step by which every mailbox is kept or, in a full table, lost, and some get a message.
LEMMA Posting ==
    ASSUME IInv, ListWellFormed, buffer' = buffer, NEW m \in Messages,
           \A v \in Ships : \E new \in {<<>>, <<m>>} : Posted(v, new)
    PROVE  Boxes!Next
<1>1. SUFFICES Boxes!Post(m)
  BY DEF Boxes!Next
<1>2. PICK A, B : A = [w \in Ships |-> MailOf(w)] /\ B = [w \in Ships |-> MailOf(w)']
  OBVIOUS
<1>3. ASSUME NEW v \in Ships PROVE \E old \in Boxes!Kept(v), new \in {<<>>, <<m>>} : B[v] = old \o new
  <2>1. PICK new \in {<<>>, <<m>>} : Posted(v, new)
    OBVIOUS
  <2>2. A[v] = MailOf(v) /\ B[v] = MailOf(v)'
    BY <1>2
  <2>3. CASE B[v] = A[v] \o new
    <3>1. A[v] \in Boxes!Kept(v)
      BY <1>2 DEF Boxes!Kept
    <3> QED
      BY <2>3, <3>1
  <2>4. CASE ~HasFree(queue) /\ B[v] = <<>> \o new
    <3>1. <<>> \in Boxes!Kept(v)
      BY <2>4, Crowding DEF Boxes!Kept
    <3> QED
      BY <2>4, <3>1
  <2> QED
    BY <2>1, <2>2, <2>3, <2>4 DEF Posted
<1> QED
  BY <1>2, <1>3 DEF Boxes!Post

\* The mailbox of w loses its first message, to the screen or with the ship.
LEMMA Taking ==
    ASSUME TypeOK, NEW w \in Ships, NEW m, TakenFrom(MailOf(w), m, MailOf(w)'),
           \A v \in Ships : v # w => MailOf(v)' = MailOf(v),
           buffer' \in {[buffer EXCEPT ![w] = m], buffer}
    PROVE  Boxes!Next
<1>1. PICK A, B : A = [v \in Ships |-> MailOf(v)] /\ B = [v \in Ships |-> MailOf(v)']
  OBVIOUS
<1>2. A[w] # <<>> /\ Head(A[w]) = m /\ B[w] = Tail(A[w])
  BY <1>1 DEF TakenFrom
<1>3. B = [A EXCEPT ![w] = Tail(@)]
  <2>1. \A v \in Ships : v # w => B[v] = A[v]
    BY <1>1
  <2> QED
    BY <1>1, <1>2, <2>1
<1>4. CASE buffer' = [buffer EXCEPT ![w] = m]
  <2>1. Boxes!Take(w)
    BY <1>1, <1>2, <1>3, <1>4 DEF Boxes!Take
  <2> QED
    BY <2>1 DEF Boxes!Next
<1>5. CASE buffer' = buffer
  <2>1. Boxes!Discard(w)
    BY <1>1, <1>2, <1>3, <1>5 DEF Boxes!Discard
  <2> QED
    BY <2>1 DEF Boxes!Next
<1> QED
  BY <1>4, <1>5

\* The mailboxes stay as they are.
LEMMA Unposted ==
    ASSUME buffer' = buffer, \A v \in Ships : MailOf(v)' = MailOf(v)
    PROVE  UNCHANGED (Boxes!boxes)
BY DEF Boxes!boxes

\* A mailbox is a sequence.
LEMMA MailSeq ==
    ASSUME IInv, ListWellFormed, NEW w
    PROVE  \E S : MailOf(w) \in Seq(S)
<1>1. PICK q, es, t : q = queue /\ es = Entries(queue) /\ t = text
  OBVIOUS
<1>2. Sound(q, es)
  BY <1>1, SoundNow
<1>3. PICK s : Listed(q, es, w, s)
  BY <1>2, MailExists
<1>4. Len(s) \in Nat /\ Mail(q, t, w) = Through(t, s, Len(s))
  BY <1>2, <1>3, MailIs DEF Through
<1>5. PICK A : A = Mail(q, t, w)
  OBVIOUS
<1>6. \E S : A \in Seq(S)
  BY <1>4, <1>5, Mapped
<1> QED
  BY <1>1, <1>5, <1>6, MailOfIs

\* RSRV: every mailbox is kept, or lost if there was no free slot.
LEMMA RoomMail ==
    ASSUME IInv, ListWellFormed, NEW w \in Ships, pc[w] = "prompt",
           NEW q, q = MakeRoom(queue), NEW i, i = RoomIn(q), NEW p, p = Reserved(q, i),
           NEW u, \A j \in Indices : j # i => u[j] = text[j]
    PROVE  \E fs, d, y :
              /\ Whole(p, fs, d, y) /\ d = [pc EXCEPT ![w] = "publish"] /\ y[w].slot = i
              /\ \A v \in Ships : \/ Mail(p, u, v) = MailOf(v)
                                  \/ ~HasFree(queue) /\ Mail(p, u, v) = <<>>
<1>1. PICK fs : /\ RoomMade(queue, Entries(queue), q)
                /\ LeftOf(queue, Entries(queue), q, fs) /\ Whole(q, fs, pc, x2)
                /\ q \in Queues /\ i \in Indices /\ IsFree(q, i)
  BY RoomIs
<1>2. PICK o, es, t, c, x, d, y :
        /\ o = queue /\ es = Entries(queue) /\ t = text /\ c = pc /\ x = x2
        /\ d = [pc EXCEPT ![w] = "publish"]
        /\ y = [x2 EXCEPT ![w] = [prev |-> Nowhere, slot |-> i]]
  OBVIOUS
<1>3. /\ ~Reserving(c, w) /\ Reserving(d, w) /\ y[w].slot = i
      /\ \A v \in Ships \ {w} : d[v] = c[v] /\ y[v] = x[v]
  BY <1>2 DEF Reserving, IInv, TypeOK
<1>4. Whole(q, fs, c, x) /\ Sound(o, es) /\ LeftOf(o, es, q, fs) /\ RoomMade(o, es, q)
  BY <1>1, <1>2, SoundNow
<1>5. Whole(p, fs, d, y) /\ Sound(p, fs)
  <2>1. Whole(Reserved(q, i), fs, d, y)
    BY <1>1, <1>3, <1>4, WholeReserved
  <2> QED
    BY <2>1 DEF Whole
<1>6. i \notin In(fs) /\ In(fs) \subseteq Indices /\ In(es) \subseteq Indices
  BY <1>1, <1>4, FreeOutside, InFinite DEF Whole
<1>7. ASSUME NEW v PROVE ReadBy(p, In(fs), v) = ReadBy(q, In(fs), v)
  BY <1>1, <1>6, ReservedReads
<1>8. ASSUME NEW v \in Ships, \A j \in In(es) : v \in q.to[j] <=> v \in o.to[j]
      PROVE  Mail(p, u, v) = Mail(o, t, v)
  <2>1. InOrder(es, fs) /\ ReadBy(q, In(fs), v) = ReadBy(o, In(es), v)
    BY <1>4, <1>8, LeftMail
  <2>2. ReadBy(p, In(fs), v) = ReadBy(o, In(es), v)
    BY <1>7, <2>1
  <2>3. \A j \in ReadBy(o, In(es), v) : u[j] = t[j]
    <3>1. SUFFICES ASSUME NEW j \in ReadBy(o, In(es), v) PROVE u[j] = t[j]
      OBVIOUS
    <3>2. j \in In(fs)
      BY <2>2, <3>1 DEF ReadBy
    <3> QED
      BY <1>2, <1>6, <3>2
  <2> QED
    BY <1>4, <1>5, <2>1, <2>2, <2>3, MailAgrees
<1>9. ASSUME NEW v \in Ships, \A j \in In(es) : v \notin q.to[j]
      PROVE  Mail(p, u, v) = <<>>
  <2>1. In(fs) \subseteq In(es)
    BY <1>4 DEF LeftOf
  <2>2. ReadBy(p, In(fs), v) = {}
    BY <1>7, <1>9, <2>1 DEF ReadBy
  <2> QED
    BY <1>5, <2>2, MailLost
<1>10. ASSUME NEW v \in Ships
       PROVE  Mail(p, u, v) = Mail(o, t, v) \/ (~HasFree(o) /\ Mail(p, u, v) = <<>>)
  <2>1. CASE HasFree(o)
    <3>1. q = o
      BY <1>4, <2>1 DEF RoomMade
    <3>2. \A j \in In(es) : v \in q.to[j] <=> v \in o.to[j]
      BY ONLY <3>1
    <3>3. Mail(p, u, v) = Mail(o, t, v)
      BY <1>8, <3>2
    <3> QED
      BY <3>3
  <2>2. CASE ~HasFree(o)
    <3>1. \/ \A j \in In(es) : v \in q.to[j] <=> v \in o.to[j]
          \/ \A j \in In(es) : v \notin q.to[j]
      BY <1>4 DEF RoomMade, WholeMail
    <3>2. Mail(p, u, v) = Mail(o, t, v) \/ Mail(p, u, v) = <<>>
      <4>1. CASE \A j \in In(es) : v \in q.to[j] <=> v \in o.to[j]
        <5>1. Mail(p, u, v) = Mail(o, t, v)
          BY <1>8, <4>1
        <5> QED
          BY <5>1
      <4>2. CASE \A j \in In(es) : v \notin q.to[j]
        <5>1. Mail(p, u, v) = <<>>
          BY <1>9, <4>2
        <5> QED
          BY <5>1
      <4> QED
        BY <3>1, <4>1, <4>2
    <3> QED
      BY <2>2, <3>2
  <2> QED
    BY <2>1, <2>2
<1>11. \A v \in Ships : MailOf(v) = Mail(o, t, v)
  BY <1>2, MailOfIs
<1> QED
  BY <1>2, <1>3, <1>5, <1>10, <1>11

\* A message that nobody has yet.
LEMMA NothingPosted ==
    ASSUME IInv, ListWellFormed, NEW w \in Ships, pc[w] = "prompt",
           queue' = Reserved(MakeRoom(queue), RoomIn(MakeRoom(queue))), buffer' = buffer,
           \A j \in Indices : j # RoomIn(MakeRoom(queue)) => text'[j] = text[j]
    PROVE  Boxes!Next
<1>1. PICK q, i, p, u : q = MakeRoom(queue) /\ i = RoomIn(q) /\ p = Reserved(q, i) /\ u = text'
  OBVIOUS
<1>2. \A v \in Ships : Mail(p, u, v) = MailOf(v) \/ (~HasFree(queue) /\ Mail(p, u, v) = <<>>)
  BY <1>1, RoomMail
<1>3. queue' = p
  BY <1>1
<1>4. \A v \in Ships : MailOf(v)' = Mail(p, u, v)
  BY <1>1, <1>3, MailOfIs
<1>5. PICK m \in Messages : TRUE
  <2>1. text[0] \in Messages
    BY SlotZero DEF IInv, TypeOK
  <2> QED
    BY <2>1
<1>6. ASSUME NEW v \in Ships PROVE \E new \in {<<>>, <<m>>} : Posted(v, new)
  <2>1. MailOf(v)' = MailOf(v) \/ (~HasFree(queue) /\ MailOf(v)' = <<>>)
    BY <1>2, <1>4
  <2>2. \E S : MailOf(v) \in Seq(S)
    BY MailSeq
  <2>3. MailOf(v) \o <<>> = MailOf(v) /\ <<>> \o <<>> = <<>>
    BY <2>2, ConcatEmptySeq
  <2>4. Posted(v, <<>>)
    BY <2>1, <2>3 DEF Posted
  <2> QED
    BY <2>4
<1> QED
  BY <1>6, Posting

\* UPDT: the message joins the mailboxes of its recipients.
LEMMA MailSent ==
    ASSUME IInv, ListWellFormed, NEW w \in Ships, NEW q, NEW i, NEW fs, NEW c, NEW y,
           Whole(q, fs, c, y), Reserving(c, w), y[w].slot = i, dbits[w] # {},
           \A v \in Ships \ {w} : c[v] = pc[v],
           Published(w, q, i), buffer' = buffer, text'[i] \in Messages,
           \A v \in Ships : \/ Mail(q, text', v) = MailOf(v)
                            \/ ~HasFree(queue) /\ Mail(q, text', v) = <<>>
    PROVE  Boxes!Next
<1>1. PICK ships, d, p, gs, u :
        /\ ships = dbits[w] /\ d = [pc EXCEPT ![w] = "ready"]
        /\ p = Linked(q, i, ships) /\ gs = Append(fs, i) /\ u = text'
  OBVIOUS
<1>2. ships \in SUBSET Ships /\ ships # {} /\ queue' = p
  BY <1>1 DEF IInv, TypeOK, Published
<1>3. ~Reserving(d, w) /\ \A v \in Ships \ {w} : d[v] = c[v]
  BY <1>1 DEF Reserving, IInv, TypeOK
<1>4. Sound(p, gs)
  <2>1. Whole(Linked(q, i, ships), Append(fs, i), d, y)
    BY <1>2, <1>3, WholeLinked
  <2> QED
    BY <1>1, <2>1 DEF Whole
<1>5. Sound(q, fs) /\ i \in Indices /\ i \notin In(fs)
  BY DEF Whole, Owned
<1>6. ASSUME NEW v PROVE Mail(p, u, v) = Mail(q, u, v) \o Joining(u, i, ships, v)
  <2>1. Joined(q, fs, i, ships, p, gs)
    BY <1>1, <1>4, <1>5 DEF Joined
  <2> QED
    BY <2>1, MailPosted
<1>7. ASSUME NEW v \in Ships PROVE \E new \in {<<>>, <<u[i]>>} : Posted(v, new)
  <2>1. PICK new \in {<<>>, <<u[i]>>} : Mail(p, u, v) = Mail(q, u, v) \o new
    BY <1>6 DEF Joining
  <2>2. MailOf(v)' = Mail(p, u, v)
    BY <1>1, <1>2, MailOfIs
  <2>3. Mail(q, u, v) = MailOf(v) \/ (~HasFree(queue) /\ Mail(q, u, v) = <<>>)
    BY <1>1
  <2>4. Posted(v, new)
    BY <2>1, <2>2, <2>3 DEF Posted
  <2> QED
    BY <2>4
<1>8. PICK m \in Messages : m = u[i]
  BY <1>1
<1>9. \A v \in Ships : \E new \in {<<>>, <<m>>} : Posted(v, new)
  BY <1>7, <1>8
<1> QED
  BY <1>9, Posting

\* RSRV alone: TooShort, and a Send whose UPDT sleeps.
LEMMA TooShortMail ==
    ASSUME IInv, ListWellFormed, NEW w \in Ships, TooShort(w)
    PROVE  Boxes!Next
<1>1. pc[w] = "prompt" /\ buffer' = buffer /\ text' = text
  BY DEF TooShort, Is
<1>2. queue' = Reserved(MakeRoom(queue), RoomIn(MakeRoom(queue)))
  BY DEF TooShort
<1>3. \A j \in Indices : j # RoomIn(MakeRoom(queue)) => text'[j] = text[j]
  BY <1>1
<1> QED
  BY <1>1, <1>2, <1>3, NothingPosted

\* RSRV, and UPDT at once or after a sleep.
LEMMA SendMail ==
    ASSUME IInv, IInv', ListWellFormed, NEW w \in Senders, NEW m \in Texts[w], Send(w, m)
    PROVE  Boxes!Next
<1>1. PICK q, i, p, u : q = MakeRoom(queue) /\ i = RoomIn(q) /\ p = Reserved(q, i) /\ u = text'
  OBVIOUS
<1>2. /\ pc[w] = "prompt" /\ buffer' = buffer /\ text' = [text EXCEPT ![i] = m]
      /\ \/ Published(w, Reserved(q, i), i)
         \/ queue' = Reserved(q, i)
  BY <1>1 DEF Send, Is
<1>3. w \in Ships /\ i \in Indices
  BY <1>1, RoomIs, SlotsAssumption DEF SlotsAssumption
<1>4. \A j \in Indices : j # i => text'[j] = text[j]
  BY <1>2 DEF IInv, TypeOK
<1>5. CASE Published(w, Reserved(q, i), i)
  <2>1. PICK fs, d, y :
          /\ Whole(p, fs, d, y) /\ d = [pc EXCEPT ![w] = "publish"] /\ y[w].slot = i
          /\ \A v \in Ships : \/ Mail(p, u, v) = MailOf(v)
                              \/ ~HasFree(queue) /\ Mail(p, u, v) = <<>>
    <3>1. \A j \in Indices : j # i => u[j] = text[j]
      BY <1>1, <1>4
    <3>2. pc[w] = "prompt" /\ q = MakeRoom(queue) /\ i = RoomIn(q) /\ p = Reserved(q, i)
      BY <1>1, <1>2
    <3> QED
      BY ONLY IInv, ListWellFormed, <1>3, <3>1, <3>2, RoomMail
  <2>2. Reserving(d, w) /\ \A v \in Ships \ {w} : d[v] = pc[v]
    BY <1>3, <2>1 DEF Reserving, IInv, TypeOK
  <2>3. dbits[w] # {} /\ text'[i] \in Messages
    BY <1>2, <1>3 DEF IInv, Composing, TypeOK
  <2>4. Published(w, p, i)
    BY <1>1, <1>5
  <2>5. \A v \in Ships : \/ Mail(p, text', v) = MailOf(v)
                         \/ ~HasFree(queue) /\ Mail(p, text', v) = <<>>
    BY <1>1, <2>1
  <2> QED
    BY <1>2, <1>3, <2>1, <2>2, <2>3, <2>4, <2>5, MailSent
<1>6. CASE queue' = Reserved(q, i)
  BY <1>1, <1>2, <1>3, <1>4, <1>6, NothingPosted
<1> QED
  BY <1>2, <1>5, <1>6

\* UPDT after a sleep.
LEMMA PublishMail ==
    ASSUME IInv, IInv', ListWellFormed, NEW w \in Ships, Publish(w)
    PROVE  Boxes!Next
<1>1. PICK q, i, es, c, x :
        q = queue /\ i = x2[w].slot /\ es = Entries(queue) /\ c = pc /\ x = x2
  OBVIOUS
<1>2. /\ pc[w] = "publish" /\ Published(w, queue, x2[w].slot)
      /\ text' = text /\ buffer' = buffer
  BY DEF Publish, Is
<1>3. Whole(q, es, c, x) /\ Reserving(c, w) /\ x[w].slot = i /\ i \in Indices
  BY <1>1, <1>2, WholeNow DEF Reserving, IInv, Claims
<1>4. dbits[w] # {} /\ text'[i] \in Messages /\ \A v \in Ships \ {w} : c[v] = pc[v]
  BY <1>1, <1>2, <1>3 DEF IInv, Composing, TypeOK
<1>5. Published(w, q, i)
  BY <1>1, <1>2
<1>6. \A v \in Ships : \/ Mail(q, text', v) = MailOf(v)
                       \/ ~HasFree(queue) /\ Mail(q, text', v) = <<>>
  BY <1>1, <1>2, MailOfIs
<1> QED
  BY <1>2, <1>3, <1>4, <1>5, <1>6, MailSent

\* REMV of what a search finds: the captain has the oldest of his messages.
LEMMA TakenMail ==
    ASSUME IInv, ListWellFormed, NEW w \in Ships, Hits(queue, w) # {}, text' = text,
           queue' = RemoveShips(queue, Place(queue, w), {w}),
           NEW m, m = text[Place(queue, w).slot],
           buffer' \in {[buffer EXCEPT ![w] = m], buffer}
    PROVE  Boxes!Next
<1>1. PICK q, es, t, p, ships :
        q = queue /\ es = Entries(queue) /\ t = text /\ p = queue' /\ ships = {w}
  OBVIOUS
<1>2. Sound(q, es) /\ q \in Queues /\ Lists(q, es)
  BY <1>1, SoundNow DEF Sound
<1>3. PICK n \in 1..Len(es) :
        /\ w \in q.to[es[n]] /\ Place(q, w) = At(es, n)
        /\ \A k \in 1..Len(es) : w \in q.to[es[k]] => n <= k
  <2>1. Hits(q, w) # {}
    BY <1>1
  <2> QED
    BY <1>2, <2>1, PlaceAt
<1>4. FirstOf(q, es, w, n)
  BY <1>3 DEF FirstOf
<1>5. p = RemoveShips(q, At(es, n), ships) /\ m = t[es[n]]
  <2>1. At(es, n).slot = es[n]
    BY DEF At
  <2> QED
    BY <1>1, <1>3, <2>1
<1>6. /\ TakenFrom(Mail(q, t, w), t[es[n]], Mail(p, t, w))
      /\ \A v : v # w => Mail(p, t, v) = Mail(q, t, v)
  <2>1. ships = {w} /\ p = RemoveShips(q, At(es, n), ships)
    BY <1>1, <1>5
  <2> QED
    BY ONLY <1>2, <1>4, <2>1, RemovedMail
<1>7. \A v : MailOf(v) = Mail(q, t, v) /\ MailOf(v)' = Mail(p, t, v)
  BY <1>1, MailOfIs
<1>8. TakenFrom(MailOf(w), m, MailOf(w)') /\ \A v \in Ships : v # w => MailOf(v)' = MailOf(v)
  BY <1>5, <1>6, <1>7
<1> QED
  BY <1>8, Taking DEF IInv

\* GETMSG: its REMV takes the message out of the mailbox, now or after a sleep.
LEMMA ReadMail ==
    ASSUME IInv, ListWellFormed, NEW w \in Ships, Read(w)
    PROVE  Boxes!Next \/ UNCHANGED (Boxes!boxes)
<1>1. PICK place, m : place = Place(queue, w) /\ m = text[place.slot]
  OBVIOUS
<1>2. /\ Hits(queue, w) # {} /\ text' = text
      /\ \/ /\ queue' = RemoveShips(queue, place, {w})
            /\ buffer' \in {[buffer EXCEPT ![w] = m], buffer}
         \/ queue' = queue /\ buffer' = buffer
  BY <1>1 DEF Read, Shown
<1>3. CASE /\ queue' = RemoveShips(queue, place, {w})
           /\ buffer' \in {[buffer EXCEPT ![w] = m], buffer}
  <2>1. Boxes!Next
    BY <1>1, <1>2, <1>3, TakenMail
  <2> QED
    BY <2>1
<1>4. CASE queue' = queue /\ buffer' = buffer
  <2>1. \A v \in Ships : MailOf(v)' = MailOf(v)
    BY <1>2, <1>4, MailOfIs
  <2>2. UNCHANGED (Boxes!boxes)
    BY <1>4, <2>1, Unposted
  <2> QED
    BY <2>2
<1> QED
  BY <1>2, <1>3, <1>4

\* REMV after a sleep, of what a search would still find there.
LEMMA RemoveMail ==
    ASSUME IInv, ListWellFormed, NEW w \in Ships, Remove(w), ~StaleRemove(w)
    PROVE  Boxes!Next
<1>1. /\ Hits(queue, w) # {} /\ Place(queue, w) = x2[w] /\ text[x2[w].slot] = copied[w]
      /\ queue' = RemoveShips(queue, x2[w], {w}) /\ text' = text
      /\ buffer' \in {[buffer EXCEPT ![w] = copied[w]], buffer}
  BY DEF StaleRemove, Remove, Shown
<1>2. PICK m : m = copied[w]
  OBVIOUS
<1> QED
  BY <1>1, <1>2, TakenMail

\* The slot that is given back was not in the list.
LEMMA CancelMail ==
    ASSUME IInv, ListWellFormed, NEW w \in Ships, Cancel(w)
    PROVE  UNCHANGED (Boxes!boxes)
<1>1. /\ pc[w] = "cancel" /\ pc' = [pc EXCEPT ![w] = "ready"]
      /\ queue' = RemoveAll(queue, x2[w])
      /\ text' = text /\ buffer' = buffer
  BY DEF Cancel, Is, Goto
<1>2. PICK q, es, t, c, x, d, place, p :
        /\ q = queue /\ es = Entries(queue) /\ t = text /\ c = pc /\ x = x2 /\ d = pc'
        /\ place = x2[w] /\ p = queue'
  OBVIOUS
<1>3. Whole(q, es, c, x)
  BY <1>2, WholeNow
<1>4. Reserving(c, w) /\ ~Reserving(d, w) /\ \A v \in Ships \ {w} : d[v] = c[v]
  BY <1>1, <1>2 DEF Reserving, IInv, TypeOK
<1>5. place.slot = x[w].slot /\ place.prev = Nowhere
  BY <1>1, <1>2 DEF IInv, Places, Reserving
<1>6. Sound(q, es) /\ Sound(p, es) /\ Lists(q, es) /\ q \in Queues
  <2>1. Whole(RemoveAll(q, place), es, d, x)
    BY <1>3, <1>4, <1>5, WholeCancelled
  <2>2. p = RemoveAll(q, place)
    BY <1>1, <1>2
  <2> QED
    BY <1>3, <2>1, <2>2 DEF Whole, Sound
<1>7. place.slot \in Indices /\ place.slot \notin In(es) /\ In(es) \subseteq Indices
  BY <1>3, <1>4, <1>5, <1>6, InFinite DEF Whole, Owned
<1>8. \A i \in In(es) : p.to[i] = q.to[i]
  BY <1>1, <1>2, <1>6, <1>7 DEF RemoveAll, Unlink, Queues
<1>9. ASSUME NEW v \in Ships PROVE Mail(p, t, v) = Mail(q, t, v)
  <2>1. ReadBy(p, In(es), v) = ReadBy(q, In(es), v)
    BY <1>8 DEF ReadBy
  <2>2. InOrder(es, es)
    BY <1>6, InOrderItself
  <2> QED
    BY <1>6, <2>1, <2>2, MailAgrees
<1>10. \A v \in Ships : MailOf(v)' = MailOf(v)
  <2>1. \A v : MailOf(v) = Mail(q, t, v) /\ MailOf(v)' = Mail(p, t, v)
    BY <1>1, <1>2, MailOfIs
  <2> QED
    BY <1>9, <2>1
<1> QED
  BY <1>1, <1>10, Unposted

\* SETQM: no mail.
LEMMA EmptyMail ==
    ASSUME NEW c, \A w \in Ships : ~Reserving(c, w), NEW t, NEW w
    PROVE  Mail(EmptyQueue, t, w) = <<>>
<1>1. PICK p, fs, x : p = EmptyQueue /\ fs = <<>> /\ x = c
  OBVIOUS
<1>2. Sound(p, fs)
  BY <1>1, WholeEmpty DEF Whole
<1>3. ReadBy(p, In(fs), w) = {}
  BY <1>1 DEF ReadBy, In
<1>4. Mail(p, t, w) = <<>>
  BY <1>2, <1>3, MailLost
<1> QED
  BY <1>1, <1>4

\* A new galaxy has no mail,
LEMMA RecreateMail ==
    ASSUME Recreate
    PROVE  Boxes!Next
<1>1. /\ \A w \in Ships : pc[w] = "away"
      /\ queue' = EmptyQueue /\ buffer' = buffer
  BY DEF Recreate
<1>2. PICK c, u : c = pc /\ u = text'
  OBVIOUS
<1>3. \A w \in Ships : ~Reserving(c, w)
  BY <1>1, <1>2 DEF Reserving
<1>4. \A w : Mail(EmptyQueue, u, w) = <<>>
  BY <1>3, EmptyMail
<1>5. \A w \in Ships : MailOf(w)' = <<>>
  BY <1>1, <1>2, <1>4, MailOfIs
<1>6. Boxes!Empty
  BY <1>1, <1>5 DEF Boxes!Empty
<1> QED
  BY <1>6 DEF Boxes!Next

\* ... as at first.
LEMMA InitialMail ==
    ASSUME Init
    PROVE  Boxes!Init
<1>1. /\ \A w \in Ships : pc[w] = "away"
      /\ queue = EmptyQueue /\ buffer \in {[w \in Ships |-> m] : m \in Messages}
  BY DEF Init
<1>2. PICK c, u : c = pc /\ u = text
  OBVIOUS
<1>3. \A w \in Ships : ~Reserving(c, w)
  BY <1>1, <1>2 DEF Reserving
<1>4. \A w : Mail(EmptyQueue, u, w) = <<>>
  BY <1>3, EmptyMail
<1>5. \A w \in Ships : MailOf(w) = <<>>
  BY <1>1, <1>2, <1>4, MailOfIs
<1>6. buffer \in [Ships -> Messages]
  BY <1>1
<1> QED
  BY <1>5, <1>6 DEF Boxes!Init

\* A step that leaves queue, texts and screens alone.
LEMMA StillMail ==
    ASSUME queue' = queue, text' = text, buffer' = buffer
    PROVE  UNCHANGED (Boxes!boxes)
<1>1. \A v \in Ships : MailOf(v)' = MailOf(v)
  BY MailOfIs
<1> QED
  BY <1>1, Unposted

\* Every step.
LEMMA StepMail ==
    ASSUME IInv, IInv', Next
    PROVE  \/ Boxes!Next \/ UNCHANGED (Boxes!boxes)
           \/ \E w \in Ships : StaleRemove(w)
<1>1. ListWellFormed /\ Answered
  BY DEF Next
<1>2. ASSUME NEW w \in Ships, Board(w) \/ Leave(w) \/ Miss(w) \/ Refused(w) \/ GiveUp(w)
      PROVE  UNCHANGED (Boxes!boxes)
  BY <1>2, StillMail DEF Board, Leave, Miss, Refused, GiveUp
<1>3. ASSUME NEW w \in Ships, TooShort(w) PROVE Boxes!Next
  BY <1>1, <1>3, TooShortMail
<1>4. ASSUME NEW w \in Ships, Cancel(w) PROVE UNCHANGED (Boxes!boxes)
  BY <1>1, <1>4, CancelMail
<1>5. ASSUME NEW w \in Ships, Publish(w) PROVE Boxes!Next
  BY <1>1, <1>5, PublishMail
<1>6. ASSUME NEW w \in Ships, Read(w) PROVE Boxes!Next \/ UNCHANGED (Boxes!boxes)
  BY <1>1, <1>6, ReadMail
<1>7. ASSUME NEW w \in Ships, Remove(w) PROVE Boxes!Next \/ StaleRemove(w)
  BY <1>1, <1>7, RemoveMail
<1>8. ASSUME NEW w \in Senders, NEW ships \in Addressed[w], Tell(w, ships)
      PROVE  UNCHANGED (Boxes!boxes)
  BY <1>8, StillMail DEF Tell
<1>9. ASSUME NEW w \in Senders, NEW m \in Texts[w], Send(w, m) PROVE Boxes!Next
  BY <1>1, <1>9, SendMail
<1>10. ASSUME Recreate PROVE Boxes!Next
  BY <1>10, RecreateMail
<1> QED
  BY <1>1, <1>2, <1>3, <1>4, <1>5, <1>6, <1>7, <1>8, <1>9, <1>10 DEF Answered

\* The linked table implements one mailbox per ship until a REMV is stale: UPDT posts to
\* all recipients at once, a captain reads his messages in the order of sending and
\* each once, and RSRV loses whole mailboxes, only when the table is full.
THEOREM QueueIsMailboxes == Spec => MailboxSpec
<1>1. Init => Boxes!Init
  BY InitialMail
<1>2. IInv /\ IInv' /\ [Next]_vars =>
        [ListWellFormed => Boxes!Next \/ \E w \in Ships : StaleRemove(w)]_(Boxes!boxes)
  <2>1. ASSUME IInv, IInv', Next
        PROVE  \/ Boxes!Next \/ UNCHANGED (Boxes!boxes)
               \/ \E w \in Ships : StaleRemove(w)
    BY <2>1, StepMail
  <2>2. ASSUME UNCHANGED vars PROVE UNCHANGED (Boxes!boxes)
    BY <2>2, StillMail DEF vars
  <2> QED
    BY <2>1, <2>2
<1> QED
  BY <1>1, <1>2, Invariance, PTL DEF Spec, MailboxSpec

-----------------------------------------------------------------------------
\* Where no REMV is stale.
LEMMA InitialList == Init => ListWellFormed
<1> SUFFICES ASSUME Init PROVE ListWellFormed
  OBVIOUS
<1>1. queue = EmptyQueue /\ \A w \in Ships : pc[w] = "away"
  BY DEF Init
<1>2. PICK q, c, x, es : q = queue /\ c = pc /\ x = x2 /\ es = <<>>
  OBVIOUS
<1>3. \A w \in Ships : ~Reserving(c, w)
  BY <1>1, <1>2 DEF Reserving
<1>4. Whole(q, es, c, x)
  BY <1>1, <1>2, <1>3, WholeEmpty
<1>5. WellFormed(q, c, x)
  BY <1>4, WholeWellFormed
<1> QED
  BY <1>2, <1>5 DEF ListWellFormed, Chain, WellFormed, Reserving

\* ListWellFormed speaks of the queue, PC and X2 alone.
LEMMA StillList ==
    ASSUME ListWellFormed, UNCHANGED vars
    PROVE  ListWellFormed'
<1>1. PICK q, c, x : q = queue /\ c = pc /\ x = x2
  OBVIOUS
<1>2. WellFormed(q, c, x)
  BY <1>1 DEF ListWellFormed, Chain, WellFormed, Reserving
<1>3. q = queue' /\ c = pc' /\ x = x2'
  BY <1>1 DEF vars
<1> QED
  BY <1>2, <1>3 DEF ListWellFormed, Chain, WellFormed, Reserving

\* The list is well formed for good where every REMV that slept finds what SRCH
\* had found: RSRV, UPDT, SRCH and REMV need no more than that of each other.
THEOREM ListWellFormedUnlessStale ==
    Spec /\ [][\A w \in Ships : ~StaleRemove(w)]_vars => []ListWellFormed
<1>1. Init => ListWellFormed
  BY InitialList
<1>2. /\ ListWellFormed
      /\ [ListWellFormed => ListWellFormed' \/ \E w \in Ships : StaleRemove(w)]_vars
      /\ [\A w \in Ships : ~StaleRemove(w)]_vars
      => ListWellFormed'
  <2>1. ASSUME ListWellFormed, UNCHANGED vars PROVE ListWellFormed'
    BY <2>1, StillList
  <2> QED
    BY <2>1
<1> QED
  BY <1>1, <1>2, ListKept, PTL DEF Spec, OnlyStaleBreaks
\* There the linked table is, without exception, one mailbox per ship.
THEOREM MailboxesUnlessStale ==
    Spec /\ [][\A w \in Ships : ~StaleRemove(w)]_vars => Boxes!Spec
<1>1. /\ ListWellFormed
      /\ [Next]_vars /\ [\A w \in Ships : ~StaleRemove(w)]_vars
      /\ [ListWellFormed => Boxes!Next \/ \E w \in Ships : StaleRemove(w)]_(Boxes!boxes)
      => [Boxes!Next]_(Boxes!boxes)
  <2>1. ASSUME UNCHANGED vars PROVE UNCHANGED (Boxes!boxes)
    BY <2>1, StillMail DEF vars
  <2> QED
    BY <2>1
<1> QED
  BY <1>1, ListWellFormedUnlessStale, QueueIsMailboxes, PTL DEF Spec, MailboxSpec, Boxes!Spec
\* At first no message waits.
LEMMA InitialCount == Init => NothingUncounted
<1> SUFFICES ASSUME Init PROVE NothingUncounted
  OBVIOUS
<1>1. queue = EmptyQueue /\ pc = [w \in Ships |-> "away"] /\ msgflg = [w \in Ships |-> 0]
  BY DEF Init
<1>2. PICK q, c, es : q = queue /\ c = pc /\ es = <<>>
  OBVIOUS
<1>3. q \in Queues /\ Lists(q, es)
  <2>1. \A w \in Ships : ~Reserving(c, w)
    BY <1>1, <1>2 DEF Reserving
  <2> QED
    BY <1>1, <1>2, <2>1, WholeEmpty DEF Whole, Sound
<1>4. ASSUME NEW w \in Ships PROVE Cardinality(Hits(q, w)) = 0
  <2>1. Hits(q, w) = {}
    BY <1>2, <1>3, HitsAre
  <2> QED
    BY <2>1, FS_EmptySet
<1> QED
  BY <1>1, <1>2, <1>4 DEF NothingUncounted

\* No captain leaves a message to the ship's next one, whoever evicts, publishes and reads
\* meanwhile, where SRCH is not refused and no REMV is stale.
THEOREM NothingUncountedUnlessRefused ==
    Spec /\ [][\A w \in Ships : ~GiveUp(w) /\ ~StaleRemove(w)]_vars => []NothingUncounted
<1>1. Init => NothingUncounted
  BY InitialCount
<1>2. /\ NothingUncounted
      /\ [NothingUncounted => NothingUncounted' \/ \E w \in Ships : GiveUp(w) \/ StaleRemove(w)]_vars
      /\ [\A w \in Ships : ~GiveUp(w) /\ ~StaleRemove(w)]_vars
      => NothingUncounted'
  <2>1. ASSUME NothingUncounted, UNCHANGED vars PROVE NothingUncounted'
    <3>1. PICK q : q = queue
      OBVIOUS
    <3>2. q = queue' /\ pc = pc' /\ msgflg = msgflg'
      BY <2>1, <3>1 DEF vars
    <3> QED
      BY <2>1, <3>1, <3>2 DEF NothingUncounted
  <2> QED
    BY <2>1
<1> QED
  BY <1>1, <1>2, MessagesCounted, PTL DEF Spec, OnlyRefusedUncounts
====
