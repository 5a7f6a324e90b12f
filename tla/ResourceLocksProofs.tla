------------------------ MODULE ResourceLocksProofs ------------------------
(***************************************************************************)
(* The table of ResourceLocks stays well formed for every set of keys and  *)
(* jobs.  QueueWellFormed is inductive together with the types; the work   *)
(* is in what removing a claim and taking the head do to a queue.          *)
(***************************************************************************)
EXTENDS ResourceLocks, SequenceTheorems, TLAPS

LocksInv == LocksTypeOK /\ QueueWellFormed

-----------------------------------------------------------------------------
(* What the queue operators return.                                        *)

\* Taking one element out of a sequence.
LEMMA RemovalProperties ==
  ASSUME NEW S, NEW q \in Seq(S), NEW i \in 1..Len(q)
  PROVE  LET r == SubSeq(q, 1, i - 1) \o SubSeq(q, i + 1, Len(q))
         IN  /\ r \in Seq(S)
             /\ Len(r) = Len(q) - 1
             /\ \A n \in 1..(Len(q) - 1) : r[n] = IF n < i THEN q[n] ELSE q[n + 1]
<1> DEFINE front == SubSeq(q, 1, i - 1)
           back == SubSeq(q, i + 1, Len(q))
           r == front \o back
<1>0. /\ Len(q) \in Nat
      /\ i \in Int /\ 1 <= i /\ i <= Len(q)
      /\ \A n \in 1..Len(q) : q[n] \in S
  BY ElementOfSeq, LenProperties
<1>1. /\ front \in Seq(S)
      /\ Len(front) = i - 1
      /\ \A n \in 1..(i - 1) : front[n] = q[n]
  <2>1. \A n \in 1..(i - 1) : q[n] \in S
    BY <1>0
  <2>2. /\ SubSeq(q, 1, i - 1) \in Seq(S)
        /\ Len(SubSeq(q, 1, i - 1)) = IF 1 <= i - 1 THEN (i - 1) - 1 + 1 ELSE 0
        /\ \A n \in 1..((i - 1) - 1 + 1) : SubSeq(q, 1, i - 1)[n] = q[1 + n - 1]
    BY <1>0, <2>1, SubSeqProperties
  <2> QED BY <1>0, <2>2
<1>2. /\ back \in Seq(S)
      /\ Len(back) = Len(q) - i
      /\ \A n \in 1..(Len(q) - i) : back[n] = q[n + i]
  <2>1. \A n \in (i + 1)..Len(q) : q[n] \in S
    BY <1>0
  <2>2. /\ SubSeq(q, i + 1, Len(q)) \in Seq(S)
        /\ Len(SubSeq(q, i + 1, Len(q))) = IF i + 1 <= Len(q) THEN Len(q) - (i + 1) + 1 ELSE 0
        /\ \A n \in 1..(Len(q) - (i + 1) + 1) :
              SubSeq(q, i + 1, Len(q))[n] = q[(i + 1) + n - 1]
    BY <1>0, <2>1, SubSeqProperties
  <2> QED BY <1>0, <2>2
<1>3. /\ r \in Seq(S)
      /\ Len(r) = Len(front) + Len(back)
      /\ \A n \in 1..(Len(front) + Len(back)) :
            r[n] = IF n <= Len(front) THEN front[n] ELSE back[n - Len(front)]
  BY <1>1, <1>2, ConcatProperties
<1> HIDE DEF front, back, r
<1>4. ASSUME NEW n \in 1..(Len(q) - 1)
      PROVE  r[n] = IF n < i THEN q[n] ELSE q[n + 1]
  <2>1. CASE n < i
    <3>1. n \in 1..(i - 1) /\ n <= i - 1 /\ n \in 1..(Len(front) + Len(back))
      BY <2>1, <1>0, <1>1, <1>2
    <3> QED BY <3>1, <2>1, <1>1, <1>3
  <2>2. CASE ~(n < i)
    <3>1. /\ n - (i - 1) \in 1..(Len(q) - i)
          /\ (n - (i - 1)) + i = n + 1
          /\ ~(n <= i - 1)
          /\ n \in 1..(Len(front) + Len(back))
      BY <2>2, <1>0, <1>1, <1>2
    <3> QED BY <3>1, <2>2, <1>1, <1>2, <1>3
  <2> QED BY <2>1, <2>2
<1>5. /\ r \in Seq(S)
      /\ Len(r) = Len(q) - 1
      /\ \A n \in 1..(Len(q) - 1) : r[n] = IF n < i THEN q[n] ELSE q[n + 1]
  BY <1>0, <1>1, <1>2, <1>3, <1>4
<1> QED BY <1>5 DEF front, back, r

\* Without takes out exactly the claim of j and keeps the queue injective.
LEMMA WithoutProperties ==
  ASSUME NEW q \in Seq(Jobs), IsInjective(q), NEW j
  PROVE  /\ Without(q, j) \in Seq(Jobs)
         /\ IsInjective(Without(q, j))
         /\ Range(Without(q, j)) = Range(q) \ {j}
<1>1. CASE j \notin Range(q)
  BY <1>1 DEF Without
<1>2. CASE j \in Range(q)
  <2> DEFINE i == CHOOSE n \in DOMAIN q : q[n] = j
             r == Without(q, j)
  <2>1. /\ i \in DOMAIN q /\ q[i] = j
        /\ DOMAIN q = 1..Len(q) /\ Len(q) \in Nat
    BY <1>2, LenProperties DEF Range
  <2>2. r = SubSeq(q, 1, i - 1) \o SubSeq(q, i + 1, Len(q))
    BY <1>2 DEF Without
  <2> HIDE DEF i, r
  <2>3. /\ r \in Seq(Jobs)
        /\ Len(r) = Len(q) - 1
        /\ \A n \in 1..(Len(q) - 1) : r[n] = IF n < i THEN q[n] ELSE q[n + 1]
    BY <2>1, <2>2, RemovalProperties
  <2>4. DOMAIN r = 1..(Len(q) - 1)
    BY <2>3, LenProperties
  <2>5. IsInjective(r)
    <3> SUFFICES ASSUME NEW a \in 1..(Len(q) - 1), NEW b \in 1..(Len(q) - 1), r[a] = r[b]
                 PROVE  a = b
      BY <2>4 DEF IsInjective
    <3> DEFINE at(n) == IF n < i THEN n ELSE n + 1
    <3>1. /\ at(a) \in DOMAIN q /\ at(b) \in DOMAIN q
          /\ q[at(a)] = q[at(b)]
      BY <2>1, <2>3
    <3>2. at(a) = at(b)
      BY <3>1 DEF IsInjective
    <3> QED BY <2>1, <3>2
  <2>6. Range(r) = Range(q) \ {j}
    <3>1. ASSUME NEW x \in Range(r) PROVE x \in Range(q) \ {j}
      <4>1. PICK n \in 1..(Len(q) - 1) : r[n] = x
        BY <2>4 DEF Range
      <4>2. PICK m \in DOMAIN q : q[m] = x /\ m # i
        BY <4>1, <2>1, <2>3
      <4> QED BY <4>2, <2>1 DEF Range, IsInjective
    <3>2. ASSUME NEW x \in Range(q) \ {j} PROVE x \in Range(r)
      <4>1. PICK m \in DOMAIN q : q[m] = x
        BY DEF Range
      <4>2. m # i
        BY <4>1, <2>1
      <4>3. PICK n \in 1..(Len(q) - 1) : r[n] = x
        <5>1. CASE m < i
          BY <5>1, <4>1, <2>1, <2>3
        <5>2. CASE m > i
          <6>1. m - 1 \in 1..(Len(q) - 1) /\ ~(m - 1 < i) /\ (m - 1) + 1 = m
            BY <5>2, <2>1
          <6> QED BY <6>1, <4>1, <2>3
        <5> QED BY <5>1, <5>2, <4>2, <2>1
      <4> QED BY <4>3, <2>4 DEF Range
    <3> QED BY <3>1, <3>2
  <2> QED BY <2>3, <2>5, <2>6 DEF r
<1> QED BY <1>1, <1>2

\* The heir is the head, and the rest is the queue without it.
LEMMA HeirProperties ==
  ASSUME NEW q \in Seq(Jobs), IsInjective(q)
  PROVE  /\ RestOf(q) \in Seq(Jobs)
         /\ IsInjective(RestOf(q))
         /\ HeirOf(q) \in Jobs \cup {NoJob}
         /\ HeirOf(q) = NoJob => RestOf(q) = <<>>
         /\ HeirOf(q) # NoJob => HeirOf(q) \in Range(q)
         /\ HeirOf(q) \notin Range(RestOf(q))
         /\ Range(RestOf(q)) \subseteq Range(q)
<1>1. CASE q = <<>>
  BY <1>1, NoJobAssumption DEF HeirOf, RestOf, Range, IsInjective
<1>2. CASE q # <<>>
  <2>1. /\ HeirOf(q) = Head(q) /\ RestOf(q) = Tail(q)
    BY <1>2 DEF HeirOf, RestOf
  <2>2. /\ Len(q) \in Nat /\ DOMAIN q = 1..Len(q) /\ Len(q) > 0
        /\ Head(q) = q[1] /\ q[1] \in Jobs
    BY <1>2, EmptySeq, LenProperties, ElementOfSeq
  <2>3. /\ Tail(q) \in Seq(Jobs)
        /\ DOMAIN Tail(q) = 1..(Len(q) - 1)
        /\ \A n \in 1..(Len(q) - 1) : Tail(q)[n] = q[n + 1]
    BY <1>2, HeadTailProperties, LenProperties
  <2>4. IsInjective(Tail(q))
    <3> SUFFICES ASSUME NEW a \in 1..(Len(q) - 1), NEW b \in 1..(Len(q) - 1),
                        Tail(q)[a] = Tail(q)[b]
                 PROVE  a = b
      BY <2>3 DEF IsInjective
    <3>1. a + 1 \in DOMAIN q /\ b + 1 \in DOMAIN q /\ q[a + 1] = q[b + 1]
      BY <2>2, <2>3
    <3>2. a + 1 = b + 1
      BY <3>1 DEF IsInjective
    <3> QED BY <3>2
  <2>5. Range(Tail(q)) \subseteq Range(q)
    BY <2>2, <2>3 DEF Range
  <2>6. q[1] \notin Range(Tail(q))
    <3> SUFFICES ASSUME NEW n \in 1..(Len(q) - 1), Tail(q)[n] = q[1] PROVE FALSE
      BY <2>3 DEF Range
    <3>1. n + 1 \in DOMAIN q /\ 1 \in DOMAIN q /\ q[n + 1] = q[1]
      BY <2>2, <2>3
    <3>2. n + 1 = 1
      BY <3>1 DEF IsInjective
    <3> QED BY <3>2
  <2>7. HeirOf(q) \in Jobs /\ HeirOf(q) \in Range(q)
    BY <2>1, <2>2 DEF Range
  <2> QED BY <2>1, <2>2, <2>3, <2>4, <2>5, <2>6, <2>7, NoJobAssumption
<1> QED BY <1>1, <1>2

\* Queueing a job that is not yet in the queue.
LEMMA EnqueueProperties ==
  ASSUME NEW q \in Seq(Jobs), IsInjective(q), NEW j \in Jobs, j \notin Range(q)
  PROVE  /\ Append(q, j) \in Seq(Jobs)
         /\ IsInjective(Append(q, j))
         /\ Range(Append(q, j)) = Range(q) \cup {j}
<1>0. Append(q, j) \in Seq(Jobs)
  OBVIOUS
<1>1. /\ Len(q) \in Nat
      /\ DOMAIN q = 1..Len(q)
      /\ DOMAIN Append(q, j) = 1..(Len(q) + 1)
      /\ \A n \in 1..Len(q) : Append(q, j)[n] = q[n]
      /\ Append(q, j)[Len(q) + 1] = j
  BY LenProperties
<1>2. \A n \in 1..Len(q) : Append(q, j)[n] # j
  BY <1>1 DEF Range
<1>3. IsInjective(Append(q, j))
  <2> SUFFICES ASSUME NEW a \in 1..(Len(q) + 1), NEW b \in 1..(Len(q) + 1), Append(q, j)[a] = Append(q, j)[b]
               PROVE  a = b
    BY <1>1 DEF IsInjective
  <2>1. CASE a \in 1..Len(q) /\ b \in 1..Len(q)
    BY <2>1, <1>1 DEF IsInjective
  <2>2. CASE a = Len(q) + 1 \/ b = Len(q) + 1
    BY <2>2, <1>1, <1>2
  <2> QED BY <2>1, <2>2, <1>1
<1>4. Range(Append(q, j)) = Range(q) \cup {j}
  BY <1>1 DEF Range
<1> QED BY <1>0, <1>3, <1>4

-----------------------------------------------------------------------------
(* Each operation keeps the table well formed, and what else its callers   *)
(* rely on.                                                                *)

\* The queue of a resource in a well-formed table.
LEMMA QueueFacts ==
  ASSUME LocksInv, NEW k \in Keys
  PROVE  /\ owner[k] \in Jobs \cup {NoJob}
         /\ waiters[k] \in Seq(Jobs)
         /\ IsInjective(waiters[k])
         /\ owner[k] = NoJob => waiters[k] = <<>>
         /\ owner[k] \notin Range(waiters[k])
BY DEF LocksInv, LocksTypeOK, QueueWellFormed

\* A table described resource by resource is well formed if every row is.
LEMMA RowsSuffice ==
  ASSUME NEW o, NEW w,
         owner' = [k \in Keys |-> o[k]], waiters' = [k \in Keys |-> w[k]],
         \A k \in Keys : /\ o[k] \in Jobs \cup {NoJob}
                         /\ w[k] \in Seq(Jobs)
                         /\ IsInjective(w[k])
                         /\ o[k] = NoJob => w[k] = <<>>
                         /\ o[k] \notin Range(w[k])
  PROVE  LocksInv'
BY DEF LocksInv, LocksTypeOK, QueueWellFormed

\* request() never takes a lock from its owner, and concerns k and j only.
LEMMA RequestStep ==
  ASSUME LocksInv, NEW k \in Keys, NEW j \in Jobs, Request(k, j)
  PROVE  /\ LocksInv'
         /\ \A l \in Keys : \A i \in Jobs : owner[l] = i => owner'[l] = i
         /\ \A l \in Keys : \A i \in Jobs \ {j} :
              /\ owner'[l] = i => owner[l] = i
              /\ i \in Range(waiters'[l]) => i \in Range(waiters[l])
         /\ Grantable(k, j) => owner'[k] = j
<1>1. CASE Grantable(k, j)
  <2>1. owner' = [owner EXCEPT ![k] = j] /\ waiters' = waiters
    BY <1>1 DEF Request
  <2>2. owner[k] = j \/ (owner[k] = NoJob /\ waiters[k] = <<>>)
    BY <1>1, QueueFacts DEF Grantable
  <2>3. j \notin Range(waiters[k])
    BY <2>2, QueueFacts DEF Range
  <2>4. LocksInv'
    BY <2>1, <2>3, NoJobAssumption DEF LocksInv, LocksTypeOK, QueueWellFormed
  <2>5. \A l \in Keys : owner'[l] = IF l = k THEN j ELSE owner[l]
    BY <2>1 DEF LocksInv, LocksTypeOK
  <2> QED BY <2>1, <2>2, <2>4, <2>5, NoJobAssumption
<1>2. CASE ~Grantable(k, j)
  <2>1. CASE j \in Range(waiters[k])
    <3>1. owner' = owner /\ waiters' = waiters
      BY <1>2, <2>1 DEF Request, LocksInv, LocksTypeOK
    <3> QED BY <3>1, <1>2 DEF LocksInv, LocksTypeOK, QueueWellFormed
  <2>2. CASE j \notin Range(waiters[k])
    <3> DEFINE q == Append(waiters[k], j)
    <3>1. owner' = owner /\ waiters' = [waiters EXCEPT ![k] = q]
      BY <1>2, <2>2 DEF Request
    <3>2. /\ q \in Seq(Jobs) /\ IsInjective(q) /\ Range(q) = Range(waiters[k]) \cup {j}
      BY <2>2, QueueFacts, EnqueueProperties
    <3>3. owner[k] # j /\ owner[k] # NoJob
      BY <1>2 DEF Grantable
    <3> HIDE DEF q
    <3>4. LocksInv'
      BY <3>1, <3>2, <3>3 DEF LocksInv, LocksTypeOK, QueueWellFormed
    <3>5. \A l \in Keys : waiters'[l] = IF l = k THEN q ELSE waiters[l]
      BY <3>1 DEF LocksInv, LocksTypeOK
    <3> QED BY <3>1, <3>2, <3>4, <3>5, <1>2
  <2> QED BY <2>1, <2>2
<1> QED BY <1>1, <1>2

\* release() passes the lock on, if the caller has it, and changes nothing else.
LEMMA ReleaseStep ==
  ASSUME LocksInv, NEW k \in Keys, NEW j \in Jobs, Release(k, j)
  PROVE  LocksInv'
<1>1. CASE owner[k] = j
  <2>1. /\ owner' = [owner EXCEPT ![k] = HeirOf(waiters[k])]
        /\ waiters' = [waiters EXCEPT ![k] = RestOf(waiters[k])]
    BY <1>1 DEF Release
  <2>2. /\ RestOf(waiters[k]) \in Seq(Jobs)
        /\ IsInjective(RestOf(waiters[k]))
        /\ HeirOf(waiters[k]) \in Jobs \cup {NoJob}
        /\ HeirOf(waiters[k]) = NoJob => RestOf(waiters[k]) = <<>>
        /\ HeirOf(waiters[k]) \notin Range(RestOf(waiters[k]))
    BY QueueFacts, HeirProperties
  <2> QED BY <2>1, <2>2 DEF LocksInv, LocksTypeOK, QueueWellFormed
<1>2. CASE owner[k] # j
  BY <1>2 DEF Release, lockVars, LocksInv, LocksTypeOK, QueueWellFormed
<1> QED BY <1>1, <1>2

\* dequeue() releases or withdraws.
LEMMA DequeueStep ==
  ASSUME LocksInv, NEW k \in Keys, NEW j \in Jobs, Dequeue(k, j)
  PROVE  LocksInv'
<1>1. CASE owner[k] = j
  BY <1>1, ReleaseStep DEF Dequeue
<1>2. CASE owner[k] # j
  <2>1. owner' = owner /\ waiters' = [waiters EXCEPT ![k] = Without(waiters[k], j)]
    BY <1>2 DEF Dequeue
  <2>2. /\ Without(waiters[k], j) \in Seq(Jobs)
        /\ IsInjective(Without(waiters[k], j))
        /\ Range(Without(waiters[k], j)) = Range(waiters[k]) \ {j}
    BY QueueFacts, WithoutProperties
  <2>3. waiters[k] = <<>> => Without(waiters[k], j) = <<>>
    BY DEF Without, Range
  <2> QED BY <2>1, <2>2, <2>3 DEF LocksInv, LocksTypeOK, QueueWellFormed
<1> QED BY <1>1, <1>2

\* releaseJob() leaves j without a claim, takes no lock from another job, and
\* gives locks only to jobs that were waiting for them.
LEMMA ReleaseJobStep ==
  ASSUME LocksInv, NEW j \in Jobs, ReleaseJob(j)
  PROVE  /\ LocksInv'
         /\ \A k \in Keys : owner'[k] # j /\ j \notin Range(waiters'[k])
         /\ \A k \in Keys : \A i \in Jobs \ {j} : owner[k] = i => owner'[k] = i
         /\ \A k \in Keys : \A i \in Jobs :
              /\ owner'[k] = i => owner[k] = i \/ i \in Range(waiters[k])
              /\ i \in Range(waiters'[k]) => i \in Range(waiters[k])
<1> DEFINE kept(k) == Without(waiters[k], j)
           o == [k \in Keys |-> IF owner[k] = j THEN HeirOf(kept(k)) ELSE owner[k]]
           w == [k \in Keys |-> IF owner[k] = j THEN RestOf(kept(k)) ELSE kept(k)]
<1>1. owner' = o /\ waiters' = w
  BY DEF ReleaseJob
<1>2. ASSUME NEW k \in Keys
      PROVE  /\ o[k] \in Jobs \cup {NoJob}
             /\ w[k] \in Seq(Jobs)
             /\ IsInjective(w[k])
             /\ o[k] = NoJob => w[k] = <<>>
             /\ o[k] \notin Range(w[k])
             /\ o[k] # j /\ j \notin Range(w[k])
             /\ owner[k] # j => o[k] = owner[k]
             /\ o[k] # NoJob => o[k] = owner[k] \/ o[k] \in Range(waiters[k])
             /\ Range(w[k]) \subseteq Range(waiters[k])
  <2>1. /\ kept(k) \in Seq(Jobs)
        /\ IsInjective(kept(k))
        /\ Range(kept(k)) = Range(waiters[k]) \ {j}
    BY QueueFacts, WithoutProperties
  <2>2. waiters[k] = <<>> => kept(k) = <<>>
    BY DEF Without, Range
  <2> HIDE DEF kept
  <2>3. CASE owner[k] = j
    <3>1. o[k] = HeirOf(kept(k)) /\ w[k] = RestOf(kept(k))
      BY <2>3
    <3> HIDE DEF o, w
    <3>2. /\ RestOf(kept(k)) \in Seq(Jobs)
          /\ IsInjective(RestOf(kept(k)))
          /\ HeirOf(kept(k)) \in Jobs \cup {NoJob}
          /\ HeirOf(kept(k)) = NoJob => RestOf(kept(k)) = <<>>
          /\ HeirOf(kept(k)) # NoJob => HeirOf(kept(k)) \in Range(kept(k))
          /\ HeirOf(kept(k)) \notin Range(RestOf(kept(k)))
          /\ Range(RestOf(kept(k))) \subseteq Range(kept(k))
      BY <2>1, HeirProperties
    <3> QED BY <2>1, <2>3, <3>1, <3>2, NoJobAssumption
  <2>4. CASE owner[k] # j
    <3>1. o[k] = owner[k] /\ w[k] = kept(k)
      BY <2>4
    <3> HIDE DEF o, w
    <3> QED BY <2>1, <2>2, <2>4, <3>1, QueueFacts
  <2> QED BY <2>3, <2>4
<1>3. DOMAIN o = Keys /\ DOMAIN w = Keys /\ o = [k \in Keys |-> o[k]] /\ w = [k \in Keys |-> w[k]]
  OBVIOUS
<1> HIDE DEF o, w
<1>4. LocksInv'
  BY <1>1, <1>2, <1>3, RowsSuffice
<1> QED BY <1>1, <1>2, <1>4, NoJobAssumption

-----------------------------------------------------------------------------
(* The order in which locks pass.                                          *)

\* What stands one behind the other in r stood so in q.
InOrder(r, q) ==
    \A m, n \in DOMAIN r :
        m < n => \E a, b \in DOMAIN q : a < b /\ q[a] = r[m] /\ q[b] = r[n]

\* Taking a claim out leaves the others in their order.
LEMMA WithoutInOrder ==
  ASSUME NEW q \in Seq(Jobs), NEW j
  PROVE  InOrder(Without(q, j), q)
<1>1. CASE j \notin Range(q)
  BY <1>1 DEF Without, InOrder
<1>2. CASE j \in Range(q)
  <2> DEFINE i == CHOOSE n \in DOMAIN q : q[n] = j
             r == Without(q, j)
  <2>1. i \in DOMAIN q /\ DOMAIN q = 1..Len(q) /\ Len(q) \in Nat
    BY <1>2, LenProperties DEF Range
  <2>2. r = SubSeq(q, 1, i - 1) \o SubSeq(q, i + 1, Len(q))
    BY <1>2 DEF Without
  <2> HIDE DEF i, r
  <2>3. /\ r \in Seq(Jobs)
        /\ Len(r) = Len(q) - 1
        /\ \A n \in 1..(Len(q) - 1) : r[n] = IF n < i THEN q[n] ELSE q[n + 1]
    BY <2>1, <2>2, RemovalProperties
  <2>4. DOMAIN r = 1..(Len(q) - 1)
    BY <2>3, LenProperties
  <2>5. ASSUME NEW m \in DOMAIN r, NEW n \in DOMAIN r, m < n
        PROVE  \E a, b \in DOMAIN q : a < b /\ q[a] = r[m] /\ q[b] = r[n]
    <3> DEFINE at(l) == IF l < i THEN l ELSE l + 1
    <3>1. at(m) \in DOMAIN q /\ at(n) \in DOMAIN q /\ at(m) < at(n)
      BY <2>1, <2>4, <2>5
    <3>2. q[at(m)] = r[m] /\ q[at(n)] = r[n]
      BY <2>3, <2>4
    <3> QED BY <3>1, <3>2
  <2> QED BY <2>5 DEF InOrder, r
<1> QED BY <1>1, <1>2

\* So does taking the first out.
LEMMA RestInOrder ==
  ASSUME NEW q \in Seq(Jobs)
  PROVE  InOrder(RestOf(q), q)
<1>1. CASE q = <<>>
  BY <1>1 DEF RestOf, InOrder
<1>2. CASE q # <<>>
  <2>1. RestOf(q) = Tail(q) /\ Len(q) \in Nat /\ DOMAIN q = 1..Len(q)
    BY <1>2, LenProperties DEF RestOf
  <2>2. /\ DOMAIN Tail(q) = 1..(Len(q) - 1)
        /\ \A n \in 1..(Len(q) - 1) : Tail(q)[n] = q[n + 1]
    BY <1>2, HeadTailProperties, LenProperties
  <2>3. ASSUME NEW m \in 1..(Len(q) - 1), NEW n \in 1..(Len(q) - 1), m < n
        PROVE  \E a, b \in DOMAIN q : a < b /\ q[a] = Tail(q)[m] /\ q[b] = Tail(q)[n]
    <3>1. m + 1 \in DOMAIN q /\ n + 1 \in DOMAIN q /\ m + 1 < n + 1
      BY <2>1, <2>3
    <3> QED BY <2>2, <3>1
  <2> QED BY <2>1, <2>2, <2>3 DEF InOrder
<1> QED BY <1>1, <1>2

\* One resource, one step: a grant, a new claim at the end, a claim withdrawn, or
\* the owner's departure after his own claims were taken out.
Passed(k) ==
  \/ waiters'[k] = waiters[k] /\ owner[k] \in {owner'[k], NoJob}
  \/ /\ owner'[k] = owner[k]
     /\ \E j \in Jobs \ Range(waiters[k]) : waiters'[k] = Append(waiters[k], j)
  \/ owner'[k] = owner[k] /\ \E j \in Jobs : waiters'[k] = Without(waiters[k], j)
  \/ /\ owner[k] # NoJob
     /\ owner'[k] = HeirOf(Without(waiters[k], owner[k]))
     /\ waiters'[k] = RestOf(Without(waiters[k], owner[k]))

LEMMA EachPassed ==
  ASSUME LocksInv, LocksNext, NEW k \in Keys
  PROVE  Passed(k)
<1>0. owner = [l \in Keys |-> owner[l]] /\ waiters = [l \in Keys |-> waiters[l]]
  BY DEF LocksInv, LocksTypeOK
<1>1. ASSUME NEW j \in Jobs, ReleaseJob(j) PROVE Passed(k)
  <2>1. CASE owner[k] = j
    BY <1>1, <2>1, NoJobAssumption DEF ReleaseJob, Passed
  <2>2. CASE owner[k] # j
    BY <1>1, <2>2 DEF ReleaseJob, Passed
  <2> QED BY <2>1, <2>2
<1>2. ASSUME NEW j \in Jobs, NEW l \in Keys, Request(l, j) PROVE Passed(k)
  <2>1. CASE Grantable(l, j)
    BY <1>0, <1>2, <2>1 DEF Request, Grantable, Passed
  <2>2. CASE ~Grantable(l, j) /\ j \in Range(waiters[l])
    BY <1>0, <1>2, <2>2 DEF Request, Passed
  <2>3. CASE ~Grantable(l, j) /\ j \notin Range(waiters[l])
    <3>1. owner' = owner /\ waiters' = [waiters EXCEPT ![l] = Append(waiters[l], j)]
      BY <1>2, <2>3 DEF Request
    <3> QED BY <1>0, <2>3, <3>1 DEF Passed
  <2> QED BY <2>1, <2>2, <2>3
<1>3. ASSUME NEW j \in Jobs, NEW l \in Keys, Release(l, j) PROVE Passed(k)
  <2>1. CASE owner[l] = j
    <3>1. /\ owner' = [owner EXCEPT ![l] = HeirOf(waiters[l])]
          /\ waiters' = [waiters EXCEPT ![l] = RestOf(waiters[l])]
      BY <1>3, <2>1 DEF Release
    <3>2. Without(waiters[l], owner[l]) = waiters[l]
      BY QueueFacts DEF Without
    <3>3. owner[l] # NoJob
      BY <2>1, NoJobAssumption
    <3> QED BY <1>0, <3>1, <3>2, <3>3 DEF Passed
  <2>2. CASE owner[l] # j
    BY <1>3, <2>2 DEF Release, lockVars, Passed
  <2> QED BY <2>1, <2>2
<1>4. ASSUME NEW j \in Jobs, NEW l \in Keys, Dequeue(l, j) PROVE Passed(k)
  <2>1. CASE owner[l] = j
    BY <1>3, <1>4, <2>1 DEF Dequeue
  <2>2. CASE owner[l] # j
    <3>1. owner' = owner /\ waiters' = [waiters EXCEPT ![l] = Without(waiters[l], j)]
      BY <1>4, <2>2 DEF Dequeue
    <3> QED BY <1>0, <3>1 DEF Passed
  <2> QED BY <2>1, <2>2
<1> QED BY <1>1, <1>2, <1>3, <1>4 DEF LocksNext

\* What stood before a waiting job and is still there stood there before.
LEMMA PassedInOrder ==
  ASSUME LocksInv, NEW k \in Keys, Passed(k),
         NEW m \in DOMAIN waiters'[k], NEW n \in DOMAIN waiters'[k],
         m < n, waiters'[k][n] \in Range(waiters[k])
  PROVE  \E a, b \in DOMAIN waiters[k] :
            a < b /\ waiters[k][a] = waiters'[k][m] /\ waiters[k][b] = waiters'[k][n]
<1> DEFINE q == waiters[k]
           r == waiters'[k]
<1>1. q \in Seq(Jobs) /\ IsInjective(q) /\ DOMAIN q = 1..Len(q) /\ Len(q) \in Nat
  BY QueueFacts, LenProperties
<1>2. CASE r = q
  BY <1>2
<1>3. ASSUME NEW j \in Jobs \ Range(q), r = Append(q, j)
      PROVE  \E a, b \in DOMAIN q : a < b /\ q[a] = r[m] /\ q[b] = r[n]
  <2>1. /\ DOMAIN r = 1..(Len(q) + 1)
        /\ \A l \in 1..Len(q) : r[l] = q[l]
        /\ r[Len(q) + 1] = j
    BY <1>1, <1>3
  <2>2. n # Len(q) + 1
    BY <1>3, <2>1
  <2>3. m \in DOMAIN q /\ n \in DOMAIN q
    BY <1>1, <2>1, <2>2
  <2> QED BY <1>1, <2>1, <2>3
<1>4. ASSUME NEW j, r = Without(q, j)
      PROVE  \E a, b \in DOMAIN q : a < b /\ q[a] = r[m] /\ q[b] = r[n]
  BY <1>1, <1>4, WithoutInOrder DEF InOrder
<1>5. ASSUME NEW j, r = RestOf(Without(q, j))
      PROVE  \E a, b \in DOMAIN q : a < b /\ q[a] = r[m] /\ q[b] = r[n]
  <2> DEFINE p == Without(q, j)
  <2>1. p \in Seq(Jobs) /\ InOrder(p, q)
    BY <1>1, WithoutProperties, WithoutInOrder
  <2>2. r = RestOf(p)
    BY <1>5
  <2> HIDE DEF p
  <2>3. PICK c \in DOMAIN p, d \in DOMAIN p : c < d /\ p[c] = r[m] /\ p[d] = r[n]
    BY <2>1, <2>2, RestInOrder DEF InOrder
  <2> QED BY <2>1, <2>3 DEF InOrder
<1> QED BY <1>2, <1>3, <1>4, <1>5 DEF Passed

\* A lock that goes from one job to another goes to the first still queued.
LEMMA PassedToFirst ==
  ASSUME LocksInv, NEW k \in Keys, Passed(k),
         owner[k] # NoJob, owner'[k] \notin {owner[k], NoJob}
  PROVE  owner'[k] = Head(Without(waiters[k], owner[k]))
BY DEF Passed, HeirOf

-----------------------------------------------------------------------------
LEMMA NoLocksHeld == LocksInit => LocksInv
<1> SUFFICES ASSUME LocksInit PROVE LocksInv
  OBVIOUS
<1>1. \A k \in Keys : owner[k] = NoJob /\ waiters[k] = <<>>
  BY DEF LocksInit
<1>2. Range(<<>>) = {} /\ IsInjective(<<>>) /\ <<>> \in Seq(Jobs)
  BY EmptySeq DEF Range, IsInjective
<1>3. LocksTypeOK
  BY <1>2 DEF LocksInit, LocksTypeOK
<1> QED BY <1>1, <1>2, <1>3 DEF LocksInv, QueueWellFormed

\* The lock table is well formed at all times, whatever its callers do, for
\* every set of keys and jobs (resource-locks.ts).
THEOREM LocksWellFormed == LocksSpec => []LocksInv
<1>1. LocksInit => LocksInv
  BY NoLocksHeld
<1>2. LocksInv /\ [LocksNext]_lockVars => LocksInv'
  <2> SUFFICES ASSUME LocksInv, [LocksNext]_lockVars PROVE LocksInv'
    OBVIOUS
  <2>1. CASE UNCHANGED lockVars
    BY <2>1 DEF lockVars, LocksInv, LocksTypeOK, QueueWellFormed
  <2>2. ASSUME NEW j \in Jobs, ReleaseJob(j) PROVE LocksInv'
    BY <2>2, ReleaseJobStep
  <2>3. ASSUME NEW j \in Jobs, NEW k \in Keys, Request(k, j) PROVE LocksInv'
    BY <2>3, RequestStep
  <2>4. ASSUME NEW j \in Jobs, NEW k \in Keys, Release(k, j) PROVE LocksInv'
    BY <2>4, ReleaseStep
  <2>5. ASSUME NEW j \in Jobs, NEW k \in Keys, Dequeue(k, j) PROVE LocksInv'
    BY <2>5, DequeueStep
  <2> QED BY <2>1, <2>2, <2>3, <2>4, <2>5 DEF LocksNext
<1> QED BY <1>1, <1>2, PTL DEF LocksSpec

\* In particular nobody queues twice or queues for what he owns, and a resource
\* without an owner has no waiters (request() and release()).
THEOREM QueuesWellFormed == LocksSpec => []QueueWellFormed
<1>1. LocksInv => QueueWellFormed
  BY DEF LocksInv
<1> QED BY <1>1, LocksWellFormed, PTL

\* Whatever the callers do, locks pass in the order of the queue: release() and
\* releaseJob() give one to the first that is still waiting.
THEOREM LocksPassInOrder == LocksSpec => FifoHandOver
<1>1. LocksInv /\ [LocksNext]_lockVars =>
        [ \A k \in Keys :
            owner[k] # NoJob /\ owner'[k] \notin {owner[k], NoJob} =>
                owner'[k] = Head(Without(waiters[k], owner[k])) ]_lockVars
  BY EachPassed, PassedToFirst
<1> QED BY <1>1, LocksWellFormed, PTL DEF LocksSpec, FifoHandOver

\* ... and nobody is pushed back by push, splice or filter.
THEOREM NobodyOvertaken == LocksSpec => NobodyPushedBack
<1>1. LocksInv /\ [LocksNext]_lockVars =>
        [ \A k \in Keys : \A m, n \in DOMAIN waiters'[k] :
            /\ m < n
            /\ waiters'[k][n] \in Range(waiters[k])
            => \E a, b \in DOMAIN waiters[k] :
                  /\ a < b
                  /\ waiters[k][a] = waiters'[k][m]
                  /\ waiters[k][b] = waiters'[k][n] ]_lockVars
  BY EachPassed, PassedInOrder
<1> QED BY <1>1, LocksWellFormed, PTL DEF LocksSpec, NobodyPushedBack
=============================================================================
