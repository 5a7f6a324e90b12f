------------------------------ MODULE HitQueue ------------------------------
(***************************************************************************)
(* The queue of hits of one galaxy (MAKHIT, GETHIT and SETQH): a ring of   *)
(* KNHSHP slots for the reports of each ship, the recipients of a slot as  *)
(* bits next to an 18-bit serial, and HITFLG, the count of what each ship  *)
(* has still to read.  MAKHIT overwrites reports that nobody has read and  *)
(* leaves their counts alone; GETHIT counts down before it looks.          *)
(*                                                                         *)
(* A report is the number it was made with.  MAKHIT and GETHIT never yield *)
(* and are one step each; OUTHIT yields between its calls of GETHIT, and   *)
(* FREE may sleep between the drain of the hits and ALIVE = 1.             *)
(***************************************************************************)
EXTENDS Integers, FiniteSets

CONSTANTS
    KNPLAY,         \* ships
    KNHSHP,         \* slots of a ship
    SerialLimit,    \* 2^18, the serials of the slots
    MaxHits         \* bound on the reports that are made

ASSUME SizesAssumption ==
    /\ KNPLAY \in Nat \ {0} /\ KNHSHP \in Nat \ {0}
    /\ SerialLimit \in Nat \ {0} /\ MaxHits \in Nat

Ships == 1..KNPLAY
Slots == 0..(KNPLAY * KNHSHP - 1)

VARIABLES
    alive,      \* each ship: "free", "taken", "leaving" (FREE sleeps), and
                \* "reused": free again after such a sleep
    hitser,     \* HITSER
    serial,     \* left half of HITQL: the serial of each slot
    to,         \* right half: who has still to read it
    hitq,       \* HITQ: the report
    hitflg      \* HITFLG of each ship

queue == <<hitser, serial, to, hitq, hitflg>>
vars == <<alive, queue>>

Init ==
    /\ alive = [w \in Ships |-> "free"]
    /\ hitser = 0
    /\ serial = [q \in Slots |-> 0]
    /\ to = [q \in Slots |-> {}]
    /\ hitq = [q \in Slots |-> 0]
    /\ hitflg = [w \in Ships |-> 0]

Sender(q) == (q \div KNHSHP) + 1
Ring(s) == {q \in Slots : Sender(q) = s}
Unread(w) == {q \in Slots : w \in to[q]}

\* PRIDIS and the senders themselves pick recipients whose ALIVE is not positive.
Reachable == {w \in Ships : alive[w] \in {"taken", "leaving"}}

-----------------------------------------------------------------------------
\* Slip: the newest report is overwritten.
NewestSlot(s, q) ==
    /\ q \in Ring(s)
    /\ to[q] = {} \/ \A p \in Ring(s) : to[p] # {} /\ serial[p] <= serial[q]

\* The slot MAKHIT takes: the first that nobody has to read, else the first of
\* those with the lowest serial.
TakenSlot(s, q) ==
    /\ q \in Ring(s)
    /\ \/ to[q] = {} /\ \A p \in Ring(s) : p < q => to[p] # {}
       \/ \A p \in Ring(s) :
              /\ to[p] # {} /\ serial[q] <= serial[p]
              /\ p < q => serial[q] < serial[p]

\* Slip: the count is a flag.
CountedOnce(who) == [w \in Ships |-> IF w \in who THEN 1 ELSE hitflg[w]]

Counted(who) == [w \in Ships |-> IF w \in who THEN hitflg[w] + 1 ELSE hitflg[w]]

\* MAKHIT in a command of the captain of s: the recipients are DBITS.
MakeHit(s, who) ==
    /\ alive[s] = "taken" /\ hitser < MaxHits
    /\ who # {} /\ who \subseteq Reachable
    /\ hitser' = hitser + 1
    /\ \E q \in Ring(s) :
          /\ TakenSlot(s, q)
          /\ serial' = [serial EXCEPT ![q] = hitser' % SerialLimit]
          /\ hitq' = [hitq EXCEPT ![q] = hitser']
          /\ to' = [to EXCEPT ![q] = who]
    /\ hitflg' = Counted(who)
    /\ UNCHANGED alive

-----------------------------------------------------------------------------
\* GETHIT counts down, also when it finds nothing, and finds the first slot.
Read(w, q) == to' = [to EXCEPT ![q] = @ \ {w}]

GetHit(w) ==
    /\ hitflg' = [hitflg EXCEPT ![w] = @ - 1]
    /\ \/ /\ hitflg'[w] >= 0
          /\ \E q \in Unread(w) : (\A p \in Unread(w) : q <= p) /\ Read(w, q)
       \/ /\ hitflg'[w] < 0 \/ Unread(w) = {}
          /\ UNCHANGED to

\* Slip: the count is not looked at.
OutHitUnasked(w) ==
    /\ alive[w] = "taken"
    /\ GetHit(w)
    /\ UNCHANGED <<alive, hitser, serial, hitq>>

\* One turn of OUTHIT's loop.
OutHit(w) ==
    /\ alive[w] = "taken" /\ hitflg[w] # 0
    /\ GetHit(w)
    /\ UNCHANGED <<alive, hitser, serial, hitq>>

\* The slots that n calls of GETHIT read.
FirstUnread(w, n) == {q \in Unread(w) : Cardinality({p \in Unread(w) : p <= q}) <= n}

\* Slip: one hit is left for the new captain.
DrainOne(w) ==
    /\ hitflg' = [hitflg EXCEPT ![w] = IF @ > 0 THEN @ - 1 ELSE @]
    /\ to' = [q \in Slots |-> IF q \in FirstUnread(w, 1) THEN to[q] \ {w} ELSE to[q]]
    /\ UNCHANGED <<hitser, serial, hitq>>

\* FREE calls GETHIT as long as the count is positive.
Drain(w) ==
    /\ hitflg' = [hitflg EXCEPT ![w] = IF @ > 0 THEN 0 ELSE @]
    /\ to' = [q \in Slots |-> IF q \in FirstUnread(w, hitflg[w]) THEN to[q] \ {w} ELSE to[q]]
    /\ UNCHANGED <<hitser, serial, hitq>>

Free(w) ==
    /\ alive[w] = "taken"
    /\ Drain(w)
    /\ alive' = [alive EXCEPT ![w] = "free"]

\* The lock of the messages is refused to FREE while the statistics are zapped.
FreeSleeps(w) ==
    /\ alive[w] = "taken"
    /\ Drain(w)
    /\ alive' = [alive EXCEPT ![w] = "leaving"]

FreeEnds(w) ==
    /\ alive[w] = "leaving"
    /\ alive' = [alive EXCEPT ![w] = "reused"]
    /\ UNCHANGED queue

\* SETUP commissions the ship.
Commission(w) ==
    /\ alive[w] \in {"free", "reused"}
    /\ alive' = [alive EXCEPT ![w] = "taken"]
    /\ UNCHANGED queue

\* SETUP clears an abandoned galaxy: HFZ to HLZ, with HITFLG, and the links
\* (SETQH), but neither HITSER nor the reports.
SetUp ==
    /\ Reachable = {}
    /\ alive' = [w \in Ships |-> "free"]
    /\ hitflg' = [w \in Ships |-> 0]
    /\ serial' = [q \in Slots |-> 0]
    /\ to' = [q \in Slots |-> {}]
    /\ UNCHANGED <<hitser, hitq>>

Next ==
    \/ \E w \in Ships : OutHit(w) \/ Free(w) \/ FreeSleeps(w) \/ FreeEnds(w) \/ Commission(w)
    \/ \E s \in Ships, who \in SUBSET Ships : MakeHit(s, who)
    \/ SetUp

Spec == Init /\ [][Next]_vars

-----------------------------------------------------------------------------
TypeOK ==
    /\ alive \in [Ships -> {"free", "taken", "leaving", "reused"}]
    /\ hitser \in 0..MaxHits
    /\ serial \in [Slots -> 0..(SerialLimit - 1)]
    /\ to \in [Slots -> SUBSET Ships]
    /\ hitq \in [Slots -> 0..MaxHits]
    /\ hitflg \in [Ships -> Nat]

\* A count is never too low, so that who reads until HITFLG is 0 (OUTHIT, FREE)
\* has read everything; it may be too high, after MAKHIT has overwritten a slot.
NothingUncounted == \A w \in Ships : Cardinality(Unread(w)) <= hitflg[w]

\* A captain does not inherit hits of the ship's last captain (the drain in
\* FREE), unless FREE slept after the drain.
NothingInherited == \A w \in Ships : alive[w] = "free" => Unread(w) = {} /\ hitflg[w] = 0

\* Recipients get each report once, and only the oldest of a full ring is lost
\* while the serials do not wrap (docs/compatibility.md on MAKHIT).
Report(q) == [from |-> Sender(q), number |-> hitq[q]]

Boxes == INSTANCE HitBoxes WITH
    Capacity <- KNHSHP, Reliable <- SerialLimit,
    box <- [w \in Ships |-> {Report(q) : q \in Unread(w)}], made <- hitser

BoxesSpec == Boxes!Spec
=============================================================================
