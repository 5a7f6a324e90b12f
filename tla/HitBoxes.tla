------------------------------ MODULE HitBoxes ------------------------------
(***************************************************************************)
(* What the game's hits promise: every ship has a box of reports it has    *)
(* not seen.  A report goes to the boxes of all its recipients at once and *)
(* is taken out of each once, in any order.  Each sender can have a few    *)
(* reports unseen; then its oldest one is lost, from all boxes, and no     *)
(* other report is, as long as the serials of the reports do not wrap.     *)
(***************************************************************************)
EXTENDS Naturals, FiniteSets

CONSTANTS
    Ships,
    Capacity,   \* how many reports of one sender can be unseen
    Reliable    \* how many reports are made before the serials wrap

VARIABLES
    box,        \* the unseen reports of each ship
    made        \* how many reports were made

Init ==
    /\ box = [w \in Ships |-> {}]
    /\ made = 0

Unseen(s) == {h \in UNION {box[w] : w \in Ships} : h.from = s}

IsOldest(h, hits) == h \in hits /\ \A g \in hits : h.number <= g.number

\* What may be lost when s makes a report.
MayLose(s, h) ==
    /\ Cardinality(Unseen(s)) = Capacity
    /\ IF made < Reliable THEN IsOldest(h, Unseen(s)) ELSE h \in Unseen(s)

Deliver(s, to, lost) ==
    /\ made' = made + 1
    /\ box' = [w \in Ships |->
                 (box[w] \ lost) \cup (IF w \in to THEN {[from |-> s, number |-> made']} ELSE {})]

Report(s, to) ==
    \/ Cardinality(Unseen(s)) < Capacity /\ Deliver(s, to, {})
    \/ \E h \in Unseen(s) : MayLose(s, h) /\ Deliver(s, to, {h})

See(w) ==
    /\ \E h \in box[w] : box' = [box EXCEPT ![w] = @ \ {h}]
    /\ UNCHANGED made

\* The ships of these captains are given up, or all of them for a new galaxy.
Discard(ships) ==
    /\ box' = [w \in Ships |-> IF w \in ships THEN {} ELSE box[w]]
    /\ UNCHANGED made

Next ==
    \/ \E s \in Ships, to \in SUBSET Ships : Report(s, to)
    \/ \E w \in Ships : See(w) \/ Discard({w})
    \/ Discard(Ships)

Spec == Init /\ [][Next]_<<box, made>>
=============================================================================
