----------------------------- MODULE Mailboxes -----------------------------
(***************************************************************************)
(* What the game's messages promise: every ship has a mailbox, a message   *)
(* joins the mailboxes of all its recipients at once, and a captain reads  *)
(* his own in the order of sending, each message once.  The store is       *)
(* bounded: when it is full, whole mailboxes are lost, never parts.        *)
(***************************************************************************)
EXTENDS Naturals, Sequences, FiniteSets

CONSTANTS
    Ships,
    Messages,
    Capacity    \* no mailbox is lost while fewer messages than this are unread

VARIABLES
    mail,       \* the unread messages of each ship
    shown       \* the message each ship's captain read last

Init ==
    /\ mail = [w \in Ships |-> <<>>]
    /\ shown \in [Ships -> Messages]

Unread == Cardinality(UNION {{<<w, k>> : k \in DOMAIN mail[w]} : w \in Ships})

\* What ship w has, or nothing if its mailbox is lost; none is while there is room.
Kept(w) == {mail[w]} \cup (IF Unread >= Capacity THEN {<<>>} ELSE {})

\* A message to any ships, or to none: the others keep their mail or lose all of it.
Post(m) ==
    /\ UNCHANGED shown
    /\ DOMAIN mail' = Ships
    /\ \A w \in Ships : \E old \in Kept(w), new \in {<<>>, <<m>>} : mail'[w] = old \o new

Take(w) ==
    /\ mail[w] # <<>>
    /\ shown' = [shown EXCEPT ![w] = Head(mail[w])]
    /\ mail' = [mail EXCEPT ![w] = Tail(@)]

\* The ship is given up, its mail with it.
Discard(w) ==
    /\ mail[w] # <<>>
    /\ mail' = [mail EXCEPT ![w] = Tail(@)]
    /\ UNCHANGED shown

\* A new galaxy.
Empty ==
    /\ mail' = [w \in Ships |-> <<>>]
    /\ UNCHANGED shown

Next ==
    \/ Empty
    \/ \E w \in Ships : Take(w) \/ Discard(w)
    \/ \E m \in Messages : Post(m)

boxes == <<mail, shown>>

Spec == Init /\ [][Next]_boxes
=============================================================================
