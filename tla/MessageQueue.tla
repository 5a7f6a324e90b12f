---------------------------- MODULE MessageQueue ----------------------------
(***************************************************************************)
(* The messages of a galaxy: a table of KNMSG slots, each with a link      *)
(* word.  A link word is 0 for a free slot, -1 for a reserved one, and     *)
(* otherwise holds the index of the next entry and one bit per recipient   *)
(* who has not read the message.  The header word in front of the table    *)
(* holds the indices of the first and the last entry; it is reached as     *)
(* link -1, so the first entry needs no case of its own.                   *)
(*                                                                         *)
(* SRCH looks an entry up for a ship and leaves its place in register X2,  *)
(* REMV unlinks what X2 names.  RSRV makes room, if it must, by taking the *)
(* lowest recipient of the oldest entry out of every entry.  MSGFLG counts *)
(* the messages of a ship; nothing counts down for those lost that way.    *)
(*                                                                         *)
(* RSRV, UPDT, SRCH and REMV each take the lock INTERNAL and give it back  *)
(* without a yield.  A LOCK is granted or refused without saying why       *)
(* (AustinLock): STAZAP holds the lock while it prints, and so does,       *)
(* unknowingly, whoever was refused and got the lock later.  SRCH gives up *)
(* after a refusal, the others ask again after a sleep.  So a message may  *)
(* be reserved but not yet published, found but not yet removed, while     *)
(* others change the list.                                                 *)
(***************************************************************************)
EXTENDS Integers, Sequences, FiniteSets, FiniteSetsExt, Functions

CONSTANTS
    Slots,          \* KNMSG
    KNPLAY,         \* the ships, each with at most one captain
    Texts,          \* what the captains type: a bound on who sends, and what
    Addressed,      \* bound on whom they send it to
    MaxCount,       \* bound on the sum of MSGFLG: how many messages nobody reads
    Sleepers        \* bound on the captains whose LOCK was refused at a time

Ships    == 1..KNPLAY
Senders  == DOMAIN Texts
Messages == UNION Range(Texts)

\* KNMSG is 32, KNPLAY is 18: the captains who compose cannot reserve every slot.
ASSUME SlotsAssumption ==
    /\ KNPLAY \in Nat \ {0} /\ MaxCount \in Nat /\ Sleepers \in Nat
    /\ Senders \subseteq Ships /\ Addressed \in [Senders -> SUBSET SUBSET Ships]
    /\ Slots \in Nat /\ Slots > Cardinality(Senders)

Header  == -1       \* the header as a link, and the end of the list
Nowhere == -2       \* X2 has no address in its left half: AC0, not a link
Indices == 0..(Slots - 1)
Links   == Indices \cup {Header}

VARIABLES
    queue,      \* the link words: next of every link, recipients of every slot, last
    text,       \* MSGQ
    msgflg,     \* MSGFLG
    pc,         \* what the captain of each ship is doing
    dbits,      \* DBITS, the recipients of the message being composed
    x2,         \* register X2 of each session: previous link, index
    copied,     \* the text GETMSG has copied, until it returns
    buffer,     \* MSG of OMLOCL, the text that is printed
    hung        \* a search has not come to an end

vars == <<queue, text, msgflg, pc, dbits, x2, copied, buffer, hung>>

\* SETQM: an empty list in a table of free slots.
EmptyQueue ==
    [next |-> [i \in Links |-> IF i = Header THEN Header ELSE 0],
     to   |-> [i \in Indices |-> {}],
     last |-> Header]

Init ==
    /\ queue = EmptyQueue
    /\ text \in {[i \in Indices |-> m] : m \in Messages}
    /\ msgflg = [w \in Ships |-> 0]
    /\ pc = [w \in Ships |-> "away"]
    /\ dbits = [w \in Ships |-> {}]
    /\ x2 = [w \in Ships |-> [prev |-> Nowhere, slot |-> 0]]
    /\ buffer \in {[w \in Ships |-> m] : m \in Messages}
    /\ copied = buffer
    /\ hung = FALSE

-----------------------------------------------------------------------------
(* The routines on the link words.                                         *)

IsFree(q, i) == q.next[i] = 0 /\ q.to[i] = {}

\* The entries es and the one that follows, if there is one.
Followed(q, es) ==
    LET i == q.next[IF es = <<>> THEN Header ELSE es[Len(es)]]
    IN  IF i = Header THEN es ELSE Append(es, i)

\* The entries in the order of the links, one more than the table has at the most.
Entries(q) ==
    LET paths[n \in 0..Slots + 1] ==
            IF n = 0 THEN {<<>>} ELSE {Followed(q, es) : es \in paths[n - 1]}
    IN  CHOOSE es \in paths[Slots + 1] : TRUE

\* Where a search for ship w would stop.
Hits(q, w) ==
    LET es == Entries(q)
    IN  {n \in DOMAIN es : w \in q.to[es[n]]}

\* A walk longer than the table never ends.
Ends(q) == Len(Entries(q)) <= Slots

\* SRCH.X: where it finds an entry for w, or else where the list ends.
Place(q, w) ==
    LET es == Entries(q)
        hits == Hits(q, w)
        n == IF hits # {} THEN Min(hits) ELSE Len(es) + 1
    IN  [prev |-> IF n = 1 THEN Header ELSE es[n - 1],
         slot |-> IF hits # {} THEN es[n] ELSE 0]

\* Slip: the list's end is not moved back.
UnlinkWithoutLast(q, place, after) ==
    [next |-> [i \in Links |-> IF i = place.slot THEN 0
                               ELSE IF i = place.prev THEN after ELSE q.next[i]],
     to   |-> [q.to EXCEPT ![place.slot] = {}],
     last |-> q.last]

\* Slip: the sign of the link is read the other way round.
UnlinkBySign(q, place, after) ==
    [next |-> [i \in Links |-> IF i = place.slot THEN 0
                               ELSE IF i = place.prev THEN after ELSE q.next[i]],
     to   |-> [q.to EXCEPT ![place.slot] = {}],
     last |-> IF after # Header THEN place.prev ELSE q.last]

\* REMV.X once no recipient is left: the previous link gets the left half.
Unlink(q, place, after) ==
    [next |-> [i \in Links |-> IF i = place.slot THEN 0
                               ELSE IF i = place.prev THEN after ELSE q.next[i]],
     to   |-> [q.to EXCEPT ![place.slot] = {}],
     last |-> IF after = Header THEN place.prev ELSE q.last]

\* REMV.X for the ships of a mask; X3 = -1 also clears the left half.
RemoveShips(q, place, ships) ==
    IF q.to[place.slot] \subseteq ships
    THEN Unlink(q, place, q.next[place.slot])
    ELSE [q EXCEPT !.to[place.slot] = @ \ ships]

RemoveAll(q, place) ==
    IF place.slot \in Indices THEN Unlink(q, place, 0) ELSE q

\* Slip: only the oldest entry loses the ship.
EvictOne(q) ==
    LET oldest == q.next[Header]
        w == Min(q.to[oldest])
    IN  RemoveShips(q, Place(q, w), {w})

\* The lowest recipient of the oldest entry is taken out of every entry.
Evict(q) ==
    LET w == Min(q.to[q.next[Header]])
        r[n \in 0..Slots] ==
            IF n = 0 THEN q
            ELSE LET p == r[n - 1]
                 IN  IF Hits(p, w) = {} THEN p ELSE RemoveShips(p, Place(p, w), {w})
    IN  r[Slots]

\* Ships are evicted until a slot is free.
MakeRoom(q) ==
    LET r[n \in 0..KNPLAY] ==
            IF n = 0 THEN q
            ELSE LET p == r[n - 1]
                 IN  IF \E i \in Indices : IsFree(p, i) THEN p ELSE Evict(p)
    IN  r[KNPLAY]

\* The first free slot, in the order of the table.
RoomIn(q) == Min({i \in Indices : IsFree(q, i)})

\* RSRV: the slot's word becomes -1, all recipients and no next entry.
Reserved(q, i) == [q EXCEPT !.next[i] = Header, !.to[i] = Ships]

\* UPDT: the slot is linked behind the last entry.
Linked(q, i, ships) ==
    [next |-> [j \in Links |-> IF j = q.last THEN i
                               ELSE IF j = i THEN Header ELSE q.next[j]],
     to   |-> [q.to EXCEPT ![i] = ships],
     last |-> i]

-----------------------------------------------------------------------------
Goto(w, here) == pc' = [pc EXCEPT ![w] = here]
Is(w, here) == pc[w] = here /\ ~hung
Asleep == {w \in Ships : pc[w] \in {"publish", "remove", "refused"}}
MayRefuse == Cardinality(Asleep) < Sleepers

\* A captain takes ship w: nothing of the queue is touched.
Board(w) ==
    /\ Is(w, "away")
    /\ Goto(w, "ready")
    /\ UNCHANGED <<queue, text, msgflg, dbits, x2, copied, buffer, hung>>

\* TELL: the recipients are chosen among those in the game; "Msg:" waits.
Tell(w, ships) ==
    /\ Is(w, "ready")
    /\ ships # {} /\ w \notin ships
    /\ \A v \in ships : pc[v] # "away"
    /\ dbits' = [dbits EXCEPT ![w] = ships]
    /\ Goto(w, "prompt")
    /\ UNCHANGED <<queue, text, msgflg, x2, copied, buffer, hung>>

\* Slip: one count for the message, not for each recipient.
CountFirst(ships) == [v \in Ships |-> IF v = Min(ships) THEN msgflg[v] + 1 ELSE msgflg[v]]

Counted(ships) == [v \in Ships |-> IF v \in ships THEN msgflg[v] + 1 ELSE msgflg[v]]

\* RSRV comes to its end: it need not search, or its search ends.
RoomFound == Ends(queue) \/ \E i \in Indices : IsFree(queue, i)

\* MAKMSG once UPDT has the lock: publish and count, to whoever has the ships by now.
Published(w, q, i) ==
    /\ FoldFunction(+, 0, msgflg) + Cardinality(dbits[w]) <= MaxCount
    /\ queue' = Linked(q, i, dbits[w])
    /\ msgflg' = Counted(dbits[w])
    /\ dbits' = [dbits EXCEPT ![w] = {}]
    /\ Goto(w, "ready")

\* MAKMSG: RSRV has the lock at last and the slot is filled; UPDT has the lock
\* at once, or it is refused and sleeps.
Send(w, m) ==
    /\ Is(w, "prompt") /\ RoomFound
    /\ LET q == MakeRoom(queue)
           i == RoomIn(q)
       IN  /\ text' = [text EXCEPT ![i] = m]
           /\ x2' = [x2 EXCEPT ![w] = [prev |-> Nowhere, slot |-> i]]
           /\ \/ Published(w, Reserved(q, i), i)
              \/ /\ MayRefuse
                 /\ queue' = Reserved(q, i)
                 /\ Goto(w, "publish")
                 /\ UNCHANGED <<msgflg, dbits>>
    /\ UNCHANGED <<copied, buffer, hung>>

\* UPDT has asked again.
Publish(w) ==
    /\ Is(w, "publish")
    /\ Published(w, queue, x2[w].slot)
    /\ UNCHANGED <<text, x2, copied, buffer, hung>>

\* A text too short to be sent is only noticed after the reservation.
TooShort(w) ==
    /\ Is(w, "prompt") /\ RoomFound
    /\ LET q == MakeRoom(queue)
           i == RoomIn(q)
       IN  /\ queue' = Reserved(q, i)
           /\ x2' = [x2 EXCEPT ![w] = [prev |-> Nowhere, slot |-> i]]
    /\ Goto(w, "cancel")
    /\ UNCHANGED <<text, msgflg, dbits, copied, buffer, hung>>

\* ^C at "Msg:": the same cancellation, but nothing was reserved.
Interrupted(w) ==
    /\ Is(w, "prompt")
    /\ Goto(w, "cancel")
    /\ UNCHANGED <<queue, text, msgflg, dbits, x2, copied, buffer, hung>>

\* REMV of whatever X2 names, after "No message sent" was printed.
Cancel(w) ==
    /\ Is(w, "cancel")
    /\ queue' = RemoveAll(queue, x2[w])
    /\ dbits' = [dbits EXCEPT ![w] = {}]
    /\ Goto(w, "ready")
    /\ UNCHANGED <<text, msgflg, x2, copied, buffer, hung>>

\* MAKHIT and GETHIT keep an index of the hit queue in X2.
UseX2(w, i) ==
    /\ Is(w, "ready")
    /\ x2' = [x2 EXCEPT ![w] = [prev |-> Nowhere, slot |-> i]]
    /\ UNCHANGED <<queue, text, msgflg, pc, dbits, copied, buffer, hung>>

-----------------------------------------------------------------------------
\* The search for w comes to its end.
SearchEnds(q, w) == Hits(q, w) # {} \/ Ends(q)

\* OUTMSG, or FREE, calls GETMSG while MSGFLG is not 0.
Gets(w) == Is(w, "ready") /\ msgflg[w] # 0

\* OUTMSG prints what GETMSG copied, FREE does not.
Shown(w, m) == buffer' \in {[buffer EXCEPT ![w] = m], buffer}

\* SRCH finds nothing: the count is cleared, and OUTMSG prints the last text again.
Miss(w) ==
    /\ Gets(w) /\ Hits(queue, w) = {} /\ Ends(queue)
    /\ msgflg' = [msgflg EXCEPT ![w] = 0]
    /\ x2' = [x2 EXCEPT ![w] = Place(queue, w)]
    /\ UNCHANGED <<queue, text, pc, dbits, copied, buffer, hung>>

\* SRCH finds a message, and REMV has the lock at once, or is refused and sleeps.
Read(w) ==
    /\ Gets(w) /\ Hits(queue, w) # {}
    /\ msgflg' = [msgflg EXCEPT ![w] = @ - 1]
    /\ LET place == Place(queue, w)
           m == text[place.slot]
       IN  /\ x2' = [x2 EXCEPT ![w] = place]
           /\ copied' = [copied EXCEPT ![w] = m]
           /\ \/ /\ queue' = RemoveShips(queue, place, {w})
                 /\ Shown(w, m)
                 /\ UNCHANGED pc
              \/ /\ MayRefuse
                 /\ Goto(w, "remove")
                 /\ UNCHANGED <<queue, buffer>>
    /\ UNCHANGED <<text, dbits, hung>>

\* REMV has asked again; the place is the one SRCH found before the sleep.
Remove(w) ==
    /\ Is(w, "remove")
    /\ queue' = RemoveShips(queue, x2[w], {w})
    /\ Shown(w, copied[w])
    /\ Goto(w, "ready")
    /\ UNCHANGED <<text, msgflg, dbits, x2, copied, hung>>

\* SRCH is refused: GETMSG has counted the message already, and sleeps.
Refused(w) ==
    /\ Gets(w) /\ MayRefuse
    /\ msgflg' = [msgflg EXCEPT ![w] = @ - 1]
    /\ Goto(w, "refused")
    /\ UNCHANGED <<queue, text, dbits, x2, copied, buffer, hung>>

\* ... and takes the refusal for an empty mailbox.
GiveUp(w) ==
    /\ Is(w, "refused")
    /\ msgflg' = [msgflg EXCEPT ![w] = 0]
    /\ Goto(w, "ready")
    /\ UNCHANGED <<queue, text, dbits, x2, copied, buffer, hung>>

\* FREE of the ship reads until MSGFLG is 0; then nobody has it.
Leave(w) ==
    /\ Is(w, "ready") /\ msgflg[w] = 0
    /\ Goto(w, "away")
    /\ UNCHANGED <<queue, text, msgflg, dbits, x2, copied, buffer, hung>>

\* A search on a list that runs in a circle: the event loop is not given back.
Hang(w) ==
    /\ \/ Is(w, "prompt") /\ ~RoomFound
       \/ Gets(w) /\ ~SearchEnds(queue, w)
    /\ hung' = TRUE
    /\ UNCHANGED <<queue, text, msgflg, pc, dbits, x2, copied, buffer>>

\* SETUP of a galaxy that everybody has left: SETQM, and MSGFLG is cleared.
Recreate ==
    /\ ~hung /\ \A w \in Ships : pc[w] = "away"
    /\ queue' = EmptyQueue
    /\ msgflg' = [w \in Ships |-> 0]
    /\ UNCHANGED <<text, pc, dbits, x2, copied, buffer, hung>>

-----------------------------------------------------------------------------
\* The slots in the list.
Chain == Range(Entries(queue))

\* The table and the list agree: the list ends, at the entry that UPDT appends
\* to; every entry has a reader; every slot is free, linked, or reserved by a
\* captain whose message is about to be published or cancelled, and by one only.
ListWellFormed ==
    LET chain == Chain
        reserves(w) == pc[w] \in {"cancel", "publish"}
    IN  /\ Ends(queue)
        /\ queue.last \in chain \cup {Header} /\ queue.next[queue.last] = Header
        /\ \A i \in chain : queue.to[i] # {}
        /\ \A i \in Indices \ chain :
            IsFree(queue, i) \/ \E w \in Ships : reserves(w) /\ x2[w].slot = i
        /\ \A w \in Ships : reserves(w) =>
            /\ x2[w].slot \notin chain
            /\ \A v \in Ships : reserves(v) /\ x2[v].slot = x2[w].slot => v = w

\* The unread messages of ship w, oldest first: before the k-th are k - 1 others.
MailOf(w) ==
    LET box[es \in Seq(Indices)] ==
            LET mine == {n \in DOMAIN es : w \in queue.to[es[n]]}
                Nth(k) == CHOOSE n \in mine : Cardinality({l \in mine : l < n}) = k - 1
            IN  [k \in 1..Cardinality(mine) |-> text[es[Nth(k)]]]
    IN  box[Entries(queue)]

\* No message waits uncounted: OUTMSG and FREE stop reading when MSGFLG is 0, and a
\* message left behind would be read by the ship's next captain.  GETMSG
\* counts down before it searches.
NothingUncounted ==
    \A w \in Ships :
        Cardinality(Hits(queue, w)) <= msgflg[w] + (IF pc[w] \in {"remove", "refused"} THEN 1 ELSE 0)

\* The captains of a galaxy who answer "Msg:" with a text.
Answered ==
    \/ \E w \in Ships :
        \/ Board(w) \/ Leave(w) \/ TooShort(w) \/ Cancel(w)
        \/ Publish(w) \/ Miss(w) \/ Read(w) \/ Remove(w) \/ Refused(w) \/ GiveUp(w)
    \/ \E w \in Senders :
        \/ \E ships \in Addressed[w] : Tell(w, ships)
        \/ \E m \in Texts[w] : Send(w, m)
    \/ Recreate

\* Bound: nothing goes on once the list is broken, or a message uncounted.
Next == ListWellFormed /\ NothingUncounted /\ Answered

Spec == Init /\ [][Next]_vars

\* Those who may also answer it with ^C.
NextInterrupted ==
    \/ Answered
    \/ \E w \in Ships :
        \/ Interrupted(w) \/ Hang(w)
        \/ \E i \in 0..Slots : UseX2(w, i)

SpecInterrupted == Init /\ [][NextInterrupted]_vars

-----------------------------------------------------------------------------
Queues == [next : [Links -> Links], to : [Indices -> SUBSET Ships], last : Links]

TypeOK ==
    /\ queue \in Queues
    /\ text \in [Indices -> Messages]
    /\ msgflg \in [Ships -> Nat]
    /\ pc \in [Ships -> {"away", "ready", "prompt", "cancel", "publish", "remove", "refused"}]
    /\ dbits \in [Ships -> SUBSET Ships]
    /\ x2 \in [Ships -> [prev : Links \cup {Nowhere}, slot : 0..Slots]]
    /\ copied \in [Ships -> Messages] /\ buffer \in [Ships -> Messages]
    /\ hung \in BOOLEAN

\* While REMV slept, what SRCH had found was lost or moved: it would not find
\* that message in that place any more.
StaleRemove(w) ==
    /\ Remove(w)
    /\ \/ Hits(queue, w) = {} \/ Place(queue, w) # x2[w]
       \/ text[x2[w].slot] # copied[w]

\* Only a REMV that slept and whose place is stale breaks the list.
OnlyStaleBreaks == [][ListWellFormed => ListWellFormed' \/ \E w \in Ships : StaleRemove(w)]_vars

\* Nothing but a GETMSG whose SRCH was refused, or a stale REMV, leaves a message
\* uncounted.
OnlyRefusedUncounts ==
    [][ NothingUncounted =>
            \/ NothingUncounted'
            \/ \E w \in Ships : GiveUp(w) \/ StaleRemove(w) ]_vars

\* The linked table behaves like one mailbox per ship.
Boxes == INSTANCE Mailboxes WITH
    mail <- [w \in Ships |-> MailOf(w)],
    shown <- buffer,
    Capacity <- Slots - Cardinality(Senders)

\* ... until a REMV is stale.
MailboxSpec ==
    /\ Boxes!Init
    /\ [][ListWellFormed => Boxes!Next \/ \E w \in Ships : StaleRemove(w)]_(Boxes!boxes)

\* docs/decisions.md: "Queue pointer corruption and the all-reserved/no-linked-
\* entry state raise internal unresolved-state exceptions": no search runs for ever.
NeverHangs == ~hung
=============================================================================
