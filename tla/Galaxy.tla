------------------------------- MODULE Galaxy -------------------------------
(***************************************************************************)
(* One Austin galaxy (a SharedGameWorld) and the sessions attached to it:  *)
(* SETUP and its admission prompts, commissioning and reuse of ships, FREE *)
(* and the list of the recently killed, the five-minute admission limit,   *)
(* and the ending of the war (src/runtime/playable-ending.ts).             *)
(*                                                                         *)
(* The global lock FRELOK appears as the session that holds it between     *)
(* yields; AustinLock models how it is asked for, refused and handed over. *)
(* FREE counts its captain out once it has the lock, reads the hits and    *)
(* messages of the ship, and only then puts it back into the pool.  While  *)
(* it reads, GETMSG may sleep, when a privileged user is zapping the       *)
(* statistics, and give FREE's lock away (AustinLock).                     *)
(***************************************************************************)
EXTENDS Integers, Sequences, FiniteSets, Functions

CONSTANTS
    Sessions,       \* the connections made while the galaxy lasts
    None,
    PerSide,        \* KNPLAY / 2, the ships of a side
    QueueLength,    \* KQLEN, the rows of KILQUE
    NewPlanets,     \* NPLNET of a new galaxy
    NewBases,       \* NBASE of each side in a new galaxy
    Effects,        \* what commands of a run may do to the galaxy
    MayIdle,        \* whether captains of a run may be silent for long in play
    OnCleared       \* bound: whether anybody comes, is let in or gives a command
                    \* after a galaxy was cleared while a FREE drained

ASSUME SizesAssumption ==
    /\ PerSide \in Nat \ {0}
    /\ QueueLength \in Nat \ {0}
    /\ NewPlanets \in Nat \ {0}
    /\ NewBases \in Nat \ {0}
    /\ Effects \subseteq {"kill ship", "lose base", "lose planet", "build"}
    /\ MayIdle \in BOOLEAN
    /\ OnCleared \in BOOLEAN

Outcomes == {"FEDERATION", "EMPIRE", "MUTUAL_DESTRUCTION"}

ASSUME SessionsAssumption == IsFiniteSet(Sessions) /\ None \notin Sessions \cup Outcomes

Sides == {1, 2}
Ships == 1..(2 * PerSide)
SideOf(ship) == IF ship > PerSide THEN 2 ELSE 1

\* KNPLAY+1, what WHO is left at by a name that no ship has.
Nameless == 2 * PerSide + 1

VARIABLES
    numply,     \* NUMPLY, the captains counted in
    numsid,     \* NUMSID, the captains of each side
    alive,      \* ALIVE of each ship: 1 "free", .TRUE. "taken", 0 "dead"
    job,        \* JOB(ship,KJOB), the session that commands the ship
    kilque,     \* the rows of KILQUE in use (NKILL is their number)
    kilndx,     \* KILNDX, the row written last
    created,    \* TIM0 >= 0: somebody has set the galaxy up
    grace,      \* HITIME is later than the clock
    endflg,     \* ENDFLG # 0
    frelok,     \* the session that counts on FRELOK across a yield
    planets,    \* NPLNET
    nbase,      \* NBASE
    outcome,    \* WarEndingState.outcome
    retired,    \* WarEndingState.retired
    published,  \* WorldDirectory.current is this galaxy
    pc,         \* where each session stands
    who,        \* WHO, the number of its ship, 0 for none
    team,       \* TEAM
    armed,      \* armed of bindPlayableEnding: has reached GETCMD
    freeing,    \* where FREE is: "no", "asking" for its lock, "draining"
    aim,        \* the ship that a phaser fired in a session's turn will hit, or 0
    limit,      \* the socket's admission timer is running
    adrift,     \* history: the ships destroyed while they were in the pool
    torn        \* history: what came between the halves of a FREE that had
                \* counted: "twice", its captain was counted out once more;
                \* "clearing", of the galaxy

registers == <<numply, numsid>>
ships     == <<alive, job, adrift>>
killed    == <<kilque, kilndx>>
clock     == <<created, grace>>
counts    == <<planets, nbase>>
war       == <<outcome, endflg, torn>>
catalog   == <<retired, published>>
captain   == <<who, team, armed, freeing, aim>>

vars == <<registers, ships, killed, clock, frelok, counts, war, catalog, pc, captain, limit>>

Init ==
    /\ numply = 0
    /\ numsid = [t \in Sides |-> 0]
    /\ alive = [w \in Ships |-> "dead"]
    /\ job = [w \in Ships |-> None]
    /\ kilque = <<>> /\ kilndx = 0
    /\ created = FALSE /\ grace = FALSE
    /\ frelok = None
    /\ planets = 0 /\ nbase = [t \in Sides |-> 0]
    /\ outcome = None /\ endflg = FALSE
    /\ retired = FALSE /\ published = TRUE
    /\ pc = [s \in Sessions |-> "away"]
    /\ who = [s \in Sessions |-> 0]
    /\ team = [s \in Sessions |-> 1]
    /\ armed = [s \in Sessions |-> FALSE]
    /\ freeing = [s \in Sessions |-> "no"]
    /\ aim = [s \in Sessions |-> 0]
    /\ limit = [s \in Sessions |-> TRUE]
    /\ adrift = {} /\ torn = {}

-----------------------------------------------------------------------------
\* The prompts of SETUP, between its LOCK and its UNLO.
Prompts == {"creating", "side", "defect", "another", "ship"}

\* phase() is 'active': between setupAndPlace and the return of the command loop.
Active == {"ready", "command", "dying", "leaving"}

\* At the ending; the routine that SETUP had set for ^C, CC1 or CC2, stays set
\* for a session that is turned to it from a prompt.
Endings == {"ending", "ending cc1", "ending cc2"}

States == Prompts \cup Active \cup Endings \cup {"away", "pregame", "queued", "gone"}

Goto(s, here) == pc' = [pc EXCEPT ![s] = here]

Available(s) == frelok \in {None, s}

\* Bound: NUMPLY can grow for ever once a FREE ends in another galaxy than its own.
MayBegin == OnCleared \/ "clearing" \notin torn

\* Slip: only a captain in play is turned to the ending.
OverInPlay(s) == outcome # None /\ pc[s] \in {"ready", "dying", "leaving"}

\* shouldFinish(): the driver turns a session to the ending before it resumes.
Over(s) ==
    /\ outcome # None
    /\ armed[s]
    /\ pc[s] \notin Endings \cup {"command", "gone"}

\* s is at one of these places and its program runs on from there.
At(s, places) == pc[s] \in places /\ ~Over(s)

\* WarEndingState.detect on the counts that result from a step.
Verdict(p, b) ==
    CASE p # 0 \/ (b[1] > 0 /\ b[2] > 0)  -> None
      [] p = 0 /\ b[1] = 0 /\ b[2] = 0    -> "MUTUAL_DESTRUCTION"
      [] p = 0 /\ b[1] = 0 /\ b[2] > 0    -> "EMPIRE"
      [] p = 0 /\ b[1] > 0 /\ b[2] = 0    -> "FEDERATION"

Detect(p, b) ==
    /\ outcome' = IF outcome = None THEN Verdict(p, b) ELSE outcome
    /\ endflg' = (endflg \/ outcome' # None)
    /\ UNCHANGED torn

\* EXIT: the transport releases every lock of the job, whose memory is gone too.
Exit(s) ==
    /\ Goto(s, "gone")
    /\ frelok' = IF frelok = s THEN None ELSE frelok
    /\ who' = [who EXCEPT ![s] = 0]
    /\ team' = [team EXCEPT ![s] = 1]

-----------------------------------------------------------------------------
\* A connection; WorldDirectory.load attaches it to the published galaxy.
Connect(s) ==
    /\ pc[s] = "away" /\ published /\ MayBegin
    /\ Goto(s, "pregame")
    /\ UNCHANGED <<registers, ships, killed, clock, frelok, counts, war, catalog, captain, limit>>

\* ^C, a hangup or the admission limit before SETUP has counted the captain in.
LeavePregame(s) ==
    /\ At(s, {"pregame", "queued"})
    /\ Goto(s, "gone")
    /\ UNCHANGED <<registers, ships, killed, clock, frelok, counts, war, catalog, captain, limit>>

\* SETUP found the galaxy full: KILHGH unpublishes it and START loads another.
FoundFull(s) ==
    /\ At(s, {"pregame"})
    /\ numply = 2 * PerSide
    /\ Goto(s, "gone")
    /\ published' = FALSE
    /\ UNCHANGED <<registers, ships, killed, clock, frelok, counts, war, retired, captain, limit>>

\* ... or not; LOCK is refused and SETUP sleeps, not to look at NUMPLY again.
Queue(s) ==
    /\ At(s, {"pregame"})
    /\ numply # 2 * PerSide
    /\ ~Available(s)
    /\ Goto(s, "queued")
    /\ UNCHANGED <<registers, ships, killed, clock, frelok, counts, war, catalog, captain, limit>>

\* LOCK is granted, now or on a later try ...
Granted(s) ==
    /\ \/ At(s, {"pregame"}) /\ numply # 2 * PerSide
       \/ At(s, {"queued"})
    /\ Available(s) /\ MayBegin

\* ... and the captain is counted in.
CountIn(s) == Granted(s) /\ numply' = numply + 1

\* Slip: NUMPLY is not looked at.
ExistingByClock == created /\ grace

\* The galaxy is in use by others than the newcomer, or was within the last
\* five minutes.
Existing == created /\ (numply + 1 # 1 \/ grace)

\* The war of an existing galaxy is over: EXIT, which does not count out again,
\* unless ^C calls CC1 during the message.
TurnedAway(s) ==
    /\ Granted(s)
    /\ Existing /\ endflg
    /\ numply' \in {numply, numply + 1}
    /\ published' = FALSE
    /\ Exit(s)
    /\ UNCHANGED <<numsid, ships, killed, clock, counts, war, retired, armed, freeing, aim, limit>>

\* Nobody is here: the words from HFZ to HLZ are cleared and the captain is
\* asked for the options.  A session that is armed observes the clearing of
\* its count words, NBASE(1) first and NPLNET last; ENDFLG is cleared after
\* them and stays 0 until some GETCMD detects again.
Create(s) ==
    /\ CountIn(s)
    /\ ~Existing
    /\ Goto(s, "creating")
    /\ frelok' = s
    /\ alive' = [w \in Ships |-> "dead"]
    /\ job' = [w \in Ships |-> None]
    /\ adrift' = {}
    /\ torn' = IF \E d \in Sessions : freeing[d] = "draining" THEN torn \cup {"clearing"} ELSE torn
    /\ kilque' = <<>> /\ kilndx' = 0
    /\ created' = TRUE /\ grace' = FALSE
    /\ planets' = 0 /\ nbase' = [t \in Sides |-> 0]
    /\ endflg' = FALSE
    /\ outcome' = IF ~armed[s] \/ outcome # None THEN outcome
                  ELSE Verdict(0, [t \in Sides |-> IF t = 1 \/ planets > 0 THEN 0 ELSE nbase[t]])
    /\ UNCHANGED <<numsid, catalog, captain, limit>>

\* The row of KILQUE that KQSRCH finds, 0 for none.
KilledRow(j) ==
    LET rows == {i \in DOMAIN kilque : kilque[i].job = j}
    IN  IF rows = {} THEN 0 ELSE CHOOSE i \in rows : \A k \in rows : i <= k

Uneven == numsid[1] - numsid[2] \notin {-1, 0, 1}

\* The captain is counted on side t and asked for a ship.
Enlist(s, t) ==
    /\ team' = [team EXCEPT ![s] = t]
    /\ numsid' = [numsid EXCEPT ![t] = @ + 1]
    /\ Goto(s, "ship")

\* Slip: ALIVE stays as it was.
BoardUnmarked(s, w) ==
    /\ frelok' = None
    /\ job' = [job EXCEPT ![w] = s]
    /\ who' = [who EXCEPT ![s] = w]
    /\ armed' = [armed EXCEPT ![s] = TRUE]
    /\ Goto(s, "ready")
    /\ UNCHANGED <<alive, adrift>>

\* UNLO, ALIVE and JOB: ship w is the captain's, who goes on to GETCMD.
Board(s, w) ==
    /\ frelok' = None
    /\ alive' = [alive EXCEPT ![w] = "taken"]
    /\ job' = [job EXCEPT ![w] = s]
    /\ who' = [who EXCEPT ![s] = w]
    /\ armed' = [armed EXCEPT ![s] = TRUE]
    /\ Goto(s, "ready")
    /\ UNCHANGED adrift

\* Admission (label 1400) of a captain whom KQSRCH does not know: the side is
\* asked for, unless one has two captains more than the other.
AdmitNew(s) ==
    \/ /\ Uneven
       /\ Enlist(s, IF numsid[1] > numsid[2] THEN 2 ELSE 1)
       /\ UNCHANGED who
    \/ /\ ~Uneven
       /\ Goto(s, "side")
       /\ UNCHANGED <<numsid, who, team>>

\* The new galaxy is laid out; its list of killed captains is empty.
FinishCreation(s) ==
    /\ At(s, {"creating"})
    /\ alive' = [w \in Ships |-> "free"]
    /\ planets' = NewPlanets /\ nbase' = [t \in Sides |-> NewBases]
    /\ AdmitNew(s)
    /\ UNCHANGED <<numply, job, adrift, killed, clock, frelok, war, catalog,
                   armed, freeing, aim, limit>>

\* Admission to an existing galaxy.
Admit(s) ==
    /\ CountIn(s)
    /\ Existing /\ ~endflg
    /\ UNCHANGED <<killed, clock, counts, catalog, freeing, aim, limit>>
    /\ LET row == KilledRow(s)
           ship == kilque[row].ship
           side == SideOf(ship)
       IN  \/ /\ row = 0
              /\ frelok' = s
              /\ AdmitNew(s)
              /\ UNCHANGED <<ships, war, armed>>
           \/ /\ row # 0 /\ numsid[side] < PerSide /\ alive[ship] = "free"
              /\ numsid' = [numsid EXCEPT ![side] = @ + 1]
              /\ team' = [team EXCEPT ![s] = side]
              /\ Board(s, ship)
              /\ Detect(planets, nbase)
           \/ /\ row # 0
              /\ numsid[side] >= PerSide \/ alive[ship] # "free"
              /\ Goto(s, IF numsid[side] >= PerSide THEN "defect" ELSE "another")
              /\ who' = [who EXCEPT ![s] = ship]
              /\ team' = [team EXCEPT ![s] = side]
              /\ frelok' = s
              /\ UNCHANGED <<numsid, ships, war, armed>>

\* The answers: a side, YES to defect, YES to another ship.
Answer(s) ==
    /\ \/ At(s, {"side"}) /\ \E t \in Sides : Enlist(s, t)
       \/ At(s, {"defect"}) /\ Enlist(s, 3 - team[s])
       \/ At(s, {"another"}) /\ Enlist(s, team[s])
    /\ UNCHANGED <<numply, ships, killed, clock, frelok, counts, war, catalog, who, armed, freeing, aim, limit>>

\* Slip: any ship of the side will do.
NameAnyShip(s, w) ==
    /\ At(s, {"ship"})
    /\ w \in Ships /\ SideOf(w) = team[s]
    /\ Board(s, w)
    /\ Detect(planets, nbase)
    /\ UNCHANGED <<registers, killed, clock, counts, catalog, team, freeing, aim, limit>>

\* A ship of the captain's side that is in the pool.
Offered(s, w) == w \in Ships /\ SideOf(w) = team[s] /\ alive[w] = "free"

\* A ship's name, or another.  WHO takes its number even when the ship cannot
\* be had.
NameShip(s, w) ==
    /\ At(s, {"ship"})
    /\ \/ /\ Offered(s, w)
          /\ Board(s, w)
          /\ Detect(planets, nbase)
       \/ /\ ~Offered(s, w)
          /\ who' = [who EXCEPT ![s] = w]
          /\ UNCHANGED <<ships, war, frelok, pc, armed>>
    /\ UNCHANGED <<registers, killed, clock, counts, catalog, team, freeing, aim, limit>>

\* Slip: CC1 at every prompt.
CancelUncounted(s) ==
    /\ At(s, Prompts)
    /\ numply' = numply - 1
    /\ Exit(s)
    /\ UNCHANGED <<numsid, ships, killed, clock, counts, war, catalog, armed, freeing, aim, limit>>

\* CC1 and CC2, after ^C, a hangup, the admission limit or a refused question.
Cancel(s) ==
    /\ At(s, Prompts)
    /\ numply' = numply - 1
    /\ numsid' = [numsid EXCEPT ![team[s]] = IF pc[s] = "ship" THEN @ - 1 ELSE @]
    /\ Exit(s)
    /\ UNCHANGED <<ships, killed, clock, counts, war, catalog, armed, freeing, aim, limit>>

-----------------------------------------------------------------------------
\* GETCMD returned a command; the war was not over.
StartCommand(s) ==
    /\ At(s, {"ready"}) /\ MayBegin
    /\ Goto(s, "command")
    /\ UNCHANGED <<registers, ships, killed, clock, frelok, counts, war, catalog, captain, limit>>

\* A torpedo or a nova, which look at the ship before they hit it.
DestroyShip(s, w) ==
    /\ pc[s] = "command" /\ "kill ship" \in Effects
    /\ alive[w] = "taken"
    /\ alive' = [alive EXCEPT ![w] = "dead"]
    /\ UNCHANGED <<registers, job, adrift, killed, clock, frelok, counts, war, catalog, pc, captain, limit>>

\* PHASER finds ship w alive and pauses for its bank; the Romulan, in the same
\* captain's turn, finds it alive or a wreck (Fleet) and speaks.
Aim(s, w) ==
    /\ pc[s] = "command" /\ "kill ship" \in Effects
    /\ alive[w] # "free"
    /\ aim' = [aim EXCEPT ![s] = w]
    /\ UNCHANGED <<registers, ships, killed, clock, frelok, counts, war, catalog, pc,
                   who, team, armed, freeing, limit>>

\* PHADAM destroys that ship whatever has become of it, or only damages it: one
\* that was freed has no energy left, which is what PHADAM takes for a kill.
Fire(s) ==
    /\ pc[s] = "command" /\ aim[s] # 0
    /\ aim' = [aim EXCEPT ![s] = 0]
    /\ \/ /\ alive' = [alive EXCEPT ![aim[s]] = "dead"]
          /\ adrift' = IF alive[aim[s]] = "free" THEN adrift \cup {aim[s]} ELSE adrift
       \/ /\ alive[aim[s]] # "free"
          /\ UNCHANGED <<alive, adrift>>
    /\ UNCHANGED <<registers, job, killed, clock, frelok, counts, war, catalog, pc,
                   who, team, armed, freeing, limit>>

\* Slip: this decrement is not observed.
DestroyBaseUnobserved(s, t) ==
    /\ pc[s] = "command" /\ "lose base" \in Effects
    /\ nbase[t] > 0
    /\ nbase' = [nbase EXCEPT ![t] = @ - 1]
    /\ UNCHANGED <<registers, ships, killed, clock, frelok, planets, war, catalog, pc, captain, limit>>

DestroyBase(s, t) ==
    /\ pc[s] = "command" /\ "lose base" \in Effects
    /\ nbase[t] > 0
    /\ nbase' = [nbase EXCEPT ![t] = @ - 1]
    /\ Detect(planets, nbase')
    /\ UNCHANGED <<registers, ships, killed, clock, frelok, planets, catalog, pc, captain, limit>>

\* PLNRMV under the lock, by a torpedo or a nova.
DestroyPlanet(s) ==
    /\ pc[s] = "command" /\ "lose planet" \in Effects
    /\ planets > 0 /\ Available(s)
    /\ planets' = planets - 1
    /\ Detect(planets', nbase)
    /\ UNCHANGED <<registers, ships, killed, clock, frelok, nbase, catalog, pc, captain, limit>>

\* BUILD under the lock: the base is counted, then the planet is removed.
BuildBase(s) ==
    /\ pc[s] = "command" /\ "build" \in Effects
    /\ planets > 0 /\ Available(s)
    /\ nbase[team[s]] < NewBases
    /\ nbase' = [nbase EXCEPT ![team[s]] = @ + 1]
    /\ planets' = planets - 1
    /\ Detect(planets', nbase')
    /\ UNCHANGED <<registers, ships, killed, clock, frelok, catalog, pc, captain, limit>>

\* The command is over; GETCMD detects before anything else.
FinishCommand(s) ==
    /\ pc[s] = "command"
    /\ Goto(s, "ready")
    /\ aim' = [aim EXCEPT ![s] = 0]
    /\ Detect(planets, nbase)
    /\ UNCHANGED <<registers, ships, killed, clock, frelok, counts, catalog,
                   who, team, armed, freeing, limit>>

\* QUIT, or the end of a move of a destroyed ship; if the war is over by then
\* the captain gets its ending (Over).
Quit(s) ==
    /\ pc[s] = "command"
    /\ Goto(s, "leaving")
    /\ aim' = [aim EXCEPT ![s] = 0]
    /\ UNCHANGED <<registers, ships, killed, clock, frelok, counts, war, catalog,
                   who, team, armed, freeing, limit>>

\* GETCMD finds the ship destroyed, or without energy.
Die(s) ==
    /\ At(s, {"ready"})
    /\ Goto(s, "dying")
    /\ UNCHANGED <<registers, ships, killed, clock, frelok, counts, war, catalog, captain, limit>>

-----------------------------------------------------------------------------
\* Slips: the ring does not wrap around; the captain's old row is not reused.
RememberBeyond(j, w) ==
    /\ kilndx' = kilndx + 1
    /\ kilque' = Append(kilque, [job |-> j, ship |-> w])

RememberAgain(j, w) ==
    LET row == [job |-> j, ship |-> w]
        next == (kilndx % QueueLength) + 1
    IN  /\ kilndx' = next
        /\ kilque' = IF Len(kilque) < QueueLength THEN Append(kilque, row)
                     ELSE [kilque EXCEPT ![next] = row]

\* The row that FREE writes: the captain's old one, or the next of the ring.
Remember(j, w) ==
    LET row == [job |-> j, ship |-> w]
        old == KilledRow(j)
        next == (kilndx % QueueLength) + 1
    IN  IF old # 0
        THEN kilque' = [kilque EXCEPT ![old] = row] /\ UNCHANGED kilndx
        ELSE /\ kilndx' = next
             /\ kilque' = IF Len(kilque) < QueueLength THEN Append(kilque, row)
                          ELSE [kilque EXCEPT ![next] = row]

\* FREE is called: the captain quit, his ship was destroyed, or the war is over.
CallsFree(s) == At(s, {"dying", "leaving"}) \/ pc[s] \in Endings

\* FREE is called for a ship, and ALIVE(WHO) <= 0.  (For WHO = KNPLAY+1 that word
\* is COMKNT, taken for positive here: GETCMD counts in it, and sets it to 0 once
\* in a while.)
HasToFree(s) == who[s] \in Ships /\ alive[who[s]] # "free"

\* LOCK refuses FREE, which will not look at ALIVE again.
AskToFree(s) ==
    /\ CallsFree(s)
    /\ freeing[s] = "no" /\ HasToFree(s) /\ ~Available(s)
    /\ freeing' = [freeing EXCEPT ![s] = "asking"]
    /\ UNCHANGED <<registers, ships, killed, clock, frelok, counts, war, catalog, pc,
                   who, team, armed, aim, limit>>

\* LOCK is granted, now or on a later try: the captain is counted out and his
\* ship remembered, but ALIVE stays as it is.
StartFree(s) ==
    /\ CallsFree(s)
    /\ \/ freeing[s] = "asking"
       \/ freeing[s] = "no" /\ HasToFree(s)
    /\ Available(s) /\ frelok' = s
    /\ LET w == who[s] IN
           /\ numply' = numply - 1
           /\ grace' = (grace \/ (numply' = 0 /\ ~endflg))
           /\ numsid' = [numsid EXCEPT ![SideOf(w)] = @ - 1]
           /\ Remember(job[w], w)
           /\ job' = [job EXCEPT ![w] = None]
    /\ freeing' = [freeing EXCEPT ![s] = "draining"]
    /\ UNCHANGED <<alive, adrift, created, counts, war, catalog, pc, who, team, armed, aim, limit>>

\* GETMSG's UNLO, after it found a message for the ship.
GiveAway(s) ==
    /\ CallsFree(s)
    /\ freeing[s] = "draining" /\ frelok = s
    /\ frelok' = None
    /\ UNCHANGED <<registers, ships, killed, clock, counts, war, catalog, pc, captain, limit>>

\* Slip: the ship is not put back.
LeaveUnmarked(s) ==
    /\ CallsFree(s)
    /\ \/ freeing[s] = "draining"
       \/ freeing[s] = "no" /\ ~HasToFree(s)
    /\ frelok' = IF frelok = s THEN None ELSE frelok
    /\ who' = [who EXCEPT ![s] = 0]
    /\ freeing' = [freeing EXCEPT ![s] = "no"]
    /\ Goto(s, IF pc[s] = "dying" THEN "pregame" ELSE "gone")
    /\ UNCHANGED <<registers, ships, killed, clock, counts, war, catalog, team, armed, aim, limit>>

\* FREE is over: the ship is back in the pool, if there was something to do.
\* UNLO and WHO = 0, then back before the game or EXIT.
LeaveShip(s) ==
    /\ CallsFree(s)
    /\ \/ /\ freeing[s] = "draining"
          /\ alive' = [alive EXCEPT ![who[s]] = "free"]
       \/ /\ freeing[s] = "no" /\ ~HasToFree(s)
          /\ UNCHANGED alive
    /\ frelok' = IF frelok = s THEN None ELSE frelok
    /\ who' = [who EXCEPT ![s] = 0]
    /\ freeing' = [freeing EXCEPT ![s] = "no"]
    /\ Goto(s, IF pc[s] = "dying" THEN "pregame" ELSE "gone")
    /\ UNCHANGED <<registers, job, adrift, killed, clock, counts, war, catalog, team, armed, aim, limit>>

\* ^C during the report or the drain of a session with CC1 or CC2 still set:
\* counted out, also if FREE has done it, UNLO and EXIT.
CancelEnding(s) ==
    /\ pc[s] \in {"ending cc1", "ending cc2"}
    /\ numply' = numply - 1
    /\ numsid' = [numsid EXCEPT ![team[s]] = IF pc[s] = "ending cc2" THEN @ - 1 ELSE @]
    /\ Exit(s)
    /\ freeing' = [freeing EXCEPT ![s] = "no"]
    /\ torn' = IF freeing[s] = "draining" THEN torn \cup {"twice"} ELSE torn
    /\ UNCHANGED <<ships, killed, clock, counts, outcome, endflg, catalog, armed, aim, limit>>

\* The ending that a session comes to, by the place it leaves.
EndingFrom(place) ==
    CASE place = "ship"                -> "ending cc2"
      [] place \in Prompts \ {"ship"} -> "ending cc1"
      [] OTHER                         -> "ending"

\* Slip: the galaxy stays in the directory.
FinalizeQuietly(s) ==
    /\ Over(s)
    /\ Goto(s, EndingFrom(pc[s]))
    /\ freeing' = [freeing EXCEPT ![s] = "no"]
    /\ torn' = IF freeing[s] = "draining" THEN torn \cup {"twice"} ELSE torn
    /\ retired' = TRUE
    /\ UNCHANGED <<registers, ships, killed, clock, frelok, counts, outcome, endflg, published,
                   who, team, armed, aim, limit>>

\* finalize(): the first to come retires the galaxy; the report and POINTS,
\* in place of whatever the session was waiting for.  If that was FREE, FREE is
\* called once more, and counts once more.
Finalize(s) ==
    /\ Over(s)
    /\ Goto(s, EndingFrom(pc[s]))
    /\ freeing' = [freeing EXCEPT ![s] = "no"]
    /\ torn' = IF freeing[s] = "draining" THEN torn \cup {"twice"} ELSE torn
    /\ retired' = TRUE
    /\ published' = (published /\ retired)
    /\ UNCHANGED <<registers, ships, killed, clock, frelok, counts, outcome, endflg,
                   who, team, armed, aim, limit>>

-----------------------------------------------------------------------------
\* Five minutes without input while the phase is 'active': setTimeout(0).
DropLimit(s) ==
    /\ pc[s] \in Active /\ limit[s] /\ MayIdle
    /\ limit' = [limit EXCEPT ![s] = FALSE]
    /\ UNCHANGED <<registers, ships, killed, clock, frelok, counts, war, catalog, pc, captain>>

\* The clock passes HITIME.
GraceEnds ==
    /\ grace
    /\ grace' = FALSE
    /\ UNCHANGED <<registers, ships, killed, created, frelok, counts, war, catalog, pc, captain, limit>>

Setup(s) ==
    \/ Queue(s) \/ FoundFull(s) \/ TurnedAway(s)
    \/ Create(s) \/ FinishCreation(s) \/ Admit(s)

Prompted(s) == Answer(s) \/ Cancel(s) \/ \E w \in Ships \cup {Nameless} : NameShip(s, w)

Effect(s) ==
    \/ \E w \in Ships : DestroyShip(s, w) \/ Aim(s, w)
    \/ Fire(s)
    \/ \E t \in Sides : DestroyBase(s, t)
    \/ DestroyPlanet(s)
    \/ BuildBase(s)

Depart(s) == AskToFree(s) \/ StartFree(s) \/ GiveAway(s) \/ LeaveShip(s)
             \/ CancelEnding(s) \/ Finalize(s)

Next ==
    \/ \E s \in Sessions :
        \/ Connect(s) \/ LeavePregame(s)
        \/ Setup(s) \/ Prompted(s)
        \/ StartCommand(s) \/ Effect(s) \/ FinishCommand(s) \/ Quit(s) \/ Die(s)
        \/ Depart(s) \/ DropLimit(s)
    \/ GraceEnds

Spec == Init /\ [][Next]_vars

\* What the event loop and the locks do by themselves.  A retried LOCK is
\* granted in the end (AustinLock!InsistentProceeds, with the monitor's FIFO),
\* hence the strong fairness of FREE.  No captain is assumed to answer anything,
\* at a prompt of SETUP or inside a command; but while the admission limit runs
\* a silent one is cut off.
Fairness ==
    \A s \in Sessions :
        /\ WF_vars(Finalize(s))
        /\ SF_vars(StartFree(s)) /\ SF_vars(LeaveShip(s))
        /\ WF_vars(limit[s] /\ Cancel(s))

FairSpec == Spec /\ Fairness

-----------------------------------------------------------------------------
TypeOK ==
    /\ numply \in Int /\ numsid \in [Sides -> Int]
    /\ alive \in [Ships -> {"free", "taken", "dead"}]
    /\ job \in [Ships -> Sessions \cup {None}]
    /\ kilque \in Seq([job : Sessions \cup {None}, ship : Ships])
    /\ kilndx \in 0..QueueLength
    /\ created \in BOOLEAN /\ grace \in BOOLEAN
    /\ endflg \in BOOLEAN /\ outcome \in Outcomes \cup {None}
    /\ frelok \in Sessions \cup {None}
    /\ planets \in 0..NewPlanets /\ nbase \in [Sides -> 0..NewBases]
    /\ retired \in BOOLEAN /\ published \in BOOLEAN
    /\ pc \in [Sessions -> States]
    /\ who \in [Sessions -> Ships \cup {0, Nameless}] /\ team \in [Sessions -> Sides]
    /\ armed \in [Sessions -> BOOLEAN]
    /\ freeing \in [Sessions -> {"no", "asking", "draining"}]
    /\ aim \in [Sessions -> Ships \cup {0}]
    /\ limit \in [Sessions -> BOOLEAN]
    /\ adrift \subseteq Ships /\ torn \subseteq {"twice", "clearing"}

\* Those whose FREE has counted them out, and not put the ship back yet.
Drainers == {s \in Sessions : freeing[s] = "draining"}

\* The captains who command a ship, or are leaving it.
Captains == {s \in Sessions : pc[s] \in Active} \ Drainers

\* No ship has two captains (ALIVE is tested and set around SETUP's prompts,
\* while others free ships, are destroyed and look for one), unless some FREE
\* was torn in two.
OneCaptainPerShip ==
    torn = {} => \A s, t \in Captains : who[s] = who[t] => s = t

\* While the war goes on NUMPLY counts those in SETUP and the captains, and
\* NUMSID those who chose a side: every way out of SETUP and of a command
\* counts back exactly what was counted (unless a FREE was torn in two).
Aboard == {s \in Sessions : pc[s] \in Prompts \cup Active} \ Drainers
OnSide(t) == {s \in Aboard : pc[s] \in Active \cup {"ship"} /\ team[s] = t}
HeadCount ==
    outcome = None /\ torn = {} =>
        /\ numply = Cardinality(Aboard)
        /\ \A t \in Sides : numsid[t] = Cardinality(OnSide(t))

\* While the war goes on, and no FREE was torn in two, a captain's ship is out
\* of the pool and under his job number, and a ship that FREE drains out of the
\* pool and under nobody's.  No ship is lost or stolen: one that is out of the
\* pool is one of these, but for a wreck that a phaser made of a free ship.
ShipsAccountedFor ==
    outcome = None /\ torn = {} =>
        \A w \in Ships :
            /\ \A s \in Captains : who[s] = w => alive[w] # "free" /\ job[w] = s
            /\ \A s \in Drainers : who[s] = w => alive[w] # "free" /\ job[w] = None
            /\ alive[w] = "taken" => \E s \in Captains \cup Drainers : who[s] = w
            /\ alive[w] = "dead" /\ Captains # {} =>
                   w \in adrift \/ \E s \in Captains \cup Drainers : who[s] = w

\* The list of the killed names a captain at most once, so that KQSRCH finds
\* the ship he had last, also after the ring has wrapped around.
KilledOnce ==
    \A i, k \in DOMAIN kilque :
        kilque[i].job = kilque[k].job => i = k

\* A galaxy is never cleared under a captain, unless the end of the war has had
\* a captain counted out twice (it broke off his FREE, or he broke off the report
\* with ^C): SETUP clears it only when nobody else is in it, although it tests
\* NUMPLY and HITIME, not ALIVE.
NeverClearedUnderCaptains ==
    [][ (\E s \in Sessions : pc[s] # "creating" /\ pc'[s] = "creating")
            => Captains = {} \/ "twice" \in torn ]_vars

\* The end of the war is never missed: until it is declared, captains have a
\* planet, or a base on either side, left (detect() hooks every decrement).
NoUnnoticedEnd ==
    outcome = None /\ Captains # {} => planets > 0 \/ \A t \in Sides : nbase[t] > 0

\* Once a captain has been told the war is over, newcomers get another galaxy.
EndedGalaxyWithdrawn ==
    (\E s \in Sessions : pc[s] \in Endings) => ~published

\* When the war is over every captain who is not inside a command, or comes out
\* of it, gets his ending and his session closes, whoever is at the prompts of
\* SETUP with the lock, or stays in a command, at that moment.
WarEndingCompletes ==
    \A s \in Sessions :
        (outcome # None /\ pc[s] \in Active \ {"command"}) ~> pc[s] = "gone"

-----------------------------------------------------------------------------
\* docs/playable-decisions.md: the limit on inactive admission, without which
\* "an abandoned live connection would otherwise prevent every later captain
\* from passing ACTIVATE".
SetupLockReleased ==
    \A s \in Sessions : frelok = s ~> frelok # s

\* docs/playable-decisions.md: "Accepted commands finish their effects and
\* normal completion": a captain's ship is still his while his command runs.
CommandKeepsShip ==
    \A s \in Sessions : pc[s] = "command" => alive[who[s]] # "free"

\* war-ending-state.ts: "One outcome per galaxy, shared by all of its
\* sessions": the galaxy being set up has none yet.
NewGalaxyUndecided ==
    \A s \in Sessions : pc[s] = "creating" => outcome = None
=============================================================================
