------------------------------- MODULE Fleet -------------------------------
(***************************************************************************)
(* The ships on the board: what BOARD shows, where SHPCON says a ship is,  *)
(* whether it is ALIVE, and whom its tractor beam holds (TRSTAT).          *)
(*                                                                         *)
(* Weapons, JUMP, TRCOFF and PLACE run without a yield.  A captain's       *)
(* command does not: output, a prompt, a refused LOCK and the pause before *)
(* a phaser let everybody else run, and what the command found out before  *)
(* is not looked at again.  So MOVE goes on to a cell that CHECK found     *)
(* empty, PHASER fires at a ship that was alive when it aimed, SHIELD UP   *)
(* drops the beam only after it has said that the shields are up, and      *)
(* FREE takes a wreck off the board long after it was destroyed.           *)
(*                                                                         *)
(* The Romulan is one more craft: ROM and LOCR are its ALIVE and position. *)
(* It moves and fires its phasers in the turn of some captain, where       *)
(* speech and output again let everybody else run.                         *)
(*                                                                         *)
(* A LOCK is granted or refused without saying why (AustinLock).  Other    *)
(* weapons act at any time: the torpedoes and novas of captains and of the *)
(* Romulan, bases, planets.  Cells are next to each other; what else       *)
(* stands on the board is left out.                                        *)
(***************************************************************************)
EXTENDS Integers, FiniteSets

CONSTANTS
    Ships,      \* ship numbers, 1..KNPLAY (18 in the program)
    Side,       \* the side of each ship
    Rom,        \* what BOARD shows of the Romulan (DXROM*100)
    Cells,
    Nowhere,    \* position (0,0), of a ship without a captain
    Orders,     \* bound: which kinds of commands each captain gives, and
                \* whether the Romulan acts in the captain's turns
    OnUntrue    \* bound: whether anything begins on an untrue board before all captains
                \* have left

ASSUME FleetAssumption ==
    /\ Ships \subseteq Nat \ {0}
    /\ Nowhere \notin Cells
    /\ Rom \in Nat \ (Ships \cup {0})
    /\ Orders \in [Ships -> SUBSET {"move", "beam", "phaser", "romulan"}]
    /\ OnUntrue \in BOOLEAN

VARIABLES
    board,      \* BOARD: the number of the ship a cell shows, Rom, or 0
    pos,        \* SHPCON, KVPOS and KHPOS; LOCR
    up,         \* SHPCON: KSHCON >= 0
    alive,      \* ALIVE: 1 "free", .TRUE. "alive", 0 "dead"; ROM
    trstat,     \* TRSTAT: the other end of the ship's tractor beam, or 0
    cmd         \* where each ship's captain is, and what the command goes on with

vars == <<board, pos, up, alive, trstat, cmd>>

Craft == Ships \cup {Rom}

At(w, stages) == cmd[w].at \in stages
Commanded(w, kind) == At(w, {"command"}) /\ kind \in Orders[w]
Goto(w, stage) == cmd' = [cmd EXCEPT ![w] = [at |-> stage]]

Init ==
    /\ board = [x \in Cells |-> 0]
    /\ pos = [w \in Craft |-> Nowhere]
    /\ up = [w \in Ships |-> FALSE]
    /\ alive = [w \in Craft |-> IF w = Rom THEN "dead" ELSE "free"]
    /\ trstat = [w \in Ships |-> 0]
    /\ cmd = [w \in Ships |-> [at |-> "away"]]

-----------------------------------------------------------------------------
\* SETDSP; the position (0,0) is no cell.
Put(brd, x, w) == [y \in Cells |-> IF y = x THEN w ELSE brd[y]]
Clear(brd, x) == Put(brd, x, 0)

\* TRCOFF, for a ship that has a beam.
BeamOff(w) == [trstat EXCEPT ![trstat[w]] = 0, ![w] = 0]
Released(w) == IF trstat[w] # 0 THEN BeamOff(w) ELSE trstat

\* Each live craft is shown where it is, nothing else is shown, and a ship that
\* is not free has a captain.
BoardTrue ==
    /\ \A w \in Craft : alive[w] = "alive" => board[pos[w]] = w
    /\ \A x \in Cells : board[x] # 0 => alive[board[x]] = "alive" /\ pos[board[x]] = x
    /\ \A w \in Ships : alive[w] # "free" => ~At(w, {"away"})

\* Slip: the captain's ship is not placed.
EnterUnplaced(w, x) ==
    /\ At(w, {"away"}) /\ alive[w] = "free" /\ board[x] = 0
    /\ alive' = [alive EXCEPT ![w] = "alive"]
    /\ up' = [up EXCEPT ![w] = TRUE]
    /\ Goto(w, "ready")
    /\ UNCHANGED <<board, pos, trstat>>

\* SETUP gives a captain the free ship w, PLACE an empty cell.
Enter(w, x) ==
    /\ At(w, {"away"}) /\ alive[w] = "free" /\ board[x] = 0
    /\ alive' = [alive EXCEPT ![w] = "alive"]
    /\ up' = [up EXCEPT ![w] = TRUE]
    /\ board' = Put(board, x, w)
    /\ pos' = [pos EXCEPT ![w] = x]
    /\ Goto(w, "ready")
    /\ UNCHANGED trstat

\* GETCMD returns a command only to a captain whose ship is alive.  From then on
\* nobody asks again.
StartCommand(w) ==
    /\ At(w, {"ready"}) /\ alive[w] = "alive" /\ Orders[w] # {}
    /\ Goto(w, "command")
    /\ UNCHANGED <<board, pos, up, alive, trstat>>

\* The captain quits, hangs up or finds the ship destroyed.
Leave(w) ==
    /\ ~At(w, {"away", "leaving"})
    /\ Goto(w, "leaving")
    /\ UNCHANGED <<board, pos, up, alive, trstat>>

\* Slip: TRSTAT is left alone.
FreeHeld(w) ==
    /\ At(w, {"leaving"})
    /\ board' = Clear(board, pos[w])
    /\ pos' = [pos EXCEPT ![w] = Nowhere]
    /\ alive' = [alive EXCEPT ![w] = "free"]
    /\ up' = [up EXCEPT ![w] = FALSE]
    /\ Goto(w, "away")
    /\ UNCHANGED trstat

\* FREE, once it has the lock.  Nobody reads KSHCON of a free ship.
Free(w) ==
    /\ At(w, {"leaving"})
    /\ board' = Clear(board, pos[w])
    /\ trstat' = Released(w)
    /\ pos' = [pos EXCEPT ![w] = Nowhere]
    /\ alive' = [alive EXCEPT ![w] = "free"]
    /\ up' = [up EXCEPT ![w] = FALSE]
    /\ Goto(w, "away")

-----------------------------------------------------------------------------
\* MOVE of ship w to the cell CHECK found; what its beam holds is written to the
\* cell tow, and its position to the cell stored: the first from the truncated
\* step, the second from the truncated difference.  Both depend on the way CHECK
\* took; they are picked where they are used.
Moved(w, to, tow, stored) ==
    LET p == trstat[w]
        alone == Put(Clear(board, pos[w]), to, w)
    IN  /\ IF p = 0
           THEN /\ board' = alone
                /\ pos' = [pos EXCEPT ![w] = to]
           ELSE /\ board' = Clear(Put(alone, tow, IF pos[p] \in Cells THEN alone[pos[p]] ELSE 0),
                                  pos[p])
                /\ pos' = [pos EXCEPT ![w] = to, ![p] = stored]
        /\ UNCHANGED <<up, alive, trstat>>

\* LOCK is granted at once.
Move(w, to, tow, stored) ==
    /\ Commanded(w, "move")
    /\ board[to] = 0 /\ tow # to /\ stored # to
    /\ Moved(w, to, tow, stored)
    /\ Goto(w, "ready")

\* LOCK is refused: MOVE asks for it again until it is granted.
MoveWaits(w, to) ==
    /\ Commanded(w, "move")
    /\ board[to] = 0
    /\ cmd' = [cmd EXCEPT ![w] = [at |-> "waiting", to |-> to]]
    /\ UNCHANGED <<board, pos, up, alive, trstat>>

MoveOn(w, tow, stored) ==
    /\ At(w, {"waiting"})
    /\ tow # cmd[w].to /\ stored # cmd[w].to
    /\ Moved(w, cmd[w].to, tow, stored)
    /\ Goto(w, "ready")

-----------------------------------------------------------------------------
\* SHIELD UP: the shields are up, and the output says so; then TRCOFF.
RaiseShields(w) ==
    /\ Commanded(w, "beam")
    /\ up' = [up EXCEPT ![w] = TRUE]
    /\ Goto(w, "raising")
    /\ UNCHANGED <<board, pos, alive, trstat>>

ShieldsAreUp(w) ==
    /\ At(w, {"raising"})
    /\ trstat' = Released(w)
    /\ Goto(w, "ready")
    /\ UNCHANGED <<board, pos, up, alive>>

LowerShields(w) ==
    /\ Commanded(w, "beam")
    /\ up' = [up EXCEPT ![w] = FALSE]
    /\ Goto(w, "ready")
    /\ UNCHANGED <<board, pos, alive, trstat>>

\* TRACTOR of ship w to ship v.
Tractor(w, v) ==
    /\ Commanded(w, "beam")
    /\ v # w /\ Side[v] = Side[w] /\ alive[v] = "alive"
    /\ trstat[w] = 0 /\ trstat[v] = 0
    /\ ~up[w] /\ ~up[v]
    /\ trstat' = [trstat EXCEPT ![v] = w, ![w] = v]
    /\ Goto(w, "ready")
    /\ UNCHANGED <<board, pos, up, alive>>

\* TRACTOR OFF, and TRACTOR with a beam on.
TractorOff(w) ==
    /\ Commanded(w, "beam") /\ trstat[w] # 0
    /\ trstat' = BeamOff(w)
    /\ Goto(w, "ready")
    /\ UNCHANGED <<board, pos, up, alive>>

-----------------------------------------------------------------------------
\* Slip: the wreck stays on the board.
DestroyedInPlace(w) ==
    /\ alive' = [alive EXCEPT ![w] = "dead"]
    /\ UNCHANGED <<board, pos, up>>

\* Ship w, or the Romulan, is destroyed, alive or not.
Destroyed(w) ==
    /\ alive' = [alive EXCEPT ![w] = "dead"]
    /\ board' = Clear(board, pos[w])
    /\ UNCHANGED <<pos, up>>

\* Craft w is hit: a ship's shields may go down.
Shaken(w) == up' \in {up, [v \in Ships |-> up[v] /\ v # w]}

Damaged(w) ==
    /\ Shaken(w)
    /\ UNCHANGED <<board, pos, alive>>

\* JUMP: a live craft is pushed into an empty cell.
Pushed(w) ==
    /\ alive[w] = "alive"
    /\ \E y \in Cells :
          /\ board[y] = 0
          /\ board' = Put(Clear(board, pos[w]), y, w)
          /\ pos' = [pos EXCEPT ![w] = y]
    /\ Shaken(w)
    /\ UNCHANGED alive

\* A torpedo at a cell that shows a ship: a destroyed one is left alone, its
\* beam is not.
Torpedo(x) ==
    LET w == board[x]
    IN  /\ w \in Ships
        /\ IF alive[w] = "alive"
           THEN Damaged(w) \/ Pushed(w) \/ Destroyed(w)
           ELSE UNCHANGED <<board, pos, up, alive>>
        /\ trstat' = Released(w)
        /\ UNCHANGED cmd

\* NOVA beside a cell that shows a ship.
Nova(x) ==
    LET w == board[x]
    IN  /\ w \in Ships
        /\ Pushed(w) \/ Destroyed(w)
        /\ trstat' = Released(w)
        /\ UNCHANGED cmd

\* A torpedo at the Romulan, or a nova beside it: TOROM and JUMP act on LOCR.
TorpedoRomulan(x) ==
    /\ board[x] = Rom
    /\ Pushed(Rom) \/ Destroyed(Rom)
    /\ UNCHANGED <<trstat, cmd>>

\* The phasers of a base or a planet: no JUMP, and no TRCOFF.
PhaserHits(w) ==
    /\ alive[w] = "alive"
    /\ Damaged(w) \/ Destroyed(w)
    /\ UNCHANGED <<trstat, cmd>>

\* PHASER: kind and index of the target are read and checked, then the bank has
\* to cool.
Aim(w, x) ==
    /\ Commanded(w, "phaser")
    /\ \/ board[x] = Rom
       \/ board[x] \in Ships /\ Side[board[x]] # Side[w] /\ alive[board[x]] = "alive"
    /\ cmd' = [cmd EXCEPT ![w] = [at |-> "aimed", target |-> board[x]]]
    /\ UNCHANGED <<board, pos, up, alive, trstat>>

\* PHADAM and PHAROM: the damage goes to the index, whatever has become of it.  A
\* ship that is destroyed, or free by now, is destroyed again; so is the Romulan,
\* unless a black hole swallowed it with energy left.
Phasered(t) ==
    \/ alive[t] = "alive" /\ Damaged(t)
    \/ t = Rom /\ UNCHANGED <<board, pos, up, alive>>
    \/ Destroyed(t)

Fire(w) ==
    /\ At(w, {"aimed"})
    /\ Phasered(cmd[w].target)
    /\ Goto(w, "ready")
    /\ UNCHANGED trstat

-----------------------------------------------------------------------------
\* ROMDRV moves the Romulan to an empty cell.
Relocated(y) ==
    /\ board[y] = 0
    /\ board' = Put(Clear(board, pos[Rom]), y, Rom)
    /\ pos' = [pos EXCEPT ![Rom] = y]

\* What DIST takes for a target: a live ship of the Federation (side 1), or a
\* ship of the Empire that has a position, if something stands there.
Candidate(v) ==
    /\ Side[v] = 1 => alive[v] = "alive"
    /\ pos[v] \in Cells
    /\ board[pos[v]] # 0

\* If it finds none, ROMDRV uses what an earlier search left.
Sighted(v) == Candidate(v) \/ \A u \in Ships : ~Candidate(u)

\* The turn that follows a captain's command.
HasTurn(w) == At(w, {"ready"}) /\ "romulan" \in Orders[w]

\* The Romulan is placed, and may speak before it looks for a target.
RomulanArrives(w, x) ==
    /\ HasTurn(w)
    /\ alive[Rom] # "alive" /\ board[x] = 0
    /\ board' = Put(board, x, Rom)
    /\ pos' = [pos EXCEPT ![Rom] = x]
    /\ alive' = [alive EXCEPT ![Rom] = "alive"]
    /\ Goto(w, "spoken")
    /\ UNCHANGED <<up, trstat>>

\* It moves towards a target, unless it is next to one, and looks for a target
\* again; then a captain with the password is told where it is.
RomulanMoves(w, v) ==
    /\ HasTurn(w)
    /\ alive[Rom] = "alive"
    /\ UNCHANGED <<board, pos>> \/ \E y \in Cells : Relocated(y)
    /\ UNCHANGED <<up, alive, trstat>>
    /\ Sighted(v)'
    /\ cmd' = [cmd EXCEPT ![w] = [at |-> "sighted", target |-> v]]

\* Its phaser, at the ship it has found.  Nobody asks again whether ROM is set.
RomulanFires(w, v) ==
    /\ \/ At(w, {"spoken"}) /\ Sighted(v)
       \/ At(w, {"sighted"}) /\ v = cmd[w].target
    /\ Phasered(v)
    /\ Goto(w, "ready")
    /\ UNCHANGED trstat

\* It has no target in range, has to pause, fires torpedoes, or at a base.
RomulanRests(w) ==
    /\ At(w, {"spoken", "sighted"})
    /\ Goto(w, "ready")
    /\ UNCHANGED <<board, pos, up, alive, trstat>>

-----------------------------------------------------------------------------
\* A command without effect here.
OtherCommand(w) ==
    /\ At(w, {"command"})
    /\ Goto(w, "ready")
    /\ UNCHANGED <<board, pos, up, alive, trstat>>

\* What begins now: somebody comes, gives a command or has a turn, a weapon fires.
Begins ==
    \/ \E w \in Ships :
          \/ \E x \in Cells : Enter(w, x) \/ RomulanArrives(w, x)
          \/ \E v \in Ships : RomulanMoves(w, v)
          \/ StartCommand(w)
    \/ \E w \in Craft : PhaserHits(w)
    \/ \E x \in Cells : Torpedo(x) \/ Nova(x) \/ TorpedoRomulan(x)

\* What a captain has begun goes on, or the captain goes.
GoesOn ==
    \E w \in Ships :
        \/ \E x \in Cells : Aim(w, x) \/ MoveWaits(w, x)
        \/ \E to, tow, stored \in Cells : Move(w, to, tow, stored)
        \/ \E tow, stored \in Cells : MoveOn(w, tow, stored)
        \/ \E v \in Ships : Tractor(w, v) \/ RomulanFires(w, v)
        \/ OtherCommand(w) \/ Leave(w) \/ Free(w)
        \/ RaiseShields(w) \/ ShieldsAreUp(w) \/ LowerShields(w)
        \/ TractorOff(w) \/ Fire(w) \/ RomulanRests(w)

Next ==
    \/ /\ BoardTrue \/ OnUntrue \/ \A w \in Ships : At(w, {"away"})
       /\ Begins
    \/ GoesOn

Spec == Init /\ [][Next]_vars

-----------------------------------------------------------------------------
Commands ==
    [at : {"away", "ready", "command", "raising", "leaving", "spoken"}]
    \cup [at : {"waiting"}, to : Cells]
    \cup [at : {"aimed"}, target : Craft]
    \cup [at : {"sighted"}, target : Ships]

\* The variables have their types; a live craft is somewhere, and a ship with a
\* captain is not free.
TypeOK ==
    /\ board \in [Cells -> Craft \cup {0}]
    /\ pos \in [Craft -> Cells \cup {Nowhere}]
    /\ up \in [Ships -> BOOLEAN]
    /\ alive \in [Craft -> {"free", "alive", "dead"}]
    /\ trstat \in [Ships -> Ships \cup {0}]
    /\ cmd \in [Ships -> Commands]
    /\ \A w \in Craft : alive[w] = "alive" => pos[w] \in Cells
    /\ \A w \in Ships : ~At(w, {"away"}) => alive[w] # "free"
    /\ alive[Rom] # "free"

\* A beam has two ends: ships of one side, neither of them free.  Nobody keeps
\* one with raised shields, except while SHIELD UP is saying so.
BeamsPaired ==
    \A w \in Ships : trstat[w] # 0 =>
        /\ trstat[trstat[w]] = w
        /\ trstat[w] # w /\ Side[trstat[w]] = Side[w]
        /\ alive[w] # "free"
        /\ up[w] => At(w, {"raising", "leaving"})

\* Craft w is destroyed, or free, and its old cell shows another one.
CellTaken(w) ==
    alive[w] # "alive" /\ pos[w] \in Cells /\ board[pos[w]] # 0

\* What the beam of w holds would not come along to one free cell.
BadTow(w, tow, stored) ==
    /\ trstat[w] # 0
    /\ \/ alive[trstat[w]] # "alive"
       \/ tow # stored
       \/ board[tow] # 0 /\ tow # pos[w]

\* The steps that do not look again: MOVE with a tow that does not fit, MOVE by a
\* destroyed ship, MOVE on to a cell that was taken while it waited, FREE of a
\* wreck whose cell was taken, PHASER or the Romulan's phaser at a craft that is
\* destroyed with its cell taken, or free.
Careless ==
    \E w \in Ships :
        \/ \E to, tow, stored \in Cells :
              /\ Move(w, to, tow, stored)
              /\ alive[w] # "alive" \/ BadTow(w, tow, stored)
        \/ \E tow, stored \in Cells :
              /\ MoveOn(w, tow, stored)
              /\ \/ alive[w] # "alive"
                 \/ board[cmd[w].to] # 0
                 \/ BadTow(w, tow, stored)
        \/ Free(w) /\ CellTaken(w)
        \/ /\ Fire(w)
           /\ CellTaken(cmd[w].target) \/ alive[cmd[w].target] = "free"
        \/ \E v \in Ships :
              /\ RomulanFires(w, v)
              /\ CellTaken(v) \/ alive[v] = "free"

\* Whatever the commands of the captains and the weapons interleave to, nothing
\* else makes the board untrue, or a ship unavailable for good.
OnlyCareless == [][BoardTrue => BoardTrue' \/ Careless]_vars
=============================================================================
