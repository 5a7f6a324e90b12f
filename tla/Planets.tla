------------------------------ MODULE Planets ------------------------------
(***************************************************************************)
(* Planets and bases: three tables that have to say the same thing.        *)
(*                                                                         *)
(* BOARD has a code per cell, 100 * kind + index.  LOCPLN has a row per    *)
(* planet, in the order of the indices: when one is destroyed, PLNRMV      *)
(* moves the rows behind it up and renumbers their codes on the board.     *)
(* BASE has KNBASE slots a side.  NPLNET, NUMCAP and NBASE count them, and *)
(* the war ends by these counts.                                           *)
(*                                                                         *)
(* Most routines read the code of a cell and act on the row it names       *)
(* without a yield.  Two do not: BUILD prints the number of builds before  *)
(* it looks whether the planet is to become a base, and PHASER waits for   *)
(* its bank between the checks and the damage.  Both then use the index    *)
(* they read before; others may have moved the rows, or destroyed what     *)
(* they name.                                                              *)
(*                                                                         *)
(* LOCK is granted or refused here without saying why (AustinLock).        *)
(* Routines without a yield may be called by any session of a side, or by  *)
(* the Romulan, at any time.                                               *)
(***************************************************************************)
EXTENDS Integers, FiniteSets

CONSTANTS
    Captains,   \* sessions that build and fire phasers
    Team,       \* their sides
    Cells,      \* the part of the board that planets and bases get to
    Rows,       \* planets at the start (20 in the Austin variant)
    Slots,      \* KNBASE, the bases of a side (10)
    FullBuild,  \* the build that makes a planet a base (5)
    MaxBuild,   \* bound on the builds of a planet, and on how far a stale row is shot below 0
    PlanetAt,   \* where SETUP put the planets
    BaseAt      \* ... and the bases of each side

Sides == {1, 2}

\* A code has two digits for the index.
ASSUME SizesAssumption ==
    /\ Rows \in 1..99 /\ Slots \in 1..99
    /\ FullBuild \in Nat \ {0} /\ MaxBuild \in Nat
    /\ Team \in [Captains -> Sides]
    /\ PlanetAt \in [1..Rows -> Cells]
    /\ BaseAt \in [Sides -> [1..Slots -> Cells]]

\* SETUP gives each of them a cell of its own.
ASSUME PlacedApart ==
    /\ \A i, k \in 1..Rows : PlanetAt[i] = PlanetAt[k] => i = k
    /\ \A t, s \in Sides, j, k \in 1..Slots : BaseAt[t][j] = BaseAt[s][k] => t = s /\ j = k
    /\ \A i \in 1..Rows, t \in Sides, j \in 1..Slots : PlanetAt[i] # BaseAt[t][j]

VARIABLES
    board,      \* BOARD: a code per cell, 0 for an empty one
    locpln,     \* LOCPLN: position and builds of each planet; rows above NPLNET are old
    nplnet,     \* NPLNET
    numcap,     \* NUMCAP: the planets of each side
    base,       \* BASE: position of each base, and whether its strength is above 0
    nbase,      \* NBASE
    cmd         \* what each captain's command goes on with after a yield

vars == <<board, locpln, nplnet, numcap, base, nbase, cmd>>

\* The codes of BOARD: kind 3 and 4 are bases, 6 neutral planets, 7 and 8 those
\* of the sides.
BaseKind(t) == 2 + t
PlanetKind(t) == 6 + t
Code(kind, i) == 100 * kind + i
Kind(code) == IF code < 0 THEN 0 ELSE code \div 100
Index(code) == IF code < 0 THEN 0 ELSE code % 100

\* The cell shows a planet, or a base, of an existing row.  What the program
\* does with an index outside the table is not modelled.
ShowsPlanet(x) == Kind(board[x]) \in 6..8 /\ Index(board[x]) \in 1..Rows
ShowsBase(x)   == Kind(board[x]) \in 3..4 /\ Index(board[x]) \in 1..Slots

Idle == [stage |-> "idle"]

Init ==
    /\ board = [x \in Cells |->
                  IF \E i \in 1..Rows : PlanetAt[i] = x
                  THEN Code(6, CHOOSE i \in 1..Rows : PlanetAt[i] = x)
                  ELSE IF \E t \in Sides, j \in 1..Slots : BaseAt[t][j] = x
                  THEN LET t == CHOOSE s \in Sides : \E j \in 1..Slots : BaseAt[s][j] = x
                       IN  Code(BaseKind(t), CHOOSE j \in 1..Slots : BaseAt[t][j] = x)
                  ELSE 0]
    /\ locpln = [i \in 1..Rows |-> [pos |-> PlanetAt[i], builds |-> 0]]
    /\ nplnet = Rows
    /\ numcap = [t \in Sides |-> 0]
    /\ base = [t \in Sides |-> [j \in 1..Slots |-> [pos |-> BaseAt[t][j], up |-> TRUE]]]
    /\ nbase = [t \in Sides |-> Slots]
    /\ cmd = [c \in Captains |-> Idle]

-----------------------------------------------------------------------------
\* PLNRMV for row i, of side t: NUMCAP, the rows behind it, NPLNET, and the
\* codes of the cells those rows name, whatever stands there.  The old last row
\* keeps its contents.

\* Slip: NPLNET is not looked at.
RemovesPast(i, t) == t >= 0 /\ i \in 1..Rows

\* Its early returns.
Removes(i, t) == t >= 0 /\ i \in 1..nplnet

MovedUp(i, rows) ==
    [r \in 1..Rows |-> IF r \in i..(nplnet - 1) THEN rows[r + 1] ELSE rows[r]]

\* Slip: the codes are not renumbered.
NotRenumbered(i, rows, brd) == brd

Renumbered(i, rows, brd) ==
    [x \in Cells |-> brd[x] - Cardinality({r \in i..(nplnet - 1) : rows[r + 1].pos = x})]

\* What it does to the board, and to the planets' table and counts.
BoardWithout(i, t, rows, brd) ==
    IF Removes(i, t) THEN Renumbered(i, rows, brd) ELSE brd

RemoveRow(i, t, rows) ==
    IF Removes(i, t)
    THEN /\ locpln' = MovedUp(i, rows)
         /\ nplnet' = nplnet - 1
         /\ numcap' = IF t \in Sides THEN [numcap EXCEPT ![t] = @ - 1] ELSE numcap
    ELSE /\ locpln' = rows
         /\ UNCHANGED <<nplnet, numcap>>

-----------------------------------------------------------------------------
\* BUILD, from the fifth build on: captain c's side t, cell x, row i; rows is
\* LOCPLN with the build counted.

\* LOCK refused: the build stays counted.
FifthRefused(rows) ==
    /\ locpln' = rows
    /\ UNCHANGED <<board, nplnet, numcap, base, nbase>>

\* All slots in use after all: the build is taken back.
FifthFull(t, i, rows) ==
    /\ \A j \in 1..Slots : base[t][j].up
    /\ locpln' = [rows EXCEPT ![i].builds = @ - 1]
    /\ UNCHANGED <<board, nplnet, numcap, base, nbase>>

\* The first free slot gets the base.
FifthBase(t, x, i, rows) ==
    \E j \in 1..Slots :
        /\ ~base[t][j].up /\ \A k \in 1..(j - 1) : base[t][k].up
        /\ nbase' = [nbase EXCEPT ![t] = @ + 1]
        /\ RemoveRow(i, t, rows)
        /\ base' = [base EXCEPT ![t] = [@ EXCEPT ![j] = [pos |-> x, up |-> TRUE]]]
        /\ board' = [BoardWithout(i, t, rows, board) EXCEPT ![x] = Code(BaseKind(t), j)]

Fifth(t, x, i, rows) ==
    FifthRefused(rows) \/ FifthFull(t, i, rows) \/ FifthBase(t, x, i, rows)

\* BUILD on an own planet.  A build other than the fifth is announced, and the
\* output yields.
Build(c, x) ==
    LET t == Team[c]
        i == Index(board[x])
        rows == [locpln EXCEPT ![i].builds = @ + 1]
    IN  /\ cmd[c] = Idle
        /\ ShowsPlanet(x) /\ Kind(board[x]) = PlanetKind(t)
        /\ ~(locpln[i].builds = FullBuild - 1 /\ nbase[t] = Slots)
        /\ locpln[i].builds < MaxBuild
        /\ \/ /\ rows[i].builds = FullBuild
              /\ Fifth(t, x, i, rows)
              /\ UNCHANGED cmd
           \/ /\ rows[i].builds # FullBuild
              /\ locpln' = rows
              /\ cmd' = [cmd EXCEPT ![c] =
                            [stage |-> "build", kind |-> PlanetKind(t), index |-> i, pos |-> x]]
              /\ UNCHANGED <<board, nplnet, numcap, base, nbase>>

\* After the output: the row it built on is looked at again, by its index.
FinishBuild(c) ==
    LET b == cmd[c]
    IN  /\ b.stage = "build"
        /\ cmd' = [cmd EXCEPT ![c] = Idle]
        /\ \/ /\ locpln[b.index].builds = FullBuild
              /\ Fifth(Team[c], b.pos, b.index, locpln)
           \/ /\ locpln[b.index].builds # FullBuild
              /\ UNCHANGED <<board, locpln, nplnet, numcap, base, nbase>>

-----------------------------------------------------------------------------
\* CAPTURE by side t, the lock granted: a refused one does nothing.
Capture(t, x) ==
    LET i == Index(board[x])
        lost == Kind(board[x]) - 6
    IN  /\ ShowsPlanet(x) /\ Kind(board[x]) # PlanetKind(t)
        /\ numcap' = [s \in Sides |-> numcap[s] + (IF s = t THEN 1 ELSE 0)
                                                - (IF s = lost THEN 1 ELSE 0)]
        /\ locpln' = [locpln EXCEPT ![i].builds = 0]
        /\ board' = [board EXCEPT ![x] = Code(PlanetKind(t), i)]
        /\ UNCHANGED <<nplnet, base, nbase, cmd>>

\* A captain's or the Romulan's torpedo at a planet: it may cost a build, and
\* a planet without one.
TorpedoPlanet(x) ==
    LET i == Index(board[x])
        rows == [locpln EXCEPT ![i].builds = @ - 1]
        t == Kind(board[x]) - 6
        cleared == [board EXCEPT ![x] = 0]
    IN  /\ ShowsPlanet(x) /\ locpln[i].builds > -MaxBuild
        /\ IF rows[i].builds < 0
           THEN /\ RemoveRow(i, t, rows)
                /\ board' = BoardWithout(i, t, rows, cleared)
           ELSE /\ locpln' = rows
                /\ UNCHANGED <<board, nplnet, numcap>>
        /\ UNCHANGED <<base, nbase, cmd>>

\* NOVA beside a planet: three builds.  Owner and cell are those of the row.
NovaPlanet(x) ==
    LET i == Index(board[x])
        rows == [locpln EXCEPT ![i].builds = @ - 3]
        at == locpln[i].pos
        t == Kind(board[at]) - 6
        cleared == [board EXCEPT ![at] = 0]
    IN  /\ ShowsPlanet(x) /\ locpln[i].builds > -MaxBuild
        /\ IF rows[i].builds < 0
           THEN /\ RemoveRow(i, t, rows)
                /\ board' = BoardWithout(i, t, rows, cleared)
           ELSE /\ locpln' = rows
                /\ UNCHANGED <<board, nplnet, numcap>>
        /\ UNCHANGED <<base, nbase, cmd>>

\* Slip: NBASE keeps the base.
KillBaseUncounted(t, j) ==
    /\ board' = [board EXCEPT ![base[t][j].pos] = 0]
    /\ base' = [base EXCEPT ![t] = [@ EXCEPT ![j].up = FALSE]]
    /\ UNCHANGED <<locpln, nplnet, numcap, nbase>>

\* Base j of side t is destroyed: what TORDAM, PHADAM and NOVA do, alive or not.
KillBase(t, j) ==
    /\ nbase' = [nbase EXCEPT ![t] = @ - 1]
    /\ board' = [board EXCEPT ![base[t][j].pos] = 0]
    /\ base' = [base EXCEPT ![t] = [@ EXCEPT ![j].up = FALSE]]
    /\ UNCHANGED <<locpln, nplnet, numcap>>

\* A torpedo destroys a base; one that is destroyed already is left alone.
TorpedoBase(x) ==
    LET t == Kind(board[x]) - 2
        j == Index(board[x])
    IN  /\ ShowsBase(x) /\ base[t][j].up
        /\ KillBase(t, j)
        /\ UNCHANGED cmd

\* NOVA beside a base: it is destroyed, or pushed into an empty cell.
NovaBase(x) ==
    LET t == Kind(board[x]) - 2
        j == Index(board[x])
    IN  /\ ShowsBase(x)
        /\ \/ KillBase(t, j)
           \/ /\ base[t][j].up
              /\ \E y \in Cells :
                    /\ board[y] = 0
                    /\ board' = [board EXCEPT ![base[t][j].pos] = 0, ![y] = Code(BaseKind(t), j)]
                    /\ base' = [base EXCEPT ![t] = [@ EXCEPT ![j].pos = y]]
              /\ UNCHANGED <<locpln, nplnet, numcap, nbase>>
        /\ UNCHANGED cmd

-----------------------------------------------------------------------------
\* PHASER: kind and index of an enemy's base or planet are read and checked,
\* then the bank has to cool.
Aim(c, x) ==
    /\ cmd[c] = Idle
    /\ ShowsPlanet(x) \/ ShowsBase(x)
    /\ Kind(board[x]) \notin {BaseKind(Team[c]), PlanetKind(Team[c])}
    /\ cmd' = [cmd EXCEPT ![c] =
                  [stage |-> "phaser", kind |-> Kind(board[x]), index |-> Index(board[x])]]
    /\ UNCHANGED <<board, locpln, nplnet, numcap, base, nbase>>

\* Damage by index: a planet may lose a build, a base that is up may be
\* destroyed, one that is not is destroyed again.
Fire(c) ==
    LET a == cmd[c]
    IN  /\ a.stage = "phaser"
        /\ cmd' = [cmd EXCEPT ![c] = Idle]
        /\ \/ /\ a.kind \in 6..8
              /\ \E hit \in {0, 1} :
                    locpln' = [locpln EXCEPT ![a.index].builds =
                                  IF @ - hit < 0 THEN 0 ELSE @ - hit]
              /\ UNCHANGED <<board, nplnet, numcap, base, nbase>>
           \/ /\ a.kind \in 3..4
              /\ KillBase(a.kind - 2, a.index)
           \/ /\ a.kind \in 3..4 /\ base[a.kind - 2][a.index].up
              /\ UNCHANGED <<board, locpln, nplnet, numcap, base, nbase>>

\* The session ends while it prints or waits.
Abandon(c) ==
    /\ cmd[c] # Idle
    /\ cmd' = [cmd EXCEPT ![c] = Idle]
    /\ UNCHANGED <<board, locpln, nplnet, numcap, base, nbase>>

Next ==
    \/ \E c \in Captains, x \in Cells : Build(c, x) \/ Aim(c, x)
    \/ \E c \in Captains : FinishBuild(c) \/ Fire(c) \/ Abandon(c)
    \/ \E t \in Sides, x \in Cells : Capture(t, x)
    \/ \E x \in Cells : TorpedoPlanet(x) \/ NovaPlanet(x) \/ TorpedoBase(x) \/ NovaBase(x)

Spec == Init /\ [][Next]_vars

-----------------------------------------------------------------------------
Row == [pos : Cells, builds : Int]
BaseRow == [pos : Cells, up : BOOLEAN]
Commands ==
    {Idle} \cup [stage : {"build"}, kind : 7..8, index : 1..Rows, pos : Cells]
           \cup [stage : {"phaser"}, kind : 6..8, index : 1..Rows]
           \cup [stage : {"phaser"}, kind : 3..4, index : 1..Slots]

TypeOK ==
    /\ board \in [Cells -> Int]
    /\ locpln \in [1..Rows -> Row]
    /\ nplnet \in 0..Rows
    /\ numcap \in [Sides -> Int]
    /\ base \in [Sides -> [1..Slots -> BaseRow]]
    /\ nbase \in [Sides -> Int]
    /\ cmd \in [Captains -> Commands]

\* The bases of a side whose strength is above 0.
Up(t) == {j \in 1..Slots : base[t][j].up}

\* NBASE never exceeds the bases that are up: a side without bases is never
\* taken to have one.  It may fall short of them: a phaser kills a base twice.
NoPhantomBase == \A t \in Sides : nbase[t] <= Cardinality(Up(t))

\* The rows and the board say the same of the planets, and NUMCAP counts them.
PlanetsAgree ==
    /\ \A i \in 1..nplnet : board[locpln[i].pos] \in {Code(6, i), Code(7, i), Code(8, i)}
    /\ \A x \in Cells :
          Kind(board[x]) \in 6..8 =>
              /\ Index(board[x]) \in 1..nplnet
              /\ locpln[Index(board[x])].pos = x
    /\ \A t \in Sides :
          numcap[t] = Cardinality({i \in 1..nplnet : board[locpln[i].pos] = Code(PlanetKind(t), i)})

\* ... and of the bases, with NBASE.
BasesAgree ==
    /\ \A t \in Sides : \A j \in Up(t) : board[base[t][j].pos] = Code(BaseKind(t), j)
    /\ \A x \in Cells :
          Kind(board[x]) \in 3..4 =>
              /\ ShowsBase(x)
              /\ base[Kind(board[x]) - 2][Index(board[x])] = [pos |-> x, up |-> TRUE]
    /\ \A t \in Sides : nbase[t] = Cardinality(Up(t))

\* Captain c's command goes on with an index that names something else by now:
\* another planet, a planet of another side, or a base that is destroyed.
Stale(c) ==
    \/ /\ cmd[c].stage = "build"
       /\ \/ cmd[c].index > nplnet
          \/ locpln[cmd[c].index].pos # cmd[c].pos
          \/ board[cmd[c].pos] # Code(cmd[c].kind, cmd[c].index)
    \/ /\ cmd[c].stage = "phaser" /\ cmd[c].kind \in 3..4
       /\ ~base[cmd[c].kind - 2][cmd[c].index].up

\* The three tables and the counts stay in agreement, except through a BUILD or
\* a PHASER that goes on with a stale index.
OnlyStaleDisturbs ==
    [][ PlanetsAgree /\ BasesAgree =>
            \/ PlanetsAgree' /\ BasesAgree'
            \/ \E c \in Captains : Stale(c) /\ (FinishBuild(c) \/ Fire(c)) ]_vars
=============================================================================
