--------------------------- MODULE PlanetsProofs ---------------------------
(***************************************************************************)
(* For any number of captains, planets and bases: the tables keep their    *)
(* types, and NBASE never exceeds the bases that are up.  Indices that are *)
(* stale when they are used (BUILD, PHASER) are included.                  *)
(* And the tables, the board and the counts go on to say the same until    *)
(* such an index is used: PLNRMV moves the rows behind the one that goes,  *)
(* and takes one from the codes in their cells, each of which is the cell  *)
(* of one row only.                                                        *)
(***************************************************************************)
EXTENDS Planets, FiniteSetTheorems, FunctionTheorems, TLAPS

Inv == TypeOK /\ NoPhantomBase

\* The variables after the step, except cmd.
Typed ==
    /\ board \in [Cells -> Int]
    /\ locpln \in [1..Rows -> Row]
    /\ nplnet \in 0..Rows
    /\ numcap \in [Sides -> Int]
    /\ base \in [Sides -> [1..Slots -> BaseRow]]
    /\ nbase \in [Sides -> Int]

LEMMA SlotsCounted == Cardinality(1..Slots) = Slots
<1>1. Slots \in Int /\ 1 \in Int /\ ~(1 > Slots) /\ Slots - 1 + 1 = Slots
  BY SizesAssumption DEF SizesAssumption
<1>2. Cardinality(1..Slots) = IF 1 > Slots THEN 0 ELSE Slots - 1 + 1
  BY ONLY <1>1, FS_Interval
<1> QED
  BY <1>1, <1>2

\* A code is written to a cell; SETDSP ignores what is no cell.
LEMMA BoardTyped ==
    ASSUME NEW brd \in [Cells -> Int], NEW x, NEW code \in Int
    PROVE  [brd EXCEPT ![x] = code] \in [Cells -> Int]
<1>1. [brd EXCEPT ![x] = code] = [y \in Cells |-> IF y = x THEN code ELSE brd[y]]
  OBVIOUS
<1>2. [y \in Cells |-> IF y = x THEN code ELSE brd[y]] \in [Cells -> Int]
  OBVIOUS
<1> QED
  BY <1>1, <1>2

LEMMA UpFinite ==
    ASSUME NEW t
    PROVE  IsFiniteSet(Up(t)) /\ Cardinality(Up(t)) \in Nat
<1>1. IsFiniteSet(1..Slots)
  BY FS_Interval, SizesAssumption DEF SizesAssumption
<1>2. Up(t) \subseteq 1..Slots
  BY DEF Up
<1>3. IsFiniteSet(Up(t))
  BY <1>1, <1>2, FS_Subset
<1> QED
  BY <1>3, FS_CardinalityType

\* Slot j of side t is taken or given up, and NBASE goes along.
LEMMA UpChanged ==
    ASSUME TypeOK, NEW t \in Sides, NEW j \in 1..Slots, NEW row \in BaseRow,
           base' = [base EXCEPT ![t] = [@ EXCEPT ![j] = row]]
    PROVE  /\ base' \in [Sides -> [1..Slots -> BaseRow]]
           /\ Up(t)' = IF row.up THEN Up(t) \cup {j} ELSE Up(t) \ {j}
           /\ \A s \in Sides : s # t => Up(s)' = Up(s)
<1>1. base' \in [Sides -> [1..Slots -> BaseRow]]
  BY DEF TypeOK
<1>2. \A s \in Sides, k \in 1..Slots :
         base'[s][k] = IF s = t /\ k = j THEN row ELSE base[s][k]
  BY DEF TypeOK
<1>3. Up(t)' = IF row.up THEN Up(t) \cup {j} ELSE Up(t) \ {j}
  BY <1>2 DEF Up
<1>4. ASSUME NEW s \in Sides, s # t PROVE Up(s)' = Up(s)
  BY <1>2, <1>4 DEF Up
<1> QED
  BY <1>1, <1>3, <1>4

\* A step that leaves the bases up and NBASE alone.
LEMMA SameBases ==
    ASSUME NoPhantomBase, nbase' = nbase, \A t \in Sides : Up(t)' = Up(t)
    PROVE  NoPhantomBase'
BY DEF NoPhantomBase

\* What PLNRMV does keeps the types.
LEMMA RemoveRowTyped ==
    ASSUME TypeOK, NEW i \in 1..Rows, NEW t, NEW rows \in [1..Rows -> Row],
           RemoveRow(i, t, rows)
    PROVE  /\ locpln' \in [1..Rows -> Row]
           /\ nplnet' \in 0..Rows
           /\ numcap' \in [Sides -> Int]
<1> USE SizesAssumption DEF SizesAssumption
<1>1. CASE Removes(i, t)
  <2>1. MovedUp(i, rows) \in [1..Rows -> Row]
    <3>1. ASSUME NEW r \in 1..Rows
          PROVE  (IF r \in i..(nplnet - 1) THEN rows[r + 1] ELSE rows[r]) \in Row
      <4>1. r \in i..(nplnet - 1) => r + 1 \in 1..Rows
        BY DEF TypeOK
      <4> QED
        BY <4>1
    <3> QED
      BY <3>1 DEF MovedUp
  <2>2. nplnet - 1 \in 0..Rows
    BY <1>1 DEF Removes, TypeOK
  <2>3. (IF t \in Sides THEN [numcap EXCEPT ![t] = @ - 1] ELSE numcap) \in [Sides -> Int]
    BY DEF TypeOK
  <2> QED
    BY <1>1, <2>1, <2>2, <2>3 DEF RemoveRow
<1>2. CASE ~Removes(i, t)
  BY <1>2 DEF RemoveRow, TypeOK
<1> QED
  BY <1>1, <1>2

LEMMA BoardWithoutTyped ==
    ASSUME TypeOK, NEW i \in 1..Rows, NEW t, NEW rows, NEW brd \in [Cells -> Int]
    PROVE  BoardWithout(i, t, rows, brd) \in [Cells -> Int]
<1>1. ASSUME NEW x \in Cells
      PROVE  brd[x] - Cardinality({r \in i..(nplnet - 1) : rows[r + 1].pos = x}) \in Int
  <2> DEFINE R == {r \in i..(nplnet - 1) : rows[r + 1].pos = x}
  <2>1. IsFiniteSet(i..(nplnet - 1))
    BY FS_Interval DEF TypeOK
  <2>2. IsFiniteSet(R)
    BY <2>1, FS_Subset
  <2>3. Cardinality(R) \in Nat
    BY <2>2, FS_CardinalityType
  <2> HIDE DEF R
  <2>4. brd[x] - Cardinality(R) \in Int
    BY <2>3
  <2> QED
    BY <2>4 DEF R
<1>2. Renumbered(i, rows, brd) \in [Cells -> Int]
  BY <1>1 DEF Renumbered
<1> QED
  BY <1>2 DEF BoardWithout

LEMMA InvInit == Init => Inv
<1> SUFFICES ASSUME Init PROVE Inv
  OBVIOUS
<1> USE SizesAssumption DEF SizesAssumption
<1>1. board \in [Cells -> Int]
  <2>1. ASSUME NEW x \in Cells
        PROVE  (IF \E i \in 1..Rows : PlanetAt[i] = x
                THEN Code(6, CHOOSE i \in 1..Rows : PlanetAt[i] = x)
                ELSE IF \E t \in Sides, j \in 1..Slots : BaseAt[t][j] = x
                THEN LET t == CHOOSE s \in Sides : \E j \in 1..Slots : BaseAt[s][j] = x
                     IN  Code(BaseKind(t), CHOOSE j \in 1..Slots : BaseAt[t][j] = x)
                ELSE 0) \in Int
    <3>1. CASE \E i \in 1..Rows : PlanetAt[i] = x
      <4>1. (CHOOSE i \in 1..Rows : PlanetAt[i] = x) \in 1..Rows
        BY <3>1
      <4> QED
        BY <3>1, <4>1 DEF Code
    <3>2. CASE ~(\E i \in 1..Rows : PlanetAt[i] = x) /\ \E t \in Sides, j \in 1..Slots : BaseAt[t][j] = x
      <4> DEFINE t == CHOOSE s \in Sides : \E j \in 1..Slots : BaseAt[s][j] = x
      <4>1. t \in Sides /\ \E j \in 1..Slots : BaseAt[t][j] = x
        BY <3>2
      <4> HIDE DEF t
      <4>2. (CHOOSE j \in 1..Slots : BaseAt[t][j] = x) \in 1..Slots
        BY <4>1
      <4>3. Code(BaseKind(t), CHOOSE j \in 1..Slots : BaseAt[t][j] = x) \in Int
        BY <4>1, <4>2 DEF Code, BaseKind, Sides
      <4> QED
        BY <3>2, <4>3 DEF t
    <3> QED
      BY <3>1, <3>2
  <2> QED
    BY <2>1 DEF Init
<1>2. locpln \in [1..Rows -> Row]
  BY DEF Init, Row
<1>3. base \in [Sides -> [1..Slots -> BaseRow]]
  BY DEF Init, BaseRow
<1>4. TypeOK
  <2>1. Idle \in Commands
    BY DEF Commands
  <2>2. nplnet \in 0..Rows /\ cmd \in [Captains -> Commands]
    BY <2>1 DEF Init
  <2>3. numcap \in [Sides -> Int] /\ nbase \in [Sides -> Int]
    BY DEF Init
  <2> QED
    BY <1>1, <1>2, <1>3, <2>2, <2>3 DEF TypeOK
<1>5. \A t \in Sides : Up(t) = 1..Slots
  BY DEF Init, Up
<1>6. Cardinality(1..Slots) = Slots
  BY SlotsCounted
<1>7. NoPhantomBase
  BY <1>5, <1>6 DEF Init, NoPhantomBase
<1> QED
  BY <1>4, <1>7 DEF Inv

\* A base is destroyed, or destroyed once more: NBASE goes down by one, the bases
\* that are up at most by one.
LEMMA KillBaseKeeps ==
    ASSUME Inv, NEW t \in Sides, NEW j \in 1..Slots, KillBase(t, j)
    PROVE  Typed' /\ NoPhantomBase'
<1> DEFINE row == [base[t][j] EXCEPT !.up = FALSE]
<1>1. row \in BaseRow /\ row.up = FALSE
  <2>1. base[t][j] \in BaseRow
    BY DEF Inv, TypeOK
  <2> QED
    BY <2>1 DEF BaseRow
<1>2. base' = [base EXCEPT ![t] = [@ EXCEPT ![j] = row]]
  BY DEF KillBase
<1> HIDE DEF row
<1>3. /\ base' \in [Sides -> [1..Slots -> BaseRow]]
      /\ Up(t)' = Up(t) \ {j}
      /\ \A s \in Sides : s # t => Up(s)' = Up(s)
  BY <1>1, <1>2, UpChanged DEF Inv
<1>4. nbase' = [nbase EXCEPT ![t] = @ - 1]
  BY DEF KillBase
<1>5. Typed'
  <2>1. board' = [board EXCEPT ![base[t][j].pos] = 0] /\ UNCHANGED <<locpln, nplnet, numcap>>
    BY DEF KillBase
  <2>2. board' \in [Cells -> Int]
    <3> DEFINE p == base[t][j].pos
    <3>1. board' = [board EXCEPT ![p] = 0] /\ board \in [Cells -> Int]
      BY <2>1 DEF Inv, TypeOK
    <3> HIDE DEF p
    <3> QED
      BY <3>1, BoardTyped
  <2>3. nbase' \in [Sides -> Int]
    BY <1>4 DEF Inv, TypeOK
  <2> QED
    BY <1>3, <2>1, <2>2, <2>3 DEF Typed, Inv, TypeOK
<1>6. Cardinality(Up(t) \ {j}) >= Cardinality(Up(t)) - 1
  <2>1. IsFiniteSet(Up(t)) /\ Cardinality(Up(t)) \in Nat
    BY UpFinite
  <2>2. Cardinality(Up(t) \ {j}) = IF j \in Up(t) THEN Cardinality(Up(t)) - 1 ELSE Cardinality(Up(t))
    BY <2>1, FS_RemoveElement
  <2> QED
    BY <2>1, <2>2
<1>7. ASSUME NEW s \in Sides PROVE nbase'[s] <= Cardinality(Up(s)')
  <2>1. CASE s = t
    <3>1. nbase'[s] = nbase[t] - 1 /\ nbase[t] <= Cardinality(Up(t)) /\ nbase[t] \in Int
      BY <1>4, <2>1 DEF Inv, TypeOK, NoPhantomBase
    <3>2. Cardinality(Up(t) \ {j}) \in Nat
      BY UpFinite, FS_RemoveElement, FS_CardinalityType
    <3>3. Cardinality(Up(t)) \in Nat
      BY UpFinite
    <3>4. nbase'[s] <= Cardinality(Up(t) \ {j})
      BY <1>6, <3>1, <3>2, <3>3
    <3> QED
      BY <1>3, <2>1, <3>4
  <2>2. CASE s # t
    BY <1>3, <1>4, <2>2 DEF Inv, TypeOK, NoPhantomBase
  <2> QED
    BY <2>1, <2>2
<1> QED
  BY <1>5, <1>7 DEF NoPhantomBase

\* A planet becomes a base in a free slot.
LEMMA FifthBaseKeeps ==
    ASSUME Inv, NEW t \in Sides, NEW x \in Cells, NEW i \in 1..Rows,
           NEW rows \in [1..Rows -> Row], FifthBase(t, x, i, rows)
    PROVE  Typed' /\ NoPhantomBase'
<1> DEFINE row == [pos |-> x, up |-> TRUE]
<1>1. PICK j \in 1..Slots :
        /\ ~base[t][j].up
        /\ nbase' = [nbase EXCEPT ![t] = @ + 1]
        /\ RemoveRow(i, t, rows)
        /\ base' = [base EXCEPT ![t] = [@ EXCEPT ![j] = row]]
        /\ board' = [BoardWithout(i, t, rows, board) EXCEPT ![x] = Code(BaseKind(t), j)]
  BY DEF FifthBase
<1>2. row \in BaseRow /\ row.up = TRUE
  BY DEF BaseRow
<1> HIDE DEF row
<1>3. /\ base' \in [Sides -> [1..Slots -> BaseRow]]
      /\ Up(t)' = Up(t) \cup {j}
      /\ \A s \in Sides : s # t => Up(s)' = Up(s)
  BY <1>1, <1>2, UpChanged DEF Inv
<1>4. Code(BaseKind(t), j) \in Int
  BY SizesAssumption DEF SizesAssumption, Code, BaseKind, Sides
<1>5. board' \in [Cells -> Int]
  BY <1>1, <1>4, BoardWithoutTyped DEF Inv, TypeOK
<1>6. Typed'
  BY <1>1, <1>3, <1>5, RemoveRowTyped DEF Typed, Inv, TypeOK
<1>7. Cardinality(Up(t) \cup {j}) = Cardinality(Up(t)) + 1
  <2>1. j \notin Up(t)
    BY <1>1 DEF Up
  <2> QED
    BY <2>1, UpFinite, FS_AddElement
<1>8. ASSUME NEW s \in Sides PROVE nbase'[s] <= Cardinality(Up(s)')
  <2>1. CASE s = t
    <3>1. nbase'[s] = nbase[t] + 1 /\ nbase[t] <= Cardinality(Up(t)) /\ nbase[t] \in Int
      BY <1>1, <2>1 DEF Inv, TypeOK, NoPhantomBase
    <3>2. Cardinality(Up(t)) \in Nat
      BY UpFinite
    <3>3. nbase'[s] <= Cardinality(Up(t) \cup {j})
      BY <1>7, <3>1, <3>2
    <3> QED
      BY <1>3, <2>1, <3>3
  <2>2. CASE s # t
    BY <1>1, <1>3, <2>2 DEF Inv, TypeOK, NoPhantomBase
  <2> QED
    BY <2>1, <2>2
<1> QED
  BY <1>6, <1>8 DEF NoPhantomBase

\* The bases and NBASE stay as they are.
LEMMA BasesUntouched ==
    ASSUME Inv, UNCHANGED <<base, nbase>>
    PROVE  NoPhantomBase'
<1>1. \A t \in Sides : Up(t)' = Up(t)
  BY DEF Up
<1> QED
  BY <1>1, SameBases DEF Inv

\* The builds of a planet are counted up or down.
LEMMA BuildsTyped ==
    ASSUME NEW rows \in [1..Rows -> Row], NEW i \in 1..Rows
    PROVE  /\ [rows EXCEPT ![i].builds = @ + 1] \in [1..Rows -> Row]
           /\ [rows EXCEPT ![i].builds = @ - 1] \in [1..Rows -> Row]
           /\ [rows EXCEPT ![i].builds = @ - 3] \in [1..Rows -> Row]
           /\ [rows EXCEPT ![i].builds = 0] \in [1..Rows -> Row]
           /\ \A hit \in {0, 1} :
                 [rows EXCEPT ![i].builds = IF @ - hit < 0 THEN 0 ELSE @ - hit] \in [1..Rows -> Row]
<1>1. ASSUME NEW n \in Int
      PROVE  [rows EXCEPT ![i].builds = n] \in [1..Rows -> Row]
  <2>1. [rows[i] EXCEPT !.builds = n] \in Row
    BY DEF Row
  <2> QED
    BY <2>1
<1>2. rows[i].builds \in Int
  BY DEF Row
<1>3. ASSUME NEW hit \in {0, 1}
      PROVE  (IF rows[i].builds - hit < 0 THEN 0 ELSE rows[i].builds - hit) \in Int
  BY <1>2
<1>4. /\ rows[i].builds + 1 \in Int /\ rows[i].builds - 1 \in Int
      /\ rows[i].builds - 3 \in Int /\ 0 \in Int
  BY <1>2
<1>5. /\ [rows EXCEPT ![i].builds = @ + 1] \in [1..Rows -> Row]
      /\ [rows EXCEPT ![i].builds = @ - 1] \in [1..Rows -> Row]
  BY <1>1, <1>4
<1>6. /\ [rows EXCEPT ![i].builds = @ - 3] \in [1..Rows -> Row]
      /\ [rows EXCEPT ![i].builds = 0] \in [1..Rows -> Row]
  BY <1>1, <1>4
<1>7. \A hit \in {0, 1} :
         [rows EXCEPT ![i].builds = IF @ - hit < 0 THEN 0 ELSE @ - hit] \in [1..Rows -> Row]
  BY <1>1, <1>3
<1> QED
  BY <1>5, <1>6, <1>7

\* BUILD from the fifth build on.
LEMMA FifthKeeps ==
    ASSUME Inv, NEW t \in Sides, NEW x \in Cells, NEW i \in 1..Rows,
           NEW rows \in [1..Rows -> Row], Fifth(t, x, i, rows)
    PROVE  Typed' /\ NoPhantomBase'
<1>1. CASE FifthRefused(rows)
  BY <1>1, BasesUntouched DEF FifthRefused, Typed, Inv, TypeOK
<1>2. CASE FifthFull(t, i, rows)
  <2>1. [rows EXCEPT ![i].builds = @ - 1] \in [1..Rows -> Row]
    BY BuildsTyped
  <2> QED
    BY <1>2, <2>1, BasesUntouched DEF FifthFull, Typed, Inv, TypeOK
<1>3. CASE FifthBase(t, x, i, rows)
  BY <1>3, FifthBaseKeeps
<1> QED
  BY <1>1, <1>2, <1>3 DEF Fifth

\* What a command goes on with has its type.
LEMMA CmdTyped ==
    ASSUME TypeOK, NEW c \in Captains, NEW d \in Commands, cmd' = [cmd EXCEPT ![c] = d]
    PROVE  cmd' \in [Captains -> Commands]
BY DEF TypeOK

LEMMA Split == Inv' <=> Typed' /\ cmd' \in [Captains -> Commands] /\ NoPhantomBase'
BY DEF Inv, Typed, TypeOK

\* Commands that yield.
LEMMA CommandsKeep ==
    ASSUME Inv, NEW c \in Captains,
           \/ \E x \in Cells : Build(c, x) \/ Aim(c, x)
           \/ FinishBuild(c) \/ Fire(c) \/ Abandon(c)
    PROVE  Inv'
<1> USE SizesAssumption DEF SizesAssumption
<1>1. Team[c] \in Sides /\ Idle \in Commands
  BY DEF Commands
<1>2. ASSUME NEW x \in Cells, Build(c, x) PROVE Inv'
  <2> DEFINE i == Index(board[x])
             rows == [locpln EXCEPT ![i].builds = @ + 1]
             d == [stage |-> "build", kind |-> PlanetKind(Team[c]), index |-> i, pos |-> x]
  <2>1. i \in 1..Rows
    BY <1>2 DEF Build, ShowsPlanet
  <2>2. rows \in [1..Rows -> Row]
    <3>1. locpln \in [1..Rows -> Row]
      BY DEF Inv, TypeOK
    <3> HIDE DEF i
    <3> QED
      BY <2>1, <3>1, BuildsTyped
  <2>3. \/ Fifth(Team[c], x, i, rows) /\ UNCHANGED cmd
        \/ /\ locpln' = rows /\ cmd' = [cmd EXCEPT ![c] = d]
           /\ UNCHANGED <<board, nplnet, numcap, base, nbase>>
    BY <1>2 DEF Build
  <2>4. d \in Commands
    BY <1>1, <2>1 DEF Commands, PlanetKind, Sides
  <2> HIDE DEF d, rows, i
  <2>5. CASE Fifth(Team[c], x, i, rows) /\ UNCHANGED cmd
    BY <1>1, <2>1, <2>2, <2>5, FifthKeeps, Split DEF Inv, TypeOK
  <2>6. CASE /\ locpln' = rows /\ cmd' = [cmd EXCEPT ![c] = d]
             /\ UNCHANGED <<board, nplnet, numcap, base, nbase>>
    <3>1. Typed'
      BY <2>2, <2>6 DEF Typed, Inv, TypeOK
    <3> QED
      BY <2>4, <2>6, <3>1, CmdTyped, BasesUntouched, Split DEF Inv
  <2> QED
    BY <2>3, <2>5, <2>6
<1>3. ASSUME NEW d \in Commands, cmd' = [cmd EXCEPT ![c] = d],
             UNCHANGED <<board, locpln, nplnet, numcap, base, nbase>>
      PROVE  Inv'
  <2>1. Typed'
    BY <1>3 DEF Typed, Inv, TypeOK
  <2> QED
    BY <1>3, <2>1, CmdTyped, BasesUntouched, Split DEF Inv
<1>4. ASSUME NEW x \in Cells, Aim(c, x) PROVE Inv'
  <2> DEFINE d == [stage |-> "phaser", kind |-> Kind(board[x]), index |-> Index(board[x])]
  <2>1. d \in Commands
    BY <1>4 DEF Aim, ShowsPlanet, ShowsBase, Commands
  <2>2. cmd' = [cmd EXCEPT ![c] = d] /\ UNCHANGED <<board, locpln, nplnet, numcap, base, nbase>>
    BY <1>4 DEF Aim
  <2> HIDE DEF d
  <2> QED
    BY <1>3, <2>1, <2>2
<1>5. CASE Abandon(c)
  BY <1>1, <1>3, <1>5 DEF Abandon
<1>6. CASE FinishBuild(c)
  <2> DEFINE b == cmd[c]
  <2>1. b.stage = "build" /\ cmd' = [cmd EXCEPT ![c] = Idle]
    BY <1>6 DEF FinishBuild
  <2>2. b.index \in 1..Rows /\ b.pos \in Cells
    BY <2>1 DEF Inv, TypeOK, Commands, Idle
  <2>3. \/ Fifth(Team[c], b.pos, b.index, locpln)
        \/ UNCHANGED <<board, locpln, nplnet, numcap, base, nbase>>
    BY <1>6 DEF FinishBuild
  <2>4. CASE Fifth(Team[c], b.pos, b.index, locpln)
    BY <1>1, <2>1, <2>2, <2>4, FifthKeeps, CmdTyped, Split DEF Inv, TypeOK
  <2> QED
    BY <1>1, <1>3, <2>1, <2>3, <2>4
<1>7. CASE Fire(c)
  <2> DEFINE a == cmd[c]
  <2>1. a.stage = "phaser" /\ cmd' = [cmd EXCEPT ![c] = Idle]
    BY <1>7 DEF Fire
  <2>2. \/ a.kind \in 6..8 /\ a.index \in 1..Rows
        \/ a.kind \in 3..4 /\ a.index \in 1..Slots
    BY <2>1 DEF Inv, TypeOK, Commands, Idle
  <2>3. CASE /\ a.kind \in 6..8
             /\ \E hit \in {0, 1} :
                   locpln' = [locpln EXCEPT ![a.index].builds =
                                 IF @ - hit < 0 THEN 0 ELSE @ - hit]
             /\ UNCHANGED <<board, nplnet, numcap, base, nbase>>
    <3>1. a.index \in 1..Rows
      BY <2>2, <2>3
    <3>2. locpln' \in [1..Rows -> Row]
      <4>1. PICK hit \in {0, 1} :
              locpln' = [locpln EXCEPT ![a.index].builds = IF @ - hit < 0 THEN 0 ELSE @ - hit]
        BY <2>3
      <4>2. locpln \in [1..Rows -> Row]
        BY DEF Inv, TypeOK
      <4> HIDE DEF a
      <4> QED
        BY <3>1, <4>1, <4>2, BuildsTyped
    <3>3. Typed'
      BY <2>3, <3>2 DEF Typed, Inv, TypeOK
    <3> QED
      BY <1>1, <2>1, <2>3, <3>3, CmdTyped, BasesUntouched, Split DEF Inv
  <2>4. CASE a.kind \in 3..4 /\ KillBase(a.kind - 2, a.index)
    <3>1. a.kind - 2 \in Sides /\ a.index \in 1..Slots
      BY <2>2, <2>4 DEF Sides
    <3> QED
      BY <1>1, <2>1, <2>4, <3>1, KillBaseKeeps, CmdTyped, Split DEF Inv
  <2> QED
    BY <1>1, <1>3, <1>7, <2>1, <2>3, <2>4 DEF Fire
<1> QED
  BY <1>2, <1>4, <1>5, <1>6, <1>7

\* Weapons and CAPTURE, which act at once.
LEMMA AtOnceKeeps ==
    ASSUME Inv,
           \/ \E t \in Sides, x \in Cells : Capture(t, x)
           \/ \E x \in Cells : \/ TorpedoPlanet(x) \/ NovaPlanet(x)
                               \/ TorpedoBase(x) \/ NovaBase(x)
    PROVE  Inv'
<1> USE SizesAssumption DEF SizesAssumption
<1>1. /\ board \in [Cells -> Int] /\ locpln \in [1..Rows -> Row]
      /\ cmd \in [Captains -> Commands]
  BY DEF Inv, TypeOK
<1>2. ASSUME NEW t \in Sides, NEW x \in Cells, Capture(t, x) PROVE Inv'
  <2> DEFINE i == Index(board[x])
             lost == Kind(board[x]) - 6
  <2>1. i \in 1..Rows
    BY <1>2 DEF Capture, ShowsPlanet
  <2>2. locpln' = [locpln EXCEPT ![i].builds = 0]
    BY <1>2 DEF Capture
  <2>3. numcap' = [s \in Sides |-> numcap[s] + (IF s = t THEN 1 ELSE 0)
                                             - (IF s = lost THEN 1 ELSE 0)]
    BY <1>2 DEF Capture
  <2>4. board' = [board EXCEPT ![x] = Code(PlanetKind(t), i)]
    BY <1>2 DEF Capture
  <2>5. Code(PlanetKind(t), i) \in Int
    BY <2>1 DEF Code, PlanetKind, Sides
  <2> HIDE DEF i, lost
  <2>6. locpln' \in [1..Rows -> Row]
    BY <1>1, <2>1, <2>2, BuildsTyped
  <2>7. numcap' \in [Sides -> Int]
    BY <2>3 DEF Inv, TypeOK
  <2>8. board' \in [Cells -> Int]
    BY <1>1, <2>4, <2>5
  <2>9. UNCHANGED <<nplnet, base, nbase, cmd>>
    BY <1>2 DEF Capture
  <2>10. Typed'
    BY <2>6, <2>7, <2>8, <2>9 DEF Typed, Inv, TypeOK
  <2> QED
    BY <1>1, <2>9, <2>10, BasesUntouched, Split
<1>3. ASSUME NEW i \in 1..Rows, NEW t, NEW rows \in [1..Rows -> Row],
             NEW cleared \in [Cells -> Int],
             \/ RemoveRow(i, t, rows) /\ board' = BoardWithout(i, t, rows, cleared)
             \/ locpln' = rows /\ UNCHANGED <<board, nplnet, numcap>>,
             UNCHANGED <<base, nbase, cmd>>
      PROVE  Inv'
  <2>1. locpln' \in [1..Rows -> Row] /\ nplnet' \in 0..Rows /\ numcap' \in [Sides -> Int]
    BY <1>3, RemoveRowTyped DEF Inv, TypeOK
  <2>2. board' \in [Cells -> Int]
    BY <1>1, <1>3, BoardWithoutTyped DEF Inv
  <2>3. Typed'
    BY <1>3, <2>1, <2>2 DEF Typed, Inv, TypeOK
  <2> QED
    BY <1>1, <1>3, <2>3, BasesUntouched, Split
<1>5. ASSUME NEW x \in Cells, TorpedoPlanet(x) PROVE Inv'
  <2> DEFINE i == Index(board[x])
             rows == [locpln EXCEPT ![i].builds = @ - 1]
             t == Kind(board[x]) - 6
             cleared == [board EXCEPT ![x] = 0]
  <2>1. i \in 1..Rows
    BY <1>5 DEF TorpedoPlanet, ShowsPlanet
  <2>2. \/ RemoveRow(i, t, rows) /\ board' = BoardWithout(i, t, rows, cleared)
        \/ locpln' = rows /\ UNCHANGED <<board, nplnet, numcap>>
    BY <1>5 DEF TorpedoPlanet
  <2>3. UNCHANGED <<base, nbase, cmd>>
    BY <1>5 DEF TorpedoPlanet
  <2> HIDE DEF i, t
  <2>4. rows \in [1..Rows -> Row]
    BY <1>1, <2>1, BuildsTyped
  <2> HIDE DEF rows
  <2>5. cleared \in [Cells -> Int]
    BY <1>1, BoardTyped
  <2> HIDE DEF cleared
  <2> QED
    BY <1>3, <2>1, <2>2, <2>3, <2>4, <2>5
<1>6. ASSUME NEW x \in Cells, NovaPlanet(x) PROVE Inv'
  <2> DEFINE i == Index(board[x])
             rows == [locpln EXCEPT ![i].builds = @ - 3]
             at == locpln[i].pos
             t == Kind(board[at]) - 6
             cleared == [board EXCEPT ![at] = 0]
  <2>1. i \in 1..Rows
    BY <1>6 DEF NovaPlanet, ShowsPlanet
  <2>2. \/ RemoveRow(i, t, rows) /\ board' = BoardWithout(i, t, rows, cleared)
        \/ locpln' = rows /\ UNCHANGED <<board, nplnet, numcap>>
    BY <1>6 DEF NovaPlanet
  <2>3. UNCHANGED <<base, nbase, cmd>>
    BY <1>6 DEF NovaPlanet
  <2> HIDE DEF i, t, at
  <2>4. rows \in [1..Rows -> Row]
    BY <1>1, <2>1, BuildsTyped
  <2> HIDE DEF rows
  <2>5. cleared \in [Cells -> Int]
    <3>1. cleared = [y \in Cells |-> IF y = at THEN 0 ELSE board[y]]
      BY <1>1
    <3>2. \A y \in Cells : (IF y = at THEN 0 ELSE board[y]) \in Int
      BY <1>1
    <3> HIDE DEF cleared
    <3> QED
      BY <3>1, <3>2
  <2> HIDE DEF cleared
  <2> QED
    BY <1>3, <2>1, <2>2, <2>3, <2>4, <2>5
<1>7. ASSUME NEW x \in Cells, TorpedoBase(x) \/ NovaBase(x) PROVE Inv'
  <2> DEFINE tt == Kind(board[x]) - 2
             jj == Index(board[x])
  <2>0. /\ Kind(board[x]) \in 3..4 /\ jj \in 1..Slots
        /\ UNCHANGED cmd
    BY <1>7 DEF TorpedoBase, NovaBase, ShowsBase
  <2>1. tt \in Sides
    BY <2>0 DEF Sides
  <2>2. \/ KillBase(tt, jj)
        \/ \E y \in Cells :
              /\ base[tt][jj].up
              /\ board' = [board EXCEPT ![base[tt][jj].pos] = 0, ![y] = Code(BaseKind(tt), jj)]
              /\ base' = [base EXCEPT ![tt] = [@ EXCEPT ![jj].pos = y]]
              /\ UNCHANGED <<locpln, nplnet, numcap, nbase>>
    BY <1>7 DEF TorpedoBase, NovaBase
  <2> HIDE DEF tt, jj
  <2> PICK t \in Sides, j \in 1..Slots : t = tt /\ j = jj
    BY <2>0, <2>1
  <2>3. CASE KillBase(tt, jj)
    BY <1>1, <2>0, <2>1, <2>3, KillBaseKeeps, Split
  <2>4. ASSUME NEW y \in Cells,
               base[t][j].up,
               board' = [board EXCEPT ![base[t][j].pos] = 0, ![y] = Code(BaseKind(t), j)],
               base' = [base EXCEPT ![t] = [@ EXCEPT ![j].pos = y]],
               UNCHANGED <<locpln, nplnet, numcap, nbase>>
        PROVE  Inv'
    <3> DEFINE row == [base[t][j] EXCEPT !.pos = y]
               p == base[t][j].pos
    <3>1. row \in BaseRow /\ row.up = TRUE
      <4>1. base[t][j] \in BaseRow
        BY DEF Inv, TypeOK
      <4> QED
        BY ONLY <2>4, <4>1 DEF BaseRow
    <3>2. base' = [base EXCEPT ![t] = [@ EXCEPT ![j] = row]]
      BY <2>4
    <3>3. Code(BaseKind(t), j) \in Int
      BY DEF Code, BaseKind, Sides
    <3>4. board' = [board EXCEPT ![p] = 0, ![y] = Code(BaseKind(t), j)]
      BY <2>4
    <3> HIDE DEF row, p
    <3>5. /\ base' \in [Sides -> [1..Slots -> BaseRow]]
          /\ Up(t)' = Up(t) \cup {j}
          /\ \A s \in Sides : s # t => Up(s)' = Up(s)
      BY <3>1, <3>2, UpChanged DEF Inv
    <3>6. j \in Up(t)
      BY <2>4 DEF Up
    <3>7. NoPhantomBase'
      <4>1. \A s \in Sides : Up(s)' = Up(s)
        BY <3>5, <3>6
      <4> QED
        BY <2>4, <4>1, SameBases DEF Inv
    <3>8. board' \in [Cells -> Int]
      BY <1>1, <3>3, <3>4
    <3>9. Typed'
      BY <2>4, <3>5, <3>8 DEF Typed, Inv, TypeOK
    <3> QED
      BY <1>1, <2>0, <3>7, <3>9, Split
  <2> QED
    BY <2>2, <2>3, <2>4
<1> QED
  BY <1>2, <1>5, <1>6, <1>7

LEMMA InvStep == Inv /\ [Next]_vars => Inv'
<1> SUFFICES ASSUME Inv, [Next]_vars PROVE Inv'
  OBVIOUS
<1>1. CASE Next
  BY <1>1, CommandsKeep, AtOnceKeeps DEF Next
<1>2. CASE UNCHANGED vars
  BY <1>2 DEF vars, Inv, TypeOK, NoPhantomBase, Up
<1> QED
  BY <1>1, <1>2

-----------------------------------------------------------------------------
(* The agreement of the tables, the board and the counts.                  *)

\* Codes of the board can be read back.
LEMMA CodeFacts ==
    ASSUME NEW kind \in 0..9, NEW i \in 0..99
    PROVE  /\ Code(kind, i) \in Int
           /\ Kind(Code(kind, i)) = kind
           /\ Index(Code(kind, i)) = i
BY DEF Kind, Index, Code

LEMMA Decoded ==
    ASSUME NEW code \in Int, Kind(code) # 0
    PROVE  /\ Kind(code) \in Nat /\ Index(code) \in 0..99
           /\ code = Code(Kind(code), Index(code))
BY DEF Kind, Index, Code

\* The planets of side t.
Owned(t) == {i \in 1..nplnet : board[locpln[i].pos] = Code(PlanetKind(t), i)}

\* The rows behind row i that name the cell y.
Behind(i, rows, y) == {r \in i..(nplnet - 1) : rows[r + 1].pos = y}

\* A planet under construction is one of the captain's own side.
OwnBuilds == \A c \in Captains : cmd[c].stage = "build" => cmd[c].kind = PlanetKind(Team[c])

\* A planet's cell shows its kind and row.
LEMMA PlanetCell ==
    ASSUME TypeOK, PlanetsAgree, NEW i \in 1..nplnet
    PROVE  /\ i \in 1..Rows /\ locpln[i].pos \in Cells
           /\ Kind(board[locpln[i].pos]) \in 6..8
           /\ Index(board[locpln[i].pos]) = i
           /\ board[locpln[i].pos] = Code(Kind(board[locpln[i].pos]), i)
<1>1. i \in 1..Rows /\ i \in 0..99
  BY SizesAssumption DEF SizesAssumption, TypeOK
<1>2. locpln[i].pos \in Cells
  BY <1>1 DEF TypeOK, Row
<1>3. PICK kind \in 6..8 : board[locpln[i].pos] = Code(kind, i)
  BY DEF PlanetsAgree
<1>4. Kind(Code(kind, i)) = kind /\ Index(Code(kind, i)) = i
  BY <1>1, CodeFacts
<1> QED
  BY <1>1, <1>2, <1>3, <1>4

\* Two rows never name the same cell.
LEMMA PlanetsApart ==
    ASSUME TypeOK, PlanetsAgree, NEW i \in 1..nplnet, NEW k \in 1..nplnet,
           locpln[i].pos = locpln[k].pos
    PROVE  i = k
BY PlanetCell

\* A base's cell shows its side and slot.
LEMMA BaseCell ==
    ASSUME TypeOK, BasesAgree, NEW t \in Sides, NEW j \in 1..Slots, base[t][j].up
    PROVE  /\ base[t][j].pos \in Cells
           /\ Kind(board[base[t][j].pos]) = BaseKind(t)
           /\ Index(board[base[t][j].pos]) = j
<1>1. j \in 0..99 /\ BaseKind(t) \in 0..9
  BY SizesAssumption DEF SizesAssumption, BaseKind, Sides
<1>2. base[t][j].pos \in Cells
  BY DEF TypeOK, BaseRow
<1>3. board[base[t][j].pos] = Code(BaseKind(t), j)
  BY DEF BasesAgree, Up
<1> QED
  BY <1>1, <1>2, <1>3, CodeFacts

LEMMA PlanetsFinite ==
    ASSUME TypeOK, NEW t
    PROVE  IsFiniteSet(Owned(t)) /\ Cardinality(Owned(t)) \in Nat
<1>1. IsFiniteSet(1..nplnet)
  BY FS_Interval DEF TypeOK
<1>2. Owned(t) \subseteq 1..nplnet
  BY DEF Owned
<1> QED
  BY <1>1, <1>2, FS_Subset, FS_CardinalityType

\* Only builds change.
LEMMA BuildsHarmless ==
    ASSUME TypeOK, PlanetsAgree, BasesAgree,
           UNCHANGED <<board, nplnet, numcap, base, nbase>>,
           \A i \in 1..Rows : locpln'[i].pos = locpln[i].pos
    PROVE  PlanetsAgree' /\ BasesAgree'
<1>1. \A i \in 1..nplnet : i \in 1..Rows
  BY PlanetCell
<1>2. BasesAgree'
  BY DEF BasesAgree, Up, ShowsBase
<1>3. \A i \in 1..nplnet : locpln'[i].pos = locpln[i].pos
  BY <1>1
<1>4. \A t \in Sides :
        {i \in 1..nplnet' : board'[locpln'[i].pos] = Code(PlanetKind(t), i)}
          = {i \in 1..nplnet : board[locpln[i].pos] = Code(PlanetKind(t), i)}
  BY <1>3
<1> QED
  BY <1>2, <1>3, <1>4 DEF PlanetsAgree

\* Bases and their count stay, and so does what their cells show; no cell becomes a base.
LEMMA BasesStay ==
    ASSUME TypeOK, BasesAgree, UNCHANGED <<base, nbase>>,
           \A x \in Cells : Kind(board[x]) \in 3..4 \/ Kind(board'[x]) \in 3..4
                               => board'[x] = board[x]
    PROVE  BasesAgree'
<1>1. ASSUME NEW t \in Sides, NEW j \in Up(t)
      PROVE  board'[base[t][j].pos] = Code(BaseKind(t), j)
  <2>1. j \in 1..Slots /\ base[t][j].up
    BY DEF Up
  <2>2. base[t][j].pos \in Cells /\ Kind(board[base[t][j].pos]) \in 3..4
    BY <2>1, BaseCell DEF BaseKind, Sides
  <2> QED
    BY <2>2 DEF BasesAgree
<1>2. \A t : Up(t)' = Up(t)
  BY DEF Up
<1>3. ASSUME NEW x \in Cells, Kind(board'[x]) \in 3..4
      PROVE  /\ ShowsBase(x)'
             /\ base'[Kind(board'[x]) - 2][Index(board'[x])] = [pos |-> x, up |-> TRUE]
  BY <1>3 DEF BasesAgree, ShowsBase
<1> QED
  BY <1>1, <1>2, <1>3 DEF BasesAgree

\* Planets, their rows and counts stay, and so does what their cells show.
LEMMA PlanetsStay ==
    ASSUME TypeOK, PlanetsAgree, UNCHANGED <<locpln, nplnet, numcap>>,
           \A x \in Cells : Kind(board[x]) \in 6..8 \/ Kind(board'[x]) \in 6..8
                               => board'[x] = board[x]
    PROVE  PlanetsAgree'
<1>1. \A i \in 1..nplnet : board'[locpln[i].pos] = board[locpln[i].pos]
  BY PlanetCell
<1>2. \A t \in Sides :
        {i \in 1..nplnet' : board'[locpln'[i].pos] = Code(PlanetKind(t), i)}
          = {i \in 1..nplnet : board[locpln[i].pos] = Code(PlanetKind(t), i)}
  BY <1>1
<1>3. \A x \in Cells : Kind(board'[x]) \in 6..8 =>
        Index(board'[x]) \in 1..nplnet' /\ locpln'[Index(board'[x])].pos = x
  BY DEF PlanetsAgree
<1> QED
  BY <1>1, <1>2, <1>3 DEF PlanetsAgree

-----------------------------------------------------------------------------
(* PLNRMV of a row that is what the caller takes it for.                   *)

\* The planet of row i goes, the rows behind it move up and their codes go
\* down by one; whatever its cell x shows now is no planet.
LEMMA Renumbers ==
    ASSUME TypeOK, PlanetsAgree, NEW i \in 1..nplnet, NEW x, x = locpln[i].pos,
           \A y \in Cells : y # x =>
               board'[y] = board[y] - Cardinality({r \in i..(nplnet - 1) : locpln[r + 1].pos = y})
    PROVE  /\ \A r \in (i + 1)..nplnet :
                 board'[locpln[r].pos] = Code(Kind(board[locpln[r].pos]), r - 1)
           /\ \A y \in Cells :
                 y # x /\ (\A r \in (i + 1)..nplnet : locpln[r].pos # y) => board'[y] = board[y]
<1>0. nplnet \in Int /\ i \in Int
  BY SizesAssumption DEF SizesAssumption, TypeOK
<1>1. ASSUME NEW r \in (i + 1)..nplnet
      PROVE  board'[locpln[r].pos] = Code(Kind(board[locpln[r].pos]), r - 1)
  <2> DEFINE y == locpln[r].pos
             S == {s \in i..(nplnet - 1) : locpln[s + 1].pos = y}
  <2>1. r \in 1..nplnet /\ r # i
    BY <1>0
  <2>2. y \in Cells /\ y # x
    BY <2>1, PlanetCell, PlanetsApart
  <2>3. S = {r - 1}
    <3>1. r - 1 \in i..(nplnet - 1) /\ (r - 1) + 1 = r
      BY <1>0
    <3>2. ASSUME NEW s \in S PROVE s = r - 1
      <4>1. s + 1 \in 1..nplnet /\ locpln[s + 1].pos = locpln[r].pos
        BY <1>0
      <4>2. s + 1 = r
        BY <2>1, <4>1, PlanetsApart
      <4> QED
        BY <4>2, <1>0
    <3> QED
      BY <3>1, <3>2
  <2>4. Cardinality(S) = 1
    BY <2>3, FS_Singleton
  <2> HIDE DEF S
  <2>5. board'[y] = board[y] - 1
    BY <2>2, <2>4 DEF S
  <2>6. board[y] = Code(Kind(board[y]), r) /\ Kind(board[y]) \in 6..8
    BY <2>1, PlanetCell
  <2> QED
    BY <2>5, <2>6, <1>0 DEF Code
<1>2. ASSUME NEW y \in Cells, y # x, \A r \in (i + 1)..nplnet : locpln[r].pos # y
      PROVE  board'[y] = board[y]
  <2> DEFINE S == {s \in i..(nplnet - 1) : locpln[s + 1].pos = y}
  <2>1. S = {}
    <3> SUFFICES ASSUME NEW s \in i..(nplnet - 1) PROVE locpln[s + 1].pos # y
      OBVIOUS
    <3>1. s + 1 \in (i + 1)..nplnet
      BY <1>0
    <3> QED
      BY <1>2, <3>1
  <2>2. Cardinality(S) = 0
    BY <2>1, FS_EmptySet
  <2> HIDE DEF S
  <2>3. board'[y] = board[y] - 0
    BY <1>2, <2>2 DEF S
  <2> QED
    BY <2>3 DEF TypeOK
<1> QED
  BY <1>1, <1>2

LEMMA RemovalAgrees ==
    ASSUME TypeOK, PlanetsAgree, NEW i \in 1..nplnet, NEW x, x = locpln[i].pos,
           NEW rows, \A r \in 1..Rows : rows[r].pos = locpln[r].pos,
           NEW t, t = Kind(board[x]) - 6, RemoveRow(i, t, rows),
           \A y \in Cells : y # x =>
               board'[y] = board[y] - Cardinality(Behind(i, rows, y)),
           Kind(board'[x]) \notin 6..8
    PROVE  /\ PlanetsAgree'
           /\ \A y \in Cells : y # x /\ Kind(board[y]) \notin 6..8 => board'[y] = board[y]
           /\ \A y \in Cells : y # x => (Kind(board'[y]) \in 6..8 <=> Kind(board[y]) \in 6..8)
<1>0. /\ nplnet \in Int /\ i \in Int /\ nplnet <= Rows /\ Rows \in 1..99
      /\ 1 <= i /\ i <= nplnet
  BY SizesAssumption DEF SizesAssumption, TypeOK
<1>1. x \in Cells /\ t \in 0..2 /\ board[x] = Code(6 + t, i)
  BY PlanetCell
<1>2. /\ locpln' = MovedUp(i, rows)
      /\ nplnet' = nplnet - 1
      /\ numcap' = IF t \in Sides THEN [numcap EXCEPT ![t] = @ - 1] ELSE numcap
  BY <1>1, <1>0 DEF RemoveRow, Removes
<1>3. \A m \in 1..nplnet' : locpln'[m].pos = IF m < i THEN locpln[m].pos ELSE locpln[m + 1].pos
  <2> SUFFICES ASSUME NEW m \in 1..nplnet'
               PROVE  locpln'[m].pos = IF m < i THEN locpln[m].pos ELSE locpln[m + 1].pos
    OBVIOUS
  <2>1. m \in 1..Rows /\ m + 1 \in 1..Rows /\ m <= nplnet - 1
    BY <1>0, <1>2
  <2>2. locpln'[m] = IF m < i THEN rows[m] ELSE rows[m + 1]
    BY <1>0, <1>2, <2>1 DEF MovedUp
  <2> QED
    BY <2>1, <2>2
<1>4. \A y \in Cells : y # x =>
        board'[y] = board[y] - Cardinality({r \in i..(nplnet - 1) : locpln[r + 1].pos = y})
  <2> SUFFICES ASSUME NEW y \in Cells, y # x
               PROVE  board'[y] = board[y]
                        - Cardinality({r \in i..(nplnet - 1) : locpln[r + 1].pos = y})
    OBVIOUS
  <2>1. \A r \in i..(nplnet - 1) : rows[r + 1].pos = locpln[r + 1].pos
    BY <1>0
  <2>2. {r \in i..(nplnet - 1) : rows[r + 1].pos = y}
          = {r \in i..(nplnet - 1) : locpln[r + 1].pos = y}
    BY <2>1
  <2> QED
    BY <2>2 DEF Behind
<1>5. /\ \A r \in (i + 1)..nplnet :
            board'[locpln[r].pos] = Code(Kind(board[locpln[r].pos]), r - 1)
      /\ \A y \in Cells :
            y # x /\ (\A r \in (i + 1)..nplnet : locpln[r].pos # y) => board'[y] = board[y]
  BY <1>4, Renumbers
\* A row before i keeps its cell, one behind it has a code that is one less.
<1>6. ASSUME NEW m \in 1..nplnet'
      PROVE  LET r == IF m < i THEN m ELSE m + 1
             IN  /\ r \in 1..nplnet /\ r # i
                 /\ locpln'[m].pos = locpln[r].pos
                 /\ board'[locpln'[m].pos] = Code(Kind(board[locpln[r].pos]), m)
  <2>1. CASE m < i
    <3>1. m \in 1..nplnet /\ m # i
      BY <1>0, <1>2, <2>1
    <3>2. /\ locpln[m].pos \in Cells /\ locpln[m].pos # x
          /\ \A r \in (i + 1)..nplnet : locpln[r].pos # locpln[m].pos
      <4>1. \A r \in i..nplnet : r \in 1..nplnet /\ r # m
        BY <1>0, <2>1
      <4>2. i \in i..nplnet /\ \A r \in (i + 1)..nplnet : r \in i..nplnet
        BY <1>0
      <4> QED
        BY <3>1, <4>1, <4>2, PlanetCell, PlanetsApart
    <3>3. board'[locpln[m].pos] = board[locpln[m].pos]
      BY <1>5, <3>2
    <3> QED
      BY <1>3, <2>1, <3>1, <3>3, PlanetCell
  <2>2. CASE ~(m < i)
    <3>1. m + 1 \in (i + 1)..nplnet /\ m + 1 \in 1..nplnet /\ m + 1 # i /\ (m + 1) - 1 = m
      BY <1>0, <1>2, <2>2
    <3>2. board'[locpln[m + 1].pos] = Code(Kind(board[locpln[m + 1].pos]), m)
      BY <1>5, <3>1
    <3> QED
      BY <1>3, <2>2, <3>1, <3>2
  <2> QED
    BY <2>1, <2>2
\* Every planet's cell but x is still one, with its new row.
<1>7. ASSUME NEW y \in Cells, y # x, Kind(board[y]) \in 6..8
      PROVE  /\ Kind(board'[y]) \in 6..8
             /\ Index(board'[y]) \in 1..nplnet'
             /\ locpln'[Index(board'[y])].pos = y
  <2> DEFINE r == Index(board[y])
             m == IF r < i THEN r ELSE r - 1
  <2>1. r \in 1..nplnet /\ locpln[r].pos = y
    BY <1>7 DEF PlanetsAgree
  <2>2. r # i
    BY <1>7, <2>1
  <2> HIDE DEF r
  <2>3. m \in 1..nplnet' /\ r = (IF m < i THEN m ELSE m + 1)
    BY <1>0, <1>2, <2>1, <2>2
  <2> HIDE DEF m
  <2>4. locpln'[m].pos = y /\ board'[y] = Code(Kind(board[y]), m)
    BY <1>6, <2>1, <2>3
  <2>5. m \in 0..99
    BY ONLY <1>0, <1>2, <2>3
  <2>5a. Kind(board[y]) \in 0..9
    BY <1>7
  <2>6. Kind(board'[y]) = Kind(board[y]) /\ Index(board'[y]) = m
    BY <2>4, <2>5, <2>5a, CodeFacts
  <2> QED
    BY <1>7, <2>3, <2>4, <2>6
<1>8. ASSUME NEW y \in Cells, y # x, Kind(board[y]) \notin 6..8
      PROVE  board'[y] = board[y]
  <2>1. \A r \in (i + 1)..nplnet : r \in 1..nplnet
    BY <1>0
  <2>2. \A r \in (i + 1)..nplnet : locpln[r].pos # y
    BY <1>8, <2>1, PlanetCell
  <2> QED
    BY <1>5, <1>8, <2>2
<1>9. ASSUME NEW m \in 1..nplnet'
      PROVE  board'[locpln'[m].pos] \in {Code(6, m), Code(7, m), Code(8, m)}
  BY <1>6, <1>9, PlanetCell
<1>10. ASSUME NEW s \in Sides
       PROVE  numcap'[s] = Cardinality(Owned(s)')
  <2> DEFINE F == [m \in Owned(s)' |-> IF m < i THEN m ELSE m + 1]
  <2>1. ASSUME NEW m \in 1..nplnet'
        PROVE  m \in Owned(s)' <=> (IF m < i THEN m ELSE m + 1) \in Owned(s)
    <3> DEFINE r == IF m < i THEN m ELSE m + 1
    <3>1. /\ r \in 1..nplnet
          /\ board'[locpln'[m].pos] = Code(Kind(board[locpln[r].pos]), m)
      BY <1>6
    <3>2. /\ board[locpln[r].pos] = Code(Kind(board[locpln[r].pos]), r)
          /\ Kind(board[locpln[r].pos]) \in 6..8
      BY <3>1, PlanetCell
    <3>3. m \in 0..99 /\ r \in 0..99 /\ PlanetKind(s) \in 0..9
      BY <1>0, <1>2, <3>1 DEF PlanetKind, Sides
    <3> HIDE DEF r
    <3>4. m \in Owned(s)' <=> Kind(board[locpln[r].pos]) = PlanetKind(s)
      BY <3>1, <3>2, <3>3, CodeFacts DEF Owned
    <3>5. r \in Owned(s) <=> Kind(board[locpln[r].pos]) = PlanetKind(s)
      BY <3>1, <3>2, <3>3, CodeFacts DEF Owned
    <3> QED
      BY <3>4, <3>5 DEF r
  <2>2. F \in Bijection(Owned(s)', Owned(s) \ {i})
    <3>1. \A m \in Owned(s)' : m \in 1..nplnet'
      BY DEF Owned
    <3>2. F \in [Owned(s)' -> Owned(s) \ {i}]
      <4> SUFFICES ASSUME NEW m \in Owned(s)'
                   PROVE  (IF m < i THEN m ELSE m + 1) \in Owned(s) \ {i}
        OBVIOUS
      <4>1. (IF m < i THEN m ELSE m + 1) # i
        BY <1>0, <1>2, <3>1
      <4> QED
        BY <2>1, <3>1, <4>1
    <3>3. ASSUME NEW a \in Owned(s)', NEW b \in Owned(s)', F[a] = F[b]
          PROVE  a = b
      <4>1. a \in Int /\ b \in Int
        BY <1>2, <1>0, <3>1
      <4> QED
        BY <1>0, <3>3, <4>1
    <3>4. ASSUME NEW r \in Owned(s) \ {i}
          PROVE  \E m \in Owned(s)' : F[m] = r
      <4> DEFINE m == IF r < i THEN r ELSE r - 1
      <4>1. r \in 1..nplnet /\ r # i
        BY DEF Owned
      <4>2. m \in 1..nplnet' /\ r = (IF m < i THEN m ELSE m + 1)
        BY <1>0, <1>2, <4>1
      <4>3. m \in Owned(s)'
        BY <2>1, <4>2
      <4> HIDE DEF m
      <4> QED
        BY <4>2, <4>3
    <3> HIDE DEF F
    <3>5. F \in Injection(Owned(s)', Owned(s) \ {i})
      BY <3>2, <3>3 DEF Injection, IsInjective
    <3>6. F \in Surjection(Owned(s)', Owned(s) \ {i})
      BY <3>2, <3>4 DEF Surjection
    <3> QED
      BY <3>5, <3>6 DEF Bijection
  <2>3. IsFiniteSet(Owned(s)) /\ Cardinality(Owned(s)) \in Nat
    BY PlanetsFinite
  <2>4. IsFiniteSet(Owned(s) \ {i})
    BY <2>3, FS_RemoveElement
  <2>5. Cardinality(Owned(s)') = Cardinality(Owned(s) \ {i})
    <3> HIDE DEF F
    <3>1. ExistsBijection(Owned(s)', Owned(s) \ {i})
      BY <2>2 DEF ExistsBijection
    <3>2. ExistsBijection(Owned(s) \ {i}, Owned(s)')
      BY <3>1, Fun_ExistsBijSymmetric
    <3> QED
      BY <2>4, <3>2, FS_Bijection
  <2>6. i \in Owned(s) <=> s = t
    <3>1. i \in 0..99 /\ 6 + t \in 0..9 /\ PlanetKind(s) \in 0..9 /\ s \in Int
      BY ONLY <1>0, <1>1, s \in Sides DEF PlanetKind, Sides
    <3>2. Kind(Code(6 + t, i)) = 6 + t /\ Kind(Code(PlanetKind(s), i)) = PlanetKind(s)
      BY <3>1, CodeFacts
    <3>3. i \in Owned(s) <=> Code(6 + t, i) = Code(PlanetKind(s), i)
      BY <1>1 DEF Owned
    <3>4. Code(6 + t, i) = Code(PlanetKind(s), i) <=> 6 + t = PlanetKind(s)
      BY <3>2
    <3> QED
      BY <1>1, <3>1, <3>3, <3>4 DEF PlanetKind
  <2>7. Cardinality(Owned(s) \ {i}) = Cardinality(Owned(s)) - (IF s = t THEN 1 ELSE 0)
    <3>1. CASE s = t
      BY <2>3, <2>6, <3>1, FS_RemoveElement
    <3>2. CASE s # t
      <4>1. Owned(s) \ {i} = Owned(s)
        BY <2>6, <3>2
      <4> QED
        BY ONLY <2>3, <3>2, <4>1
    <3> QED
      BY <3>1, <3>2
  <2>8. numcap[s] = Cardinality(Owned(s)) /\ numcap[s] \in Int
    BY DEF PlanetsAgree, Owned, TypeOK
  <2>9. numcap'[s] = numcap[s] - (IF s = t THEN 1 ELSE 0)
    BY <1>2, <2>8 DEF TypeOK
  <2> QED
    BY <2>5, <2>7, <2>8, <2>9
<1>11. PlanetsAgree'
  <2>1. \A y \in Cells : Kind(board'[y]) \in 6..8 =>
          Index(board'[y]) \in 1..nplnet' /\ locpln'[Index(board'[y])].pos = y
    BY <1>7, <1>8
  <2> QED
    BY <1>9, <1>10, <2>1 DEF PlanetsAgree, Owned
<1> QED
  BY <1>7, <1>8, <1>11

-----------------------------------------------------------------------------
(* What the commands do to the agreement.                                  *)

Agree == PlanetsAgree /\ BasesAgree

LEMMA SlotCode ==
    ASSUME NEW t \in Sides, NEW j \in 1..Slots
    PROVE  /\ BaseKind(t) \in 3..4 /\ Code(BaseKind(t), j) \in Int
           /\ Kind(Code(BaseKind(t), j)) = BaseKind(t)
           /\ Index(Code(BaseKind(t), j)) = j
<1>1. j \in 0..99
  BY SizesAssumption DEF SizesAssumption
<1>2. BaseKind(t) \in 3..4 /\ BaseKind(t) \in 0..9
  BY DEF BaseKind, Sides
<1> QED
  BY <1>1, <1>2, CodeFacts

\* Row j of side t is written over: the cell of a base that was up shows none
\* any more, that of one that is up now shows it, and the count goes along.
LEMMA BaseReplaced ==
    ASSUME TypeOK, BasesAgree, NEW t \in Sides, NEW j \in 1..Slots, NEW row \in BaseRow,
           base' = [base EXCEPT ![t] = [@ EXCEPT ![j] = row]],
           nbase' = [nbase EXCEPT ![t] = @ + (IF row.up THEN 1 ELSE 0)
                                           - (IF base[t][j].up THEN 1 ELSE 0)],
           base[t][j].up => Kind(board'[base[t][j].pos]) \notin 3..4,
           row.up => /\ board'[row.pos] = Code(BaseKind(t), j)
                     /\ Kind(board[row.pos]) \notin 3..4,
           \A y \in Cells :
              /\ base[t][j].up => y # base[t][j].pos
              /\ row.up => y # row.pos
              /\ Kind(board[y]) \in 3..4 \/ Kind(board'[y]) \in 3..4
              => board'[y] = board[y]
    PROVE  BasesAgree'
<1>1. \A s \in Sides, k \in 1..Slots :
         base'[s][k] = IF s = t /\ k = j THEN row ELSE base[s][k]
  BY DEF TypeOK
<1>2. ASSUME NEW s \in Sides, NEW k \in Up(s)'
      PROVE  board'[base'[s][k].pos] = Code(BaseKind(s), k)
  <2>1. k \in 1..Slots /\ base'[s][k].up
    BY DEF Up
  <2>2. CASE s = t /\ k = j
    BY <1>1, <2>1, <2>2
  <2>3. CASE ~(s = t /\ k = j)
    <3> DEFINE q == base[s][k].pos
    <3>1. base'[s][k] = base[s][k] /\ base[s][k].up
      BY <1>1, <2>1, <2>3
    <3>2. q \in Cells /\ Kind(board[q]) = BaseKind(s) /\ Index(board[q]) = k
      BY <2>1, <3>1, BaseCell
    <3>3. BaseKind(s) \in 3..4 /\ (BaseKind(s) = BaseKind(t) => s = t)
      BY DEF BaseKind, Sides
    <3>4. base[t][j].up => q # base[t][j].pos
      BY <2>3, <3>2, <3>3, BaseCell
    <3>5. row.up => q # row.pos
      BY <3>2, <3>3
    <3>6. board'[q] = board[q]
      BY <3>2, <3>3, <3>4, <3>5
    <3>7. k \in Up(s)
      BY <2>1, <3>1 DEF Up
    <3> QED
      BY <3>1, <3>6, <3>7 DEF BasesAgree
  <2> QED
    BY <2>2, <2>3
<1>3. ASSUME NEW y \in Cells, Kind(board'[y]) \in 3..4
      PROVE  /\ ShowsBase(y)'
             /\ base'[Kind(board'[y]) - 2][Index(board'[y])] = [pos |-> y, up |-> TRUE]
  <2>1. base[t][j].up => y # base[t][j].pos
    BY <1>3
  <2>2. CASE row.up /\ y = row.pos
    <3>1. board'[y] = Code(BaseKind(t), j)
      BY <2>2
    <3>3. Kind(board'[y]) = BaseKind(t) /\ Index(board'[y]) = j
      BY <3>1, SlotCode
    <3>4. Kind(board'[y]) - 2 = t
      BY <3>3 DEF BaseKind, Sides
    <3>5. row = [pos |-> y, up |-> TRUE]
      BY <2>2 DEF BaseRow
    <3> QED
      BY <1>1, <1>3, <3>3, <3>4, <3>5 DEF ShowsBase
  <2>3. CASE ~(row.up /\ y = row.pos)
    <3>1. board'[y] = board[y]
      BY <1>3, <2>1, <2>3
    <3>2. /\ ShowsBase(y)
          /\ base[Kind(board[y]) - 2][Index(board[y])] = [pos |-> y, up |-> TRUE]
      BY <1>3, <3>1 DEF BasesAgree
    <3> DEFINE s == Kind(board[y]) - 2
               k == Index(board[y])
    <3>3. s \in Sides /\ k \in 1..Slots
      BY <3>2 DEF ShowsBase, Sides
    <3>4. base[s][k] = [pos |-> y, up |-> TRUE]
      BY <3>2
    <3>5. ShowsBase(y)'
      BY <3>1, <3>2 DEF ShowsBase
    <3>6. Kind(board'[y]) - 2 = s /\ Index(board'[y]) = k
      BY <3>1
    <3> HIDE DEF s, k
    <3>7. ~(s = t /\ k = j)
      BY <2>1, <3>4
    <3>8. base'[s][k] = base[s][k]
      BY <1>1, <3>3, <3>7
    <3> QED
      BY <3>4, <3>5, <3>6, <3>8
  <2> QED
    BY <2>2, <2>3
<1>4. ASSUME NEW s \in Sides PROVE nbase'[s] = Cardinality(Up(s)')
  <2>1. nbase[s] = Cardinality(Up(s)) /\ nbase[s] \in Int
    BY DEF BasesAgree, TypeOK
  <2>2. IsFiniteSet(Up(s)) /\ Cardinality(Up(s)) \in Nat
    BY UpFinite
  <2>3. /\ Up(t)' = IF row.up THEN Up(t) \cup {j} ELSE Up(t) \ {j}
        /\ \A u \in Sides : u # t => Up(u)' = Up(u)
    BY UpChanged
  <2>4. CASE s # t
    <3>1. nbase'[s] = nbase[s]
      BY <2>4 DEF TypeOK
    <3> QED
      BY <2>1, <2>3, <2>4, <3>1
  <2>5. CASE s = t
    <3>1. nbase'[s] = nbase[s] + (IF row.up THEN 1 ELSE 0) - (IF base[t][j].up THEN 1 ELSE 0)
      BY <2>5 DEF TypeOK
    <3>2. j \in Up(s) <=> base[t][j].up
      BY <2>5 DEF Up
    <3>3. CASE row.up
      <4>1. Up(s)' = Up(s) \cup {j}
        BY <2>3, <2>5, <3>3
      <4>2. Cardinality(Up(s) \cup {j})
              = IF j \in Up(s) THEN Cardinality(Up(s)) ELSE Cardinality(Up(s)) + 1
        BY <2>2, FS_AddElement
      <4> QED
        BY <2>1, <2>2, <3>1, <3>2, <3>3, <4>1, <4>2
    <3>4. CASE ~row.up
      <4>1. Up(s)' = Up(s) \ {j}
        BY <2>3, <2>5, <3>4
      <4>2. Cardinality(Up(s) \ {j})
              = IF j \in Up(s) THEN Cardinality(Up(s)) - 1 ELSE Cardinality(Up(s))
        BY <2>2, FS_RemoveElement
      <4> QED
        BY <2>1, <2>2, <3>1, <3>2, <3>4, <4>1, <4>2
    <3> QED
      BY <3>3, <3>4
  <2> QED
    BY <2>4, <2>5
<1> QED
  BY <1>2, <1>3, <1>4 DEF BasesAgree

\* A base that is up is destroyed.
LEMMA KillBaseAgrees ==
    ASSUME TypeOK, Agree, NEW t \in Sides, NEW j \in 1..Slots, base[t][j].up, KillBase(t, j)
    PROVE  Agree'
<1> DEFINE p == base[t][j].pos
           row == [base[t][j] EXCEPT !.up = FALSE]
<1> USE DEF Agree
<1>1. p \in Cells /\ Kind(board[p]) \in 3..4
  BY BaseCell DEF BaseKind, Sides
<1>2. board' = [board EXCEPT ![p] = 0]
  BY DEF KillBase
<1>3. Kind(board'[p]) = 0 /\ \A y \in Cells : y # p => board'[y] = board[y]
  BY <1>1, <1>2 DEF TypeOK, Kind
<1>4. row \in BaseRow /\ row.up = FALSE
  <2>1. base[t][j] \in BaseRow
    BY DEF TypeOK
  <2> QED
    BY <2>1 DEF BaseRow
<1>5. base' = [base EXCEPT ![t] = [@ EXCEPT ![j] = row]]
  BY DEF KillBase
<1>6. nbase' = [nbase EXCEPT ![t] = @ + (IF row.up THEN 1 ELSE 0)
                                      - (IF base[t][j].up THEN 1 ELSE 0)]
  <2>1. nbase[t] \in Int
    BY DEF TypeOK
  <2>2. nbase[t] - 1 = nbase[t] + (IF row.up THEN 1 ELSE 0) - (IF base[t][j].up THEN 1 ELSE 0)
    BY <1>4, <2>1
  <2> QED
    BY <2>2 DEF KillBase
<1> HIDE DEF row
<1>7. BasesAgree'
  <2>1. base[t][j].up => Kind(board'[base[t][j].pos]) \notin 3..4
    BY <1>3
  <2>2. ~row.up
    BY <1>4
  <2>3. row.up => /\ board'[row.pos] = Code(BaseKind(t), j)
                  /\ Kind(board[row.pos]) \notin 3..4
    BY <2>2
  <2>4. \A y \in Cells :
           /\ base[t][j].up => y # base[t][j].pos
           /\ row.up => y # row.pos
           /\ Kind(board[y]) \in 3..4 \/ Kind(board'[y]) \in 3..4
           => board'[y] = board[y]
    BY <1>3
  <2> QED
    BY <1>4, <1>5, <1>6, <2>1, <2>3, <2>4, BaseReplaced
<1>8. UNCHANGED <<locpln, nplnet, numcap>>
  BY DEF KillBase
<1>9. PlanetsAgree'
  <2>1. \A y \in Cells : Kind(board[y]) \in 6..8 \/ Kind(board'[y]) \in 6..8
                            => board'[y] = board[y]
    BY <1>1, <1>3
  <2> QED
    BY <1>8, <2>1, PlanetsStay
<1> QED
  BY <1>7, <1>9

\* A base is pushed into an empty cell.
LEMMA PushAgrees ==
    ASSUME TypeOK, Agree, NEW t \in Sides, NEW j \in 1..Slots, base[t][j].up,
           NEW y \in Cells, board[y] = 0,
           board' = [board EXCEPT ![base[t][j].pos] = 0, ![y] = Code(BaseKind(t), j)],
           base' = [base EXCEPT ![t] = [@ EXCEPT ![j].pos = y]],
           UNCHANGED <<locpln, nplnet, numcap, nbase>>
    PROVE  Agree'
<1> DEFINE p == base[t][j].pos
           row == [base[t][j] EXCEPT !.pos = y]
<1> USE DEF Agree
<1>1. p \in Cells /\ Kind(board[p]) \in 3..4
  BY BaseCell DEF BaseKind, Sides
<1>2. Kind(board[y]) = 0 /\ y # p
  BY <1>1 DEF Kind
<1>3. /\ Kind(board'[p]) = 0
      /\ board'[y] = Code(BaseKind(t), j)
      /\ \A z \in Cells : z # p /\ z # y => board'[z] = board[z]
  BY <1>1, <1>2 DEF TypeOK, Kind
<1>4. row \in BaseRow /\ row.up = TRUE /\ row.pos = y
  <2>1. base[t][j] \in BaseRow /\ base[t][j].up = TRUE
    BY DEF TypeOK, BaseRow
  <2> QED
    BY <2>1 DEF BaseRow
<1>5. base' = [base EXCEPT ![t] = [@ EXCEPT ![j] = row]]
  OBVIOUS
<1>6. nbase' = [nbase EXCEPT ![t] = @ + (IF row.up THEN 1 ELSE 0)
                                      - (IF base[t][j].up THEN 1 ELSE 0)]
  <2>1. nbase \in [Sides -> Int]
    BY DEF TypeOK
  <2>2. nbase[t] = nbase[t] + (IF row.up THEN 1 ELSE 0) - (IF base[t][j].up THEN 1 ELSE 0)
    BY <1>4, <2>1
  <2>3. nbase' = [nbase EXCEPT ![t] = nbase[t]]
    BY <2>1
  <2> QED
    BY <2>2, <2>3
<1> HIDE DEF row
<1>7. BasesAgree'
  <2>1. base[t][j].up => Kind(board'[base[t][j].pos]) \notin 3..4
    BY ONLY <1>3
  <2>2. row.up
    BY <1>4
  <2>3. row.up => /\ board'[row.pos] = Code(BaseKind(t), j)
                  /\ Kind(board[row.pos]) \notin 3..4
    BY <1>2, <1>3, <1>4
  <2>4. \A z \in Cells :
           /\ base[t][j].up => z # base[t][j].pos
           /\ row.up => z # row.pos
           /\ Kind(board[z]) \in 3..4 \/ Kind(board'[z]) \in 3..4
           => board'[z] = board[z]
    BY <1>3, <1>4, <2>2
  <2>5. TypeOK /\ BasesAgree /\ t \in Sides /\ j \in 1..Slots /\ row \in BaseRow
    BY <1>4
  <2> QED
    BY ONLY <2>5, <1>5, <1>6, <2>1, <2>3, <2>4, BaseReplaced
<1>8. Kind(board'[y]) \in 3..4
  BY <1>3, SlotCode
<1>9. PlanetsAgree'
  <2>1. ASSUME NEW z \in Cells, Kind(board[z]) \in 6..8 \/ Kind(board'[z]) \in 6..8
        PROVE  board'[z] = board[z]
    <3>1. z # p
      BY <1>1, <1>3, <2>1
    <3>2. z # y
      BY <1>2, <1>8, <2>1
    <3> QED
      BY <1>3, <3>1, <3>2
  <2> QED
    BY <2>1, PlanetsStay
<1> QED
  BY <1>7, <1>9

\* At the start of the war the tables agree.
LEMMA AgreeInit == Init => Agree
<1> SUFFICES ASSUME Init PROVE Agree
  OBVIOUS
<1>0. /\ PlanetAt \in [1..Rows -> Cells]
      /\ BaseAt \in [Sides -> [1..Slots -> Cells]]
      /\ Rows \in 1..99 /\ Slots \in 1..99
  BY SizesAssumption DEF SizesAssumption
<1>1. /\ locpln = [i \in 1..Rows |-> [pos |-> PlanetAt[i], builds |-> 0]]
      /\ nplnet = Rows
      /\ numcap = [t \in Sides |-> 0]
      /\ base = [t \in Sides |-> [j \in 1..Slots |-> [pos |-> BaseAt[t][j], up |-> TRUE]]]
      /\ nbase = [t \in Sides |-> Slots]
  BY DEF Init
<1>2. ASSUME NEW i \in 1..Rows PROVE board[PlanetAt[i]] = Code(6, i)
  <2>1. (CHOOSE k \in 1..Rows : PlanetAt[k] = PlanetAt[i]) = i
    BY PlacedApart DEF PlacedApart
  <2>2. PlanetAt[i] \in Cells /\ \E k \in 1..Rows : PlanetAt[k] = PlanetAt[i]
    BY <1>0
  <2>3. board[PlanetAt[i]] = Code(6, CHOOSE k \in 1..Rows : PlanetAt[k] = PlanetAt[i])
    BY <2>2 DEF Init
  <2> QED
    BY <2>1, <2>3
<1>3. ASSUME NEW t \in Sides, NEW j \in 1..Slots
      PROVE  board[BaseAt[t][j]] = Code(BaseKind(t), j)
  <2> DEFINE x == BaseAt[t][j]
             side == CHOOSE s \in Sides : \E k \in 1..Slots : BaseAt[s][k] = x
  <2>1. x \in Cells /\ ~\E i \in 1..Rows : PlanetAt[i] = x
    BY <1>0, PlacedApart DEF PlacedApart
  <2>2. \E s \in Sides : \E k \in 1..Slots : BaseAt[s][k] = x
    OBVIOUS
  <2>3. side \in Sides /\ \E k \in 1..Slots : BaseAt[side][k] = x
    BY <2>2
  <2> HIDE DEF side
  <2>4. side = t
    BY <2>3, PlacedApart DEF PlacedApart
  <2>5. (CHOOSE k \in 1..Slots : BaseAt[t][k] = x) = j
    BY PlacedApart DEF PlacedApart
  <2>6. board[x] = Code(BaseKind(side), CHOOSE k \in 1..Slots : BaseAt[side][k] = x)
    <3>1. \E s \in Sides, k \in 1..Slots : BaseAt[s][k] = x
      BY <2>2
    <3> QED
      BY <2>1, <3>1 DEF Init, side
  <2> QED
    BY <2>4, <2>5, <2>6
<1>4. ASSUME NEW x \in Cells, ~\E i \in 1..Rows : PlanetAt[i] = x,
             ~\E t \in Sides, j \in 1..Slots : BaseAt[t][j] = x
      PROVE  Kind(board[x]) = 0
  BY <1>4 DEF Init, Kind
<1>5. ASSUME NEW i \in 1..Rows
      PROVE  Kind(board[PlanetAt[i]]) = 6 /\ Index(board[PlanetAt[i]]) = i
  <2>1. i \in 0..99 /\ 6 \in 0..9
    BY <1>0
  <2> QED
    BY ONLY <2>1, <1>2, i \in 1..Rows, CodeFacts
<1>6. ASSUME NEW t \in Sides, NEW j \in 1..Slots
      PROVE  /\ Kind(board[BaseAt[t][j]]) = BaseKind(t) /\ BaseKind(t) \in 3..4
             /\ Index(board[BaseAt[t][j]]) = j
  BY <1>3, SlotCode
<1>7. PlanetsAgree
  <2>1. \A i \in 1..nplnet : board[locpln[i].pos] = Code(6, i)
    BY <1>1, <1>2
  <2>2. ASSUME NEW x \in Cells, Kind(board[x]) \in 6..8
        PROVE  Index(board[x]) \in 1..nplnet /\ locpln[Index(board[x])].pos = x
    <3>1. PICK i \in 1..Rows : PlanetAt[i] = x
      BY <1>4, <1>6, <2>2
    <3> QED
      BY <1>1, <1>5, <3>1
  <2>3. ASSUME NEW t \in Sides
        PROVE  numcap[t] = Cardinality(Owned(t))
    <3>1. ASSUME NEW i \in 1..nplnet PROVE i \notin Owned(t)
      <4>1. i \in 1..Rows /\ i \in 0..99 /\ PlanetKind(t) \in 0..9 /\ PlanetKind(t) # 6
        BY <1>0, <1>1 DEF PlanetKind, Sides
      <4>2. Kind(Code(PlanetKind(t), i)) = PlanetKind(t) /\ Kind(Code(6, i)) = 6
        BY <4>1, CodeFacts
      <4> QED
        BY <2>1, <4>1, <4>2 DEF Owned
    <3>2. Owned(t) = {}
      BY <3>1 DEF Owned
    <3> QED
      BY <1>1, <3>2, FS_EmptySet
  <2> QED
    BY <2>1, <2>2, <2>3 DEF PlanetsAgree, Owned
<1>8. BasesAgree
  <2>1. \A t \in Sides, j \in 1..Slots : base[t][j] = [pos |-> BaseAt[t][j], up |-> TRUE]
    BY <1>1
  <2>2. ASSUME NEW t \in Sides PROVE Up(t) = 1..Slots
    <3>1. ASSUME NEW j \in 1..Slots PROVE base[t][j].up
      <4>1. base[t][j] = [pos |-> BaseAt[t][j], up |-> TRUE]
        BY <2>1
      <4> QED
        BY ONLY <4>1
    <3> QED
      BY ONLY <3>1 DEF Up
  <2>3. ASSUME NEW x \in Cells, Kind(board[x]) \in 3..4
        PROVE  /\ ShowsBase(x)
               /\ base[Kind(board[x]) - 2][Index(board[x])] = [pos |-> x, up |-> TRUE]
    <3>1. PICK t \in Sides, j \in 1..Slots : BaseAt[t][j] = x
      BY <1>4, <1>5, <2>3
    <3>2. Kind(board[x]) - 2 = t /\ Index(board[x]) = j
      BY <1>6, <3>1 DEF BaseKind, Sides
    <3> QED
      BY <2>1, <2>3, <3>1, <3>2 DEF ShowsBase
  <2>4. Cardinality(1..Slots) = Slots
    BY SlotsCounted
  <2> QED
    BY <1>1, <1>3, <2>1, <2>2, <2>3, <2>4 DEF BasesAgree
<1> QED
  BY <1>7, <1>8 DEF Agree

-----------------------------------------------------------------------------
(* Planets: each command acts on a row that is what it takes it for.       *)

\* The fifth build: the planet's row goes, its cell becomes the base's.
LEMMA FifthBaseAgrees ==
    ASSUME TypeOK, Agree, NEW t \in Sides, NEW i \in 1..nplnet, NEW x, x = locpln[i].pos,
           board[x] = Code(PlanetKind(t), i),
           NEW rows, \A r \in 1..Rows : rows[r].pos = locpln[r].pos,
           FifthBase(t, x, i, rows)
    PROVE  Agree'
<1> USE DEF Agree
<1>0. /\ i \in 1..Rows /\ x \in Cells
      /\ Kind(board[x]) \in 6..8 /\ Kind(board[x]) - 6 = t
  <2>1. i \in 1..Rows /\ x \in Cells /\ Kind(board[x]) \in 6..8
    BY PlanetCell
  <2>1a. i \in 0..99
    BY ONLY <2>1, SizesAssumption DEF SizesAssumption
  <2>2. PlanetKind(t) \in 0..9 /\ PlanetKind(t) - 6 = t
    BY DEF PlanetKind, Sides
  <2> QED
    BY <2>1, <2>1a, <2>2, CodeFacts
<1>1. PICK j \in 1..Slots :
        /\ ~base[t][j].up
        /\ nbase' = [nbase EXCEPT ![t] = @ + 1]
        /\ RemoveRow(i, t, rows)
        /\ base' = [base EXCEPT ![t] = [@ EXCEPT ![j] = [pos |-> x, up |-> TRUE]]]
        /\ board' = [BoardWithout(i, t, rows, board) EXCEPT ![x] = Code(BaseKind(t), j)]
  BY DEF FifthBase
<1>2. BoardWithout(i, t, rows, board) = Renumbered(i, rows, board)
  BY DEF BoardWithout, Removes, Sides
<1>3. /\ board'[x] = Code(BaseKind(t), j)
      /\ \A y \in Cells : y # x =>
            board'[y] = board[y] - Cardinality(Behind(i, rows, y))
  BY <1>0, <1>1, <1>2 DEF Renumbered, Behind
<1>4. Kind(board'[x]) \in 3..4 /\ Kind(board'[x]) \notin 6..8
  BY <1>3, SlotCode
<1>5. /\ PlanetsAgree'
      /\ \A y \in Cells : y # x /\ Kind(board[y]) \notin 6..8 => board'[y] = board[y]
      /\ \A y \in Cells : y # x => (Kind(board'[y]) \in 6..8 <=> Kind(board[y]) \in 6..8)
  <2>1. /\ t = Kind(board[x]) - 6 /\ RemoveRow(i, t, rows)
        /\ Kind(board'[x]) \notin 6..8
    BY <1>0, <1>1, <1>4
  <2> QED
    BY <1>3, <2>1, RemovalAgrees
<1> DEFINE row == [pos |-> x, up |-> TRUE]
<1>6. row \in BaseRow /\ row.up = TRUE /\ row.pos = x
  BY <1>0 DEF BaseRow
<1>7. base' = [base EXCEPT ![t] = [@ EXCEPT ![j] = row]]
  BY <1>1
<1>8. nbase' = [nbase EXCEPT ![t] = @ + (IF row.up THEN 1 ELSE 0)
                                      - (IF base[t][j].up THEN 1 ELSE 0)]
  <2>1. nbase[t] \in Int
    BY DEF TypeOK
  <2>2. nbase[t] + 1 = nbase[t] + (IF row.up THEN 1 ELSE 0) - (IF base[t][j].up THEN 1 ELSE 0)
    BY <1>1, <1>6, <2>1
  <2> QED
    BY <1>1, <2>2
<1> HIDE DEF row
<1>9. BasesAgree'
  <2>1. base[t][j].up => Kind(board'[base[t][j].pos]) \notin 3..4
    BY <1>1
  <2>2. row.up => /\ board'[row.pos] = Code(BaseKind(t), j)
                  /\ Kind(board[row.pos]) \notin 3..4
    BY <1>0, <1>3, <1>6
  <2>3. ASSUME NEW y \in Cells, row.up => y # row.pos,
               Kind(board[y]) \in 3..4 \/ Kind(board'[y]) \in 3..4
        PROVE  board'[y] = board[y]
    <3>1. y # x
      BY <1>6, <2>3
    <3>2. Kind(board[y]) \notin 6..8
      BY <1>5, <2>3, <3>1
    <3> QED
      BY <1>5, <3>1, <3>2
  <2>4. \A y \in Cells :
           /\ base[t][j].up => y # base[t][j].pos
           /\ row.up => y # row.pos
           /\ Kind(board[y]) \in 3..4 \/ Kind(board'[y]) \in 3..4
           => board'[y] = board[y]
    BY <2>3
  <2>5. TypeOK /\ BasesAgree /\ t \in Sides /\ j \in 1..Slots /\ row \in BaseRow
    BY <1>6
  <2> QED
    BY ONLY <2>5, <1>7, <1>8, <2>1, <2>2, <2>4, BaseReplaced
<1> QED
  BY <1>5, <1>9

\* What the cells show when the planet in cell x is shot.
LEMMA ShotClears ==
    ASSUME TypeOK, NEW i \in 1..Rows, NEW x \in Cells, NEW rows,
           NEW cleared, cleared[x] = 0, \A y \in Cells : y # x => cleared[y] = board[y],
           \A y \in Cells : board'[y] = cleared[y] - Cardinality(Behind(i, rows, y))
    PROVE  /\ Kind(board'[x]) = 0
           /\ \A y \in Cells : y # x =>
                 board'[y] = board[y] - Cardinality(Behind(i, rows, y))
<1> DEFINE n == Cardinality(Behind(i, rows, x))
<1>4. n \in Nat
  <2>1. IsFiniteSet(i..(nplnet - 1))
    BY FS_Interval DEF TypeOK
  <2>2. Behind(i, rows, x) \subseteq i..(nplnet - 1)
    BY DEF Behind
  <2> QED
    BY <2>1, <2>2, FS_Subset, FS_CardinalityType
<1>5. board'[x] = 0 - n
  OBVIOUS
<1> HIDE DEF n
<1>6. Kind(board'[x]) = 0
  BY ONLY <1>4, <1>5 DEF Kind
<1>7. \A y \in Cells : y # x =>
        board'[y] = board[y] - Cardinality(Behind(i, rows, y))
  OBVIOUS
<1> QED
  BY ONLY <1>6, <1>7

\* A planet without a build is shot: its row goes, its cell is cleared.
LEMMA RemovalByShotAgrees ==
    ASSUME TypeOK, Agree, NEW i \in 1..nplnet, NEW x, x = locpln[i].pos,
           NEW rows, \A r \in 1..Rows : rows[r].pos = locpln[r].pos,
           NEW t, t = Kind(board[x]) - 6, RemoveRow(i, t, rows),
           Kind(board'[x]) = 0,
           \A y \in Cells : y # x =>
               board'[y] = board[y] - Cardinality(Behind(i, rows, y)),
           UNCHANGED <<base, nbase>>
    PROVE  Agree'
<1> USE DEF Agree
<1>1. Kind(board[x]) \in 6..8
  BY PlanetCell
<1>2. /\ PlanetsAgree'
      /\ \A y \in Cells : y # x /\ Kind(board[y]) \notin 6..8 => board'[y] = board[y]
      /\ \A y \in Cells : y # x => (Kind(board'[y]) \in 6..8 <=> Kind(board[y]) \in 6..8)
  <2>1. Kind(board'[x]) \notin 6..8
    OBVIOUS
  <2> QED
    BY <2>1, RemovalAgrees
<1>3. ASSUME NEW y \in Cells, Kind(board[y]) \in 3..4 \/ Kind(board'[y]) \in 3..4
      PROVE  board'[y] = board[y]
  <2>1. y # x
    BY <1>1, <1>3
  <2>2. Kind(board[y]) \notin 6..8
    BY <1>2, <1>3, <2>1
  <2> QED
    BY <1>2, <2>1, <2>2
<1>4. BasesAgree'
  BY <1>3, BasesStay
<1> QED
  BY <1>2, <1>4

\* The side t takes the planet in cell x.
LEMMA CaptureAgrees ==
    ASSUME TypeOK, Agree, NEW t \in Sides, NEW x \in Cells, Capture(t, x)
    PROVE  Agree'
<1> USE DEF Agree
<1> DEFINE i == Index(board[x])
           lost == Kind(board[x]) - 6
<1>1. /\ Kind(board[x]) \in 6..8 /\ Kind(board[x]) # PlanetKind(t)
      /\ i \in 1..nplnet /\ locpln[i].pos = x
  BY DEF Capture, ShowsPlanet, PlanetsAgree
<1>2. /\ numcap' = [s \in Sides |-> numcap[s] + (IF s = t THEN 1 ELSE 0)
                                              - (IF s = lost THEN 1 ELSE 0)]
      /\ locpln' = [locpln EXCEPT ![i].builds = 0]
      /\ board' = [board EXCEPT ![x] = Code(PlanetKind(t), i)]
      /\ UNCHANGED <<nplnet, base, nbase>>
  BY DEF Capture
<1>3. /\ lost \in 0..2 /\ lost # t /\ board[x] = Code(6 + lost, i)
      /\ i \in 1..Rows /\ i \in 0..99
  <2>1. lost \in 0..2 /\ 6 + lost = Kind(board[x]) /\ lost # t
    BY <1>1 DEF PlanetKind, Sides
  <2>2. i \in 1..Rows /\ board[x] = Code(Kind(board[x]), i)
    BY <1>1, PlanetCell
  <2>3. \A r \in 1..Rows : r \in 0..99
    BY SizesAssumption DEF SizesAssumption
  <2> QED
    BY <2>1, <2>2, <2>3
<1> HIDE DEF i, lost
<1>4. \A r \in 1..Rows : locpln'[r].pos = locpln[r].pos
  BY <1>2, <1>3 DEF TypeOK, Row
<1>5. /\ board'[x] = Code(PlanetKind(t), i)
      /\ \A y \in Cells : y # x => board'[y] = board[y]
  BY <1>2 DEF TypeOK
<1>6. Kind(board'[x]) = PlanetKind(t) /\ Kind(board'[x]) \in 6..8 /\ Index(board'[x]) = i
  <2>1. PlanetKind(t) \in 0..9 /\ PlanetKind(t) \in 6..8
    BY DEF PlanetKind, Sides
  <2> QED
    BY <1>3, <1>5, <2>1, CodeFacts
<1>7. BasesAgree'
  <2>1. \A y \in Cells : Kind(board[y]) \in 3..4 \/ Kind(board'[y]) \in 3..4
                            => board'[y] = board[y]
    BY <1>1, <1>5, <1>6
  <2>2. UNCHANGED <<base, nbase>>
    BY <1>2
  <2> QED
    BY ONLY TypeOK, Agree, <2>1, <2>2, BasesStay
<1>8. ASSUME NEW r \in 1..nplnet
      PROVE  /\ r \in 1..Rows /\ locpln[r].pos \in Cells /\ locpln'[r].pos = locpln[r].pos
             /\ r # i => board'[locpln[r].pos] = board[locpln[r].pos]
  <2>1. r \in 1..Rows /\ locpln[r].pos \in Cells
    BY PlanetCell
  <2>2. r # i => locpln[r].pos # x
    BY <1>1, PlanetsApart
  <2> QED
    BY <1>4, <1>5, <2>1, <2>2
<1>9. nplnet' = nplnet
  BY <1>2
<1>10. ASSUME NEW r \in 1..nplnet
       PROVE  board'[locpln'[r].pos] \in {Code(6, r), Code(7, r), Code(8, r)}
  <2>1. CASE r = i
    BY <1>1, <1>5, <1>8, <2>1 DEF PlanetKind, Sides
  <2>2. CASE r # i
    BY <1>8, <2>2 DEF PlanetsAgree
  <2> QED
    BY <2>1, <2>2
<1>11. ASSUME NEW y \in Cells, Kind(board'[y]) \in 6..8
       PROVE  Index(board'[y]) \in 1..nplnet /\ locpln'[Index(board'[y])].pos = y
  <2>1. CASE y = x
    BY <1>1, <1>6, <1>8, <2>1
  <2>2. CASE y # x
    <3>1. board'[y] = board[y]
      BY <1>5, <2>2
    <3>2. Index(board[y]) \in 1..nplnet /\ locpln[Index(board[y])].pos = y
      BY <1>11, <3>1 DEF PlanetsAgree
    <3> QED
      BY <1>8, <3>1, <3>2
  <2> QED
    BY <2>1, <2>2
<1>12. ASSUME NEW s \in Sides PROVE numcap'[s] = Cardinality(Owned(s)')
  <2>1. /\ IsFiniteSet(Owned(s)) /\ Cardinality(Owned(s)) \in Nat
        /\ numcap[s] = Cardinality(Owned(s))
    BY PlanetsFinite DEF PlanetsAgree, Owned
  <2>2. i \in Owned(s) <=> s = lost
    <3>1. Kind(Code(6 + lost, i)) = 6 + lost /\ Kind(Code(PlanetKind(s), i)) = PlanetKind(s)
      <4>1. 6 + lost \in 0..9 /\ PlanetKind(s) \in 0..9
        BY <1>3 DEF PlanetKind, Sides
      <4> QED
        BY <1>3, <4>1, CodeFacts
    <3>2. i \in Owned(s) <=> Code(6 + lost, i) = Code(PlanetKind(s), i)
      BY <1>1, <1>3 DEF Owned
    <3> QED
      BY <1>3, <3>1, <3>2 DEF PlanetKind, Sides
  <2>3. i \in Owned(s)' <=> s = t
    <3>1. i \in Owned(s)' <=> board'[x] = Code(PlanetKind(s), i)
      BY <1>1, <1>8, <1>9 DEF Owned
    <3>2. PlanetKind(s) \in 0..9 /\ (PlanetKind(s) = PlanetKind(t) <=> s = t)
      BY DEF PlanetKind, Sides
    <3>3. Kind(Code(PlanetKind(s), i)) = PlanetKind(s)
      BY <1>3, <3>2, CodeFacts
    <3> QED
      BY <1>5, <1>6, <3>1, <3>2, <3>3
  <2>4. \A r \in 1..nplnet : r # i => (r \in Owned(s)' <=> r \in Owned(s))
    BY <1>8, <1>9 DEF Owned
  <2>5. Owned(s)' \subseteq 1..nplnet /\ Owned(s) \subseteq 1..nplnet
    BY <1>9 DEF Owned
  <2>6. numcap'[s] = numcap[s] + (IF s = t THEN 1 ELSE 0) - (IF s = lost THEN 1 ELSE 0)
    BY <1>2
  <2>7. CASE s = t
    <3>1. Owned(s)' = Owned(s) \cup {i} /\ i \notin Owned(s)
      BY <1>1, <1>3, <2>2, <2>3, <2>4, <2>5, <2>7
    <3>2. Cardinality(Owned(s) \cup {i}) = Cardinality(Owned(s)) + 1
      BY <2>1, <3>1, FS_AddElement
    <3>3. numcap'[s] = numcap[s] + 1
      BY <1>3, <2>1, <2>6, <2>7
    <3> QED
      BY ONLY <2>1, <3>1, <3>2, <3>3
  <2>8. CASE s = lost
    <3>1. Owned(s)' = Owned(s) \ {i} /\ i \in Owned(s)
      BY <1>1, <1>3, <2>2, <2>3, <2>4, <2>5, <2>8
    <3>2. Cardinality(Owned(s) \ {i}) = Cardinality(Owned(s)) - 1
      BY <2>1, <3>1, FS_RemoveElement
    <3>3. numcap'[s] = numcap[s] - 1
      BY <1>3, <2>1, <2>6, <2>8
    <3> QED
      BY ONLY <2>1, <3>1, <3>2, <3>3
  <2>9. CASE s # t /\ s # lost
    <3>1. \A r : r \in Owned(s)' <=> r \in Owned(s)
      BY <2>2, <2>3, <2>4, <2>5, <2>9
    <3>2. Owned(s)' = Owned(s)
      BY ONLY <3>1
    <3>3. numcap'[s] = numcap[s]
      BY <2>1, <2>6, <2>9
    <3> QED
      BY ONLY <2>1, <3>2, <3>3
  <2> QED
    BY <2>7, <2>8, <2>9
<1>13. PlanetsAgree'
  BY <1>9, <1>10, <1>11, <1>12 DEF PlanetsAgree, Owned
<1> QED
  BY <1>7, <1>13

\* One more or fewer build, or none.
LEMMA BuildsSet ==
    ASSUME TypeOK, Agree, NEW i \in 1..Rows, NEW n,
           locpln' = [locpln EXCEPT ![i].builds = n],
           UNCHANGED <<board, nplnet, numcap, base, nbase>>
    PROVE  Agree'
<1>1. \A r \in 1..Rows : locpln'[r].pos = locpln[r].pos
  BY DEF TypeOK, Row
<1> QED
  BY <1>1, BuildsHarmless DEF Agree

\* A torpedo at a planet, or a nova beside it.
LEMMA ShotsAgree ==
    ASSUME TypeOK, Agree, NEW x \in Cells, TorpedoPlanet(x) \/ NovaPlanet(x)
    PROVE  Agree'
<1> DEFINE i == Index(board[x])
           t == Kind(board[x]) - 6
           after(n) == [locpln EXCEPT ![i].builds = @ - n]
<1>1. i \in 1..nplnet /\ locpln[i].pos = x /\ t \in 0..2
  BY DEF TorpedoPlanet, NovaPlanet, ShowsPlanet, Agree, PlanetsAgree
<1>2. i \in 1..Rows
  BY <1>1, PlanetCell DEF Agree
<1>3. UNCHANGED <<base, nbase>>
  BY DEF TorpedoPlanet, NovaPlanet
<1>4. PICK n \in {1, 3} :
        \/ /\ RemoveRow(i, t, after(n))
           /\ board' = BoardWithout(i, t, after(n), [board EXCEPT ![x] = 0])
        \/ /\ locpln' = after(n)
           /\ UNCHANGED <<board, nplnet, numcap>>
  <2>1. CASE TorpedoPlanet(x)
    BY <2>1 DEF TorpedoPlanet
  <2>2. CASE NovaPlanet(x)
    BY <1>1, <2>2 DEF NovaPlanet
  <2> QED
    BY <2>1, <2>2
<1> DEFINE rows == after(n)
<1>5. \A r \in 1..Rows : rows[r].pos = locpln[r].pos
  BY DEF TypeOK, Row
<1>6. CASE locpln' = rows /\ UNCHANGED <<board, nplnet, numcap>>
  <2>1. \A r \in 1..Rows : locpln'[r].pos = locpln[r].pos
    BY <1>5, <1>6
  <2> QED
    BY <1>3, <1>6, <2>1, BuildsHarmless DEF Agree
<1>7. CASE /\ RemoveRow(i, t, rows)
           /\ board' = BoardWithout(i, t, rows, [board EXCEPT ![x] = 0])
  <2> HIDE DEF rows, after, i, t
  <2> PICK ri \in 1..nplnet, rt \in 0..2 : ri = i /\ rt = t
    BY <1>1
  <2> PICK rr : rr = rows
    OBVIOUS
  <2>0. /\ ri \in 1..nplnet /\ ri \in 1..Rows /\ rt \in 0..2 /\ x = locpln[ri].pos
        /\ \A r \in 1..Rows : rr[r].pos = locpln[r].pos
        /\ RemoveRow(ri, rt, rr)
    BY <1>1, <1>2, <1>5, <1>7
  <2> DEFINE cleared == [board EXCEPT ![x] = 0]
  <2>0a. cleared[x] = 0 /\ \A y \in Cells : y # x => cleared[y] = board[y]
    BY DEF TypeOK
  <2>0b. \A y \in Cells : board'[y] = cleared[y] - Cardinality(Behind(ri, rr, y))
    <3>1. board' = Renumbered(ri, rr, cleared)
      BY <1>1, <1>7 DEF BoardWithout, Removes
    <3> QED
      BY ONLY <3>1 DEF Renumbered, Behind
  <2> HIDE DEF cleared
  <2>1. rt = Kind(board[x]) - 6
    BY DEF t
  <2>2. /\ Kind(board'[x]) = 0
        /\ \A y \in Cells : y # x =>
              board'[y] = board[y] - Cardinality(Behind(ri, rr, y))
    BY ONLY TypeOK, x \in Cells, <2>0, <2>0a, <2>0b, ShotClears
  <2> QED
    BY ONLY TypeOK, Agree, <1>3, <2>0, <2>1, <2>2, RemovalByShotAgrees
<1> QED
  BY <1>4, <1>6, <1>7

\* From the fifth build on, for the row the command takes it for.
LEMMA FifthAgrees ==
    ASSUME TypeOK, Agree, NEW t \in Sides, NEW i \in 1..nplnet, NEW x, x = locpln[i].pos,
           board[x] = Code(PlanetKind(t), i),
           NEW n, NEW rows, rows = [locpln EXCEPT ![i].builds = n], Fifth(t, x, i, rows)
    PROVE  Agree'
<1>1. i \in 1..Rows
  BY PlanetCell DEF Agree
<1>2. \A r \in 1..Rows : rows[r].pos = locpln[r].pos
  BY DEF TypeOK, Row
<1>3. CASE FifthRefused(rows)
  BY <1>1, <1>3, BuildsSet DEF FifthRefused
<1>4. CASE FifthFull(t, i, rows)
  <2>1. locpln' = [rows EXCEPT ![i].builds = @ - 1]
    BY <1>4 DEF FifthFull
  <2>2. \A r \in 1..Rows : locpln'[r].pos = locpln[r].pos
    BY <2>1 DEF TypeOK, Row
  <2> QED
    BY <1>4, <2>2, BuildsHarmless DEF FifthFull, Agree
<1>5. CASE FifthBase(t, x, i, rows)
  BY <1>2, <1>5, FifthBaseAgrees
<1> QED
  BY <1>3, <1>4, <1>5 DEF Fifth

-----------------------------------------------------------------------------
(* Only a stale index disturbs the agreement.                              *)

LEMMA OwnBuildsInit == Init => OwnBuilds
BY DEF Init, OwnBuilds, Idle

\* A command is put down by Build and Aim, and taken away by the rest.
LEMMA OwnBuildsStep == TypeOK /\ OwnBuilds /\ [Next]_vars => OwnBuilds'
<1> SUFFICES ASSUME TypeOK, OwnBuilds, [Next]_vars PROVE OwnBuilds'
  OBVIOUS
<1>1. CASE cmd' = cmd
  BY <1>1 DEF OwnBuilds
<1>2. ASSUME NEW c \in Captains, NEW x \in Cells, Build(c, x), cmd' # cmd PROVE OwnBuilds'
  <2>1. PICK i : cmd' = [cmd EXCEPT ![c] = [stage |-> "build", kind |-> PlanetKind(Team[c]),
                                             index |-> i, pos |-> x]]
    BY <1>2 DEF Build
  <2> QED
    BY <2>1 DEF OwnBuilds, TypeOK
<1>3. ASSUME NEW c \in Captains, NEW x \in Cells, Aim(c, x) PROVE OwnBuilds'
  BY <1>3 DEF Aim, OwnBuilds, TypeOK
<1>4. ASSUME NEW c \in Captains, FinishBuild(c) \/ Fire(c) \/ Abandon(c) PROVE OwnBuilds'
  <2>1. cmd' = [cmd EXCEPT ![c] = Idle]
    BY <1>4 DEF FinishBuild, Fire, Abandon
  <2> QED
    BY <2>1 DEF OwnBuilds, TypeOK, Idle
<1>5. CASE /\ ~\E c \in Captains, x \in Cells : Build(c, x) \/ Aim(c, x)
           /\ ~\E c \in Captains : FinishBuild(c) \/ Fire(c) \/ Abandon(c)
  BY <1>1, <1>5 DEF Next, vars, Capture, TorpedoPlanet, NovaPlanet, TorpedoBase, NovaBase
<1> QED
  BY <1>1, <1>2, <1>3, <1>4, <1>5

\* A captain's command whose index is not stale keeps the agreement.
LEMMA CommandsAgree ==
    ASSUME TypeOK, OwnBuilds, Agree, NEW c \in Captains,
           \/ \E x \in Cells : Build(c, x) \/ Aim(c, x)
           \/ FinishBuild(c) \/ Fire(c) \/ Abandon(c),
           Stale(c) => ~(FinishBuild(c) \/ Fire(c))
    PROVE  Agree'
<1>0. /\ Team[c] \in Sides /\ cmd[c] \in Commands
      /\ PlanetKind(Team[c]) \in 7..8
  BY SizesAssumption DEF SizesAssumption, TypeOK, PlanetKind, Sides
<1>1. ASSUME UNCHANGED <<board, nplnet, numcap, base, nbase>>, UNCHANGED locpln
      PROVE  Agree'
  BY <1>1, BuildsHarmless DEF Agree
<1>2. ASSUME NEW x \in Cells, Build(c, x) PROVE Agree'
  <2> DEFINE i == Index(board[x])
             rows == [locpln EXCEPT ![i].builds = @ + 1]
  <2>1. i \in 1..nplnet /\ locpln[i].pos = x /\ Kind(board[x]) = PlanetKind(Team[c])
    BY <1>2 DEF Build, ShowsPlanet, Agree, PlanetsAgree
  <2>2. i \in 1..Rows /\ board[x] = Code(PlanetKind(Team[c]), i)
    BY <2>1, PlanetCell DEF Agree
  <2>3. CASE Fifth(Team[c], x, i, rows)
    <3> PICK k \in 1..nplnet : k = i
      BY <2>1
    <3> PICK n, rr : n = locpln[i].builds + 1 /\ rr = rows
      OBVIOUS
    <3>1. /\ x = locpln[k].pos /\ board[x] = Code(PlanetKind(Team[c]), k)
          /\ rr = [locpln EXCEPT ![k].builds = n] /\ Fifth(Team[c], x, k, rr)
      BY <2>1, <2>2, <2>3
    <3> QED
      BY ONLY TypeOK, Agree, <1>0, <3>1, k \in 1..nplnet, FifthAgrees
  <2>4. CASE locpln' = rows /\ UNCHANGED <<board, nplnet, numcap, base, nbase>>
    BY <2>2, <2>4, BuildsSet
  <2> QED
    BY <1>2, <2>3, <2>4 DEF Build
<1>3. ASSUME NEW x \in Cells, Aim(c, x) PROVE Agree'
  BY <1>1, <1>3 DEF Aim
<1>4. CASE Abandon(c)
  BY <1>1, <1>4 DEF Abandon
<1>5. CASE FinishBuild(c)
  <2> DEFINE b == cmd[c]
  <2>1. b.stage = "build" /\ ~Stale(c)
    BY <1>5 DEF FinishBuild
  <2>2. /\ b.kind = PlanetKind(Team[c]) /\ b.index \in 1..Rows
        /\ b.index \in 1..nplnet /\ b.pos = locpln[b.index].pos
        /\ board[b.pos] = Code(PlanetKind(Team[c]), b.index)
    <3>1. b.kind = PlanetKind(Team[c])
      BY <2>1 DEF OwnBuilds
    <3>2. b.index \in 1..Rows
      BY <1>0, <2>1 DEF Commands, Idle
    <3>3. ~(b.index > nplnet) /\ locpln[b.index].pos = b.pos /\ board[b.pos] = Code(b.kind, b.index)
      BY <2>1 DEF Stale
    <3> QED
      BY <3>1, <3>2, <3>3 DEF TypeOK
  <2>3. CASE Fifth(Team[c], b.pos, b.index, locpln)
    <3> PICK k \in 1..nplnet : k = b.index
      BY <2>2
    <3> PICK n, rr, x : n = locpln[k].builds /\ rr = locpln /\ x = b.pos
      OBVIOUS
    <3>1. /\ x = locpln[k].pos /\ board[x] = Code(PlanetKind(Team[c]), k)
          /\ rr = [locpln EXCEPT ![k].builds = n] /\ Fifth(Team[c], x, k, rr)
      <4>1. k \in 1..Rows
        BY <2>2
      <4>2. locpln = [locpln EXCEPT ![k].builds = locpln[k].builds]
        BY <4>1 DEF TypeOK, Row
      <4> QED
        BY <2>2, <2>3, <4>2
    <3> QED
      BY ONLY TypeOK, Agree, <1>0, <3>1, k \in 1..nplnet, FifthAgrees
  <2> QED
    BY <1>1, <1>5, <2>3 DEF FinishBuild
<1>6. CASE Fire(c)
  <2> DEFINE a == cmd[c]
  <2>1. a.stage = "phaser" /\ ~Stale(c)
    BY <1>6 DEF Fire
  <2>2. /\ a.kind \in 6..8 => a.index \in 1..Rows
        /\ a.kind \in 3..4 => a.index \in 1..Slots
    BY <1>0, <2>1 DEF Commands, Idle
  <2>3. CASE /\ a.kind \in 6..8
             /\ \E hit \in {0, 1} :
                   locpln' = [locpln EXCEPT ![a.index].builds =
                                 IF @ - hit < 0 THEN 0 ELSE @ - hit]
             /\ UNCHANGED <<board, nplnet, numcap, base, nbase>>
    <3>1. \A r \in 1..Rows : locpln'[r].pos = locpln[r].pos
      BY <2>2, <2>3 DEF TypeOK, Row
    <3> QED
      BY <2>3, <3>1, BuildsHarmless DEF Agree
  <2>4. CASE a.kind \in 3..4 /\ KillBase(a.kind - 2, a.index)
    <3>1. base[a.kind - 2][a.index].up
      BY <2>1, <2>4 DEF Stale
    <3> PICK t \in Sides, j \in 1..Slots : t = a.kind - 2 /\ j = a.index
      BY <2>2, <2>4 DEF Sides
    <3>2. base[t][j].up /\ KillBase(t, j)
      BY <2>4, <3>1
    <3> QED
      BY ONLY TypeOK, Agree, <3>2, t \in Sides, j \in 1..Slots, KillBaseAgrees
  <2> QED
    BY <1>1, <1>6, <2>3, <2>4 DEF Fire
<1> QED
  BY <1>2, <1>3, <1>4, <1>5, <1>6

\* A torpedo at a base, or a nova beside it: the cell names a base that is up.
LEMMA BaseShotsAgree ==
    ASSUME TypeOK, Agree, NEW x \in Cells, TorpedoBase(x) \/ NovaBase(x)
    PROVE  Agree'
<1>1. ShowsBase(x)
  BY DEF TorpedoBase, NovaBase
<1>2. PICK t \in Sides, j \in 1..Slots : t = Kind(board[x]) - 2 /\ j = Index(board[x])
  BY <1>1 DEF ShowsBase, Sides
<1>3. base[t][j].up
  <2>1. base[Kind(board[x]) - 2][Index(board[x])] = [pos |-> x, up |-> TRUE]
    BY <1>1 DEF Agree, BasesAgree, ShowsBase
  <2>2. base[t][j] = [pos |-> x, up |-> TRUE]
    BY ONLY <1>2, <2>1
  <2> QED
    BY <2>2
<1>4. CASE KillBase(t, j)
  BY <1>3, <1>4, KillBaseAgrees
<1>5. ASSUME NEW y \in Cells, board[y] = 0,
             board' = [board EXCEPT ![base[t][j].pos] = 0, ![y] = Code(BaseKind(t), j)],
             base' = [base EXCEPT ![t] = [@ EXCEPT ![j].pos = y]],
             UNCHANGED <<locpln, nplnet, numcap, nbase>>
      PROVE  Agree'
  BY <1>3, <1>5, PushAgrees
<1>6. \/ KillBase(t, j)
      \/ \E y \in Cells :
            /\ board[y] = 0
            /\ board' = [board EXCEPT ![base[t][j].pos] = 0, ![y] = Code(BaseKind(t), j)]
            /\ base' = [base EXCEPT ![t] = [@ EXCEPT ![j].pos = y]]
            /\ UNCHANGED <<locpln, nplnet, numcap, nbase>>
  BY <1>2 DEF TorpedoBase, NovaBase
<1> QED
  BY <1>4, <1>5, <1>6

LEMMA AgreeStep ==
    ASSUME TypeOK, OwnBuilds, [Next]_vars, PlanetsAgree, BasesAgree
    PROVE  \/ PlanetsAgree' /\ BasesAgree'
           \/ \E c \in Captains : Stale(c) /\ (FinishBuild(c) \/ Fire(c))
<1> SUFFICES ASSUME \A c \in Captains : Stale(c) => ~(FinishBuild(c) \/ Fire(c))
             PROVE  Agree'
  BY DEF Agree
<1>0. Agree
  BY DEF Agree
<1>1. ASSUME NEW c \in Captains,
             \/ \E x \in Cells : Build(c, x) \/ Aim(c, x)
             \/ FinishBuild(c) \/ Fire(c) \/ Abandon(c)
      PROVE  Agree'
  BY <1>0, <1>1, CommandsAgree
<1>2. ASSUME NEW t \in Sides, NEW x \in Cells, Capture(t, x) PROVE Agree'
  BY <1>0, <1>2, CaptureAgrees
<1>3. ASSUME NEW x \in Cells, TorpedoPlanet(x) \/ NovaPlanet(x) PROVE Agree'
  BY <1>0, <1>3, ShotsAgree
<1>4. ASSUME NEW x \in Cells, TorpedoBase(x) \/ NovaBase(x) PROVE Agree'
  BY <1>0, <1>4, BaseShotsAgree
<1>5. CASE UNCHANGED vars
  BY <1>5, BuildsHarmless DEF vars, Agree
<1> QED
  BY <1>1, <1>2, <1>3, <1>4, <1>5 DEF Next

-----------------------------------------------------------------------------
THEOREM InvAlways == Spec => []Inv
BY InvInit, InvStep, PTL DEF Spec

\* The tables keep their types: an index that BUILD or PHASER kept over a yield
\* names a row that exists, and NPLNET never leaves the table.
THEOREM PlanetsTyped == Spec => []TypeOK
BY InvAlways, PTL DEF Inv

\* NBASE never exceeds the bases whose strength is above 0, so no side is taken
\* to have a base when it has none.
THEOREM NoBaseIsPhantom == Spec => []NoPhantomBase
BY InvAlways, PTL DEF Inv

\* The war starts with rows, board and counts that say the same.
THEOREM TablesAgreeAtFirst == Spec => PlanetsAgree /\ BasesAgree
BY AgreeInit DEF Spec, Agree

\* ... and they go on to, until a BUILD or a PHASER goes on with an index that
\* names something else by then.
THEOREM TablesAgreeUntilStale == Spec => OnlyStaleDisturbs
<1>1. Init => OwnBuilds
  BY OwnBuildsInit
<1>2. TypeOK /\ OwnBuilds /\ [Next]_vars => OwnBuilds'
  BY OwnBuildsStep
<1>3. TypeOK /\ OwnBuilds /\ [Next]_vars
        => [PlanetsAgree /\ BasesAgree =>
               \/ PlanetsAgree' /\ BasesAgree'
               \/ \E c \in Captains : Stale(c) /\ (FinishBuild(c) \/ Fire(c))]_vars
  BY AgreeStep
<1> QED
  BY <1>1, <1>2, <1>3, PlanetsTyped, PTL DEF Spec, OnlyStaleDisturbs

\* So rows, board and counts say the same for good where BUILD and PHASER find what
\* they found before they waited.
THEOREM TablesAgreeUnlessStale ==
    Spec /\ [][\A c \in Captains : ~(Stale(c) /\ (FinishBuild(c) \/ Fire(c)))]_vars
        => [](PlanetsAgree /\ BasesAgree)
<1> DEFINE Disturbs == \E c \in Captains : Stale(c) /\ (FinishBuild(c) \/ Fire(c))
<1>1. /\ PlanetsAgree /\ BasesAgree
      /\ [PlanetsAgree /\ BasesAgree => (PlanetsAgree' /\ BasesAgree') \/ Disturbs]_vars
      /\ [\A c \in Captains : ~(Stale(c) /\ (FinishBuild(c) \/ Fire(c)))]_vars
      => PlanetsAgree' /\ BasesAgree'
  <2>1. ASSUME PlanetsAgree, BasesAgree, UNCHANGED vars PROVE PlanetsAgree' /\ BasesAgree'
    BY <2>1 DEF PlanetsAgree, BasesAgree, Up, ShowsBase, vars
  <2> QED
    BY <2>1
<1> QED
  BY <1>1, TablesAgreeAtFirst, TablesAgreeUntilStale, PTL DEF OnlyStaleDisturbs
=============================================================================
