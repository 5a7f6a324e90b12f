---------------------------- MODULE GalaxyProofs ----------------------------
(***************************************************************************)
(* For any number of connections, ships, bases and planets: each ship has  *)
(* one captain, the counts count, and no galaxy is cleared under captains. *)
(***************************************************************************)
EXTENDS Galaxy, FiniteSetTheorems, TLAPS

USE DEF Sides

\* One row of KILQUE.
Row == [job : Sessions \cup {None}, ship : Ships]

\* KILQUE names nobody twice and fits its table.
KilledInv == KilledOnce /\ Len(kilque) <= QueueLength

-----------------------------------------------------------------------------
\* Places, sizes and sides are what their names say.
LEMMA Places == Prompts \subseteq States /\ Active \subseteq States
BY DEF States

LEMMA Sizes ==
    /\ PerSide \in Nat /\ PerSide # 0
    /\ QueueLength \in Nat /\ QueueLength # 0
    /\ NewPlanets \in Nat /\ NewPlanets # 0
    /\ NewBases \in Nat /\ NewBases # 0
BY SizesAssumption DEF SizesAssumption

LEMMA SidesOfShips == \A w \in Ships : SideOf(w) \in Sides
BY DEF SideOf

\* The numbers that are no ship's.
LEMMA NoShips == 0 \notin Ships /\ Nameless \notin Ships /\ Nameless # 0 /\ None \notin Sessions
BY Sizes, SessionsAssumption DEF Ships, Nameless

\* KQSRCH finds the row of a captain who has one.
LEMMA KilledRowFound ==
    ASSUME TypeOK, KilledOnce, NEW j
    PROVE  /\ KilledRow(j) # 0 =>
                 /\ KilledRow(j) \in DOMAIN kilque
                 /\ kilque[KilledRow(j)] \in Row
                 /\ kilque[KilledRow(j)].job = j
           /\ KilledRow(j) = 0 => \A i \in DOMAIN kilque : kilque[i].job # j
<1> DEFINE rows == {i \in DOMAIN kilque : kilque[i].job = j}
<1>0. KilledRow(j) = IF rows = {} THEN 0 ELSE CHOOSE i \in rows : \A k \in rows : i <= k
  BY DEF KilledRow
<1>1. kilque \in Seq(Row)
  BY DEF TypeOK, Row
<1>2. CASE rows = {}
  BY <1>0, <1>2
<1>3. CASE rows # {}
  <2>1. PICK i \in rows : TRUE
    BY <1>3
  <2>2. i \in 1..Len(kilque) /\ kilque[i] \in Row
    BY <1>1, <2>1
  <2>3. \A k \in rows : k = i
    BY <2>1 DEF KilledOnce
  <2>4. \A k \in rows : i <= k
    BY <2>2, <2>3
  <2>5. KilledRow(j) \in rows
    BY <1>0, <1>3, <2>1, <2>4
  <2>6. KilledRow(j) = i
    BY <2>3, <2>5
  <2> QED
    BY <2>1, <2>2, <2>6
<1> QED
  BY <1>2, <1>3

\* The row after row i of the ring.
LEMMA RingRow ==
    ASSUME NEW i \in Nat, NEW n \in Nat, n # 0
    PROVE  (i % n) + 1 \in 1..n
<1>1. i % n \in Int /\ 0 <= i % n /\ i % n < n
  OBVIOUS
<1> QED
  BY <1>1

\* FREE writes a captain's only row, or the next of the ring.
LEMMA RememberKeeps ==
    ASSUME TypeOK, KilledInv, NEW j \in Sessions \cup {None}, NEW w \in Ships, Remember(j, w)
    PROVE  /\ kilque' \in Seq(Row)
           /\ kilndx' \in 0..QueueLength
           /\ KilledInv'
<1> DEFINE row == [job |-> j, ship |-> w]
           old == KilledRow(j)
           next == (kilndx % QueueLength) + 1
<1> USE Sizes
<1>1. kilque \in Seq(Row) /\ row \in Row /\ kilndx \in 0..QueueLength
  BY DEF TypeOK, Row
<1>2. next \in 1..QueueLength
  BY <1>1, RingRow
<1>3. CASE old # 0
  <2>1. old \in DOMAIN kilque /\ kilque[old].job = j
    BY <1>3, KilledRowFound DEF KilledInv
  <2>2. kilque' = [kilque EXCEPT ![old] = row] /\ kilndx' = kilndx
    BY <1>3 DEF Remember
  <2>3. kilque' \in Seq(Row) /\ Len(kilque') = Len(kilque) /\ DOMAIN kilque' = DOMAIN kilque
    BY <1>1, <2>1, <2>2
  <2>4. \A i \in DOMAIN kilque : kilque'[i].job = kilque[i].job
    BY <1>1, <2>1, <2>2
  <2> QED
    BY <1>1, <2>2, <2>3, <2>4 DEF KilledInv, KilledOnce
<1>4. CASE old = 0
  <2>1. \A i \in DOMAIN kilque : kilque[i].job # j
    BY <1>4, KilledRowFound DEF KilledInv
  <2>2. kilndx' = next
    BY <1>4 DEF Remember
  <2>3. CASE Len(kilque) < QueueLength
    <3>1. kilque' = Append(kilque, row)
      BY <1>4, <2>3 DEF Remember
    <3>2. kilque' \in Seq(Row) /\ Len(kilque') = Len(kilque) + 1
      BY <1>1, <3>1
    <3>3. /\ DOMAIN kilque' = DOMAIN kilque \cup {Len(kilque) + 1}
          /\ kilque'[Len(kilque) + 1].job = j
          /\ \A i \in DOMAIN kilque : kilque'[i] = kilque[i]
      BY <1>1, <3>1
    <3>4. KilledOnce'
      BY <2>1, <3>3 DEF KilledInv, KilledOnce
    <3> QED
      BY <1>1, <1>2, <2>2, <2>3, <3>2, <3>4 DEF KilledInv
  <2>4. CASE ~(Len(kilque) < QueueLength)
    <3>1. kilque' = [kilque EXCEPT ![next] = row]
      BY <1>4, <2>4 DEF Remember
    <3>2. next \in DOMAIN kilque
      BY <1>1, <1>2, <2>4
    <3>3. kilque' \in Seq(Row) /\ Len(kilque') = Len(kilque) /\ DOMAIN kilque' = DOMAIN kilque
      BY <1>1, <3>1, <3>2
    <3>4. \A i \in DOMAIN kilque : kilque'[i].job = IF i = next THEN j ELSE kilque[i].job
      BY <1>1, <3>1, <3>2
    <3>5. KilledOnce'
      BY <2>1, <3>3, <3>4 DEF KilledInv, KilledOnce
    <3> QED
      BY <1>1, <1>2, <2>2, <3>3, <3>5 DEF KilledInv
  <2> QED
    BY <2>3, <2>4
<1> QED
  BY <1>3, <1>4

-----------------------------------------------------------------------------
\* The counts left by a step, and the outcome that detect() finds in them.
LEMMA DetectTyped ==
    ASSUME outcome \in Outcomes \cup {None}, endflg \in BOOLEAN,
           NEW p \in Nat, NEW b \in [Sides -> Nat], Detect(p, b)
    PROVE  outcome' \in Outcomes \cup {None} /\ endflg' \in BOOLEAN /\ torn' = torn
<1>1. Verdict(p, b) \in Outcomes \cup {None}
  BY DEF Verdict, Outcomes
<1> QED
  BY <1>1 DEF Detect

\* Counts are natural numbers.
LEMMA CountsNat ==
    ASSUME NEW p \in 0..NewPlanets, NEW b \in [Sides -> 0..NewBases]
    PROVE  p \in Nat /\ b \in [Sides -> Nat]
BY Sizes

\* A planet less, a base less or more, within the limits.
LEMMA PlanetLess ==
    ASSUME planets \in 0..NewPlanets, planets > 0
    PROVE  planets - 1 \in 0..NewPlanets
BY Sizes

LEMMA BasesTyped ==
    ASSUME nbase \in [Sides -> 0..NewBases], NEW t \in Sides
    PROVE  /\ nbase[t] > 0 => [nbase EXCEPT ![t] = @ - 1] \in [Sides -> 0..NewBases]
           /\ nbase[t] < NewBases => [nbase EXCEPT ![t] = @ + 1] \in [Sides -> 0..NewBases]
<1>1. nbase[t] \in 0..NewBases
  OBVIOUS
<1>2. nbase[t] > 0 => nbase[t] - 1 \in 0..NewBases
  BY <1>1, Sizes
<1>3. nbase[t] < NewBases => nbase[t] + 1 \in 0..NewBases
  BY <1>1, Sizes
<1> QED
  BY <1>2, <1>3

\* What leaves KILQUE alone leaves it in order.
LEMMA KilledSame == KilledInv /\ kilque' = kilque => KilledInv'
BY DEF KilledInv, KilledOnce

\* Whoever is at a prompt, or was turned from there to his ending, holds FRELOK
\* across the yield; nobody else does but a FREE, or one torn in two.
LockInv ==
    \A s \in Sessions :
        /\ pc[s] \in Prompts => frelok = s
        /\ pc[s] \in {"ending cc1", "ending cc2"} /\ freeing[s] = "no" => frelok = s
        /\ frelok = s => pc[s] \in Prompts \cup Endings \/ freeing[s] = "draining"

\* WHO, TEAM, armed and FREE of a session, by the place where it stands.
PlaceInv ==
    \A s \in Sessions :
        /\ pc[s] \in {"away", "pregame", "queued"} => who[s] = 0
        /\ pc[s] \in Active => who[s] \in Ships /\ armed[s] /\ team[s] = SideOf(who[s])
        /\ pc[s] \in Endings => outcome # None /\ retired
        /\ freeing[s] # "no" => who[s] \in Ships /\ pc[s] \in {"dying", "leaving"} \cup Endings

\* ENDFLG, the catalogue, a captain counted out twice, and a galaxy that nobody
\* has set up.
WarInv ==
    /\ endflg => outcome # None
    /\ "twice" \in torn => outcome # None
    /\ retired => ~published
    /\ ~created => /\ outcome = None
                   /\ \A s \in Sessions : pc[s] \in {"away", "pregame", "queued", "gone"}

Standing == LockInv /\ PlaceInv /\ WarInv

\* Every step keeps the types and the list of the killed.
Kinds == TypeOK /\ KilledInv

LEMMA KindsInit == Init => Kinds
<1> SUFFICES ASSUME Init PROVE Kinds
  OBVIOUS
<1>1. kilque \in Seq([job : Sessions \cup {None}, ship : Ships]) /\ Len(kilque) = 0
  BY DEF Init
<1>2. DOMAIN kilque = {}
  BY <1>1 DEF Init
<1>3. KilledInv
  BY <1>1, <1>2, Sizes DEF KilledInv, KilledOnce
<1>4. planets \in 0..NewPlanets /\ nbase \in [Sides -> 0..NewBases] /\ kilndx \in 0..QueueLength
  BY Sizes DEF Init
<1>5. /\ alive \in [Ships -> {"free", "taken", "dead"}] /\ job \in [Ships -> Sessions \cup {None}]
      /\ numply \in Int /\ numsid \in [Sides -> Int] /\ outcome \in Outcomes \cup {None}
      /\ frelok \in Sessions \cup {None} /\ pc \in [Sessions -> States]
      /\ who \in [Sessions -> Ships \cup {0, Nameless}] /\ team \in [Sessions -> Sides]
      /\ freeing \in [Sessions -> {"no", "asking", "draining"}]
      /\ \A s \in Sessions : freeing[s] = "no"
      /\ aim \in [Sessions -> Ships \cup {0}] /\ adrift \subseteq Ships
  BY DEF Init, States
<1>6. TypeOK
  BY <1>1, <1>4, <1>5 DEF Init, TypeOK
<1> QED
  BY <1>3, <1>6 DEF Kinds

LEMMA KindsNext == Kinds /\ Standing /\ [Next]_vars => Kinds'
<1> SUFFICES ASSUME TypeOK, KilledInv, Standing, [Next]_vars PROVE TypeOK' /\ KilledInv'
  BY DEF Kinds
<1> DEFINE Kept == TypeOK' /\ kilque' = kilque
<1>1. ASSUME NEW s \in Sessions, Connect(s) PROVE Kept
  BY <1>1 DEF Connect, TypeOK, Goto, States, Prompts, Active, Endings,
     registers, ships, killed, clock, counts, war, catalog, captain
<1>2. ASSUME NEW s \in Sessions, LeavePregame(s) PROVE Kept
  BY <1>2 DEF LeavePregame, TypeOK, Goto, States, Prompts, Active, Endings,
     registers, ships, killed, clock, counts, war, catalog, captain
<1>3. ASSUME NEW s \in Sessions, Queue(s) PROVE Kept
  BY <1>3 DEF Queue, TypeOK, Goto, States, Prompts, Active, Endings,
     registers, ships, killed, clock, counts, war, catalog, captain
<1>4. ASSUME NEW s \in Sessions, FoundFull(s) PROVE Kept
  BY <1>4 DEF FoundFull, TypeOK, Goto, States, Prompts, Active, Endings,
     registers, ships, killed, clock, counts, war, catalog, captain
<1>5. ASSUME NEW s \in Sessions, TurnedAway(s) PROVE Kept
  <2>1. /\ numply' \in Int /\ pc' \in [Sessions -> States] /\ frelok' \in Sessions \cup {None}
        /\ who' \in [Sessions -> Ships \cup {0, Nameless}] /\ team' \in [Sessions -> Sides]
    BY <1>5 DEF TurnedAway, Exit, Goto, TypeOK, States
  <2> QED
    BY <1>5, <2>1 DEF TurnedAway, TypeOK, ships, killed, clock, counts, war
<1>6. ASSUME NEW s \in Sessions, StartCommand(s) PROVE Kept
  BY <1>6 DEF StartCommand, TypeOK, Goto, States, Prompts, Active, Endings,
     registers, ships, killed, clock, counts, war, catalog, captain
<1>7. ASSUME NEW s \in Sessions, Quit(s) PROVE Kept
  BY <1>7 DEF Quit, TypeOK, Goto, States, Prompts, Active, Endings,
     registers, ships, killed, clock, counts, war, catalog, captain
<1>8. ASSUME NEW s \in Sessions, Die(s) PROVE Kept
  BY <1>8 DEF Die, TypeOK, Goto, States, Prompts, Active, Endings,
     registers, ships, killed, clock, counts, war, catalog, captain
<1>9. ASSUME NEW s \in Sessions, AskToFree(s) PROVE Kept
  BY <1>9 DEF AskToFree, TypeOK, Goto, States, Prompts, Active, Endings,
     registers, ships, killed, clock, counts, war, catalog, captain
<1>10. ASSUME NEW s \in Sessions, Finalize(s) PROVE Kept
  BY <1>10 DEF Finalize, EndingFrom, TypeOK, Goto, States, Prompts, Active, Endings,
     registers, ships, killed, clock, counts, war, catalog, captain
<1>11. ASSUME NEW s \in Sessions, DropLimit(s) PROVE Kept
  BY <1>11 DEF DropLimit, TypeOK, Goto, States, Prompts, Active, Endings,
     registers, ships, killed, clock, counts, war, catalog, captain
<1>12. ASSUME NEW s \in Sessions, Answer(s) PROVE Kept
  <2>1. PICK t \in Sides : Enlist(s, t)
    BY <1>12 DEF Answer, TypeOK
  <2>2. /\ numsid' \in [Sides -> Int] /\ team' \in [Sessions -> Sides]
        /\ pc' \in [Sessions -> States]
    BY <2>1 DEF Enlist, Goto, TypeOK, States, Prompts
  <2> QED
    BY <1>12, <2>2 DEF Answer, TypeOK, ships, killed, clock, counts, war, catalog
<1>13. ASSUME NEW s \in Sessions, Cancel(s) PROVE Kept
  <2>1. numply' \in Int /\ numsid' \in [Sides -> Int]
    BY <1>13 DEF Cancel, TypeOK
  <2>2. /\ pc' \in [Sessions -> States] /\ frelok' \in Sessions \cup {None}
        /\ who' \in [Sessions -> Ships \cup {0, Nameless}] /\ team' \in [Sessions -> Sides]
    BY <1>13 DEF Cancel, Exit, Goto, TypeOK, States
  <2> QED
    BY <1>13, <2>1, <2>2 DEF Cancel, TypeOK, ships, killed, clock, counts, war, catalog
<1>14. ASSUME NEW s \in Sessions, FinishCommand(s) PROVE Kept
  <2>1. planets' \in 0..NewPlanets /\ nbase' \in [Sides -> 0..NewBases]
    BY <1>14, Sizes DEF FinishCommand, TypeOK, counts
  <2>2. outcome' \in Outcomes \cup {None} /\ endflg' \in BOOLEAN /\ torn' = torn
    BY <1>14, <2>1, DetectTyped, CountsNat DEF FinishCommand, TypeOK, counts
  <2> QED
    BY <1>14, <2>1, <2>2 DEF FinishCommand, TypeOK, Goto, States, Active,
       registers, ships, killed, clock, counts, catalog, captain
<1>15. ASSUME NEW s \in Sessions, DestroyPlanet(s) PROVE Kept
  <2>1. planets' \in 0..NewPlanets /\ nbase' \in [Sides -> 0..NewBases]
    BY <1>15, PlanetLess DEF DestroyPlanet, TypeOK
  <2>2. outcome' \in Outcomes \cup {None} /\ endflg' \in BOOLEAN /\ torn' = torn
    BY <1>15, <2>1, DetectTyped, CountsNat DEF DestroyPlanet, TypeOK
  <2> QED
    BY <1>15, <2>1, <2>2 DEF DestroyPlanet, TypeOK, registers, ships, killed, clock, catalog, captain
<1>16. ASSUME NEW s \in Sessions, BuildBase(s) PROVE Kept
  <2>0. team[s] \in Sides
    BY DEF TypeOK
  <2>1. planets' \in 0..NewPlanets /\ nbase' \in [Sides -> 0..NewBases]
    BY <1>16, <2>0, PlanetLess, BasesTyped DEF BuildBase, TypeOK
  <2>2. outcome' \in Outcomes \cup {None} /\ endflg' \in BOOLEAN /\ torn' = torn
    BY <1>16, <2>1, DetectTyped, CountsNat DEF BuildBase, TypeOK
  <2> QED
    BY <1>16, <2>1, <2>2 DEF BuildBase, TypeOK, registers, ships, killed, clock, catalog, captain
<1>17. ASSUME NEW s \in Sessions, NEW w \in Ships, DestroyShip(s, w) PROVE Kept
  BY <1>17 DEF DestroyShip, TypeOK, registers, ships, killed, clock, counts, war, catalog, captain
<1>27. ASSUME NEW s \in Sessions, NEW w \in Ships, Aim(s, w) PROVE Kept
  BY <1>27 DEF Aim, TypeOK, registers, ships, killed, clock, counts, war, catalog
<1>28. ASSUME NEW s \in Sessions, Fire(s) PROVE Kept
  <2>1. aim[s] \in Ships /\ aim' \in [Sessions -> Ships \cup {0}]
    BY <1>28 DEF Fire, TypeOK
  <2>2. alive' \in [Ships -> {"free", "taken", "dead"}] /\ adrift' \subseteq Ships
    BY <1>28, <2>1 DEF Fire, TypeOK
  <2> QED
    BY <1>28, <2>1, <2>2 DEF Fire, TypeOK, registers, killed, clock, counts, war, catalog
<1>29. ASSUME NEW s \in Sessions, GiveAway(s) PROVE Kept
  BY <1>29 DEF GiveAway, TypeOK, registers, ships, killed, clock, counts, war, catalog, captain
<1>30. ASSUME NEW s \in Sessions, LeaveShip(s) PROVE Kept
  <2>1. /\ alive' \in [Ships -> {"free", "taken", "dead"}] /\ frelok' \in Sessions \cup {None}
        /\ pc' \in [Sessions -> States] /\ who' \in [Sessions -> Ships \cup {0, Nameless}]
        /\ freeing' \in [Sessions -> {"no", "asking", "draining"}]
    BY <1>30 DEF LeaveShip, TypeOK, Goto, States
  <2> QED
    BY <1>30, <2>1 DEF LeaveShip, TypeOK, registers, killed, clock, counts, war, catalog
<1>31. ASSUME NEW s \in Sessions, CancelEnding(s) PROVE Kept
  <2>0. /\ numply \in Int /\ numsid \in [Sides -> Int] /\ team[s] \in Sides
        /\ freeing \in [Sessions -> {"no", "asking", "draining"}]
    BY DEF TypeOK
  <2>4. /\ numply' = numply - 1 /\ freeing' = [freeing EXCEPT ![s] = "no"]
        /\ numsid' = [numsid EXCEPT ![team[s]] = IF pc[s] = "ending cc2" THEN @ - 1 ELSE @]
        /\ outcome' = outcome /\ endflg' = endflg
    BY <1>31 DEF CancelEnding
  <2>5. numsid' \in [Sides -> Int]
    <3> DEFINE n == IF pc[s] = "ending cc2" THEN numsid[team[s]] - 1 ELSE numsid[team[s]]
    <3>1. numsid[team[s]] \in Int
      BY ONLY <2>0
    <3>2. n \in Int
      <4>1. numsid[team[s]] - 1 \in Int
        BY ONLY <2>0, <3>1
      <4> QED
        BY ONLY <3>1, <4>1
    <3>3. numsid' = [numsid EXCEPT ![team[s]] = n]
      BY ONLY <2>4
    <3> HIDE DEF n
    <3> QED
      BY ONLY <2>0, <3>2, <3>3
  <2>6. numply' \in Int
    <3>1. numply \in Int /\ numply' = numply - 1
      BY ONLY <2>0, <2>4
    <3> QED
      BY ONLY <3>1
  <2>1. /\ numply' \in Int /\ numsid' \in [Sides -> Int]
        /\ freeing' \in [Sessions -> {"no", "asking", "draining"}]
        /\ outcome' = outcome /\ endflg' = endflg
    <3>1. /\ freeing \in [Sessions -> {"no", "asking", "draining"}] /\ freeing' = [freeing EXCEPT ![s] = "no"]
          /\ outcome' = outcome /\ endflg' = endflg
      BY ONLY <2>0, <2>4
    <3> QED
      BY ONLY <2>5, <2>6, <3>1
  <2>3. torn' \subseteq {"twice", "clearing"}
    <3>1. torn \subseteq {"twice", "clearing"}
      BY DEF TypeOK
    <3>2. torn' = torn \/ torn' = torn \cup {"twice"}
      BY <1>31 DEF CancelEnding
    <3> QED
      BY <3>1, <3>2
  <2>2. /\ pc' \in [Sessions -> States] /\ frelok' \in Sessions \cup {None}
        /\ who' \in [Sessions -> Ships \cup {0, Nameless}] /\ team' \in [Sessions -> Sides]
    BY <1>31 DEF CancelEnding, Exit, Goto, TypeOK, States
  <2> QED
    BY <1>31, <2>1, <2>2, <2>3 DEF CancelEnding, TypeOK, ships, killed, clock, counts, catalog
<1>18. ASSUME NEW s \in Sessions, NEW w \in Ships \cup {Nameless}, NameShip(s, w) PROVE Kept
  <2>1. CASE Offered(s, w) /\ Board(s, w) /\ Detect(planets, nbase)
    <3>1. outcome' \in Outcomes \cup {None} /\ endflg' \in BOOLEAN
      BY <2>1, DetectTyped, CountsNat DEF TypeOK
    <3>2. /\ w \in Ships /\ torn' = torn /\ adrift' = adrift
          /\ UNCHANGED <<registers, killed, clock, counts, catalog, team, freeing, aim, limit>>
      BY <1>18, <2>1 DEF NameShip, Offered, Board, Detect
    <3>3. /\ frelok' = None /\ pc' = [pc EXCEPT ![s] = "ready"] /\ who' = [who EXCEPT ![s] = w]
          /\ armed' = [armed EXCEPT ![s] = TRUE]
          /\ alive' = [alive EXCEPT ![w] = "taken"] /\ job' = [job EXCEPT ![w] = s]
      BY <2>1 DEF Board, Goto
    <3> QED
      BY <3>1, <3>2, <3>3, Places DEF TypeOK, Active, registers, killed, clock, counts, catalog
  <2>2. CASE who' = [who EXCEPT ![s] = w] /\ UNCHANGED <<ships, war, frelok, pc, armed>>
    BY <1>18, <2>2 DEF NameShip, TypeOK, registers, ships, killed, clock, counts, war, catalog
  <2> QED
    BY <1>18, <2>1, <2>2 DEF NameShip
<1>19. ASSUME NEW s \in Sessions, NEW t \in Sides, DestroyBase(s, t) PROVE Kept
  <2>1. nbase' \in [Sides -> 0..NewBases] /\ planets' \in 0..NewPlanets
    BY <1>19, BasesTyped DEF DestroyBase, TypeOK
  <2>2. outcome' \in Outcomes \cup {None} /\ endflg' \in BOOLEAN /\ torn' = torn
    BY <1>19, <2>1, DetectTyped, CountsNat DEF DestroyBase, TypeOK
  <2> QED
    BY <1>19, <2>1, <2>2 DEF DestroyBase, TypeOK, registers, ships, killed, clock, catalog, captain
<1>20. ASSUME NEW s \in Sessions, FinishCreation(s) PROVE Kept
  <2>1. nbase' \in [Sides -> 0..NewBases] /\ planets' \in 0..NewPlanets
    BY <1>20, Sizes DEF FinishCreation
  <2>2. /\ numsid' \in [Sides -> Int] /\ team' \in [Sessions -> Sides]
        /\ pc' \in [Sessions -> States] /\ who' = who
    <3>1. AdmitNew(s) /\ pc[s] = "creating"
      BY <1>20 DEF FinishCreation, At
    <3>2. CASE ~Uneven
      BY <3>1, <3>2 DEF AdmitNew, Enlist, Goto, TypeOK, States, Prompts
    <3>3. CASE Uneven
      <4>1. PICK t \in Sides : Enlist(s, t) /\ UNCHANGED who
        BY <3>1, <3>3 DEF AdmitNew
      <4> QED
        BY <4>1 DEF Enlist, Goto, TypeOK, States, Prompts
    <3> QED
      BY <3>2, <3>3
  <2> QED
    BY <1>20, <2>1, <2>2 DEF FinishCreation, TypeOK, killed, clock, war, catalog
<1>21. ASSUME NEW s \in Sessions, Admit(s) PROVE Kept
  <2> DEFINE row == KilledRow(s)
             ship == kilque[row].ship
             side == SideOf(ship)
  <2>1. UNCHANGED <<killed, clock, counts, catalog, freeing, aim, limit>> /\ numply' = numply + 1
    BY <1>21 DEF Admit, CountIn
  <2>2. CASE frelok' = s /\ AdmitNew(s) /\ UNCHANGED <<ships, war, armed>>
    <3>2. CASE ~Uneven
      BY SMTT(20), <2>1, <2>2, <3>2 DEF AdmitNew, Enlist, Goto, TypeOK, States, Prompts,
         ships, killed, clock, counts, war, catalog
    <3>3. CASE Uneven
      <4>1. PICK t \in Sides : Enlist(s, t) /\ UNCHANGED who
        BY <2>2, <3>3 DEF AdmitNew
      <4> QED
        BY <2>1, <2>2, <4>1 DEF Enlist, Goto, TypeOK, States, Prompts,
           ships, killed, clock, counts, war, catalog
    <3> QED
      BY <3>2, <3>3
  <2>3. CASE row # 0
    <3>1. ship \in Ships /\ side \in Sides
      BY <2>3, KilledRowFound, SidesOfShips DEF KilledInv, Row
    <3> HIDE DEF row, ship, side
    <3>2. CASE /\ numsid' = [numsid EXCEPT ![side] = @ + 1]
               /\ team' = [team EXCEPT ![s] = side]
               /\ Board(s, ship)
               /\ Detect(planets, nbase)
      <4>1. outcome' \in Outcomes \cup {None} /\ endflg' \in BOOLEAN /\ torn' = torn
        BY <3>2, DetectTyped, CountsNat DEF TypeOK
      <4> QED
        BY <2>1, <3>1, <3>2, <4>1, Places DEF Board, TypeOK, Goto, Active, killed, clock, counts, catalog
    <3>3. CASE /\ Goto(s, IF numsid[side] >= PerSide THEN "defect" ELSE "another")
               /\ who' = [who EXCEPT ![s] = ship]
               /\ team' = [team EXCEPT ![s] = side]
               /\ frelok' = s
               /\ UNCHANGED <<numsid, ships, war, armed>>
      BY <2>1, <3>1, <3>3, Places DEF TypeOK, Goto, Prompts, ships, killed, clock, counts, war, catalog
    <3> QED
      BY <1>21, <2>3, <3>2, <3>3 DEF Admit, row, ship, side
  <2> QED
    BY <1>21, <2>2, <2>3 DEF Admit
<1>22. ASSUME NEW s \in Sessions, Create(s) PROVE TypeOK' /\ KilledInv'
  <2>1. kilque' \in Seq([job : Sessions \cup {None}, ship : Ships]) /\ Len(kilque') = 0 /\ DOMAIN kilque' = {}
    BY <1>22 DEF Create
  <2>2. KilledInv'
    BY <2>1, Sizes DEF KilledInv, KilledOnce
  <2>3. outcome' \in Outcomes \cup {None}
    <3> DEFINE b == [t \in Sides |-> IF t = 1 \/ planets > 0 THEN 0 ELSE nbase[t]]
    <3>1. b \in [Sides -> Nat]
      BY Sizes DEF TypeOK
    <3>2. Verdict(0, b) \in Outcomes \cup {None}
      BY <3>1 DEF Verdict, Outcomes
    <3> QED
      BY <1>22, <3>2 DEF Create, TypeOK
  <2>4. /\ planets' \in 0..NewPlanets /\ nbase' \in [Sides -> 0..NewBases] /\ kilndx' \in 0..QueueLength
        /\ alive' \in [Ships -> {"free", "taken", "dead"}] /\ job' \in [Ships -> Sessions \cup {None}]
    BY <1>22, Sizes DEF Create
  <2>5. numply' \in Int /\ pc' \in [Sessions -> States] /\ frelok' \in Sessions \cup {None}
    BY <1>22 DEF Create, CountIn, Goto, TypeOK, States, Prompts
  <2>6. TypeOK'
    BY <1>22, <2>1, <2>3, <2>4, <2>5 DEF Create, TypeOK, catalog, captain
  <2> QED
    BY <2>2, <2>6
<1>23. ASSUME NEW s \in Sessions, StartFree(s) PROVE TypeOK' /\ KilledInv'
  <2>1. who[s] \in Ships
    BY <1>23 DEF StartFree, HasToFree, Standing, PlaceInv
  <2>2. job[who[s]] \in Sessions \cup {None} /\ SideOf(who[s]) \in Sides
    BY <2>1, SidesOfShips DEF TypeOK
  <2>3. kilque' \in Seq([job : Sessions \cup {None}, ship : Ships]) /\ kilndx' \in 0..QueueLength /\ KilledInv'
    BY <1>23, <2>1, <2>2, RememberKeeps DEF StartFree, Row
  <2>4. /\ numply' \in Int /\ numsid' \in [Sides -> Int] /\ grace' \in BOOLEAN
        /\ job' \in [Ships -> Sessions \cup {None}] /\ frelok' \in Sessions \cup {None}
        /\ freeing' \in [Sessions -> {"no", "asking", "draining"}]
    BY <1>23, <2>1, <2>2 DEF StartFree, TypeOK
  <2>5. TypeOK'
    BY <1>23, <2>3, <2>4 DEF StartFree, TypeOK, counts, war, catalog
  <2> QED
    BY <2>3, <2>5
<1>24. CASE GraceEnds
  BY <1>24, KilledSame DEF GraceEnds, TypeOK, registers, ships, killed, clock, counts, war, catalog, captain
<1>25. CASE UNCHANGED vars
  BY <1>25, KilledSame DEF vars, TypeOK, registers, ships, killed, clock, counts, war, catalog, captain
<1>26. Kept => TypeOK' /\ KilledInv'
  BY KilledSame
<1> HIDE DEF Kept
<1> QED
  BY <1>1, <1>2, <1>3, <1>4, <1>5, <1>6, <1>7, <1>8, <1>9, <1>10, <1>11, <1>12, <1>13, <1>14, <1>15, <1>16, <1>17, <1>18, <1>19, <1>20, <1>21, <1>22, <1>23, <1>24, <1>25, <1>26, <1>27, <1>28, <1>29, <1>30, <1>31
     DEF Next, Setup, Prompted, Effect, Depart

-----------------------------------------------------------------------------
LEMMA StandingInit == Init => Standing
BY SessionsAssumption DEF Init, Standing, LockInv, PlaceInv, WarInv, Prompts, Active, Endings

\* Where the answers of SETUP lead.
LEMMA AnswersLead ==
    ASSUME TypeOK, NEW s \in Sessions, Answer(s) \/ AdmitNew(s)
    PROVE  /\ pc'[s] \in {"side", "ship"} /\ pc' \in [Sessions -> States]
           /\ who' = who
           /\ \A t \in Sessions : t # s => pc'[t] = pc[t] /\ team'[t] = team[t]
<1>0. pc \in [Sessions -> States] /\ team \in [Sessions -> Sides] /\ {"side", "ship"} \subseteq States
  BY DEF TypeOK, States, Prompts
<1>1. ASSUME NEW t, Enlist(s, t)
      PROVE  /\ pc'[s] = "ship" /\ pc' \in [Sessions -> States]
             /\ \A x \in Sessions : x # s => pc'[x] = pc[x] /\ team'[x] = team[x]
  BY <1>0, <1>1 DEF Enlist, Goto
<1>2. CASE Answer(s)
  <2>1. \E t : Enlist(s, t)
    BY <1>2 DEF Answer
  <2> QED
    BY <1>1, <1>2, <2>1 DEF Answer
<1>3. CASE AdmitNew(s)
  <2>1. CASE Uneven
    BY <1>1, <1>3, <2>1 DEF AdmitNew
  <2>2. CASE ~Uneven
    BY <1>0, <1>3, <2>2 DEF AdmitNew, Goto
  <2> QED
    BY <2>1, <2>2
<1> QED
  BY <1>2, <1>3

LEMMA StandingNext == Kinds /\ Standing /\ [Next]_vars => Standing'
<1> SUFFICES ASSUME TypeOK, KilledInv, Standing, [Next]_vars PROVE Standing'
  BY DEF Kinds
<1>0. /\ pc \in [Sessions -> States] /\ who \in [Sessions -> Ships \cup {0, Nameless}]
      /\ team \in [Sessions -> Sides] /\ armed \in [Sessions -> BOOLEAN]
      /\ freeing \in [Sessions -> {"no", "asking", "draining"}]
      /\ 0 \notin Ships /\ Nameless \notin Ships /\ None \notin Sessions
  BY NoShips DEF TypeOK
<1> USE <1>0 DEF Standing, LockInv, PlaceInv, WarInv, Prompts, Active, Endings, Goto
<1>1. ASSUME NEW s \in Sessions, Connect(s) PROVE Standing'
  BY <1>1 DEF Connect, At,
     registers, ships, killed, clock, counts, war, catalog, captain
<1>2. ASSUME NEW s \in Sessions, LeavePregame(s) PROVE Standing'
  BY <1>2 DEF LeavePregame, At,
     registers, ships, killed, clock, counts, war, catalog, captain
<1>3. ASSUME NEW s \in Sessions, Queue(s) PROVE Standing'
  BY <1>3 DEF Queue, At,
     registers, ships, killed, clock, counts, war, catalog, captain
<1>4. ASSUME NEW s \in Sessions, FoundFull(s) PROVE Standing'
  BY <1>4 DEF FoundFull, At,
     registers, ships, killed, clock, counts, war, catalog, captain
<1>5. ASSUME NEW s \in Sessions, TurnedAway(s) PROVE Standing'
  BY <1>5 DEF TurnedAway, At, Granted, Exit, Available, Existing,
     registers, ships, killed, clock, counts, war, catalog, captain
<1>6. ASSUME NEW s \in Sessions, StartCommand(s) PROVE Standing'
  BY <1>6 DEF StartCommand, At,
     registers, ships, killed, clock, counts, war, catalog, captain
<1>7. ASSUME NEW s \in Sessions, Quit(s) PROVE Standing'
  BY <1>7 DEF Quit, At,
     registers, ships, killed, clock, counts, war, catalog, captain
<1>8. ASSUME NEW s \in Sessions, Die(s) PROVE Standing'
  BY <1>8 DEF Die, At,
     registers, ships, killed, clock, counts, war, catalog, captain
<1>9. ASSUME NEW s \in Sessions, AskToFree(s) PROVE Standing'
  BY <1>9 DEF AskToFree, CallsFree, HasToFree, Available, At,
     registers, ships, killed, clock, counts, war, catalog, captain
<1>10. ASSUME NEW s \in Sessions, Finalize(s) PROVE Standing'
  <2>1. /\ outcome # None /\ outcome' = outcome /\ endflg' = endflg /\ created' = created
        /\ retired' /\ ~published' /\ frelok' = frelok
        /\ UNCHANGED <<who, team, armed>>
    BY <1>10 DEF Finalize, Over, clock
  <2>2. /\ pc[s] \notin Endings /\ pc' = [pc EXCEPT ![s] = EndingFrom(pc[s])]
        /\ freeing' = [freeing EXCEPT ![s] = "no"]
        /\ EndingFrom(pc[s]) \in Endings
        /\ pc[s] \in Prompts \/ EndingFrom(pc[s]) = "ending"
    BY <1>10 DEF Finalize, Over, EndingFrom
  <2>3. LockInv'
    BY <2>1, <2>2
  <2>4. PlaceInv'
    BY <2>1, <2>2
  <2>5. WarInv'
    BY <2>1
  <2> QED
    BY <2>3, <2>4, <2>5
<1>11. ASSUME NEW s \in Sessions, DropLimit(s) PROVE Standing'
  BY <1>11 DEF DropLimit,
     registers, ships, killed, clock, counts, war, catalog, captain
\* A captain at a prompt goes on to another.
<1>p. ASSUME NEW s \in Sessions, pc[s] \in Prompts, frelok' = frelok,
             pc'[s] \in Prompts, \A t \in Sessions : t # s => pc'[t] = pc[t] /\ team'[t] = team[t],
             pc' \in [Sessions -> States],
             UNCHANGED <<who, armed, freeing, created, war, catalog>>
      PROVE  Standing'
  <2>1. LockInv'
    BY <1>p
  <2>2. PlaceInv'
    BY <1>p DEF war, catalog
  <2>3. WarInv'
    BY <1>p DEF war, catalog
  <2> QED
    BY <2>1, <2>2, <2>3
<1>12. ASSUME NEW s \in Sessions, Answer(s) PROVE Standing'
  <2>2. /\ pc[s] \in Prompts /\ frelok' = frelok
        /\ UNCHANGED <<who, armed, freeing, created, war, catalog>>
    BY <1>12 DEF Answer, At, clock
  <2>3. /\ pc'[s] \in Prompts /\ pc' \in [Sessions -> States]
        /\ \A x \in Sessions : x # s => pc'[x] = pc[x] /\ team'[x] = team[x]
    BY <1>12, AnswersLead
  <2> QED
    BY <1>p, <2>2, <2>3
<1>13. ASSUME NEW s \in Sessions, Cancel(s) PROVE Standing'
  BY <1>13 DEF Cancel, At, Exit,
     registers, ships, killed, clock, counts, war, catalog, captain
<1>14. ASSUME NEW s \in Sessions, FinishCommand(s) PROVE Standing'
  BY <1>14 DEF FinishCommand, Detect,
     registers, ships, killed, clock, counts, war, catalog, captain
<1>15. ASSUME NEW s \in Sessions, DestroyPlanet(s) PROVE Standing'
  BY <1>15 DEF DestroyPlanet, Detect,
     registers, ships, killed, clock, counts, war, catalog, captain
<1>16. ASSUME NEW s \in Sessions, BuildBase(s) PROVE Standing'
  BY <1>16 DEF BuildBase, Detect,
     registers, ships, killed, clock, counts, war, catalog, captain
<1>17. ASSUME NEW s \in Sessions, Create(s) PROVE Standing'
  <2>1. /\ pc[s] \in {"pregame", "queued"} /\ frelok \in {None, s} /\ frelok' = s
        /\ pc' = [pc EXCEPT ![s] = "creating"] /\ created' /\ ~endflg'
        /\ UNCHANGED <<who, team, armed, freeing, retired, published>>
    BY <1>17 DEF Create, CountIn, Granted, At, Available, catalog, captain
  <2>2. outcome # None => outcome' # None
    BY <1>17 DEF Create
  <2>3. "twice" \in torn' => "twice" \in torn
    BY <1>17 DEF Create
  <2>4. \A t \in Sessions : t # s => pc'[t] = pc[t] /\ freeing'[t] = freeing[t] /\ frelok # t
    BY ONLY <1>0, <1>17, <2>1
  <2>5. pc'[s] = "creating"
    BY <2>1
  <2>a. LockInv'
    BY <2>1, <2>4, <2>5
  <2>b. PlaceInv'
    BY <2>1, <2>2, <2>3
  <2>c. WarInv'
    BY <2>1, <2>2, <2>3
  <2> QED
    BY <2>a, <2>b, <2>c
<1>18. ASSUME NEW s \in Sessions, FinishCreation(s) PROVE Standing'
  <2>1. /\ pc[s] \in Prompts /\ frelok' = frelok
        /\ UNCHANGED <<who, armed, freeing, created, war, catalog>>
    BY <1>18 DEF FinishCreation, At, AdmitNew, clock
  <2>2. /\ pc'[s] \in Prompts /\ pc' \in [Sessions -> States]
        /\ \A x \in Sessions : x # s => pc'[x] = pc[x] /\ team'[x] = team[x]
    BY <1>18, AnswersLead DEF FinishCreation
  <2> QED
    BY <1>p, <2>1, <2>2
<1>19. ASSUME NEW s \in Sessions, NEW w \in Ships, DestroyShip(s, w) PROVE Standing'
  BY <1>19 DEF DestroyShip, registers, ships, killed, clock, counts, war, catalog, captain
<1>20. ASSUME NEW s \in Sessions, NEW t \in Sides, DestroyBase(s, t) PROVE Standing'
  BY <1>20 DEF DestroyBase, Detect, registers, ships, killed, clock, counts, war, catalog, captain
<1>21. ASSUME NEW s \in Sessions, NEW w \in Ships \cup {Nameless}, NameShip(s, w) PROVE Standing'
  <2>1. pc[s] = "ship" /\ frelok = s /\ UNCHANGED <<clock, catalog, team, freeing>>
    BY <1>21 DEF NameShip, At
  <2>2. CASE Offered(s, w) /\ Board(s, w) /\ Detect(planets, nbase)
    BY <2>1, <2>2 DEF Offered, Board, Detect, clock, catalog
  <2>3. CASE who' = [who EXCEPT ![s] = w] /\ UNCHANGED <<ships, war, frelok, pc, armed>>
    BY <2>1, <2>3 DEF clock, catalog, war
  <2> QED
    BY <1>21, <2>2, <2>3 DEF NameShip
<1>22. ASSUME NEW s \in Sessions, Admit(s) PROVE Standing'
  <2> DEFINE row == KilledRow(s)
             ship == kilque[row].ship
             side == SideOf(ship)
  <2>1. /\ pc[s] \in {"pregame", "queued"} /\ frelok = None /\ created
        /\ UNCHANGED <<clock, catalog, freeing>>
    BY <1>22 DEF Admit, CountIn, Granted, At, Available, Existing
  <2>2. CASE frelok' = s /\ AdmitNew(s) /\ UNCHANGED <<ships, war, armed>>
    <3>1. /\ who' = who /\ pc'[s] \in Prompts /\ pc' \in [Sessions -> States]
          /\ \A x \in Sessions : x # s => pc'[x] = pc[x] /\ team'[x] = team[x]
      BY <2>2, AnswersLead
    <3>2. LockInv'
      BY <2>1, <2>2, <3>1
    <3>3. PlaceInv'
      BY <2>1, <2>2, <3>1 DEF clock, catalog, war
    <3>4. WarInv'
      BY <2>1, <2>2, <3>1 DEF clock, catalog, war
    <3> QED
      BY <3>2, <3>3, <3>4
  <2>3. CASE row # 0
    <3>1. ship \in Ships /\ side \in Sides /\ side = SideOf(ship)
      BY <2>3, KilledRowFound, SidesOfShips DEF KilledInv, Row
    <3> HIDE DEF row, ship, side
    <3>2. CASE /\ team' = [team EXCEPT ![s] = side]
               /\ Board(s, ship)
               /\ Detect(planets, nbase)
      BY <2>1, <3>1, <3>2 DEF Board, Detect, clock, catalog
    <3>3. CASE /\ Goto(s, IF numsid[side] >= PerSide THEN "defect" ELSE "another")
               /\ who' = [who EXCEPT ![s] = ship]
               /\ team' = [team EXCEPT ![s] = side]
               /\ frelok' = s
               /\ UNCHANGED <<numsid, ships, war, armed>>
      BY <2>1, <3>1, <3>3 DEF clock, catalog, war
    <3> QED
      BY <1>22, <2>3, <3>2, <3>3 DEF Admit, row, ship, side
  <2> QED
    BY <1>22, <2>2, <2>3 DEF Admit
<1>23. ASSUME NEW s \in Sessions, LeaveShip(s) PROVE Standing'
  <2>1. /\ pc[s] \in {"dying", "leaving"} \cup Endings
        /\ pc' = [pc EXCEPT ![s] = IF pc[s] = "dying" THEN "pregame" ELSE "gone"]
        /\ who' = [who EXCEPT ![s] = 0] /\ freeing' = [freeing EXCEPT ![s] = "no"]
        /\ frelok' = IF frelok = s THEN None ELSE frelok
        /\ UNCHANGED <<team, armed, clock, war, catalog>>
    BY <1>23 DEF LeaveShip, CallsFree, At
  <2> QED
    BY <2>1 DEF clock, war, catalog
<1>27. ASSUME NEW s \in Sessions, StartFree(s) PROVE Standing'
  <2>1. /\ pc[s] \in {"dying", "leaving"} \cup Endings /\ who[s] \in Ships
        /\ frelok \in {None, s} /\ frelok' = s /\ freeing' = [freeing EXCEPT ![s] = "draining"]
        /\ UNCHANGED <<pc, who, team, armed, created, war, catalog>>
    BY <1>27 DEF StartFree, CallsFree, HasToFree, At, Available
  <2>a. LockInv'
    BY <2>1 DEF war, catalog
  <2>b. PlaceInv'
    BY <2>1 DEF war, catalog
  <2>c. WarInv'
    BY <2>1 DEF war, catalog
  <2> QED
    BY <2>a, <2>b, <2>c
<1>28. ASSUME NEW s \in Sessions, GiveAway(s) PROVE Standing'
  BY <1>28 DEF GiveAway, clock, war, catalog, captain
<1>29. ASSUME NEW s \in Sessions, CancelEnding(s) PROVE Standing'
  <2>1. /\ pc[s] \in Endings /\ pc' = [pc EXCEPT ![s] = "gone"] /\ who' = [who EXCEPT ![s] = 0]
        /\ frelok' = IF frelok = s THEN None ELSE frelok
        /\ freeing' = [freeing EXCEPT ![s] = "no"] /\ \A t \in Sessions : t # s => team'[t] = team[t]
        /\ UNCHANGED <<armed, clock, outcome, endflg, catalog>>
    BY <1>29 DEF CancelEnding, Exit
  <2>a. LockInv'
    BY <2>1 DEF clock, catalog
  <2>b. PlaceInv'
    BY <2>1 DEF clock, catalog
  <2>c. WarInv'
    BY <2>1 DEF clock, catalog
  <2> QED
    BY <2>a, <2>b, <2>c
<1>30. ASSUME NEW s \in Sessions, NEW w \in Ships, Aim(s, w) PROVE Standing'
  BY <1>30 DEF Aim, clock, war, catalog
<1>31. ASSUME NEW s \in Sessions, Fire(s) PROVE Standing'
  BY <1>31 DEF Fire, clock, war, catalog
<1>24. CASE GraceEnds
  BY <1>24 DEF GraceEnds, registers, ships, killed, clock, counts, war, catalog, captain
<1>25. CASE UNCHANGED vars
  BY <1>25 DEF vars, registers, ships, killed, clock, counts, war, catalog, captain
<1> HIDE <1>0 DEF Standing, LockInv, PlaceInv, WarInv, Prompts, Active, Endings, Goto
<1> QED
  BY <1>1, <1>2, <1>3, <1>4, <1>5, <1>6, <1>7, <1>8, <1>9, <1>10, <1>11, <1>12, <1>13, <1>14, <1>15, <1>16, <1>17, <1>18, <1>19, <1>20, <1>21, <1>22, <1>23, <1>24, <1>25, <1>27, <1>28, <1>29, <1>30, <1>31
     DEF Next, Setup, Prompted, Effect, Depart

-----------------------------------------------------------------------------
\* What was torn stays so.
LEMMA TornGrows == [Next]_vars => torn \subseteq torn'
<1> SUFFICES ASSUME [Next]_vars PROVE torn \subseteq torn'
  OBVIOUS
<1>1. ASSUME NEW s \in Sessions,
             \/ Connect(s) \/ LeavePregame(s) \/ Queue(s) \/ FoundFull(s) \/ TurnedAway(s)
             \/ FinishCreation(s) \/ Answer(s) \/ Cancel(s)
      PROVE  torn' = torn
  BY <1>1 DEF Connect, LeavePregame, Queue, FoundFull, TurnedAway, FinishCreation, Answer, Cancel, war
<1>2. ASSUME NEW s \in Sessions, NEW w, NameShip(s, w) PROVE torn' = torn
  BY <1>2 DEF NameShip, Detect, war
<1>3. ASSUME NEW s \in Sessions, Admit(s) PROVE torn' = torn
  BY <1>3 DEF Admit, Detect, war
<1>4. ASSUME NEW s \in Sessions,
             \/ StartCommand(s) \/ Fire(s) \/ Quit(s) \/ Die(s) \/ DropLimit(s)
             \/ AskToFree(s) \/ StartFree(s) \/ GiveAway(s) \/ LeaveShip(s)
      PROVE  torn' = torn
  BY <1>4 DEF StartCommand, Fire, Quit, Die, DropLimit, AskToFree, StartFree, GiveAway, LeaveShip, war
<1>5. ASSUME NEW s \in Sessions, NEW w, DestroyShip(s, w) \/ Aim(s, w) PROVE torn' = torn
  BY <1>5 DEF DestroyShip, Aim, war
<1>6. ASSUME NEW s \in Sessions, NEW t, \/ DestroyBase(s, t) \/ DestroyPlanet(s)
                                        \/ BuildBase(s) \/ FinishCommand(s)
      PROVE  torn' = torn
  BY <1>6 DEF DestroyBase, DestroyPlanet, BuildBase, FinishCommand, Detect
<1>7. ASSUME NEW s \in Sessions, Create(s) \/ CancelEnding(s) \/ Finalize(s) PROVE torn \subseteq torn'
  BY <1>7 DEF Create, CancelEnding, Finalize
<1>8. ASSUME GraceEnds \/ UNCHANGED vars PROVE torn' = torn
  BY <1>8 DEF GraceEnds, vars, war
<1> QED
  BY <1>1, <1>2, <1>3, <1>4, <1>5, <1>6, <1>7, <1>8 DEF Next, Setup, Prompted, Effect, Depart

\* Those whom NUMPLY still has to count out: at the prompts, in play, or at the
\* ending with a ship or turned there from a prompt, before FREE has done it.
Counted ==
    {s \in Sessions : \/ pc[s] \in Prompts \cup Active
                      \/ pc[s] \in Endings /\ (who[s] # 0 \/ frelok = s)} \ Drainers

\* A captain turned from a prompt without a ship is never counted out, so that
\* NUMPLY may be too high, and too low only if a captain was counted out twice.
CountInv == "twice" \notin torn => numply >= Cardinality(Counted)

\* Only finitely many are counted.
LEMMA CountedFinite ==
    /\ IsFiniteSet(Counted) /\ Cardinality(Counted) \in Nat
    /\ Cardinality(Counted) = 0 <=> Counted = {}
<1>1. IsFiniteSet(Counted)
  BY SessionsAssumption, FS_Subset DEF Counted
<1> QED
  BY <1>1, FS_CardinalityType, FS_EmptySet

\* What a step may do to NUMPLY and to those it counts.
Steady == Counted' \subseteq Counted /\ numply' = numply
OneMore(s) == Counted' \subseteq Counted \cup {s} /\ numply' = numply + 1
OneLess(s) == s \in Counted /\ Counted' \subseteq Counted \ {s} /\ numply' = numply - 1

LEMMA CountKept ==
    ASSUME CountInv, numply \in Int, "twice" \in torn => "twice" \in torn',
           NEW s, \/ "twice" \in torn'
                  \/ Steady \/ OneMore(s) \/ OneLess(s)
    PROVE  CountInv'
<1>0. CASE "twice" \in torn'
  BY <1>0 DEF CountInv
<1> SUFFICES ASSUME "twice" \notin torn PROVE CountInv'
  BY <1>0
<1>f. IsFiniteSet(Counted) /\ Cardinality(Counted) \in Nat
  BY CountedFinite
<1>1. /\ IsFiniteSet(Counted) /\ Cardinality(Counted) \in Nat
      /\ IsFiniteSet(Counted \cup {s}) /\ IsFiniteSet(Counted \ {s})
      /\ Cardinality(Counted \cup {s}) <= Cardinality(Counted) + 1
      /\ s \in Counted => Cardinality(Counted \ {s}) = Cardinality(Counted) - 1
  BY SMTT(20), <1>f, FS_AddElement, FS_RemoveElement
<1>2. IsFiniteSet(Counted') => Cardinality(Counted') \in Nat
  BY FS_CardinalityType
<1>3. CASE Steady
  <2>1. IsFiniteSet(Counted') /\ Cardinality(Counted') <= Cardinality(Counted)
    BY <1>1, <1>3, FS_Subset DEF Steady
  <2> QED
    BY <1>1, <1>2, <1>3, <2>1 DEF Steady, CountInv
<1>4. CASE OneMore(s)
  <2>1. IsFiniteSet(Counted') /\ Cardinality(Counted') <= Cardinality(Counted \cup {s})
    BY <1>1, <1>4, FS_Subset DEF OneMore
  <2>2. Cardinality(Counted \cup {s}) \in Nat
    BY <1>1, FS_CardinalityType
  <2> QED
    BY <1>1, <1>2, <1>4, <2>1, <2>2 DEF OneMore, CountInv
<1>5. CASE OneLess(s)
  <2>1. IsFiniteSet(Counted') /\ Cardinality(Counted') <= Cardinality(Counted \ {s})
    BY <1>1, <1>5, FS_Subset DEF OneLess
  <2>2. Cardinality(Counted \ {s}) \in Nat
    BY <1>1, FS_CardinalityType
  <2> QED
    BY <1>1, <1>2, <1>5, <2>1, <2>2 DEF OneLess, CountInv
<1> QED
  BY <1>0, <1>3, <1>4, <1>5

LEMMA CountInit == Init => CountInv
<1> SUFFICES ASSUME Init PROVE CountInv
  OBVIOUS
<1>1. Counted = {}
  BY DEF Init, Counted, Prompts, Active, Endings
<1> QED
  BY <1>1, FS_EmptySet DEF Init, CountInv

LEMMA CountNext == Kinds /\ Standing /\ CountInv /\ [Next]_vars => CountInv'
<1> SUFFICES ASSUME TypeOK, KilledInv, Standing, CountInv, [Next]_vars PROVE CountInv'
  BY DEF Kinds
<1>0. /\ pc \in [Sessions -> States] /\ who \in [Sessions -> Ships \cup {0, Nameless}] /\ numply \in Int
      /\ freeing \in [Sessions -> {"no", "asking", "draining"}]
      /\ 0 \notin Ships /\ Nameless \notin Ships /\ None \notin Sessions
  BY NoShips DEF TypeOK
<1>t. torn \subseteq torn'
  BY TornGrows
<1> USE <1>0 DEF Standing, LockInv, PlaceInv, Counted, Drainers, Prompts, Active, Endings, Goto
<1>1. ASSUME NEW s \in Sessions, Connect(s) PROVE Steady
  BY <1>1 DEF Steady, Connect, At,
     registers, ships, killed, clock, counts, war, catalog, captain
<1>2. ASSUME NEW s \in Sessions, LeavePregame(s) PROVE Steady
  BY <1>2 DEF Steady, LeavePregame, At,
     registers, ships, killed, clock, counts, war, catalog, captain
<1>3. ASSUME NEW s \in Sessions, Queue(s) PROVE Steady
  BY <1>3 DEF Steady, Queue, At,
     registers, ships, killed, clock, counts, war, catalog, captain
<1>4. ASSUME NEW s \in Sessions, FoundFull(s) PROVE Steady
  BY <1>4 DEF Steady, FoundFull, At,
     registers, ships, killed, clock, counts, war, catalog, captain
<1>5. ASSUME NEW s \in Sessions, StartCommand(s) PROVE Steady
  BY <1>5 DEF Steady, StartCommand, At,
     registers, ships, killed, clock, counts, war, catalog, captain
<1>6. ASSUME NEW s \in Sessions, Quit(s) PROVE Steady
  BY <1>6 DEF Steady, Quit, At,
     registers, ships, killed, clock, counts, war, catalog, captain
<1>7. ASSUME NEW s \in Sessions, Die(s) PROVE Steady
  BY <1>7 DEF Steady, Die, At,
     registers, ships, killed, clock, counts, war, catalog, captain
<1>8. ASSUME NEW s \in Sessions, AskToFree(s) PROVE Steady
  BY <1>8 DEF Steady, AskToFree,
     registers, ships, killed, clock, counts, war, catalog, captain
<1>9. ASSUME NEW s \in Sessions, Finalize(s) PROVE "twice" \in torn' \/ Steady
  <2>1. /\ pc[s] \notin Endings \cup {"gone"} /\ UNCHANGED <<numply, frelok, who>>
        /\ pc' = [pc EXCEPT ![s] = EndingFrom(pc[s])] /\ freeing' = [freeing EXCEPT ![s] = "no"]
        /\ freeing[s] = "draining" => "twice" \in torn'
    BY <1>9 DEF Finalize, Over, registers
  <2>2. \A t \in Sessions : t # s => pc'[t] = pc[t] /\ freeing'[t] = freeing[t]
    BY <2>1
  <2>3. CASE freeing[s] = "draining"
    BY <2>1, <2>3
  <2>4. CASE freeing[s] # "draining" /\ s \in Counted
    BY <2>1, <2>2, <2>4 DEF Steady
  <2>5. CASE freeing[s] # "draining" /\ s \notin Counted
    <3>1. who[s] = 0 /\ frelok # s /\ pc'[s] \notin Prompts \cup Active
      BY <2>1, <2>5 DEF States, EndingFrom
    <3> QED
      BY <2>1, <2>2, <3>1 DEF Steady
  <2> QED
    BY <2>3, <2>4, <2>5
<1>10. ASSUME NEW s \in Sessions, DropLimit(s) PROVE Steady
  BY <1>10 DEF Steady, DropLimit,
     registers, ships, killed, clock, counts, war, catalog, captain
<1>11. ASSUME NEW s \in Sessions, Answer(s) PROVE Steady
  BY <1>11 DEF Steady, Answer, At, Enlist,
     registers, ships, killed, clock, counts, war, catalog, captain
<1>12. ASSUME NEW s \in Sessions, FinishCommand(s) PROVE Steady
  BY <1>12 DEF Steady, FinishCommand, At,
     registers, ships, killed, clock, counts, war, catalog, captain
<1>13. ASSUME NEW s \in Sessions, DestroyPlanet(s) PROVE Steady
  BY <1>13 DEF Steady, DestroyPlanet,
     registers, ships, killed, clock, counts, war, catalog, captain
<1>14. ASSUME NEW s \in Sessions, BuildBase(s) PROVE Steady
  BY <1>14 DEF Steady, BuildBase,
     registers, ships, killed, clock, counts, war, catalog, captain
<1>15. ASSUME NEW s \in Sessions, FinishCreation(s) PROVE Steady
  BY <1>15 DEF Steady, FinishCreation, At, AdmitNew, Enlist,
     registers, ships, killed, clock, counts, war, catalog, captain
<1>16. ASSUME NEW s \in Sessions, TurnedAway(s) PROVE Steady \/ OneMore(s)
  BY <1>16 DEF Steady, OneMore, TurnedAway, Granted, At, Exit, Available,
     registers, ships, killed, clock, counts, war, catalog, captain
<1>17. ASSUME NEW s \in Sessions, Create(s) PROVE OneMore(s)
  BY <1>17 DEF OneMore, Create, CountIn, Granted, At, Available,
     registers, ships, killed, clock, counts, war, catalog, captain
<1>18. ASSUME NEW s \in Sessions, Cancel(s) PROVE OneLess(s)
  BY <1>18 DEF OneLess, Cancel, At, Exit,
     registers, ships, killed, clock, counts, war, catalog, captain
<1>19. ASSUME NEW s \in Sessions, NEW w \in Ships, DestroyShip(s, w) PROVE Steady
  BY <1>19 DEF Steady, DestroyShip, registers, captain
<1>20. ASSUME NEW s \in Sessions, NEW t \in Sides, DestroyBase(s, t) PROVE Steady
  BY <1>20 DEF Steady, DestroyBase, registers, captain
<1>21. ASSUME NEW s \in Sessions, NEW w \in Ships \cup {Nameless}, NameShip(s, w) PROVE Steady
  <2>1. pc[s] = "ship" /\ frelok = s /\ numply' = numply /\ freeing' = freeing
    BY <1>21 DEF NameShip, At, registers
  <2>2. CASE Board(s, w)
    BY <2>1, <2>2 DEF Steady, Board
  <2>3. CASE who' = [who EXCEPT ![s] = w] /\ UNCHANGED <<ships, war, frelok, pc, armed>>
    BY <2>1, <2>3 DEF Steady
  <2> QED
    BY <1>21, <2>2, <2>3 DEF NameShip
<1>22. ASSUME NEW s \in Sessions, Admit(s) PROVE OneMore(s)
  <2>1. /\ pc[s] \in {"pregame", "queued"} /\ frelok = None /\ numply' = numply + 1
        /\ freeing' = freeing
    BY <1>22 DEF Admit, CountIn, Granted, At, Available
  <2>2. \A t \in Sessions : t # s => pc'[t] = pc[t] /\ who'[t] = who[t]
    BY <1>22 DEF Admit, AdmitNew, Enlist, Board
  <2>3. frelok' \in {s, None}
    BY <1>22 DEF Admit, Board
  <2> QED
    BY <2>1, <2>2, <2>3 DEF OneMore
<1>23. ASSUME NEW s \in Sessions, LeaveShip(s) PROVE Steady
  <2>1. /\ pc' = [pc EXCEPT ![s] = IF pc[s] = "dying" THEN "pregame" ELSE "gone"]
        /\ frelok' = IF frelok = s THEN None ELSE frelok
        /\ who' = [who EXCEPT ![s] = 0] /\ freeing' = [freeing EXCEPT ![s] = "no"]
        /\ numply' = numply
    BY <1>23 DEF LeaveShip, registers
  <2> QED
    BY <2>1 DEF Steady
<1>27. ASSUME NEW s \in Sessions, StartFree(s) PROVE OneLess(s)
  <2>1. /\ pc[s] \in {"dying", "leaving"} \cup Endings /\ who[s] \in Ships
        /\ freeing[s] # "draining" /\ frelok \in {None, s} /\ frelok' = s
        /\ freeing' = [freeing EXCEPT ![s] = "draining"] /\ numply' = numply - 1
        /\ UNCHANGED <<pc, who>>
    BY <1>27 DEF StartFree, CallsFree, HasToFree, At, Available
  <2> QED
    BY <2>1 DEF OneLess
<1>28. ASSUME NEW s \in Sessions, GiveAway(s) PROVE Steady
  BY <1>28 DEF Steady, GiveAway, registers, captain
<1>29. ASSUME NEW s \in Sessions, CancelEnding(s) PROVE "twice" \in torn' \/ OneLess(s)
  <2>1. /\ pc[s] \in {"ending cc1", "ending cc2"} /\ numply' = numply - 1
        /\ pc' = [pc EXCEPT ![s] = "gone"] /\ who' = [who EXCEPT ![s] = 0]
        /\ frelok' = IF frelok = s THEN None ELSE frelok
        /\ freeing' = [freeing EXCEPT ![s] = "no"]
        /\ freeing[s] = "draining" => "twice" \in torn'
    BY <1>29 DEF CancelEnding, Exit
  <2>2. CASE freeing[s] = "draining"
    BY <2>1, <2>2
  <2>3. CASE freeing[s] = "no"
    BY <2>1, <2>3 DEF OneLess
  <2>4. CASE freeing[s] = "asking"
    BY <2>1, <2>4 DEF OneLess
  <2> QED
    BY <2>2, <2>3, <2>4
<1>30. ASSUME NEW s \in Sessions, NEW w \in Ships, Aim(s, w) PROVE Steady
  BY <1>30 DEF Steady, Aim, registers
<1>31. ASSUME NEW s \in Sessions, Fire(s) PROVE Steady
  BY <1>31 DEF Steady, Fire, registers
<1>24. ASSUME GraceEnds PROVE Steady
  BY <1>24 DEF Steady, GraceEnds, registers, captain
<1>25. ASSUME UNCHANGED vars PROVE Steady
  BY <1>25 DEF vars, Steady, registers, captain
<1>26. ASSUME NEW s, "twice" \in torn' \/ Steady \/ OneMore(s) \/ OneLess(s) PROVE CountInv'
  BY <1>0, <1>t, <1>26, CountKept
<1> HIDE <1>0 DEF Standing, LockInv, PlaceInv, Counted, Drainers, Prompts, Active, Endings, Goto
<1> QED
  BY <1>1, <1>2, <1>3, <1>4, <1>5, <1>6, <1>7, <1>8, <1>9, <1>10, <1>11, <1>12, <1>13, <1>14, <1>15, <1>16, <1>17, <1>18, <1>19, <1>20, <1>21, <1>22, <1>23, <1>24, <1>25, <1>26, <1>27, <1>28, <1>29, <1>30, <1>31
     DEF Next, Setup, Prompted, Effect, Depart

-----------------------------------------------------------------------------
\* Those with a ship of their own: in play, or turned from there to the ending,
\* and not counted out yet.
Owners ==
    {s \in Sessions : \/ pc[s] \in Active
                      \/ pc[s] \in Endings /\ who[s] \in Ships /\ frelok # s} \ Drainers

\* Those whom FREE may still be called for.
Manned ==
    {s \in Sessions : \/ freeing[s] = "draining" \/ pc[s] \in Active
                      \/ pc[s] \in Endings /\ who[s] \in Ships
                      \/ pc[s] \in Prompts /\ who[s] \in Ships /\ armed[s]}

\* The war is over for the galaxy that is manned, not for one cleared since.
OverInv == outcome # None => endflg \/ Manned = {}

CreatingInv == \A s \in Sessions : pc[s] = "creating" => Owners = {} /\ Drainers = {}

OwnersInv == \A s, t \in Owners : who[s] = who[t] => s = t

\* Every owner's ship is out of the pool and under his job number; one that is
\* drained is out of the pool too, under nobody's, and drained by one FREE.
Unstolen ==
    /\ \A s \in Owners : alive[who[s]] # "free" /\ job[who[s]] = s
    /\ \A s \in Drainers : alive[who[s]] # "free" /\ job[who[s]] = None
    /\ \A s, t \in Drainers : who[s] = who[t] => s = t

\* A session turned to its ending from the prompt where it had named somebody
\* else's ship frees that ship; then nobody at a prompt goes on to take it.
StolenInv ==
    \/ Unstolen
    \/ outcome # None /\ \A s \in Sessions : pc[s] \in Prompts => armed[s]

Owning == OverInv /\ CreatingInv /\ OwnersInv /\ StolenInv

LEMMA NoOwners == ASSUME Owners' = {}, Drainers' = {}, Manned' = {} PROVE Owning'
BY DEF Owning, OverInv, CreatingInv, OwnersInv, StolenInv, Unstolen

\* A step that takes nobody's ship and lets nobody in.
LEMMA QuietStep ==
    ASSUME Owning, Owners' \subseteq Owners, Drainers' \subseteq Drainers,
           \A t \in Owners' \cup Drainers' :
               /\ who'[t] = who[t]
               /\ alive[who[t]] # "free" => alive'[who[t]] # "free"
               /\ job'[who[t]] = job[who[t]],
           outcome # None => outcome' # None,
           \/ endflg' \/ outcome' = None
           \/ endflg' = endflg /\ outcome' = outcome /\ Manned' \subseteq Manned,
           \A t \in Sessions : pc'[t] \in Prompts => pc[t] \in Prompts /\ armed'[t] = armed[t],
           \A t \in Sessions : pc'[t] = "creating" => pc[t] = "creating"
    PROVE  Owning'
<1>1. OverInv'
  BY DEF Owning, OverInv
<1>2. CreatingInv'
  BY DEF Owning, CreatingInv
<1>3. OwnersInv'
  BY DEF Owning, OwnersInv
<1>4. Unstolen => Unstolen'
  BY DEF Unstolen
<1>5. StolenInv'
  BY <1>4 DEF Owning, StolenInv
<1> QED
  BY <1>1, <1>2, <1>3, <1>5 DEF Owning

\* UNLO, ALIVE and JOB give a free ship to one captain more.
LEMMA BoardStep ==
    ASSUME TypeOK, Standing, Owning, Unstolen, NEW s \in Sessions, NEW w \in Ships,
           Board(s, w), Detect(planets, nbase), freeing' = freeing, alive[w] = "free",
           frelok \in {s, None}, pc[s] \notin {"creating"} \cup Endings \cup Active
    PROVE  Owning' /\ Unstolen'
<1>0. /\ pc \in [Sessions -> States] /\ who \in [Sessions -> Ships \cup {0, Nameless}]
      /\ alive \in [Ships -> {"free", "taken", "dead"}] /\ job \in [Ships -> Sessions \cup {None}]
      /\ freeing \in [Sessions -> {"no", "asking", "draining"}]
      /\ 0 \notin Ships /\ None \notin Sessions
  BY NoShips DEF TypeOK
<1>1. /\ frelok' = None /\ alive' = [alive EXCEPT ![w] = "taken"] /\ job' = [job EXCEPT ![w] = s]
      /\ who' = [who EXCEPT ![s] = w] /\ pc' = [pc EXCEPT ![s] = "ready"]
  BY DEF Board, Goto
<1>2. \A t \in Sessions : t # s => pc'[t] = pc[t] /\ who'[t] = who[t]
  BY <1>0, <1>1
<1>3. pc'[s] \in Active /\ s \notin Drainers
  BY <1>0, <1>1 DEF Active, Endings, Standing, PlaceInv, Drainers
<1>4. Drainers' = Drainers
  BY DEF Drainers
<1>5. ASSUME NEW t \in Sessions, t # s PROVE t \in Owners' <=> t \in Owners
  <2>1. pc[t] \in Endings /\ frelok = t => FALSE
    BY <1>0, <1>5
  <2> QED
    BY <1>1, <1>2, <1>4, <1>5, <2>1, <1>0 DEF Owners
<1>6. s \in Owners' /\ s \notin Owners
  BY <1>3, <1>4 DEF Owners
<1>7. \A t \in Owners \cup Drainers : t \in Sessions /\ t # s /\ who[t] \in Ships /\ who[t] # w
  BY <1>3, <1>6 DEF Unstolen, Owners, Drainers, Standing, PlaceInv
<1>8. who'[s] = w /\ alive'[w] = "taken" /\ job'[w] = s
  BY <1>0, <1>1
<1>9. \A t \in Owners \cup Drainers : /\ who'[t] = who[t] /\ alive'[who[t]] = alive[who[t]]
                                      /\ job'[who[t]] = job[who[t]]
  BY <1>0, <1>1, <1>2, <1>7
<1>10. \A t \in Owners' : t = s \/ t \in Owners
  BY <1>5 DEF Owners
<1>11. OwnersInv'
  BY <1>7, <1>8, <1>9, <1>10 DEF Owning, OwnersInv
<1>12. Unstolen'
  BY <1>4, <1>7, <1>8, <1>9, <1>10 DEF Unstolen
<1>13. \A t \in Sessions : pc'[t] # "creating"
  BY <1>0, <1>1 DEF Standing, LockInv, Prompts
<1>14. OverInv'
  BY DEF OverInv, Detect
<1> QED
  BY <1>11, <1>12, <1>13, <1>14 DEF Owning, CreatingInv, StolenInv

\* SETUP clears a galaxy only when it counts nobody in it.
LEMMA AloneToCreate ==
    ASSUME TypeOK, Standing, CountInv, "twice" \notin torn, NEW s \in Sessions, Create(s)
    PROVE  Counted = {}
<1>1. CASE ~created
  BY <1>1 DEF Standing, WarInv, Counted, Prompts, Active, Endings
<1>2. CASE created
  <2>1. numply = 0
    BY <1>2 DEF Create, Existing, TypeOK
  <2> QED
    BY <2>1, CountedFinite DEF CountInv
<1> QED
  BY <1>1, <1>2

LEMMA OwnersCounted == Owners \subseteq Counted /\ Manned \ Drainers \subseteq Counted
BY NoShips DEF Owners, Manned, Counted, Drainers

LEMMA OwningInit == Init => Owning
<1> SUFFICES ASSUME Init PROVE Owning
  OBVIOUS
<1>1. Owners = {} /\ Drainers = {} /\ Manned = {}
  BY DEF Init, Owners, Drainers, Manned, Active, Endings, Prompts
<1> QED
  BY <1>1 DEF Init, Owning, OverInv, CreatingInv, OwnersInv, StolenInv, Unstolen

LEMMA OwningNext ==
    Kinds /\ Standing /\ CountInv /\ Owning /\ torn' = {} /\ [Next]_vars => Owning'
<1> SUFFICES ASSUME TypeOK, KilledInv, Standing, CountInv, Owning, torn' = {}, [Next]_vars
             PROVE  Owning'
  BY DEF Kinds
<1>0. /\ pc \in [Sessions -> States] /\ who \in [Sessions -> Ships \cup {0, Nameless}]
      /\ armed \in [Sessions -> BOOLEAN]
      /\ freeing \in [Sessions -> {"no", "asking", "draining"}]
      /\ alive \in [Ships -> {"free", "taken", "dead"}] /\ job \in [Ships -> Sessions \cup {None}]
      /\ 0 \notin Ships /\ Nameless \notin Ships /\ None \notin Sessions
  BY NoShips DEF TypeOK
<1>t. torn = {}
  BY TornGrows
<1> DEFINE Quiet ==
             /\ Owners' \subseteq Owners /\ Drainers' \subseteq Drainers
             /\ \A t \in Owners' \cup Drainers' :
                    /\ who'[t] = who[t]
                    /\ alive[who[t]] # "free" => alive'[who[t]] # "free"
                    /\ job'[who[t]] = job[who[t]]
             /\ outcome # None => outcome' # None
             /\ \/ endflg' \/ outcome' = None
                \/ endflg' = endflg /\ outcome' = outcome /\ Manned' \subseteq Manned
             /\ \A t \in Sessions : pc'[t] \in Prompts => pc[t] \in Prompts /\ armed'[t] = armed[t]
             /\ \A t \in Sessions : pc'[t] = "creating" => pc[t] = "creating"
<1>q. Quiet => Owning'
  BY QuietStep
<1> USE <1>0 DEF Standing, LockInv, PlaceInv, Owners, Drainers, Manned, Prompts, Active, Endings, Goto
\* Session s leaves.
<1>x. ASSUME NEW s \in Sessions, pc' = [pc EXCEPT ![s] = "gone"],
             who' = who \/ who' = [who EXCEPT ![s] = 0],
             frelok' = frelok \/ frelok = s,
             \/ freeing' = freeing /\ freeing[s] # "draining"
             \/ freeing' = [freeing EXCEPT ![s] = "no"],
             UNCHANGED <<armed, alive, job, outcome, endflg>>
      PROVE  Quiet
  <2>1. \A t \in Sessions : t # s => /\ pc'[t] = pc[t] /\ who'[t] = who[t] /\ freeing'[t] = freeing[t]
                                     /\ frelok' # t => frelok # t
    BY <1>x
  <2>2. pc'[s] = "gone" /\ freeing'[s] # "draining"
    BY <1>x
  <2>3. s \notin Owners' /\ s \notin Drainers' /\ s \notin Manned'
    BY <2>2
  <2>4. Drainers' \subseteq Drainers
    BY <2>1, <2>3
  <2>5. Owners' \subseteq Owners
    BY <1>x, <2>1, <2>3, <2>4
  <2>6. Manned' \subseteq Manned
    <3>1. ASSUME NEW t \in Sessions, t # s, t \in Manned' PROVE t \in Manned
      BY <1>x, <2>1, <3>1
    <3>2. Manned' \subseteq Sessions
      OBVIOUS
    <3> HIDE DEF Manned
    <3> QED
      BY ONLY <2>3, <3>1, <3>2
  <2>7. \A t \in Owners' \cup Drainers' : who'[t] = who[t]
    BY <2>1, <2>3
  <2> HIDE DEF Owners, Drainers, Manned
  <2> QED
    BY <1>x, <2>1, <2>2, <2>4, <2>5, <2>6, <2>7
\* Session s goes from one place in play to another.
<1>y. ASSUME NEW s \in Sessions, NEW p \in Active, pc' = [pc EXCEPT ![s] = p], pc[s] \in Active,
             UNCHANGED <<who, frelok, armed, freeing, alive, job>>,
             outcome # None => outcome' # None, endflg' \/ outcome' = None \/ UNCHANGED <<endflg, outcome>>
      PROVE  Quiet
  <2>1. \A t \in Sessions : (pc'[t] \in Active /\ pc[t] \in Active) \/ pc'[t] = pc[t]
    BY <1>y
  <2>4. Drainers' = Drainers
    BY <1>y
  <2>5. Owners' = Owners
    BY <1>y, <2>1, <2>4
  <2>6. Manned' = Manned
    BY <1>y, <2>1
  <2>2. Owners' = Owners /\ Drainers' = Drainers /\ Manned' = Manned
    BY ONLY <2>4, <2>5, <2>6
  <2>3. \A t \in Sessions : pc'[t] \in Prompts => pc'[t] = pc[t]
    BY <2>1
  <2> HIDE DEF Owners, Drainers, Manned
  <2> QED
    BY <1>y, <2>2, <2>3
\* Session s goes from one place before the game to another.
<1>z. ASSUME NEW s \in Sessions, NEW p \in {"pregame", "queued"}, pc' = [pc EXCEPT ![s] = p],
             pc[s] \in {"away", "pregame", "queued"},
             UNCHANGED <<who, frelok, armed, freeing, alive, job, outcome, endflg>>
      PROVE  Quiet
  <2>1. \A t \in Sessions : pc'[t] = pc[t] \/ (t = s /\ pc'[t] = p)
    BY <1>z
  <2>2. Drainers' = Drainers
    BY <1>z
  <2>3. Owners' \subseteq Owners
    BY <1>z, <2>1, <2>2
  <2>4. Manned' \subseteq Manned
    BY <1>z, <2>1
  <2>5. \A t \in Sessions : pc'[t] \in Prompts => pc'[t] = pc[t]
    BY <1>z, <2>1
  <2> HIDE DEF Owners, Drainers, Manned
  <2> QED
    BY <1>z, <2>2, <2>3, <2>4, <2>5
<1>1. ASSUME NEW s \in Sessions, Connect(s) PROVE Quiet
  BY <1>1, <1>z DEF Connect, ships, war, captain
<1>2. ASSUME NEW s \in Sessions, LeavePregame(s) PROVE Quiet
  BY <1>2, <1>x DEF LeavePregame, At, ships, war, captain
<1>3. ASSUME NEW s \in Sessions, Queue(s) PROVE Quiet
  BY <1>3, <1>z DEF Queue, At, ships, war, captain
<1>4. ASSUME NEW s \in Sessions, FoundFull(s) PROVE Quiet
  BY <1>4, <1>x DEF FoundFull, At, ships, war, captain
<1>5. ASSUME NEW s \in Sessions, StartCommand(s) PROVE Quiet
  BY <1>5, <1>y DEF StartCommand, At, ships, war, captain
<1>6. ASSUME NEW s \in Sessions, Quit(s) PROVE Quiet
  BY <1>6, <1>y DEF Quit, ships, war
<1>7. ASSUME NEW s \in Sessions, Die(s) PROVE Quiet
  BY <1>7, <1>y DEF Die, At, ships, war, captain
<1>8. ASSUME NEW s \in Sessions, AskToFree(s) PROVE Quiet
  BY <1>8 DEF AskToFree, CallsFree, At,
     registers, ships, killed, clock, counts, war, catalog, captain
<1>10. ASSUME NEW s \in Sessions, DropLimit(s) PROVE Quiet
  BY <1>10 DEF DropLimit,
     registers, ships, killed, clock, counts, war, catalog, captain
<1>11. ASSUME NEW s \in Sessions, Answer(s) PROVE Quiet
  <2>1. /\ pc[s] \in Prompts \ {"creating"}
        /\ UNCHANGED <<who, armed, freeing, frelok, alive, job, outcome, endflg>>
    BY <1>11 DEF Answer, At, ships, war
  <2>2. pc'[s] \in {"side", "ship"} /\ \A t \in Sessions : t # s => pc'[t] = pc[t]
    BY ONLY TypeOK, s \in Sessions, <1>11, AnswersLead
  <2> QED
    BY <2>1, <2>2
<1>12. ASSUME NEW s \in Sessions, FinishCommand(s) PROVE Quiet
  BY <1>12, <1>y DEF FinishCommand, Detect, ships
<1>13. ASSUME NEW s \in Sessions, DestroyPlanet(s) PROVE Quiet
  BY <1>13 DEF DestroyPlanet, Detect,
     registers, ships, killed, clock, counts, war, catalog, captain
<1>14. ASSUME NEW s \in Sessions, BuildBase(s) PROVE Quiet
  BY <1>14 DEF BuildBase, Detect,
     registers, ships, killed, clock, counts, war, catalog, captain
<1>15. ASSUME NEW s \in Sessions, TurnedAway(s) PROVE Quiet
  <2>1. /\ frelok' = frelok \/ frelok = s
        /\ pc' = [pc EXCEPT ![s] = "gone"] /\ who' = [who EXCEPT ![s] = 0]
        /\ freeing' = freeing /\ freeing[s] # "draining"
        /\ UNCHANGED <<armed, alive, job, outcome, endflg>>
    BY <1>15 DEF TurnedAway, Granted, At, Exit, ships, war
  <2> QED
    BY <1>x, <2>1
<1>16. ASSUME NEW s \in Sessions, Cancel(s) PROVE Quiet
  <2>1. /\ frelok' = frelok \/ frelok = s
        /\ pc' = [pc EXCEPT ![s] = "gone"] /\ who' = [who EXCEPT ![s] = 0]
        /\ freeing' = freeing /\ freeing[s] # "draining"
        /\ UNCHANGED <<armed, alive, job, outcome, endflg>>
    BY <1>16 DEF Cancel, At, Exit, ships, war
  <2> QED
    BY <1>x, <2>1
<1>26. ASSUME NEW s \in Sessions, GiveAway(s) PROVE Quiet
  BY <1>26 DEF GiveAway, CallsFree,
     registers, ships, killed, clock, counts, war, catalog, captain
<1>28. ASSUME NEW s \in Sessions, Fire(s) PROVE Quiet
  <2>1. /\ UNCHANGED <<pc, who, armed, freeing, frelok, job, outcome, endflg>>
        /\ \A w \in Ships : alive[w] # "free" => alive'[w] # "free"
    BY <1>28 DEF Fire, ships, war, captain
  <2>2. \A t \in Owners' \cup Drainers' : who[t] \in Ships
    BY <2>1
  <2> QED
    BY <2>1, <2>2
<1>9. ASSUME NEW s \in Sessions, Finalize(s) PROVE Quiet
  <2>1. /\ pc[s] \notin Endings \cup {"gone"} /\ armed[s] /\ freeing[s] # "draining"
        /\ pc' = [pc EXCEPT ![s] = EndingFrom(pc[s])] /\ freeing' = [freeing EXCEPT ![s] = "no"]
        /\ UNCHANGED <<frelok, who, armed, alive, job, outcome, endflg>>
    BY <1>9 DEF Finalize, Over, ships
  <2>2. EndingFrom(pc[s]) \in Endings
    BY DEF EndingFrom
  <2>3. pc[s] \notin Prompts \cup Active => who[s] \notin Ships
    BY <2>1 DEF States
  <2> QED
    BY ZenonT(30), <2>1, <2>2, <2>3
<1>17. ASSUME NEW s \in Sessions, FinishCreation(s) PROVE Owning'
  <2>1. /\ pc[s] = "creating" /\ UNCHANGED <<frelok, freeing, armed, outcome, endflg>>
        /\ who' = who /\ pc'[s] \in {"side", "ship"} /\ \A t \in Sessions : t # s => pc'[t] = pc[t]
    BY <1>17, AnswersLead DEF FinishCreation, At, war
  <2>2. Owners = {} /\ Drainers = {}
    BY <2>1 DEF Owning, CreatingInv
  <2>3. Owners' = {} /\ Drainers' = {} /\ Manned' \subseteq Manned
    BY ZenonT(30), <2>1, <2>2
  <2>4. OverInv'
    BY <2>1, <2>3 DEF Owning, OverInv
  <2> QED
    BY ONLY <2>3, <2>4 DEF Owning, CreatingInv, OwnersInv, StolenInv, Unstolen
<1>18. ASSUME NEW s \in Sessions, Create(s) PROVE Owning'
  <2>1. /\ Available(s) /\ frelok' = s /\ pc[s] \in {"pregame", "queued"}
        /\ pc' = [pc EXCEPT ![s] = "creating"] /\ UNCHANGED <<who, armed, freeing>>
    BY <1>18 DEF Create, CountIn, Granted, At, captain
  <2>2. Drainers = {}
    BY <1>18, <1>t DEF Create
  <2>3. Owners = {} /\ Manned = {}
    BY <1>18, <1>t, <2>2, AloneToCreate, OwnersCounted DEF Standing
  <2>4. who[s] = 0
    BY <2>1
  <2>5. Owners' = {} /\ Drainers' = {} /\ Manned' = {}
    BY <2>1, <2>2, <2>3, <2>4 DEF Available
  <2> QED
    BY <2>5, NoOwners
<1>19. ASSUME NEW s \in Sessions, NEW w \in Ships, DestroyShip(s, w) PROVE Quiet
  BY <1>19 DEF DestroyShip, registers, ships, war, captain
<1>20. ASSUME NEW s \in Sessions, NEW t \in Sides, DestroyBase(s, t) PROVE Quiet
  BY <1>20 DEF DestroyBase, Detect, ships, captain
<1>27. ASSUME NEW s \in Sessions, NEW w \in Ships, Aim(s, w) PROVE Quiet
  BY <1>27 DEF Aim, ships, war
<1>21. ASSUME NEW s \in Sessions, NEW w \in Ships \cup {Nameless}, NameShip(s, w) PROVE Owning'
  <2>1. pc[s] = "ship" /\ frelok = s /\ ~Over(s) /\ freeing' = freeing
    BY <1>21 DEF NameShip, At
  <2>2. CASE Offered(s, w) /\ Board(s, w) /\ Detect(planets, nbase)
    <3>1. Unstolen
      BY <2>1 DEF Over, Owning, StolenInv
    <3> QED
      BY <2>1, <2>2, <3>1, BoardStep DEF Offered
  <2>3. CASE who' = [who EXCEPT ![s] = w] /\ UNCHANGED <<ships, war, frelok, pc, armed>>
    <3>1. outcome = None \/ ~armed[s]
      BY <2>1 DEF Over
    <3>2. Quiet
      BY <2>1, <2>3, <3>1 DEF ships, war
    <3> QED
      BY ONLY <1>q, <3>2
  <2> QED
    BY <1>21, <2>2, <2>3 DEF NameShip
<1>22. ASSUME NEW s \in Sessions, Admit(s) PROVE Owning'
  <2>1. /\ pc[s] \in {"pregame", "queued"} /\ frelok = None /\ ~endflg /\ freeing' = freeing
        /\ outcome = None \/ ~armed[s]
    BY <1>22 DEF Admit, CountIn, Granted, At, Over, Available
  <2>2. \A t \in Sessions : t # s => pc'[t] = pc[t] /\ who'[t] = who[t]
    BY ZenonT(30), <1>22 DEF Admit, AdmitNew, Enlist, Board
  <2>3. Unstolen
    <3>1. outcome = None \/ Manned = {}
      BY <2>1 DEF Owning, OverInv
    <3>2. Manned = {} => Owners = {} /\ Drainers = {}
      OBVIOUS
    <3>3. Owners = {} /\ Drainers = {} => Unstolen
      BY DEF Unstolen
    <3> QED
      BY ONLY <3>1, <3>2, <3>3, Owning DEF Owning, StolenInv
  <2>4. CASE KilledRow(s) # 0 /\ alive[kilque[KilledRow(s)].ship] = "free"
             /\ Board(s, kilque[KilledRow(s)].ship) /\ Detect(planets, nbase)
    <3>1. kilque[KilledRow(s)].ship \in Ships
      BY <2>4, KilledRowFound DEF KilledInv, Row
    <3> QED
      BY <2>1, <2>3, <2>4, <3>1, BoardStep
  <2>5. CASE /\ UNCHANGED <<ships, war, armed>> /\ frelok' = s
             /\ pc'[s] \in {"side", "ship", "defect", "another"}
    <3>0. Drainers' = Drainers /\ s \notin Drainers
      BY <2>1
    <3>a. s \notin Owners /\ s \notin Owners'
      BY <2>1, <2>5
    <3>b. \A t \in Sessions \ {s} : t \in Owners' <=> t \in Owners
      <4> SUFFICES ASSUME NEW t \in Sessions, t # s PROVE t \in Owners' <=> t \in Owners
        OBVIOUS
      <4>1. pc'[t] = pc[t] /\ who'[t] = who[t] /\ freeing'[t] = freeing[t] /\ frelok # t /\ frelok' # t
        BY <2>1, <2>2, <2>5
      <4> QED
        BY <4>1
    <3>1. Owners' = Owners /\ s \notin Owners /\ Drainers' = Drainers /\ s \notin Drainers
      <4> HIDE DEF Owners, Drainers
      <4>1. Owners \subseteq Sessions /\ Owners' \subseteq Sessions
        BY DEF Owners
      <4> QED
        BY ONLY <3>0, <3>a, <3>b, <4>1
    <3>2. \A t \in Owners \cup Drainers : who'[t] = who[t]
      BY <2>2, <3>1
    <3>3. Unstolen'
      <4> HIDE DEF Owners, Drainers
      <4>1. alive' = alive /\ job' = job
        BY <2>5 DEF ships
      <4> QED
        BY ONLY <2>3, <3>1, <3>2, <4>1 DEF Unstolen
    <3>4. OwnersInv'
      <4> HIDE DEF Owners, Drainers
      <4> QED
        BY ONLY Owning, <3>1, <3>2 DEF Owning, OwnersInv
    <3>5. outcome # None => Manned' \subseteq Manned
      BY <2>1, <2>2, <2>5
    <3>6. OverInv'
      BY <2>1, <2>5, <3>5 DEF Owning, OverInv, war
    <3>7. CreatingInv'
      BY <2>2, <2>5, <3>1 DEF Owning, CreatingInv
    <3> QED
      BY <3>3, <3>4, <3>6, <3>7 DEF Owning, StolenInv
  <2> QED
    BY <1>22, <2>4, <2>5 DEF Admit, AdmitNew, Enlist
<1>23. ASSUME NEW s \in Sessions, LeaveShip(s) PROVE Owning'
  <2>1. /\ pc[s] \in {"dying", "leaving"} \cup Endings
        /\ pc' = [pc EXCEPT ![s] = IF pc[s] = "dying" THEN "pregame" ELSE "gone"]
        /\ who' = [who EXCEPT ![s] = 0] /\ freeing' = [freeing EXCEPT ![s] = "no"]
        /\ frelok' = IF frelok = s THEN None ELSE frelok
        /\ UNCHANGED <<job, armed, outcome, endflg>>
    BY <1>23 DEF LeaveShip, CallsFree, At, war
  <2>a. pc'[s] \in {"pregame", "gone"} /\ freeing'[s] = "no"
    BY <2>1
  <2>b. ASSUME NEW t \in Sessions, t # s
        PROVE  /\ pc'[t] = pc[t] /\ who'[t] = who[t] /\ freeing'[t] = freeing[t]
               /\ frelok' = t <=> frelok = t
    BY <2>1, <2>b
  <2>c. s \notin Owners' /\ s \notin Drainers' /\ s \notin Manned'
    BY <2>a
  <2>d. ASSUME NEW t \in Sessions, t # s
        PROVE  /\ t \in Owners' => t \in Owners
               /\ t \in Drainers' => t \in Drainers
               /\ t \in Manned' => t \in Manned
    BY <2>1, <2>b, <2>d
  <2>2. /\ Owners' \subseteq Owners \ {s} /\ Drainers' \subseteq Drainers \ {s} /\ Manned' \subseteq Manned
        /\ \A t \in Owners' \cup Drainers' : who'[t] = who[t]
    <3> HIDE DEF Owners, Drainers, Manned
    <3>1. Owners' \subseteq Sessions /\ Drainers' \subseteq Sessions /\ Manned' \subseteq Sessions
      BY DEF Owners, Drainers, Manned
    <3>2. \A t \in Sessions : t # s => who'[t] = who[t]
      BY <2>b
    <3> QED
      BY ONLY <2>c, <2>d, <3>1, <3>2
  <2>e. \A t \in Sessions : /\ pc'[t] \in Prompts => pc[t] \in Prompts /\ armed'[t] = armed[t]
                            /\ pc'[t] = "creating" => pc[t] = "creating"
    BY <2>1, <2>a, <2>b
  <2> HIDE DEF Owners, Drainers, Manned, Standing
  <2>3. CASE alive' = alive
    <3>1. Quiet
      BY <2>1, <2>2, <2>3, <2>e
    <3> QED
      BY ONLY <1>q, <3>1
  <2>4. CASE s \in Drainers /\ alive' = [alive EXCEPT ![who[s]] = "free"]
    <3>a. OverInv'
      BY <2>1, <2>2 DEF Owning, OverInv
    <3>b. CreatingInv'
      BY <2>2, <2>e DEF Owning, CreatingInv
    <3>c. OwnersInv'
      BY ONLY Owning, <2>2 DEF Owning, OwnersInv
    <3>1. OverInv' /\ CreatingInv' /\ OwnersInv'
      BY ONLY <3>a, <3>b, <3>c
    <3>2. Unstolen => Unstolen'
      <4> SUFFICES ASSUME Unstolen PROVE Unstolen'
        OBVIOUS
      <4>a. \A t \in Owners : t \in Sessions
        BY DEF Owners
      <4>1. \A t \in Owners' \cup Drainers' : who[t] # who[s]
        BY ONLY Unstolen, <1>0, <2>2, <2>4, <4>a DEF Unstolen
      <4>2. \A t \in Owners \cup Drainers : t \in Sessions /\ who[t] \in Ships
        BY DEF Owners, Drainers, Standing
      <4>3. \A t \in Owners' \cup Drainers' : alive'[who[t]] = alive[who[t]]
        BY <2>2, <2>4, <4>1, <4>2
      <4>4. job' = job
        BY <2>1
      <4> QED
        BY ONLY Unstolen, <2>2, <4>3, <4>4 DEF Unstolen
    <3> QED
      BY <2>1, <2>e, <3>1, <3>2 DEF Owning, StolenInv
  <2> QED
    BY <1>23, <2>3, <2>4 DEF LeaveShip, Drainers
\* FREE counts its captain out: an owner his own ship, a session that was
\* turned from a prompt whichever it had named.
<1>29. ASSUME NEW s \in Sessions, StartFree(s) PROVE Owning'
  <2>1. /\ pc[s] \in {"dying", "leaving"} \cup Endings /\ who[s] \in Ships /\ freeing[s] # "draining"
        /\ frelok \in {None, s} /\ frelok' = s
        /\ freeing' = [freeing EXCEPT ![s] = "draining"] /\ job' = [job EXCEPT ![who[s]] = None]
        /\ UNCHANGED <<alive, pc, who, armed, outcome, endflg>>
    BY <1>29 DEF StartFree, CallsFree, HasToFree, Available, At, war
  <2>2. alive[who[s]] # "free" \/ freeing[s] = "asking"
    BY <1>29 DEF StartFree, HasToFree
  <2>c. ASSUME NEW t \in Sessions, t # s
        PROVE  pc'[t] = pc[t] /\ who'[t] = who[t] /\ freeing'[t] = freeing[t] /\ armed'[t] = armed[t]
    BY <2>1, <2>c
  <2>d. freeing'[s] = "draining"
    BY <2>1
  <2>a. Drainers' = Drainers \cup {s} /\ s \notin Drainers
    <3>1. \A t \in Sessions : t \in Drainers' <=> t = s \/ t \in Drainers
      BY <2>c, <2>d
    <3>2. s \notin Drainers /\ Drainers \subseteq Sessions /\ Drainers' \subseteq Sessions
      BY <2>1
    <3> HIDE DEF Drainers
    <3> QED
      BY ONLY <3>1, <3>2, s \in Sessions
  <2>b. ASSUME NEW t \in Sessions, t # s PROVE t \in Owners' => t \in Owners
    <3>1. freeing'[t] = freeing[t] /\ pc'[t] = pc[t] /\ who'[t] = who[t] /\ frelok # t
      BY <2>1, <2>b
    <3> QED
      BY <3>1
  <2>3. Owners' \subseteq Owners \ {s} /\ Drainers' = Drainers \cup {s} /\ s \notin Drainers
    <3>1. s \notin Owners' /\ Owners' \subseteq Sessions
      BY <2>a
    <3> HIDE DEF Owners, Drainers
    <3> QED
      BY ONLY <2>a, <2>b, <3>1
  <2>4. Manned' \subseteq Manned
    <3>1. ASSUME NEW t \in Sessions, t # s PROVE t \in Manned' => t \in Manned
      BY <2>c, <3>1
    <3>2. s \in Manned /\ Manned' \subseteq Sessions
      <4>1. pc[s] \in Active \/ (pc[s] \in Endings /\ who[s] \in Ships)
        BY <2>1
      <4> QED
        BY <4>1
    <3> HIDE DEF Manned
    <3> QED
      BY ONLY <3>1, <3>2
  <2>5. \A t \in Sessions : pc[t] \notin Prompts
    <3>1. \A t \in Sessions : pc[t] \in Prompts => frelok = t
      BY DEF LockInv
    <3>2. pc[s] \notin Prompts
      BY <2>1
    <3> HIDE DEF Prompts
    <3> QED
      BY ONLY <1>0, <2>1, <3>1, <3>2
  <2>9. "creating" \in Prompts /\ (pc[s] \in Active \/ outcome # None)
    BY <2>1
  <2>10. /\ s \notin Owners => outcome # None
         /\ \A t \in Owners \cup Drainers : t \in Sessions /\ who[t] \in Ships
    BY <2>1, <2>9
  <2> HIDE <1>0 DEF Owners, Drainers, Manned, Prompts, Active, Endings, Standing
  <2>6. OverInv' /\ CreatingInv' /\ OwnersInv'
    BY <2>1, <2>3, <2>4, <2>5, <2>9 DEF Owning, OverInv, CreatingInv, OwnersInv
  <2>7. CASE s \notin Owners
    BY <2>1, <2>5, <2>6, <2>7, <2>10 DEF Owning, StolenInv
  <2>8. CASE s \in Owners
    <3>1. Unstolen => Unstolen'
      <4> SUFFICES ASSUME Unstolen PROVE Unstolen'
        OBVIOUS
      <4>1. alive[who[s]] # "free" /\ job[who[s]] = s
        BY <2>8 DEF Unstolen
      <4>2. \A t \in Owners' : who[t] # who[s]
        BY <2>3, <2>8 DEF Owning, OwnersInv
      <4>3. \A t \in Drainers : who[t] # who[s]
        BY <1>0, <4>1 DEF Unstolen
      <4>4. \A t \in Owners' : t \in Owners /\ job'[who[t]] = job[who[t]]
        BY <1>0, <2>1, <2>3, <2>10, <4>2
      <4>5. \A t \in Drainers : job'[who[t]] = None
        BY <1>0, <2>1, <2>10, <4>3 DEF Unstolen
      <4>6. job'[who[s]] = None
        BY <1>0, <2>1
      <4> QED
        BY <2>1, <2>3, <4>1, <4>3, <4>4, <4>5, <4>6 DEF Unstolen
    <3> QED
      BY <2>1, <2>5, <2>6, <3>1 DEF Owning, StolenInv
  <2> QED
    BY <2>7, <2>8
<1>30. ASSUME NEW s \in Sessions, CancelEnding(s) PROVE Quiet
  <2>1. /\ pc[s] \in Endings /\ pc' = [pc EXCEPT ![s] = "gone"] /\ who' = [who EXCEPT ![s] = 0]
        /\ frelok' = IF frelok = s THEN None ELSE frelok
        /\ freeing' = [freeing EXCEPT ![s] = "no"]
        /\ UNCHANGED <<armed, alive, job, outcome, endflg>>
    BY <1>30 DEF CancelEnding, Exit, ships
  <2> QED
    BY <1>x, <2>1
<1>24. ASSUME GraceEnds PROVE Quiet
  BY <1>24 DEF GraceEnds, ships, war, captain
<1>25. ASSUME UNCHANGED vars PROVE Quiet
  BY <1>25 DEF vars, ships, war, captain
<1> HIDE <1>0 DEF Quiet, Standing, LockInv, PlaceInv, Owners, Drainers, Manned, Prompts, Active, Endings, Goto
<1> QED
  BY <1>1, <1>2, <1>3, <1>4, <1>5, <1>6, <1>7, <1>8, <1>9, <1>10, <1>11, <1>12, <1>13, <1>14, <1>15, <1>16, <1>17, <1>18, <1>19, <1>20, <1>21, <1>22, <1>23, <1>24, <1>25, <1>26, <1>27, <1>28, <1>29, <1>30, <1>q
     DEF Next, Setup, Prompted, Effect, Depart

-----------------------------------------------------------------------------
\* One element more or less, and the count with it.
Moved(x, S, T, m, n) ==
    \/ T = S /\ n = m
    \/ x \notin S /\ T = S \cup {x} /\ n = m + 1
    \/ x \in S /\ T = S \ {x} /\ n = m - 1

LEMMA MovedCount ==
    ASSUME NEW x, NEW S, NEW T, NEW m, NEW n, IsFiniteSet(S), m = Cardinality(S), Moved(x, S, T, m, n)
    PROVE  n = Cardinality(T)
BY FS_AddElement, FS_RemoveElement DEF Moved

\* NUMPLY and NUMSID follow those who are aboard.
HeadMoved(s) ==
    /\ Moved(s, Aboard, Aboard', numply, numply')
    /\ \A t \in Sides : Moved(s, OnSide(t), OnSide(t)', numsid[t], numsid'[t])

\* The same, by what the step does to session s alone.
Counts(x, S, T, m, n) ==
    \/ (x \in S <=> x \in T) /\ n = m
    \/ x \notin S /\ x \in T /\ n = m + 1
    \/ x \in S /\ x \notin T /\ n = m - 1

HeadMovesAt(s) ==
    /\ \A t \in Sessions : t # s => pc'[t] = pc[t] /\ team'[t] = team[t] /\ freeing'[t] = freeing[t]
    /\ Counts(s, Aboard, Aboard', numply, numply')
    /\ \A t \in Sides : Counts(s, OnSide(t), OnSide(t)', numsid[t], numsid'[t])

LEMMA CountsMoved ==
    ASSUME NEW x, NEW S, NEW T, NEW m, NEW n,
           \A y : y # x => (y \in S <=> y \in T), Counts(x, S, T, m, n)
    PROVE  Moved(x, S, T, m, n)
<1>1. CASE (x \in S <=> x \in T) /\ n = m
  <2>1. T = S
    BY <1>1
  <2> QED
    BY <1>1, <2>1 DEF Moved
<1>2. CASE x \notin S /\ x \in T /\ n = m + 1
  <2>1. T = S \cup {x}
    BY <1>2
  <2> QED
    BY <1>2, <2>1 DEF Moved
<1>3. CASE x \in S /\ x \notin T /\ n = m - 1
  <2>1. T = S \ {x}
    BY <1>3
  <2> QED
    BY <1>3, <2>1 DEF Moved
<1> QED
  BY <1>1, <1>2, <1>3 DEF Counts

LEMMA HeadMovesOne ==
    ASSUME NEW s \in Sessions, HeadMovesAt(s)
    PROVE  HeadMoved(s)
<1>1. \A y : y # s => (y \in Aboard <=> y \in Aboard')
  BY DEF HeadMovesAt, Aboard, Drainers
<1>2. \A t \in Sides : \A y : y # s => (y \in OnSide(t) <=> y \in OnSide(t)')
  BY <1>1 DEF HeadMovesAt, OnSide, Aboard
<1> QED
  BY <1>1, <1>2, CountsMoved DEF HeadMoved, HeadMovesAt

LEMMA HeadKept ==
    ASSUME HeadCount, torn = {}, outcome' = None => outcome = None,
           NEW s, outcome' = None => HeadMoved(s)
    PROVE  HeadCount'
<1> SUFFICES ASSUME outcome' = None
             PROVE  /\ numply' = Cardinality(Aboard')
                    /\ \A t \in Sides : numsid'[t] = Cardinality(OnSide(t)')
  BY DEF HeadCount
<1>1. IsFiniteSet(Aboard) /\ \A t \in Sides : IsFiniteSet(OnSide(t))
  BY SessionsAssumption, FS_Subset DEF Aboard, OnSide
<1>2. numply = Cardinality(Aboard) /\ \A t \in Sides : numsid[t] = Cardinality(OnSide(t))
  BY DEF HeadCount
<1>3. numply' = Cardinality(Aboard')
  BY <1>1, <1>2, MovedCount DEF HeadMoved
<1>4. ASSUME NEW t \in Sides PROVE numsid'[t] = Cardinality(OnSide(t)')
  BY <1>1, <1>2, MovedCount DEF HeadMoved
<1> QED
  BY <1>3, <1>4

\* While the war goes on no owner has lost his ship.
LEMMA WarOn == Owning /\ outcome = None => Unstolen
BY DEF Owning, StolenInv

\* While the war goes on FREE has something to do for whoever calls it.
LEMMA WarFrees ==
    ASSUME TypeOK, Standing, Owning, outcome = None, NEW s \in Sessions, CallsFree(s)
    PROVE  /\ pc[s] \in {"dying", "leaving"} /\ pc[s] \in Active
           /\ who[s] \in Ships /\ team[s] = SideOf(who[s])
           /\ freeing[s] = "no" => HasToFree(s)
<1>1. pc[s] \in {"dying", "leaving"} /\ pc[s] \in Active
  BY DEF CallsFree, At, Standing, PlaceInv, Active
<1>2. who[s] \in Ships /\ team[s] = SideOf(who[s])
  BY <1>1 DEF Standing, PlaceInv
<1>3. freeing[s] = "no" => s \in Owners
  BY <1>1 DEF Owners, Drainers
<1> QED
  BY <1>1, <1>2, <1>3, WarOn DEF Unstolen, HasToFree

LEMMA HeadInit == Init => HeadCount
<1> SUFFICES ASSUME Init PROVE HeadCount
  OBVIOUS
<1>1. Aboard = {} /\ \A t \in Sides : OnSide(t) = {}
  BY DEF Init, Aboard, OnSide, Prompts, Active
<1> QED
  BY <1>1, FS_EmptySet DEF Init, HeadCount

LEMMA HeadNext ==
    Kinds /\ Standing /\ CountInv /\ (torn = {} => Owning) /\ HeadCount /\ [Next]_vars => HeadCount'
<1> SUFFICES ASSUME TypeOK, KilledInv, Standing, CountInv, Owning, HeadCount, [Next]_vars,
                    torn = {}, torn' = {}
             PROVE  HeadCount'
  BY TornGrows DEF Kinds, HeadCount
<1>0. /\ pc \in [Sessions -> States] /\ who \in [Sessions -> Ships \cup {0, Nameless}]
      /\ team \in [Sessions -> Sides] /\ armed \in [Sessions -> BOOLEAN]
      /\ freeing \in [Sessions -> {"no", "asking", "draining"}]
      /\ numply \in Int /\ numsid \in [Sides -> Int]
      /\ 0 \notin Ships /\ Nameless \notin Ships /\ None \notin Sessions
  BY NoShips DEF TypeOK
<1> DEFINE Follows(s) == (outcome' = None => outcome = None) /\ (outcome' = None => HeadMoved(s))
<1>h. ASSUME NEW s, Follows(s) PROVE HeadCount'
  BY <1>h, HeadKept
\* A step by which nobody comes, goes or is counted.
<1>b. ASSUME NEW s, UNCHANGED <<pc, team, numply, numsid>>, outcome' = None => outcome = None,
             \A t \in Sessions : freeing'[t] = "draining" <=> freeing[t] = "draining"
      PROVE  Follows(s)
  <2>2. Aboard' = Aboard
    BY <1>b DEF Aboard, Drainers
  <2>1. Aboard' = Aboard /\ \A t \in Sides : OnSide(t)' = OnSide(t)
    BY <1>b, <2>2 DEF OnSide
  <2> QED
    BY ONLY <1>b, <2>1 DEF HeadMoved, Moved
\* Session s goes from one place outside SETUP and play to another.
<1>c. ASSUME NEW s \in Sessions, NEW p \in States \ (Prompts \cup Active), pc' = [pc EXCEPT ![s] = p],
             pc[s] \notin Prompts \cup Active,
             UNCHANGED <<team, freeing, numply, numsid, outcome>>
      PROVE  Follows(s)
  <2>3. \A t \in Sessions :
            /\ pc'[t] \in Prompts \cup Active <=> pc[t] \in Prompts \cup Active
            /\ pc'[t] \in Active \cup {"ship"} <=> pc[t] \in Active \cup {"ship"}
    <3>1. p \notin Active \cup {"ship"} /\ pc[s] \notin Active \cup {"ship"}
      BY <1>c DEF Prompts
    <3> QED
      BY <1>0, <1>c, <3>1
  <2>1. Aboard' = Aboard
    BY <1>c, <2>3 DEF Aboard, Drainers
  <2>2. \A t \in Sides : OnSide(t)' = OnSide(t)
    BY <1>c, <2>1, <2>3 DEF OnSide, Aboard
  <2> QED
    BY ONLY <1>c, <2>1, <2>2 DEF HeadMoved, Moved
<1> USE <1>0 DEF Standing, LockInv, PlaceInv, Drainers, Aboard, OnSide, Prompts, Active, Endings, Goto
<1>1. ASSUME NEW s \in Sessions, Connect(s) PROVE Follows(s)
  <2>1. /\ pc[s] \notin Prompts \cup Active /\ UNCHANGED <<team, freeing, numply, numsid, outcome>>
        /\ \E p \in States \ (Prompts \cup Active) : pc' = [pc EXCEPT ![s] = p]
    BY <1>1 DEF Connect, At, States, registers, war, captain
  <2> QED
    BY <1>c, <2>1
<1>2. ASSUME NEW s \in Sessions, LeavePregame(s) PROVE Follows(s)
  <2>1. /\ pc[s] \notin Prompts \cup Active /\ UNCHANGED <<team, freeing, numply, numsid, outcome>>
        /\ \E p \in States \ (Prompts \cup Active) : pc' = [pc EXCEPT ![s] = p]
    BY <1>2 DEF LeavePregame, At, States, registers, war, captain
  <2> QED
    BY <1>c, <2>1
<1>3. ASSUME NEW s \in Sessions, Queue(s) PROVE Follows(s)
  <2>1. /\ pc[s] \notin Prompts \cup Active /\ UNCHANGED <<team, freeing, numply, numsid, outcome>>
        /\ \E p \in States \ (Prompts \cup Active) : pc' = [pc EXCEPT ![s] = p]
    BY <1>3 DEF Queue, At, States, registers, war, captain
  <2> QED
    BY <1>c, <2>1
<1>4. ASSUME NEW s \in Sessions, FoundFull(s) PROVE Follows(s)
  <2>1. /\ pc[s] \notin Prompts \cup Active /\ UNCHANGED <<team, freeing, numply, numsid, outcome>>
        /\ \E p \in States \ (Prompts \cup Active) : pc' = [pc EXCEPT ![s] = p]
    BY <1>4 DEF FoundFull, At, States, registers, war, captain
  <2> QED
    BY <1>c, <2>1
<1>8. ASSUME NEW s \in Sessions, AskToFree(s) PROVE Follows(s)
  BY <1>8, <1>b DEF AskToFree, registers, war
<1>9. ASSUME NEW s \in Sessions, Finalize(s) PROVE Follows(s)
  BY <1>9 DEF HeadMoved, Moved, Finalize, Over,
     registers, ships, killed, clock, counts, war, catalog, captain
<1>10. ASSUME NEW s \in Sessions, DropLimit(s) PROVE Follows(s)
  BY <1>10, <1>b DEF DropLimit, registers, war, captain
<1>12. ASSUME NEW s \in Sessions, DestroyPlanet(s) PROVE Follows(s)
  BY <1>12, <1>b DEF DestroyPlanet, Detect, registers, captain
<1>13. ASSUME NEW s \in Sessions, BuildBase(s) PROVE Follows(s)
  BY <1>13, <1>b DEF BuildBase, Detect, registers, captain
<1>14. ASSUME NEW s \in Sessions, TurnedAway(s) PROVE Follows(s)
  BY <1>14 DEF HeadMoved, Moved, TurnedAway, WarInv,
     registers, ships, killed, clock, counts, war, catalog, captain
<1>26. ASSUME NEW s \in Sessions, GiveAway(s) PROVE Follows(s)
  BY <1>26, <1>b DEF GiveAway, registers, war, captain
<1>28. ASSUME NEW s \in Sessions, Fire(s) PROVE Follows(s)
  BY <1>28, <1>b DEF Fire, registers, war, captain
<1>30. ASSUME NEW s \in Sessions, CancelEnding(s) PROVE Follows(s)
  BY <1>30 DEF HeadMoved, Moved, CancelEnding,
     registers, ships, killed, clock, counts, war, catalog, captain
\* The session is s's, the others stand as they stood.
<1>m. ASSUME NEW s \in Sessions, outcome' = None => outcome = None, outcome' = None => HeadMovesAt(s)
      PROVE  Follows(s)
  BY <1>m, HeadMovesOne
\* From one place in play to another.
<1>i. ASSUME NEW s \in Sessions, NEW p \in Active, pc' = [pc EXCEPT ![s] = p], pc[s] \in Active,
             freeing[s] # "draining", outcome' = None => outcome = None,
             UNCHANGED <<team, freeing, numply, numsid>>
      PROVE  Follows(s)
  <2>1. HeadMovesAt(s)
    BY <1>i DEF HeadMovesAt, Counts
  <2> QED
    BY <1>i, <1>m, <2>1
<1>5. ASSUME NEW s \in Sessions, StartCommand(s) PROVE Follows(s)
  BY <1>5, <1>i DEF StartCommand, At, captain, registers, war
<1>6. ASSUME NEW s \in Sessions, Quit(s) PROVE Follows(s)
  BY <1>6, <1>i DEF Quit, captain, registers, war
<1>7. ASSUME NEW s \in Sessions, Die(s) PROVE Follows(s)
  BY <1>7, <1>i DEF Die, At, captain, registers, war
<1>11. ASSUME NEW s \in Sessions, FinishCommand(s) PROVE Follows(s)
  BY <1>11, <1>i DEF FinishCommand, Detect, captain, registers
<1>15. ASSUME NEW s \in Sessions, Cancel(s) PROVE Follows(s)
  <2>1. /\ pc[s] \in Prompts /\ pc' = [pc EXCEPT ![s] = "gone"] /\ freeing' = freeing
        /\ team' = [team EXCEPT ![s] = 1] /\ numply' = numply - 1 /\ outcome' = outcome
        /\ numsid' = [numsid EXCEPT ![team[s]] = IF pc[s] = "ship" THEN @ - 1 ELSE @]
    BY <1>15 DEF Cancel, At, Exit, war
  <2>2. HeadMovesAt(s)
    BY <2>1 DEF HeadMovesAt, Counts
  <2> QED
    BY <1>m, <2>1, <2>2
\* The captain chooses a side, or is given one, after or while he is counted in.
<1>e. ASSUME NEW s \in Sessions, NEW t \in Sides, Enlist(s, t), freeing' = freeing,
             outcome' = None => outcome = None,
             \/ pc[s] \in Prompts \ {"ship"} /\ numply' = numply
             \/ pc[s] \in {"pregame", "queued"} /\ numply' = numply + 1
      PROVE  Follows(s)
  <2>1. /\ pc' = [pc EXCEPT ![s] = "ship"] /\ team' = [team EXCEPT ![s] = t]
        /\ numsid' = [numsid EXCEPT ![t] = @ + 1]
    BY <1>e DEF Enlist
  <2>2. HeadMovesAt(s)
    BY <1>e, <2>1 DEF HeadMovesAt, Counts
  <2> QED
    BY <1>e, <1>m, <2>2
<1>16. ASSUME NEW s \in Sessions, Answer(s) PROVE Follows(s)
  <2>0. team[s] \in Sides /\ 3 - team[s] \in Sides
    <3>1. team[s] = 1 \/ team[s] = 2
      <4>1. team[s] \in {1, 2}
        BY <1>0
      <4> QED
        BY ONLY <4>1
    <3> QED
      BY ONLY <3>1
  <2>1. PICK t \in Sides : Enlist(s, t)
    BY <1>16, <2>0 DEF Answer
  <2>2. pc[s] \in Prompts \ {"ship"} /\ numply' = numply /\ outcome' = outcome /\ freeing' = freeing
    BY <1>16 DEF Answer, At, war
  <2> QED
    BY ZenonT(30), <1>e, <2>1, <2>2
\* The captain is asked for his side.
<1>a. ASSUME NEW s \in Sessions, Goto(s, "side"), UNCHANGED <<numsid, team, freeing>>,
             outcome' = None => outcome = None,
             \/ pc[s] = "creating" /\ numply' = numply
             \/ pc[s] \in {"pregame", "queued"} /\ numply' = numply + 1
      PROVE  Follows(s)
  <2>2. HeadMovesAt(s)
    BY <1>a DEF HeadMovesAt, Counts
  <2> QED
    BY <1>a, <1>m, <2>2
<1>17. ASSUME NEW s \in Sessions, FinishCreation(s) PROVE Follows(s)
  <2>1. /\ pc[s] = "creating" /\ AdmitNew(s) /\ numply' = numply /\ outcome' = outcome
        /\ freeing' = freeing
    BY <1>17 DEF FinishCreation, At, war
  <2>2. CASE Uneven
    <3>1. PICK t \in Sides : Enlist(s, t)
      BY <2>1, <2>2 DEF AdmitNew
    <3> HIDE DEF Follows
    <3> QED
      BY ONLY <1>e, <1>17, <2>1, <3>1
  <2>3. CASE ~Uneven
    BY <1>a, <2>1, <2>3 DEF AdmitNew
  <2> QED
    BY <2>2, <2>3
<1>18. ASSUME NEW s \in Sessions, Create(s) PROVE Follows(s)
  <2>1. /\ numply' = numply + 1 /\ numsid' = numsid /\ pc' = [pc EXCEPT ![s] = "creating"] /\ team' = team
        /\ freeing' = freeing /\ freeing[s] = "no" /\ pc[s] \in {"pregame", "queued"}
    BY <1>18 DEF Create, CountIn, Granted, At, captain
  <2>2. HeadMovesAt(s)
    BY <2>1 DEF HeadMovesAt, Counts
  <2> QED
    BY <1>18, <1>m, <2>2 DEF Create
<1>19. ASSUME NEW s \in Sessions, NEW w \in Ships, DestroyShip(s, w) PROVE Follows(s)
  BY <1>19, <1>b DEF DestroyShip, registers, war, captain
<1>20. ASSUME NEW s \in Sessions, NEW t \in Sides, DestroyBase(s, t) PROVE Follows(s)
  BY <1>20, <1>b DEF DestroyBase, Detect, registers, captain
<1>27. ASSUME NEW s \in Sessions, NEW w \in Ships, Aim(s, w) PROVE Follows(s)
  BY <1>27, <1>b DEF Aim, registers, war
<1>21. ASSUME NEW s \in Sessions, NEW w \in Ships \cup {Nameless}, NameShip(s, w) PROVE Follows(s)
  <2>1. /\ pc[s] = "ship" /\ numply' = numply /\ numsid' = numsid /\ team' = team /\ freeing' = freeing
        /\ pc' = pc \/ pc' = [pc EXCEPT ![s] = "ready"]
    BY <1>21 DEF NameShip, At, Board, registers
  <2>2. outcome' = None => outcome = None
    BY <1>21 DEF NameShip, Detect, war
  <2>3. HeadMovesAt(s)
    BY <2>1 DEF HeadMovesAt, Counts
  <2> QED
    BY <1>m, <2>2, <2>3
<1>22. ASSUME NEW s \in Sessions, Admit(s) PROVE Follows(s)
  <2>1. /\ pc[s] \in {"pregame", "queued"} /\ numply' = numply + 1 /\ freeing' = freeing
        /\ freeing[s] = "no"
    BY <1>22 DEF Admit, CountIn, Granted, At
  <2>2. outcome' = None => outcome = None
    BY <1>22 DEF Admit, Detect, war
  <2>3. CASE AdmitNew(s)
    <3>1. CASE Uneven
      <4>1. PICK t \in Sides : Enlist(s, t)
        BY <2>3, <3>1 DEF AdmitNew
      <4> HIDE DEF Follows
      <4> QED
        BY ONLY <1>e, <1>22, <2>1, <2>2, <4>1
    <3>2. CASE ~Uneven
      BY <1>a, <2>1, <2>2, <2>3, <3>2 DEF AdmitNew
    <3> QED
      BY <3>1, <3>2
  <2>4. ASSUME NEW side \in Sides,
               numsid' = [numsid EXCEPT ![side] = @ + 1],
               team' = [team EXCEPT ![s] = side],
               Goto(s, "ready")
        PROVE  Follows(s)
    <3>1. HeadMovesAt(s)
      BY <2>1, <2>4 DEF HeadMovesAt, Counts
    <3> QED
      BY <1>m, <2>2, <3>1
  <2>5. ASSUME NEW side \in Sides,
               numsid' = numsid,
               team' = [team EXCEPT ![s] = side],
               NEW p \in {"defect", "another"}, Goto(s, p)
        PROVE  Follows(s)
    <3>1. HeadMovesAt(s)
      BY <2>1, <2>5 DEF HeadMovesAt, Counts
    <3> QED
      BY <1>m, <2>2, <3>1
  <2>6. KilledRow(s) # 0 => SideOf(kilque[KilledRow(s)].ship) \in Sides
    BY KilledRowFound, SidesOfShips DEF KilledInv, Row
  <2> HIDE DEF Follows, Goto
  <2> QED
    BY <1>22, <2>3, <2>4, <2>5, <2>6 DEF Admit, Board
<1>23. ASSUME NEW s \in Sessions, LeaveShip(s) PROVE Follows(s)
  <2>a. outcome' = outcome
    BY <1>23 DEF LeaveShip, war
  <2>1. outcome = None => freeing[s] = "draining" /\ pc[s] \in Active
    BY <1>23, WarFrees DEF LeaveShip
  <2>2. /\ pc' = [pc EXCEPT ![s] = IF pc[s] = "dying" THEN "pregame" ELSE "gone"]
        /\ freeing' = [freeing EXCEPT ![s] = "no"] /\ UNCHANGED <<team, numply, numsid>>
    BY <1>23 DEF LeaveShip, registers
  <2>3. outcome = None => HeadMovesAt(s)
    BY <2>1, <2>2 DEF HeadMovesAt, Counts
  <2> QED
    BY <1>m, <2>a, <2>3
<1>29. ASSUME NEW s \in Sessions, StartFree(s) PROVE Follows(s)
  <2>a. outcome' = outcome
    BY <1>29 DEF StartFree, war
  <2>1. outcome = None =>
            pc[s] \in {"dying", "leaving"} /\ team[s] = SideOf(who[s]) /\ freeing[s] # "draining"
    BY <1>29, WarFrees DEF StartFree
  <2>2. /\ numply' = numply - 1 /\ numsid' = [numsid EXCEPT ![SideOf(who[s])] = @ - 1]
        /\ freeing' = [freeing EXCEPT ![s] = "draining"] /\ UNCHANGED <<pc, team>>
    BY <1>29 DEF StartFree
  <2>3. outcome = None => HeadMovesAt(s)
    BY <2>1, <2>2 DEF HeadMovesAt, Counts
  <2> QED
    BY <1>m, <2>a, <2>3
<1>24. ASSUME GraceEnds PROVE Follows(None)
  BY <1>24, <1>b DEF GraceEnds, registers, war, captain
<1>25. ASSUME UNCHANGED vars PROVE Follows(None)
  BY <1>25, <1>b DEF vars, registers, war, captain
<1> HIDE <1>0 DEF Follows, Standing, LockInv, PlaceInv, Drainers, Aboard, OnSide, Prompts, Active, Endings, Goto
<1> QED
  BY <1>1, <1>2, <1>3, <1>4, <1>5, <1>6, <1>7, <1>8, <1>9, <1>10, <1>11, <1>12, <1>13, <1>14, <1>15, <1>16, <1>17, <1>18, <1>19, <1>20, <1>21, <1>22, <1>23, <1>24, <1>25, <1>26, <1>27, <1>28, <1>29, <1>30, <1>h
     DEF Next, Setup, Prompted, Effect, Depart

-----------------------------------------------------------------------------
\* Those in play, whether FREE has counted them out or not.
Aloft == {s \in Sessions : pc[s] \in Active}

\* A galaxy just cleared: its ships are not laid out before FinishCreation, and
\* nobody can be admitted to it until some captain sets it up.
Barren ==
    /\ Aloft = {} /\ ~grace
    /\ \A s \in Sessions : pc[s] \notin Prompts \ {"creating"}

\* While the war goes on a ship that is not in the pool has its captain, or was
\* destroyed in the pool.
ShipsInv ==
    outcome = None =>
        \A w \in Ships :
            /\ alive[w] = "taken" => \E s \in Aloft : who[s] = w
            /\ alive[w] = "dead" => Barren \/ w \in adrift \/ \E s \in Aloft : who[s] = w

LEMMA ShipsInit == Init => ShipsInv
BY DEF Init, ShipsInv, Barren, Aloft, Prompts, Active

\* A step that keeps every captain his ship and takes none out of the pool.
LEMMA ShipsKept ==
    ASSUME ShipsInv, outcome' = None => outcome = None,
           \A t \in Aloft : t \in Aloft' /\ who'[t] = who[t],
           \A w \in Ships : alive'[w] = alive[w],
           adrift \subseteq adrift',
           Barren => Barren'
    PROVE  ShipsInv'
<1> SUFFICES ASSUME outcome' = None, NEW w \in Ships
             PROVE  /\ alive'[w] = "taken" => \E s \in Aloft' : who'[s] = w
                    /\ alive'[w] = "dead" => \/ Barren' \/ w \in adrift'
                                             \/ \E s \in Aloft' : who'[s] = w
  BY DEF ShipsInv
<1>1. outcome = None
  OBVIOUS
<1> QED
  BY <1>1 DEF ShipsInv

\* Nobody is let into a cleared galaxy before it is set up.
LEMMA NotBarren ==
    ASSUME TypeOK, Standing, HeadCount, NEW s \in Sessions, Admit(s), outcome = None, torn = {}
    PROVE  ~Barren
<1> SUFFICES ASSUME Barren PROVE FALSE
  OBVIOUS
<1>1. numply # 0
  BY DEF Admit, Existing, Barren, TypeOK
<1>2. Aboard # {}
  BY <1>1, FS_EmptySet DEF HeadCount
<1>3. PICK t \in Sessions : pc[t] = "creating"
  BY <1>2 DEF Aboard, Barren, Aloft
<1>4. frelok = t
  BY <1>3 DEF Standing, LockInv, Prompts
<1>5. pc[s] \in {"pregame", "queued"} /\ frelok \in {None, s}
  BY DEF Admit, CountIn, Granted, At, Available
<1> QED
  BY <1>3, <1>4, <1>5, SessionsAssumption

LEMMA ShipsNext ==
    Kinds /\ Standing /\ CountInv /\ Owning /\ HeadCount /\ ShipsInv /\ torn' = {} /\ [Next]_vars
        => ShipsInv'
<1> SUFFICES ASSUME TypeOK, KilledInv, Standing, CountInv, Owning, HeadCount, ShipsInv,
                    torn = {}, torn' = {}, [Next]_vars
             PROVE  ShipsInv'
  BY TornGrows DEF Kinds
<1>0. /\ pc \in [Sessions -> States] /\ who \in [Sessions -> Ships \cup {0, Nameless}]
      /\ alive \in [Ships -> {"free", "taken", "dead"}]
      /\ 0 \notin Ships /\ Nameless \notin Ships /\ None \notin Sessions
  BY NoShips DEF TypeOK
<1> DEFINE Kept == /\ outcome' = None => outcome = None
                   /\ outcome' = None => \A t \in Aloft : t \in Aloft' /\ who'[t] = who[t]
                   /\ outcome' = None => \A w \in Ships : alive'[w] = alive[w]
                   /\ outcome' = None => adrift \subseteq adrift'
                   /\ outcome' = None => (Barren => Barren')
<1>k. Kept => ShipsInv'
  <2>1. CASE outcome' = None
    BY <2>1, ShipsKept
  <2>2. CASE outcome' # None
    BY <2>2 DEF ShipsInv
  <2> QED
    BY <2>1, <2>2
<1>1. ASSUME NEW s \in Sessions, Connect(s) PROVE Kept
  BY <1>0, <1>1 DEF Barren, Aloft, Prompts, Active, Goto, Connect, At,
     registers, ships, killed, clock, counts, war, catalog, captain
<1>2. ASSUME NEW s \in Sessions, LeavePregame(s) PROVE Kept
  BY <1>0, <1>2 DEF Barren, Aloft, Prompts, Active, Goto, LeavePregame, At,
     registers, ships, killed, clock, counts, war, catalog, captain
<1>3. ASSUME NEW s \in Sessions, Queue(s) PROVE Kept
  BY <1>0, <1>3 DEF Barren, Aloft, Prompts, Active, Goto, Queue, At,
     registers, ships, killed, clock, counts, war, catalog, captain
<1>4. ASSUME NEW s \in Sessions, FoundFull(s) PROVE Kept
  BY <1>0, <1>4 DEF Barren, Aloft, Prompts, Active, Goto, FoundFull, At,
     registers, ships, killed, clock, counts, war, catalog, captain
<1>5. ASSUME NEW s \in Sessions, StartCommand(s) PROVE Kept
  BY <1>0, <1>5 DEF Barren, Aloft, Prompts, Active, Goto, StartCommand, At,
     registers, ships, killed, clock, counts, war, catalog, captain
<1>6. ASSUME NEW s \in Sessions, Quit(s) PROVE Kept
  BY <1>0, <1>6 DEF Barren, Aloft, Prompts, Active, Goto, Quit,
     registers, ships, killed, clock, counts, war, catalog, captain
<1>7. ASSUME NEW s \in Sessions, Die(s) PROVE Kept
  BY <1>0, <1>7 DEF Barren, Aloft, Prompts, Active, Goto, Die, At,
     registers, ships, killed, clock, counts, war, catalog, captain
<1>8. ASSUME NEW s \in Sessions, AskToFree(s) PROVE Kept
  BY <1>0, <1>8 DEF Barren, Aloft, Prompts, Active, Goto, AskToFree,
     registers, ships, killed, clock, counts, war, catalog, captain
<1>9. ASSUME NEW s \in Sessions, Finalize(s) PROVE Kept
  BY <1>0, <1>9 DEF Barren, Aloft, Prompts, Active, Goto, Finalize, Over,
     registers, ships, killed, clock, counts, war, catalog, captain
<1>10. ASSUME NEW s \in Sessions, DropLimit(s) PROVE Kept
  BY <1>0, <1>10 DEF Barren, Aloft, Prompts, Active, Goto, DropLimit,
     registers, ships, killed, clock, counts, war, catalog, captain
<1>11. ASSUME NEW s \in Sessions, FinishCommand(s) PROVE Kept
  BY <1>0, <1>11 DEF Barren, Aloft, Prompts, Active, Goto, FinishCommand, Detect,
     registers, ships, killed, clock, counts, war, catalog, captain
<1>12. ASSUME NEW s \in Sessions, DestroyPlanet(s) PROVE Kept
  BY <1>0, <1>12 DEF Barren, Aloft, Prompts, Active, Goto, DestroyPlanet, Detect,
     registers, ships, killed, clock, counts, war, catalog, captain
<1>13. ASSUME NEW s \in Sessions, BuildBase(s) PROVE Kept
  BY <1>0, <1>13 DEF Barren, Aloft, Prompts, Active, Goto, BuildBase, Detect,
     registers, ships, killed, clock, counts, war, catalog, captain
<1>14. ASSUME NEW s \in Sessions, TurnedAway(s) PROVE Kept
  BY <1>0, <1>14 DEF Barren, Aloft, Prompts, Active, Goto, TurnedAway, Standing, WarInv,
     registers, ships, killed, clock, counts, war, catalog, captain
<1>15. ASSUME NEW s \in Sessions, Cancel(s) PROVE Kept
  BY <1>0, <1>15 DEF Barren, Aloft, Prompts, Active, Goto, Cancel, At, Exit,
     registers, ships, killed, clock, counts, war, catalog, captain
<1>16. ASSUME NEW s \in Sessions, Answer(s) PROVE Kept
  BY <1>0, <1>16 DEF Barren, Aloft, Prompts, Active, Goto, Answer, At, Enlist,
     registers, ships, killed, clock, counts, war, catalog, captain
<1>26. ASSUME NEW s \in Sessions, GiveAway(s) PROVE Kept
  BY <1>0, <1>26 DEF Barren, Aloft, Prompts, Active, Goto, GiveAway,
     registers, ships, killed, clock, counts, war, catalog, captain
<1>30. ASSUME NEW s \in Sessions, CancelEnding(s) PROVE Kept
  BY <1>0, <1>30 DEF Barren, Aloft, Prompts, Active, Goto, CancelEnding, Standing, PlaceInv, Endings,
     registers, ships, killed, clock, counts, war, catalog, captain
<1>17. ASSUME NEW s \in Sessions, FinishCreation(s) PROVE ShipsInv'
  BY <1>17 DEF FinishCreation, ShipsInv
<1>18. ASSUME NEW s \in Sessions, Create(s) PROVE ShipsInv'
  <2>1. Counted = {} /\ Drainers = {}
    BY <1>18, AloneToCreate DEF Create, Drainers
  <2>2. /\ grace' = FALSE /\ pc' = [pc EXCEPT ![s] = "creating"]
        /\ \A w \in Ships : alive'[w] = "dead"
    BY <1>18 DEF Create, Goto
  <2>3. Barren'
    BY <1>0, <2>1, <2>2 DEF Barren, Aloft, Counted, Prompts, Active
  <2> QED
    BY <2>2, <2>3 DEF ShipsInv
\* A ship is destroyed, in the pool or not, and nothing else happens.
<1>d. ASSUME NEW w \in Ships, alive' = [alive EXCEPT ![w] = "dead"],
             adrift' = (IF alive[w] = "free" THEN adrift \cup {w} ELSE adrift),
             UNCHANGED <<outcome, pc, who, grace>>, Aloft # {}
      PROVE  ShipsInv'
  <2> SUFFICES ASSUME outcome = None PROVE ShipsInv'
    BY <1>d DEF ShipsInv
  <2>1. Aloft' = Aloft /\ who' = who /\ adrift \subseteq adrift' /\ ~Barren
    BY <1>d DEF Aloft, Barren
  <2>2. ASSUME NEW v \in Ships, v # w PROVE alive'[v] = alive[v]
    BY <1>0, <1>d, <2>2
  <2>3. \A v \in Ships : alive[v] = "taken" => \E t \in Aloft : who[t] = v
    BY DEF ShipsInv
  <2>4. \A v \in Ships : alive[v] = "dead" => v \in adrift \/ \E t \in Aloft : who[t] = v
    BY <2>1 DEF ShipsInv
  <2>5. alive'[w] = "dead" /\ (w \in adrift' \/ \E t \in Aloft : who[t] = w)
    BY <1>0, <1>d, <2>3, <2>4
  <2>6. ASSUME NEW v \in Ships
        PROVE  /\ alive'[v] = "taken" => \E t \in Aloft : who[t] = v
               /\ alive'[v] = "dead" => v \in adrift' \/ \E t \in Aloft : who[t] = v
    BY <2>1, <2>2, <2>3, <2>4, <2>5
  <2> QED
    BY <2>1, <2>6 DEF ShipsInv
<1>19. ASSUME NEW s \in Sessions, NEW w \in Ships, DestroyShip(s, w) PROVE ShipsInv'
  <2>1. /\ alive[w] = "taken" /\ alive' = [alive EXCEPT ![w] = "dead"] /\ adrift' = adrift
        /\ UNCHANGED <<outcome, pc, who, grace>> /\ s \in Aloft
    BY <1>19 DEF DestroyShip, captain, clock, war, Aloft, Active
  <2> QED
    BY <1>d, <2>1
<1>27. ASSUME NEW s \in Sessions, NEW w \in Ships, Aim(s, w) PROVE Kept
  BY <1>27 DEF Aim, Barren, Aloft, ships, clock, war
<1>28. ASSUME NEW s \in Sessions, Fire(s) PROVE ShipsInv'
  <2>1. /\ aim[s] \in Ships /\ s \in Aloft /\ UNCHANGED <<outcome, pc, who, grace>>
    BY <1>28 DEF Fire, clock, war, Aloft, Active, TypeOK
  <2>2. CASE /\ alive' = [alive EXCEPT ![aim[s]] = "dead"]
             /\ adrift' = IF alive[aim[s]] = "free" THEN adrift \cup {aim[s]} ELSE adrift
    BY <1>d, <2>1, <2>2
  <2>3. CASE UNCHANGED <<alive, adrift>>
    BY <1>k, <2>1, <2>3 DEF Aloft, Barren
  <2> QED
    BY <1>28, <2>2, <2>3 DEF Fire
<1>20. ASSUME NEW s \in Sessions, NEW t \in Sides, DestroyBase(s, t) PROVE Kept
  BY <1>20 DEF DestroyBase, Detect, Barren, Aloft, ships, clock, captain
\* The captain boards a ship of the pool; a galaxy in which he can is laid out.
<1>b. ASSUME NEW s \in Sessions, NEW w \in Ships, Board(s, w), outcome' = None => outcome = None,
             pc[s] \notin Active, outcome = None => ~Barren
      PROVE  ShipsInv'
  <2> SUFFICES ASSUME outcome' = None PROVE ShipsInv'
    BY DEF ShipsInv
  <2>1. s \in Aloft' /\ who'[s] = w /\ \A t \in Aloft : t \in Aloft' /\ who'[t] = who[t]
    BY <1>0, <1>b DEF Board, Goto, Aloft, Active
  <2>2. adrift' = adrift /\ \A v \in Ships : v # w => alive'[v] = alive[v]
    BY <1>0, <1>b DEF Board
  <2>3. ASSUME NEW v \in Ships
        PROVE  /\ alive'[v] = "taken" => \E t \in Aloft' : who'[t] = v
               /\ alive'[v] = "dead" => v \in adrift' \/ \E t \in Aloft' : who'[t] = v
    <3>1. CASE v = w
      BY <2>1, <3>1
    <3>2. CASE v # w
      BY <1>b, <2>1, <2>2, <3>2 DEF ShipsInv
    <3> QED
      BY <3>1, <3>2
  <2> QED
    BY <2>3 DEF ShipsInv
<1>21. ASSUME NEW s \in Sessions, NEW w \in Ships \cup {Nameless}, NameShip(s, w) PROVE ShipsInv'
  <2>1. pc[s] = "ship" /\ (outcome' = None => outcome = None) /\ grace' = grace
    BY <1>21 DEF NameShip, At, Detect, war, clock
  <2>2. ~Barren
    BY <2>1 DEF Barren, Prompts
  <2>3. CASE w \in Ships /\ Board(s, w)
    BY <1>b, <2>1, <2>2, <2>3 DEF Active
  <2>4. CASE who' = [who EXCEPT ![s] = w] /\ UNCHANGED <<ships, war, frelok, pc, armed>>
    BY <1>0, <1>k, <2>1, <2>2, <2>4 DEF Aloft, Active, ships, war
  <2> QED
    BY <1>21, <2>3, <2>4 DEF NameShip, Offered
<1>22. ASSUME NEW s \in Sessions, Admit(s) PROVE ShipsInv'
  <2>1. pc[s] \in {"pregame", "queued"} /\ (outcome' = None => outcome = None)
    BY <1>22 DEF Admit, CountIn, Granted, At, Detect, war
  <2>2. outcome = None => ~Barren
    BY <1>22, NotBarren
  <2>3. CASE KilledRow(s) # 0 /\ Board(s, kilque[KilledRow(s)].ship)
    <3>1. kilque[KilledRow(s)].ship \in Ships
      BY <2>3, KilledRowFound DEF KilledInv, Row
    <3> QED
      BY <1>b, <2>1, <2>2, <2>3, <3>1 DEF Active
  <2>4. CASE UNCHANGED <<ships, war>>
             /\ \A t \in Sessions : t # s => pc'[t] = pc[t] /\ who'[t] = who[t]
    BY <1>k, <2>1, <2>2, <2>4 DEF Aloft, Active, ships, war
  <2> QED
    BY <1>0, <1>22, <2>3, <2>4 DEF Admit, AdmitNew, Enlist, Goto
<1>23. ASSUME NEW s \in Sessions, LeaveShip(s) PROVE ShipsInv'
  <2> SUFFICES ASSUME outcome = None PROVE ShipsInv'
    BY <1>23 DEF LeaveShip, ShipsInv, war
  <2>1. s \in Aloft /\ who[s] \in Ships
    BY <1>23, WarFrees DEF LeaveShip, Aloft
  <2>2. freeing[s] = "draining"
    BY <1>23, WarFrees DEF LeaveShip
  <2>3. alive' = [alive EXCEPT ![who[s]] = "free"] /\ adrift' = adrift
    BY <1>23, <2>2 DEF LeaveShip
  <2>4. \A t \in Aloft : t # s => t \in Aloft' /\ who'[t] = who[t]
    BY <1>0, <1>23 DEF LeaveShip, Goto, Aloft
  <2>5. ASSUME NEW w \in Ships, alive'[w] # "free"
        PROVE  /\ alive'[w] = "taken" => \E t \in Aloft' : who'[t] = w
               /\ w \in adrift' \/ \E t \in Aloft' : who'[t] = w
    <3>1. w # who[s] /\ alive'[w] = alive[w] /\ alive[w] \in {"taken", "dead"}
      BY <1>0, <2>1, <2>3, <2>5
    <3>2. /\ alive[w] = "taken" => \E t \in Aloft : who[t] = w
          /\ w \in adrift \/ \E t \in Aloft : who[t] = w
      BY <2>1, <3>1 DEF ShipsInv, Barren
    <3> QED
      BY <2>3, <2>4, <3>1, <3>2
  <2> QED
    BY <2>5 DEF ShipsInv
<1>29. ASSUME NEW s \in Sessions, StartFree(s) PROVE Kept
  <2>1. UNCHANGED <<alive, adrift, outcome, pc, who>>
    BY <1>29 DEF StartFree, war
  <2>2. outcome = None => ~Barren
    BY <1>29, WarFrees DEF StartFree, Barren, Aloft
  <2> QED
    BY <2>1, <2>2 DEF Aloft
<1>24. ASSUME GraceEnds PROVE Kept
  BY <1>24 DEF GraceEnds, Barren, Aloft, ships, war, captain
<1>25. ASSUME UNCHANGED vars PROVE Kept
  BY <1>25 DEF vars, Barren, Aloft, ships, war, captain, clock
<1> HIDE DEF Kept
<1> QED
  BY <1>1, <1>2, <1>3, <1>4, <1>5, <1>6, <1>7, <1>8, <1>9, <1>10, <1>11, <1>12, <1>13, <1>14, <1>15, <1>16, <1>17, <1>18, <1>19, <1>20, <1>21, <1>22, <1>23, <1>24, <1>25, <1>26, <1>27, <1>28, <1>29, <1>30, <1>k
     DEF Next, Setup, Prompted, Effect, Depart

-----------------------------------------------------------------------------
\* What detect() lets pass is no end of the war.
LEMMA NoVerdict ==
    ASSUME NEW p \in Nat, NEW b \in [Sides -> Nat], Verdict(p, b) = None
    PROVE  p > 0 \/ \A t \in Sides : b[t] > 0
BY SessionsAssumption DEF Verdict, Outcomes

LEMMA NoticedInit == Init => NoUnnoticedEnd
BY DEF Init, NoUnnoticedEnd, Captains, Active

LEMMA NoticedNext ==
    Kinds /\ Standing /\ CountInv /\ NoUnnoticedEnd /\ [Next]_vars => NoUnnoticedEnd'
<1> SUFFICES ASSUME TypeOK, Kinds', Standing, CountInv, NoUnnoticedEnd, [Next]_vars
             PROVE  NoUnnoticedEnd'
  BY KindsNext DEF Kinds
<1>0. /\ pc \in [Sessions -> States] /\ planets' \in Nat /\ nbase' \in [Sides -> Nat]
      /\ freeing \in [Sessions -> {"no", "asking", "draining"}]
  BY CountsNat DEF TypeOK, Kinds
<1> DEFINE Same == /\ outcome' = None => outcome = None
                   /\ outcome' = None /\ Captains' # {} => Captains # {}
                   /\ planets' = planets /\ nbase' = nbase
           Noticed == Detect(planets', nbase')
<1>a. Same => NoUnnoticedEnd'
  BY DEF NoUnnoticedEnd
<1>b. Noticed => NoUnnoticedEnd'
  <2> SUFFICES ASSUME Noticed, outcome' = None PROVE planets' > 0 \/ \A t \in Sides : nbase'[t] > 0
    BY DEF NoUnnoticedEnd
  <2>1. Verdict(planets', nbase') = None
    BY DEF Detect
  <2> QED
    BY <1>0, <2>1, NoVerdict
<1>1. ASSUME NEW s \in Sessions, Connect(s) PROVE Same
  BY <1>0, <1>1 DEF Captains, Drainers, Active, Goto, Connect, At,
     registers, ships, killed, clock, counts, war, catalog, captain
<1>2. ASSUME NEW s \in Sessions, LeavePregame(s) PROVE Same
  BY <1>0, <1>2 DEF Captains, Drainers, Active, Goto, LeavePregame, At,
     registers, ships, killed, clock, counts, war, catalog, captain
<1>3. ASSUME NEW s \in Sessions, Queue(s) PROVE Same
  BY <1>0, <1>3 DEF Captains, Drainers, Active, Goto, Queue, At,
     registers, ships, killed, clock, counts, war, catalog, captain
<1>4. ASSUME NEW s \in Sessions, FoundFull(s) PROVE Same
  BY <1>0, <1>4 DEF Captains, Drainers, Active, Goto, FoundFull, At,
     registers, ships, killed, clock, counts, war, catalog, captain
<1>5. ASSUME NEW s \in Sessions, StartCommand(s) PROVE Same
  BY <1>0, <1>5 DEF Captains, Drainers, Active, Goto, StartCommand, At,
     registers, ships, killed, clock, counts, war, catalog, captain
<1>6. ASSUME NEW s \in Sessions, Quit(s) PROVE Same
  BY <1>0, <1>6 DEF Captains, Drainers, Active, Goto, Quit,
     registers, ships, killed, clock, counts, war, catalog, captain
<1>7. ASSUME NEW s \in Sessions, Die(s) PROVE Same
  BY <1>0, <1>7 DEF Captains, Drainers, Active, Goto, Die, At,
     registers, ships, killed, clock, counts, war, catalog, captain
<1>8. ASSUME NEW s \in Sessions, AskToFree(s) PROVE Same
  BY <1>0, <1>8 DEF Captains, Drainers, Active, Goto, AskToFree,
     registers, ships, killed, clock, counts, war, catalog, captain
<1>9. ASSUME NEW s \in Sessions, Finalize(s) PROVE Same
  BY <1>0, <1>9 DEF Captains, Drainers, Active, Goto, Finalize, Over, Endings, Standing, PlaceInv,
     registers, ships, killed, clock, counts, war, catalog, captain
<1>10. ASSUME NEW s \in Sessions, DropLimit(s) PROVE Same
  BY <1>0, <1>10 DEF Captains, Drainers, Active, Goto, DropLimit,
     registers, ships, killed, clock, counts, war, catalog, captain
<1>11. ASSUME NEW s \in Sessions, TurnedAway(s) PROVE Same
  BY <1>0, <1>11 DEF Captains, Drainers, Active, Goto, TurnedAway, Granted, At, Exit,
     registers, ships, killed, clock, counts, war, catalog, captain
<1>12. ASSUME NEW s \in Sessions, Cancel(s) PROVE Same
  BY <1>0, <1>12 DEF Captains, Drainers, Active, Goto, Cancel, At, Exit,
     registers, ships, killed, clock, counts, war, catalog, captain
<1>13. ASSUME NEW s \in Sessions, Answer(s) PROVE Same
  BY <1>0, <1>13 DEF Captains, Drainers, Active, Goto, Answer, At, Enlist,
     registers, ships, killed, clock, counts, war, catalog, captain
<1>14. ASSUME NEW s \in Sessions, LeaveShip(s) PROVE Same
  BY <1>0, <1>14 DEF Captains, Drainers, Active, Goto, LeaveShip, Endings, Standing, PlaceInv,
     registers, ships, killed, clock, counts, war, catalog, captain
<1>24. ASSUME NEW s \in Sessions, StartFree(s) PROVE Same
  BY <1>0, <1>24 DEF Captains, Drainers, Active, Goto, StartFree,
     registers, ships, killed, clock, counts, war, catalog, captain
<1>25. ASSUME NEW s \in Sessions, GiveAway(s) PROVE Same
  BY <1>0, <1>25 DEF Captains, Drainers, Active, Goto, GiveAway,
     registers, ships, killed, clock, counts, war, catalog, captain
<1>26. ASSUME NEW s \in Sessions, CancelEnding(s) PROVE Same
  BY <1>0, <1>26 DEF Captains, Drainers, Active, Goto, CancelEnding, Exit, Endings, Standing, PlaceInv,
     registers, ships, killed, clock, counts, war, catalog, captain
<1>27. ASSUME NEW s \in Sessions, Fire(s) PROVE Same
  BY <1>0, <1>27 DEF Captains, Drainers, Active, Goto, Fire,
     registers, ships, killed, clock, counts, war, catalog, captain
<1>15. ASSUME NEW s \in Sessions, FinishCommand(s) \/ DestroyPlanet(s) \/ BuildBase(s) PROVE Noticed
  BY <1>15 DEF FinishCommand, DestroyPlanet, BuildBase, Detect, counts
<1>16. ASSUME NEW s \in Sessions, NEW t \in Sides, DestroyBase(s, t) PROVE Noticed
  BY <1>16 DEF DestroyBase, Detect
<1>17. ASSUME NEW s \in Sessions, FinishCreation(s) PROVE NoUnnoticedEnd'
  BY <1>17, Sizes DEF FinishCreation, NoUnnoticedEnd
<1>18. ASSUME NEW s \in Sessions, Create(s) PROVE NoUnnoticedEnd'
  <2> SUFFICES ASSUME outcome' = None PROVE NoUnnoticedEnd'
    BY DEF NoUnnoticedEnd
  <2>0. "twice" \notin torn
    BY <1>18 DEF Create, Standing, WarInv
  <2>1. Counted = {} /\ pc' = [pc EXCEPT ![s] = "creating"] /\ freeing' = freeing
    BY <1>18, <2>0, AloneToCreate DEF Create, Goto, captain
  <2>2. Captains' = {}
    BY <1>0, <2>1 DEF Captains, Counted, Drainers, Active
  <2> QED
    BY <2>2 DEF NoUnnoticedEnd
<1>19. ASSUME NEW s \in Sessions, NEW w \in Ships, DestroyShip(s, w) PROVE Same
  BY <1>19 DEF DestroyShip, Captains, Drainers, war, counts, captain
<1>28. ASSUME NEW s \in Sessions, NEW w \in Ships, Aim(s, w) PROVE Same
  BY <1>28 DEF Aim, Captains, Drainers, war, counts
<1>20. ASSUME NEW s \in Sessions, NEW w \in Ships \cup {Nameless}, NameShip(s, w) PROVE Same \/ Noticed
  <2>1. planets' = planets /\ nbase' = nbase /\ freeing' = freeing
    BY <1>20 DEF NameShip, counts
  <2>2. CASE Detect(planets, nbase)
    BY <2>1, <2>2
  <2>3. CASE UNCHANGED <<ships, war, frelok, pc, armed>>
    BY <2>1, <2>3 DEF Captains, Drainers, war
  <2> QED
    BY <1>20, <2>2, <2>3 DEF NameShip
<1>21. ASSUME NEW s \in Sessions, Admit(s) PROVE Same \/ Noticed
  <2>1. planets' = planets /\ nbase' = nbase /\ freeing' = freeing
    BY <1>21 DEF Admit, counts
  <2>2. CASE Detect(planets, nbase)
    BY <2>1, <2>2
  <2>3. CASE UNCHANGED war /\ pc'[s] \notin Active /\ \A t \in Sessions : t # s => pc'[t] = pc[t]
    BY <2>1, <2>3 DEF Captains, Drainers, war
  <2> QED
    BY <1>0, <1>21, <2>2, <2>3 DEF Admit, AdmitNew, Enlist, Goto, Active
<1>22. ASSUME GraceEnds PROVE Same
  BY <1>22 DEF GraceEnds, Captains, Drainers, war, counts, captain
<1>23. ASSUME UNCHANGED vars PROVE Same
  BY <1>23 DEF vars, Captains, Drainers, war, counts, captain
<1> HIDE DEF Same, Noticed
<1> QED
  BY <1>1, <1>2, <1>3, <1>4, <1>5, <1>6, <1>7, <1>8, <1>9, <1>10, <1>11, <1>12, <1>13, <1>14, <1>15, <1>16, <1>17, <1>18, <1>19, <1>20, <1>21, <1>22, <1>23, <1>24, <1>25, <1>26, <1>27, <1>28, <1>a, <1>b
     DEF Next, Setup, Prompted, Effect, Depart

-----------------------------------------------------------------------------
\* The inductive invariant of the galaxy.
Inv ==
    /\ Kinds /\ Standing
    /\ CountInv /\ HeadCount /\ NoUnnoticedEnd
    /\ torn = {} => Owning /\ ShipsInv

LEMMA InvInit == Init => Inv
BY KindsInit, StandingInit, CountInit, OwningInit, HeadInit, ShipsInit, NoticedInit DEF Inv

LEMMA InvNext == Inv /\ [Next]_vars => Inv'
<1> SUFFICES ASSUME Inv, [Next]_vars PROVE Inv'
  OBVIOUS
<1>1. Kinds' /\ Standing' /\ CountInv' /\ HeadCount' /\ NoUnnoticedEnd'
  BY KindsNext, StandingNext, CountNext, HeadNext, NoticedNext DEF Inv
<1>2. ASSUME torn' = {} PROVE Owning' /\ ShipsInv'
  <2>1. torn = {}
    BY <1>2, TornGrows
  <2> QED
    BY <1>2, <2>1, OwningNext, ShipsNext DEF Inv
<1> QED
  BY <1>1, <1>2 DEF Inv

THEOREM InvAlways == Spec => []Inv
BY InvInit, InvNext, PTL DEF Spec

\* The variables keep their types, whatever is counted, freed or remembered.
THEOREM GalaxyTyped == Spec => []TypeOK
BY InvAlways, PTL DEF Inv, Kinds

\* No ship ever has two captains, also when the war ends around the prompts at
\* which captains look for one, unless an end of the war broke off a FREE.
THEOREM OneCaptainEach == Spec => []OneCaptainPerShip
<1>1. Captains \subseteq Owners
  BY DEF Captains, Owners
<1>2. Inv => OneCaptainPerShip
  BY <1>1 DEF Inv, Owning, OwnersInv, OneCaptainPerShip
<1> QED
  BY <1>2, InvAlways, PTL

\* While the war goes on NUMPLY and NUMSID are the numbers of those in SETUP
\* and in play whom FREE has not counted out yet: every way out counts back
\* exactly what was counted.
THEOREM HeadsCounted == Spec => []HeadCount
BY InvAlways, PTL DEF Inv

\* While the war goes on a ship is out of the pool exactly as long as it has a
\* captain, under whose job number it is, or as FREE reads its messages; but for
\* the wreck that a phaser makes of a ship freed during its pause.
THEOREM ShipsAlwaysAccounted == Spec => []ShipsAccountedFor
<1>1. ASSUME Inv, outcome = None, torn = {}, NEW w \in Ships
      PROVE  /\ \A s \in Captains : who[s] = w => alive[w] # "free" /\ job[w] = s
             /\ \A s \in Drainers : who[s] = w => alive[w] # "free" /\ job[w] = None
             /\ alive[w] = "taken" => \E s \in Captains \cup Drainers : who[s] = w
             /\ alive[w] = "dead" /\ Captains # {} =>
                    w \in adrift \/ \E s \in Captains \cup Drainers : who[s] = w
  <2>1. Unstolen
    BY <1>1, WarOn DEF Inv
  <2>2. Captains \subseteq Owners
    BY DEF Captains, Owners
  <2>3. Aloft \subseteq Captains \cup Drainers /\ Captains \subseteq Aloft
    BY DEF Captains, Aloft
  <2>4. /\ alive[w] = "taken" => \E s \in Aloft : who[s] = w
        /\ alive[w] = "dead" => Aloft = {} \/ w \in adrift \/ \E s \in Aloft : who[s] = w
    BY <1>1 DEF Inv, ShipsInv, Barren
  <2> QED
    BY <2>1, <2>2, <2>3, <2>4 DEF Unstolen
<1>2. Inv => ShipsAccountedFor
  BY <1>1 DEF ShipsAccountedFor
<1> QED
  BY <1>2, InvAlways, PTL

\* The list of the killed names a captain at most once, also after its ring has
\* wrapped around.
THEOREM KilledAlwaysOnce == Spec => []KilledOnce
BY InvAlways, PTL DEF Inv, Kinds, KilledInv

\* The end of the war is declared in the step that brings it about.
THEOREM EndAlwaysNoticed == Spec => []NoUnnoticedEnd
BY InvAlways, PTL DEF Inv

\* The galaxy of a war whose end somebody has been told of is in no catalogue.
THEOREM EndedAlwaysWithdrawn == Spec => []EndedGalaxyWithdrawn
<1>1. Inv => EndedGalaxyWithdrawn
  BY DEF Inv, Standing, PlaceInv, WarInv, EndedGalaxyWithdrawn
<1> QED
  BY <1>1, InvAlways, PTL

\* Only SETUP's clearing brings a session to the questions of a new galaxy.
LEMMA CreatingComes ==
    ASSUME TypeOK, Next, NEW x \in Sessions, pc[x] # "creating", pc'[x] = "creating"
    PROVE  Create(x)
<1>0. pc \in [Sessions -> States]
  BY DEF TypeOK
<1> USE <1>0 DEF Goto
<1>1. ASSUME NEW s \in Sessions, Connect(s) \/ LeavePregame(s) \/ Queue(s) \/ FoundFull(s) \/ TurnedAway(s)
      PROVE  FALSE
  BY <1>1 DEF Connect, LeavePregame, Queue, FoundFull, TurnedAway, Exit
<1>2. ASSUME NEW s \in Sessions, FinishCreation(s) \/ Answer(s) \/ Cancel(s) PROVE FALSE
  BY <1>2 DEF FinishCreation, AdmitNew, Enlist, Answer, Cancel, Exit
<1>3. ASSUME NEW s \in Sessions, Admit(s) PROVE FALSE
  BY <1>3 DEF Admit, AdmitNew, Enlist, Board
<1>4. ASSUME NEW s \in Sessions, NEW w, NameShip(s, w) \/ DestroyShip(s, w) \/ Aim(s, w) PROVE FALSE
  BY <1>4 DEF NameShip, DestroyShip, Aim, Board, captain
<1>5. ASSUME NEW s \in Sessions, \/ StartCommand(s) \/ FinishCommand(s) \/ Quit(s) \/ Die(s)
                                 \/ Fire(s)
      PROVE  FALSE
  BY <1>5 DEF StartCommand, FinishCommand, Quit, Die, Fire
<1>6. ASSUME NEW s \in Sessions, NEW t \in Sides, DestroyBase(s, t) \/ DestroyPlanet(s) \/ BuildBase(s)
      PROVE  FALSE
  BY <1>6 DEF DestroyBase, DestroyPlanet, BuildBase
<1>7. ASSUME NEW s \in Sessions, \/ AskToFree(s) \/ StartFree(s) \/ GiveAway(s) \/ LeaveShip(s)
                                 \/ CancelEnding(s) \/ Finalize(s) \/ DropLimit(s)
      PROVE  FALSE
  BY <1>7 DEF AskToFree, StartFree, GiveAway, LeaveShip, CancelEnding, Finalize, EndingFrom, DropLimit, Exit
<1>8. ASSUME GraceEnds PROVE FALSE
  BY <1>8 DEF GraceEnds
<1>9. ASSUME NEW s \in Sessions, Create(s) PROVE s = x
  BY <1>9 DEF Create
<1> QED
  BY <1>1, <1>2, <1>3, <1>4, <1>5, <1>6, <1>7, <1>8, <1>9 DEF Next, Setup, Prompted, Effect, Depart

\* SETUP never clears a galaxy under a captain, unless the end of the war has had
\* a captain counted out twice: NUMPLY may be too high for ever, when sessions
\* were turned from a prompt to the ending, but too low only after that.
THEOREM NeverCleared == Spec => NeverClearedUnderCaptains
<1>1. Inv /\ [Next]_vars =>
          [ (\E s \in Sessions : pc[s] # "creating" /\ pc'[s] = "creating")
                => Captains = {} \/ "twice" \in torn ]_vars
  <2> SUFFICES ASSUME Inv, Next, NEW s \in Sessions, pc[s] # "creating", pc'[s] = "creating",
                      "twice" \notin torn
               PROVE  Captains = {}
    OBVIOUS
  <2>1. Create(s)
    BY CreatingComes DEF Inv, Kinds
  <2>2. Counted = {}
    BY <2>1, AloneToCreate DEF Inv, Kinds
  <2> QED
    BY <2>2 DEF Counted, Captains
<1> QED
  BY <1>1, InvAlways, PTL DEF Spec, NeverClearedUnderCaptains
=============================================================================
