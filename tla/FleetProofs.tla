---------------------------- MODULE FleetProofs ----------------------------
(***************************************************************************)
(* For any number of ships and cells: tractor beams have two ends,         *)
(* whatever is destroyed, left or raised at either of them, and the board, *)
(* the Romulan on it, becomes untrue by the careless steps alone.          *)
(***************************************************************************)
EXTENDS Fleet, TLAPS

Inv == TypeOK /\ BeamsPaired

USE DEF At, Craft

\* SETDSP keeps the board's type.
LEMMA PutTyped ==
    ASSUME NEW brd \in [Cells -> Craft \cup {0}], NEW x, NEW w \in Craft \cup {0}
    PROVE  Put(brd, x, w) \in [Cells -> Craft \cup {0}]
BY DEF Put

LEMMA ClearTyped ==
    ASSUME NEW brd \in [Cells -> Craft \cup {0}], NEW x
    PROVE  Clear(brd, x) \in [Cells -> Craft \cup {0}]
BY PutTyped DEF Clear

\* TRCOFF takes away both ends of one beam and nothing else.
LEMMA ReleasedEnds ==
    ASSUME TypeOK, BeamsPaired, NEW w \in Ships
    PROVE  /\ Released(w) \in [Ships -> Ships \cup {0}]
           /\ \A v \in Ships : Released(w)[v] =
                 IF v = w \/ (trstat[w] # 0 /\ v = trstat[w]) THEN 0 ELSE trstat[v]
<1> USE FleetAssumption DEF FleetAssumption
<1>1. CASE trstat[w] = 0
  BY <1>1 DEF Released, TypeOK
<1>2. CASE trstat[w] # 0
  <2>1. trstat[w] \in Ships
    BY <1>2 DEF TypeOK
  <2> QED
    BY <1>2, <2>1 DEF Released, BeamOff, TypeOK
<1> QED
  BY <1>1, <1>2

\* A command's stage is one of the stages.
LEMMA GotoTyped ==
    ASSUME TypeOK, NEW w \in Ships,
           NEW stage \in {"away", "ready", "command", "raising", "leaving", "spoken"}, Goto(w, stage)
    PROVE  /\ cmd' \in [Ships -> Commands]
           /\ cmd'[w].at = stage
           /\ \A v \in Ships : v # w => cmd'[v] = cmd[v]
<1>1. [at |-> stage] \in Commands
  BY DEF Commands
<1> QED
  BY <1>1 DEF Goto, TypeOK

LEMMA Going == ASSUME TypeOK, NEW w \in Ships, At(w, {"waiting"}) PROVE cmd[w].to \in Cells
BY DEF TypeOK, Commands

LEMMA Aiming == ASSUME TypeOK, NEW w \in Ships, At(w, {"aimed"}) PROVE cmd[w].target \in Craft
BY DEF TypeOK, Commands

LEMMA InvInit == Init => Inv
<1> SUFFICES ASSUME Init PROVE Inv
  OBVIOUS
<1>1. \A w \in Ships : cmd[w] \in Commands /\ cmd[w].at = "away"
  BY DEF Init, Commands
<1>2. TypeOK
  BY <1>1 DEF Init, TypeOK
<1>3. BeamsPaired
  BY DEF Init, BeamsPaired
<1> QED
  BY <1>2, <1>3 DEF Inv

\* What a step does to the ships by moving or placing them.
LEMMA MovedTyped ==
    ASSUME TypeOK, NEW w \in Ships, NEW to \in Cells, NEW tow \in Cells, NEW stored \in Cells,
           Moved(w, to, tow, stored)
    PROVE  /\ board' \in [Cells -> Craft \cup {0}]
           /\ pos' \in [Craft -> Cells \cup {Nowhere}]
           /\ \A v \in Craft : pos[v] \in Cells => pos'[v] \in Cells
           /\ UNCHANGED <<up, alive, trstat>>
<1> DEFINE alone == Put(Clear(board, pos[w]), to, w)
<1>1. alone \in [Cells -> Craft \cup {0}]
  BY ClearTyped, PutTyped DEF TypeOK
<1>2. CASE trstat[w] = 0
  BY <1>1, <1>2 DEF Moved, TypeOK
<1>3. CASE trstat[w] # 0
  <2> DEFINE p == trstat[w]
             towed == IF pos[p] \in Cells THEN alone[pos[p]] ELSE 0
  <2>1. towed \in Craft \cup {0}
    BY <1>1
  <2>2. Clear(Put(alone, tow, towed), pos[p]) \in [Cells -> Craft \cup {0}]
    BY <1>1, <2>1, ClearTyped, PutTyped
  <2>3. board' = Clear(Put(alone, tow, towed), pos[p])
    BY <1>3 DEF Moved
  <2>4. pos' = [pos EXCEPT ![w] = to, ![p] = stored]
    BY <1>3 DEF Moved
  <2>5. UNCHANGED <<up, alive, trstat>>
    BY DEF Moved
  <2> QED
    BY <2>2, <2>3, <2>4, <2>5 DEF TypeOK
<1> QED
  BY <1>2, <1>3

\* What a hit does to a ship.
LEMMA HitTyped ==
    ASSUME TypeOK, NEW w \in Craft, Damaged(w) \/ Pushed(w) \/ Destroyed(w)
    PROVE  /\ board' \in [Cells -> Craft \cup {0}]
           /\ pos' \in [Craft -> Cells \cup {Nowhere}]
           /\ up' \in [Ships -> BOOLEAN]
           /\ \A v \in Ships : up'[v] => up[v]
           /\ alive' \in [Craft -> {"free", "alive", "dead"}]
           /\ \A v \in Craft : alive'[v] = "alive" => pos'[v] \in Cells
           /\ \A v \in Craft : alive'[v] = "free" => alive[v] = "free"
<1>1. CASE Damaged(w)
  BY <1>1 DEF Damaged, Shaken, TypeOK
<1>2. CASE Pushed(w)
  <2>1. PICK y \in Cells :
          /\ board' = Put(Clear(board, pos[w]), y, w)
          /\ pos' = [pos EXCEPT ![w] = y]
    BY <1>2 DEF Pushed
  <2>2. board' \in [Cells -> Craft \cup {0}]
    BY <2>1, ClearTyped, PutTyped DEF TypeOK
  <2>3. /\ pos' \in [Craft -> Cells \cup {Nowhere}]
        /\ \A v \in Craft : pos[v] \in Cells => pos'[v] \in Cells
    BY <2>1 DEF TypeOK
  <2>4. up' \in [Ships -> BOOLEAN] /\ \A v \in Ships : up'[v] => up[v]
    BY <1>2 DEF Pushed, Shaken, TypeOK
  <2>5. UNCHANGED alive
    BY <1>2 DEF Pushed
  <2> QED
    BY <2>2, <2>3, <2>4, <2>5 DEF TypeOK
<1>3. CASE Destroyed(w)
  BY <1>3, ClearTyped DEF Destroyed, TypeOK
<1> QED
  BY <1>1, <1>2, <1>3

\* A step that leaves the beams or takes one away, puts no ship back, raises no
\* shields and lets no captain out of SHIELD UP keeps the pairs.
LEMMA PairsKept ==
    ASSUME Inv, TypeOK',
           \/ trstat' = trstat
           \/ \E u \in Ships : trstat' = Released(u),
           \A v \in Ships : alive'[v] = "free" => alive[v] = "free" \/ trstat'[v] = 0,
           \A v \in Ships : up'[v] /\ trstat'[v] # 0 =>
               \/ cmd'[v].at \in {"raising", "leaving"}
               \/ up[v] /\ cmd'[v] = cmd[v]
    PROVE  BeamsPaired'
<1> USE FleetAssumption DEF FleetAssumption
<1> SUFFICES ASSUME NEW w \in Ships, trstat'[w] # 0
             PROVE  /\ trstat'[trstat'[w]] = w
                    /\ trstat'[w] # w /\ Side[trstat'[w]] = Side[w]
                    /\ alive'[w] # "free"
                    /\ up'[w] => cmd'[w].at \in {"raising", "leaving"}
  BY DEF BeamsPaired
<1>1. /\ trstat'[w] = trstat[w] /\ trstat[w] \in Ships
      /\ trstat'[trstat[w]] = trstat[trstat[w]]
  <2>1. CASE trstat' = trstat
    BY <2>1 DEF Inv, TypeOK
  <2>2. ASSUME NEW u \in Ships, trstat' = Released(u)
        PROVE  /\ trstat'[w] = trstat[w] /\ trstat[w] \in Ships
               /\ trstat'[trstat[w]] = trstat[trstat[w]]
    <3>1. \A v \in Ships : trstat'[v] =
             IF v = u \/ (trstat[u] # 0 /\ v = trstat[u]) THEN 0 ELSE trstat[v]
      BY <2>2, ReleasedEnds DEF Inv
    <3>2. w # u /\ ~(trstat[u] # 0 /\ w = trstat[u]) /\ trstat'[w] = trstat[w]
      BY <3>1
    <3>3. trstat[w] \in Ships /\ trstat[trstat[w]] = w
      BY <3>2 DEF Inv, TypeOK, BeamsPaired
    <3>4. trstat[w] # u /\ ~(trstat[u] # 0 /\ trstat[w] = trstat[u])
      BY <3>2, <3>3 DEF Inv, TypeOK, BeamsPaired
    <3> QED
      BY <3>1, <3>2, <3>3, <3>4
  <2> QED
    BY <2>1, <2>2
<1>2. /\ trstat[trstat[w]] = w /\ trstat[w] # w /\ Side[trstat[w]] = Side[w]
      /\ alive[w] # "free" /\ up[w] => At(w, {"raising", "leaving"})
  BY <1>1 DEF Inv, BeamsPaired
<1> QED
  BY <1>1, <1>2 DEF Inv, BeamsPaired

\* The captains who come and go.
LEMMA ComingsKeep ==
    ASSUME Inv, NEW w \in Ships,
           \/ \E x \in Cells : Enter(w, x)
           \/ StartCommand(w) \/ OtherCommand(w) \/ Leave(w) \/ Free(w)
    PROVE  Inv'
<1> USE FleetAssumption DEF FleetAssumption, Inv
<1>1. ASSUME NEW x \in Cells, Enter(w, x) PROVE Inv'
  <2>1. TypeOK'
    BY <1>1, GotoTyped, PutTyped DEF Enter, TypeOK
  <2>2. trstat[w] = 0
    BY <1>1 DEF Enter, BeamsPaired
  <2>3. BeamsPaired'
    BY <1>1, <2>1, <2>2, GotoTyped, PairsKept DEF Enter, TypeOK
  <2> QED
    BY <2>1, <2>3
<1>2. CASE StartCommand(w) \/ OtherCommand(w) \/ Leave(w)
  <2>1. /\ \E stage \in {"ready", "command", "leaving"} : Goto(w, stage)
        /\ cmd[w].at \notin {"away", "leaving"}
        /\ cmd[w].at = "raising" => Goto(w, "leaving")
        /\ UNCHANGED <<board, pos, up, alive, trstat>>
    BY <1>2 DEF StartCommand, OtherCommand, Leave
  <2>2. TypeOK'
    BY <2>1, GotoTyped DEF TypeOK
  <2>3. \A v \in Ships : up'[v] /\ trstat'[v] # 0 =>
          cmd'[v].at \in {"raising", "leaving"} \/ (up[v] /\ cmd'[v] = cmd[v])
    BY <2>1, GotoTyped DEF BeamsPaired
  <2>4. BeamsPaired'
    BY <2>1, <2>2, <2>3, PairsKept
  <2> QED
    BY <2>2, <2>4
<1>3. CASE Free(w)
  <2>1. /\ Released(w) \in [Ships -> Ships \cup {0}]
        /\ Released(w)[w] = 0
    BY ReleasedEnds
  <2>2. TypeOK'
    BY <1>3, <2>1, GotoTyped, ClearTyped DEF Free, TypeOK
  <2>3. BeamsPaired'
    BY <1>3, <2>1, <2>2, GotoTyped, PairsKept DEF Free, TypeOK
  <2> QED
    BY <2>2, <2>3
<1> QED
  BY <1>1, <1>2, <1>3

\* MOVE, at once or after a wait.
LEMMA MovesKeep ==
    ASSUME Inv, NEW w \in Ships,
           \/ \E to, tow, stored \in Cells : Move(w, to, tow, stored)
           \/ \E to \in Cells : MoveWaits(w, to)
           \/ \E tow, stored \in Cells : MoveOn(w, tow, stored)
    PROVE  Inv'
<1> USE FleetAssumption DEF FleetAssumption, Inv
<1>1. ASSUME NEW to \in Cells, NEW tow \in Cells, NEW stored \in Cells,
             Moved(w, to, tow, stored), Goto(w, "ready"),
             cmd[w].at \in {"command", "waiting"}
      PROVE  Inv'
  <2>1. /\ board' \in [Cells -> Craft \cup {0}]
        /\ pos' \in [Craft -> Cells \cup {Nowhere}]
        /\ \A v \in Craft : pos[v] \in Cells => pos'[v] \in Cells
        /\ UNCHANGED <<up, alive, trstat>>
    BY <1>1, MovedTyped
  <2>2. TypeOK'
    BY <1>1, <2>1, GotoTyped DEF TypeOK
  <2>3. BeamsPaired'
    BY <1>1, <2>1, <2>2, GotoTyped, PairsKept DEF BeamsPaired
  <2> QED
    BY <2>2, <2>3
<1>2. ASSUME NEW to \in Cells, NEW tow \in Cells, NEW stored \in Cells,
             Move(w, to, tow, stored)
      PROVE  Inv'
  BY <1>1, <1>2 DEF Move, Commanded
<1>3. ASSUME NEW tow \in Cells, NEW stored \in Cells, MoveOn(w, tow, stored)
      PROVE  Inv'
  <2>1. cmd[w].to \in Cells
    BY <1>3, Going DEF MoveOn
  <2> QED
    BY <1>1, <1>3, <2>1 DEF MoveOn
<1>4. ASSUME NEW to \in Cells, MoveWaits(w, to)
      PROVE  Inv'
  <2>1. [at |-> "waiting", to |-> to] \in Commands
    BY DEF Commands
  <2>2. TypeOK'
    BY <1>4, <2>1 DEF MoveWaits, Commanded, TypeOK
  <2>3. BeamsPaired'
    BY <1>4, <2>2, PairsKept DEF MoveWaits, Commanded, TypeOK, BeamsPaired
  <2> QED
    BY <2>2, <2>3
<1> QED
  BY <1>2, <1>3, <1>4

\* Shields and beams.
LEMMA BeamsKeep ==
    ASSUME Inv, NEW w \in Ships,
           \/ RaiseShields(w) \/ ShieldsAreUp(w) \/ LowerShields(w) \/ TractorOff(w)
           \/ \E v \in Ships : Tractor(w, v)
    PROVE  Inv'
<1> USE FleetAssumption DEF FleetAssumption, Inv
<1>1. CASE RaiseShields(w)
  <2>1. TypeOK'
    BY <1>1, GotoTyped DEF RaiseShields, Commanded, TypeOK
  <2> QED
    BY <1>1, <2>1, GotoTyped, PairsKept DEF RaiseShields, TypeOK
<1>2. CASE ShieldsAreUp(w) \/ TractorOff(w)
  <2>1. /\ trstat' = Released(w) /\ Goto(w, "ready")
        /\ cmd[w].at # "away"
        /\ UNCHANGED <<board, pos, up, alive>>
    BY <1>2 DEF ShieldsAreUp, TractorOff, Commanded, Released
  <2>2. Released(w) \in [Ships -> Ships \cup {0}] /\ Released(w)[w] = 0
    BY ReleasedEnds
  <2>3. TypeOK'
    BY <2>1, <2>2, GotoTyped DEF TypeOK
  <2>4. BeamsPaired'
    BY <2>1, <2>2, <2>3, GotoTyped, PairsKept
  <2> QED
    BY <2>3, <2>4
<1>3. CASE LowerShields(w)
  <2>1. TypeOK'
    BY <1>3, GotoTyped DEF LowerShields, Commanded, TypeOK
  <2> QED
    BY <1>3, <2>1, GotoTyped, PairsKept DEF LowerShields, TypeOK
<1>4. ASSUME NEW v \in Ships, Tractor(w, v) PROVE Inv'
  <2>1. /\ cmd[w].at = "command" /\ Goto(w, "ready") /\ v # w
        /\ Side[v] = Side[w] /\ alive[v] = "alive"
        /\ trstat[w] = 0 /\ trstat[v] = 0 /\ ~up[w] /\ ~up[v]
        /\ trstat' = [trstat EXCEPT ![v] = w, ![w] = v]
        /\ UNCHANGED <<board, pos, up, alive>>
    BY <1>4 DEF Tractor, Commanded
  <2>2. TypeOK'
    BY <2>1, GotoTyped DEF TypeOK
  <2>3. alive[w] # "free"
    BY <2>1 DEF TypeOK
  <2>4. \A u \in Ships : u # w /\ u # v /\ trstat[u] # 0 => trstat[u] # w /\ trstat[u] # v
    BY <2>1 DEF BeamsPaired
  <2>5. BeamsPaired'
    <3> SUFFICES ASSUME NEW u \in Ships, trstat'[u] # 0
                 PROVE  /\ trstat'[trstat'[u]] = u
                        /\ trstat'[u] # u /\ Side[trstat'[u]] = Side[u]
                        /\ alive'[u] # "free"
                        /\ up'[u] => cmd'[u].at \in {"raising", "leaving"}
      BY DEF BeamsPaired
    <3>1. CASE u = w \/ u = v
      BY <2>1, <2>3, <3>1 DEF TypeOK
    <3>2. CASE u # w /\ u # v
      <4>1. trstat'[u] = trstat[u] /\ trstat[u] \in Ships /\ trstat'[trstat[u]] = trstat[trstat[u]]
        BY <2>1, <2>4, <3>2 DEF TypeOK
      <4>2. cmd'[u] = cmd[u]
        BY <2>1, <3>2, GotoTyped
      <4> QED
        BY <2>1, <4>1, <4>2 DEF BeamsPaired
    <3> QED
      BY <3>1, <3>2
  <2> QED
    BY <2>2, <2>5
<1> QED
  BY <1>1, <1>2, <1>3, <1>4

\* A phaser of a captain or of the Romulan, at whatever it was aimed at.
LEMMA PhaserKeeps ==
    ASSUME Inv, NEW w \in Ships, NEW t \in Craft, Phasered(t),
           cmd[w].at \in {"aimed", "spoken", "sighted"}, Goto(w, "ready"), trstat' = trstat
    PROVE  Inv'
<1> USE FleetAssumption DEF FleetAssumption, Inv
<1>1. /\ board' \in [Cells -> Craft \cup {0}]
      /\ pos' \in [Craft -> Cells \cup {Nowhere}]
      /\ up' \in [Ships -> BOOLEAN]
      /\ \A v \in Ships : up'[v] => up[v]
      /\ alive' \in [Craft -> {"free", "alive", "dead"}]
      /\ \A v \in Craft : alive'[v] = "alive" => pos'[v] \in Cells
      /\ \A v \in Craft : alive'[v] = "free" => alive[v] = "free"
  <2>1. CASE Damaged(t) \/ Destroyed(t)
    BY <2>1, HitTyped
  <2>2. CASE UNCHANGED <<board, pos, up, alive>>
    BY <2>2 DEF TypeOK
  <2> QED
    BY <2>1, <2>2 DEF Phasered
<1>2. TypeOK'
  BY <1>1, GotoTyped DEF TypeOK
<1>3. ASSUME NEW v \in Ships, up'[v], trstat'[v] # 0
      PROVE  up[v] /\ cmd'[v] = cmd[v]
  <2>1. up[v]
    BY <1>1, <1>3
  <2>2. v # w
    BY <1>3, <2>1 DEF BeamsPaired
  <2> QED
    BY <2>1, <2>2, GotoTyped
<1>4. BeamsPaired'
  BY <1>1, <1>2, <1>3, PairsKept
<1> QED
  BY <1>2, <1>4

\* Weapons: they raise no shields and free no ship.
LEMMA WeaponsKeep ==
    ASSUME Inv,
           \/ \E x \in Cells : Torpedo(x) \/ Nova(x) \/ TorpedoRomulan(x)
           \/ \E w \in Craft : PhaserHits(w)
           \/ \E w \in Ships : Fire(w) \/ \E x \in Cells : Aim(w, x)
    PROVE  Inv'
<1> USE FleetAssumption DEF FleetAssumption, Inv
<1>1. ASSUME NEW w \in Craft, Damaged(w) \/ Pushed(w) \/ Destroyed(w),
             (w \in Ships /\ trstat' = Released(w)) \/ trstat' = trstat,
             cmd' = cmd
      PROVE  Inv'
  <2>1. TypeOK'
    BY <1>1, HitTyped, ReleasedEnds DEF TypeOK
  <2>2. BeamsPaired'
    BY <1>1, <2>1, HitTyped, PairsKept
  <2> QED
    BY <2>1, <2>2
<1>2. ASSUME NEW x \in Cells, Torpedo(x) PROVE Inv'
  <2> DEFINE w == board[x]
  <2>1. w \in Ships
    BY <1>2 DEF Torpedo, TypeOK
  <2>2. CASE alive[w] = "alive"
    BY <1>1, <1>2, <2>1, <2>2 DEF Torpedo
  <2>3. CASE alive[w] # "alive"
    <3>1. trstat' = Released(w) /\ UNCHANGED <<board, pos, up, alive, cmd>>
      BY <1>2, <2>3 DEF Torpedo
    <3>2. TypeOK'
      BY <2>1, <3>1, ReleasedEnds DEF TypeOK
    <3>3. BeamsPaired'
      BY <2>1, <3>1, <3>2, PairsKept
    <3> QED
      BY <3>2, <3>3
  <2> QED
    BY <2>2, <2>3
<1>3. ASSUME NEW x \in Cells, Nova(x) PROVE Inv'
  <2>1. board[x] \in Ships
    BY <1>3 DEF Nova, TypeOK
  <2> QED
    BY <1>1, <1>3, <2>1 DEF Nova
<1>4. ASSUME NEW w \in Craft, PhaserHits(w) PROVE Inv'
  BY <1>1, <1>4 DEF PhaserHits
<1>5. ASSUME NEW w \in Ships, Fire(w) PROVE Inv'
  <2>1. cmd[w].target \in Craft
    BY <1>5, Aiming DEF Fire
  <2> QED
    BY <1>5, <2>1, PhaserKeeps DEF Fire
<1>6. ASSUME NEW w \in Ships, NEW x \in Cells, Aim(w, x) PROVE Inv'
  <2>1. [at |-> "aimed", target |-> board[x]] \in Commands
    BY <1>6 DEF Aim, Commands, TypeOK
  <2>2. TypeOK'
    BY <1>6, <2>1 DEF Aim, Commanded, TypeOK
  <2>3. BeamsPaired'
    BY <1>6, <2>2, PairsKept DEF Aim, Commanded, TypeOK, BeamsPaired
  <2> QED
    BY <2>2, <2>3
<1>7. ASSUME NEW x \in Cells, TorpedoRomulan(x) PROVE Inv'
  BY <1>1, <1>7 DEF TorpedoRomulan
<1> QED
  BY <1>2, <1>3, <1>4, <1>5, <1>6, <1>7

\* The Romulan's turn.
LEMMA RomulanKeeps ==
    ASSUME Inv, NEW w \in Ships,
           \/ \E x \in Cells : RomulanArrives(w, x)
           \/ \E v \in Ships : RomulanMoves(w, v) \/ RomulanFires(w, v)
           \/ RomulanRests(w)
    PROVE  Inv'
<1> USE FleetAssumption DEF FleetAssumption, Inv
<1>1. ASSUME NEW x \in Cells, RomulanArrives(w, x) PROVE Inv'
  <2>1. TypeOK'
    BY <1>1, GotoTyped, PutTyped DEF RomulanArrives, HasTurn, TypeOK
  <2>2. \A v \in Ships : up'[v] /\ trstat'[v] # 0 => up[v] /\ cmd'[v] = cmd[v]
    BY <1>1, GotoTyped DEF RomulanArrives, HasTurn, BeamsPaired
  <2>3. BeamsPaired'
    BY <1>1, <2>1, <2>2, PairsKept DEF RomulanArrives, TypeOK
  <2> QED
    BY <2>1, <2>3
<1>2. ASSUME NEW v \in Ships, RomulanMoves(w, v) PROVE Inv'
  <2> DEFINE sighted == [at |-> "sighted", target |-> v]
  <2>1. sighted \in Commands
    BY DEF Commands
  <2>2. /\ cmd[w].at = "ready" /\ cmd' = [cmd EXCEPT ![w] = sighted]
        /\ UNCHANGED <<up, alive, trstat>> /\ alive[Rom] = "alive"
    BY <1>2 DEF RomulanMoves, HasTurn
  <2>3. /\ board' \in [Cells -> Craft \cup {0}]
        /\ pos' \in [Craft -> Cells \cup {Nowhere}]
        /\ \A u \in Craft : pos[u] \in Cells => pos'[u] \in Cells
    BY <1>2, ClearTyped, PutTyped DEF RomulanMoves, Relocated, TypeOK
  <2> HIDE DEF sighted
  <2>4. cmd' \in [Ships -> Commands] /\ \A u \in Ships : u # w => cmd'[u] = cmd[u]
    BY <2>1, <2>2 DEF TypeOK
  <2>5. cmd'[w].at = "sighted"
    BY <2>2 DEF TypeOK, sighted
  <2>6. TypeOK'
    BY <2>2, <2>3, <2>4, <2>5 DEF TypeOK
  <2>7. \A u \in Ships : up'[u] /\ trstat'[u] # 0 => up[u] /\ cmd'[u] = cmd[u]
    BY <2>2, <2>4 DEF BeamsPaired
  <2>8. BeamsPaired'
    BY <2>2, <2>6, <2>7, PairsKept
  <2> QED
    BY <2>6, <2>8
<1>3. ASSUME NEW v \in Ships, RomulanFires(w, v) PROVE Inv'
  BY <1>3, PhaserKeeps DEF RomulanFires
<1>4. CASE RomulanRests(w)
  <2>1. TypeOK'
    BY <1>4, GotoTyped DEF RomulanRests, TypeOK
  <2>2. \A v \in Ships : up'[v] /\ trstat'[v] # 0 => up[v] /\ cmd'[v] = cmd[v]
    BY <1>4, GotoTyped DEF RomulanRests, BeamsPaired
  <2>3. BeamsPaired'
    BY <1>4, <2>1, <2>2, PairsKept DEF RomulanRests
  <2> QED
    BY <2>1, <2>3
<1> QED
  BY <1>1, <1>2, <1>3, <1>4

LEMMA InvStep == Inv /\ [Next]_vars => Inv'
<1> SUFFICES ASSUME Inv, [Next]_vars PROVE Inv'
  OBVIOUS
<1>1. CASE Next
  BY <1>1, ComingsKeep, MovesKeep, BeamsKeep, WeaponsKeep, RomulanKeeps
     DEF Next, Begins, GoesOn
<1>2. CASE UNCHANGED vars
  BY <1>2 DEF vars, Inv, TypeOK, BeamsPaired
<1> QED
  BY <1>1, <1>2

THEOREM InvAlways == Spec => []Inv
BY InvInit, InvStep, PTL DEF Spec

\* The variables keep their types; a live ship is somewhere, and a captain's ship
\* is never free.
THEOREM FleetTyped == Spec => []TypeOK
BY InvAlways, PTL DEF Inv

\* Each tractor beam has two ends, on ships of one side that are not free, and
\* none with raised shields unless SHIELD UP is about to drop it or the captain
\* is leaving: whatever weapons, FREE, SHIELD and TRACTOR interleave to.
THEOREM BeamsArePairs == Spec => []BeamsPaired
BY InvAlways, PTL DEF Inv

-----------------------------------------------------------------------------
\* The two halves of BoardTrue.
Shown ==
    /\ \A w \in Craft : alive[w] = "alive" => board[pos[w]] = w
    /\ \A x \in Cells : board[x] # 0 => alive[board[x]] = "alive" /\ pos[board[x]] = x

Manned == \A w \in Ships : alive[w] # "free" => ~At(w, {"away"})

\* Craft w goes: it was shown where it was, or nothing was.
LEMMA ShownWithout ==
    ASSUME Inv, Shown, NEW w \in Craft, ~CellTaken(w),
           board' = Clear(board, pos[w]),
           \A v \in Craft : v # w => pos'[v] = pos[v] /\ alive'[v] = alive[v],
           alive'[w] # "alive"
    PROVE  Shown'
<1> USE FleetAssumption DEF FleetAssumption
<1>1. \A x \in Cells : board'[x] = IF x = pos[w] THEN 0 ELSE board[x]
  BY DEF Clear, Put
<1>2. \A x \in Cells : board'[x] # w
  BY <1>1 DEF Shown, CellTaken, Inv, TypeOK
<1>3. \A x \in Cells : board'[x] # 0 => board'[x] = board[x] /\ board[x] \in Craft \ {w}
  BY <1>1, <1>2 DEF Inv, TypeOK
<1>4. ASSUME NEW v \in Craft, alive'[v] = "alive"
      PROVE  board'[pos'[v]] = v
  <2>1. v # w /\ pos'[v] = pos[v] /\ alive[v] = "alive"
    BY <1>4
  <2>2. board[pos[v]] = v /\ pos[v] \in Cells
    BY <2>1 DEF Shown, Inv, TypeOK
  <2>3. pos[v] # pos[w]
    BY <2>1, <2>2 DEF Shown, CellTaken, Inv, TypeOK
  <2> QED
    BY <1>1, <2>1, <2>2, <2>3
<1>5. ASSUME NEW x \in Cells, board'[x] # 0
      PROVE  alive'[board'[x]] = "alive" /\ pos'[board'[x]] = x
  <2>1. board'[x] = board[x] /\ board[x] \in Craft \ {w}
    BY <1>3, <1>5
  <2>2. alive[board[x]] = "alive" /\ pos[board[x]] = x
    BY <1>5, <2>1 DEF Shown
  <2> QED
    BY <2>1, <2>2
<1> QED
  BY <1>4, <1>5 DEF Shown

\* Craft w is shown at an empty cell, and no longer where it was if it was alive.
LEMMA ShownAt ==
    ASSUME Inv, Shown, NEW w \in Craft, NEW y \in Cells, board[y] = 0,
           \/ alive[w] = "alive" /\ board' = Put(Clear(board, pos[w]), y, w)
           \/ alive[w] # "alive" /\ board' = Put(board, y, w),
           pos' = [pos EXCEPT ![w] = y],
           \A v \in Craft : v # w => alive'[v] = alive[v],
           alive'[w] = "alive"
    PROVE  Shown'
<1> USE FleetAssumption DEF FleetAssumption
<1> DEFINE from == IF alive[w] = "alive" THEN pos[w] ELSE Nowhere
<1>1. \A x \in Cells : board'[x] = IF x = y THEN w ELSE IF x = from THEN 0 ELSE board[x]
  BY DEF Put, Clear
<1>2. \A v \in Craft : pos'[v] = IF v = w THEN y ELSE pos[v]
  BY DEF Inv, TypeOK
<1>3. ASSUME NEW v \in Craft, alive'[v] = "alive"
      PROVE  board'[pos'[v]] = v
  <2>1. CASE v = w
    BY <1>1, <1>2, <2>1
  <2>2. CASE v # w
    <3>1. alive[v] = "alive" /\ board[pos[v]] = v /\ pos[v] \in Cells
      BY <1>3, <2>2 DEF Shown, Inv, TypeOK
    <3>2. pos[v] # y
      BY <3>1
    <3>3. pos[v] # from
      BY <2>2, <3>1 DEF Shown
    <3> QED
      BY <1>1, <1>2, <2>2, <3>1, <3>2, <3>3
  <2> QED
    BY <2>1, <2>2
<1>4. ASSUME NEW x \in Cells, board'[x] # 0
      PROVE  alive'[board'[x]] = "alive" /\ pos'[board'[x]] = x
  <2>1. CASE x = y
    BY <1>1, <1>2, <2>1
  <2>2. CASE x # y
    <3>1. board'[x] = board[x] /\ x # from /\ board[x] \in Craft
      BY <1>1, <1>4, <2>2 DEF Inv, TypeOK
    <3>2. alive[board[x]] = "alive" /\ pos[board[x]] = x
      BY <1>4, <3>1 DEF Shown
    <3>3. board[x] # w
      BY <3>1, <3>2
    <3> QED
      BY <1>2, <3>1, <3>2, <3>3
  <2> QED
    BY <2>1, <2>2
<1> QED
  BY <1>3, <1>4, Zenon DEF Shown

\* Ship w goes to an empty cell with what its beam holds: to another empty cell,
\* or to the one that ship w leaves.
LEMMA ShownTowed ==
    ASSUME Inv, Shown, NEW w \in Ships, NEW to \in Cells, NEW tow \in Cells,
           board[to] = 0, tow # to, alive[w] = "alive", trstat[w] # 0,
           ~BadTow(w, tow, tow), Moved(w, to, tow, tow)
    PROVE  Shown'
<1> USE FleetAssumption DEF FleetAssumption
<1> DEFINE p == trstat[w]
<1>1. /\ p \in Ships /\ p # w /\ alive[p] = "alive"
      /\ pos[p] \in Cells /\ board[pos[p]] = p
      /\ pos[w] \in Cells /\ board[pos[w]] = w
      /\ board[tow] = 0 \/ tow = pos[w]
  <2>1. p \in Ships /\ p # w /\ alive[p] = "alive"
    BY DEF Inv, TypeOK, BeamsPaired, BadTow
  <2>2. pos[p] \in Cells /\ pos[w] \in Cells
    BY <2>1 DEF Inv, TypeOK
  <2>3. board[pos[p]] = p /\ board[pos[w]] = w
    BY <2>1 DEF Shown
  <2>4. board[tow] = 0 \/ tow = pos[w]
    BY DEF BadTow
  <2> QED
    BY <2>1, <2>2, <2>3, <2>4
<1>2. pos[p] # to /\ pos[p] # pos[w] /\ pos[p] # tow /\ pos[w] # to
  BY <1>1
<1>3. \A x \in Cells : board'[x] = IF x = pos[p] THEN 0 ELSE IF x = tow THEN p
                                   ELSE IF x = to THEN w
                                   ELSE IF x = pos[w] THEN 0 ELSE board[x]
  BY <1>1, <1>2 DEF Moved, Clear, Put
<1>4. \A v \in Craft : pos'[v] = IF v = p THEN tow ELSE IF v = w THEN to ELSE pos[v]
  BY <1>1 DEF Moved, Inv, TypeOK
<1>5. alive' = alive
  BY DEF Moved
<1>6. ASSUME NEW v \in Craft, alive'[v] = "alive"
      PROVE  board'[pos'[v]] = v
  <2>1. CASE v \in {w, p}
    BY <1>1, <1>2, <1>3, <1>4, <2>1
  <2>2. CASE v \notin {w, p}
    <3>1. pos[v] \in Cells /\ board[pos[v]] = v /\ pos'[v] = pos[v]
      BY <1>4, <1>5, <1>6, <2>2 DEF Inv, TypeOK, Shown
    <3>2. pos[v] \notin {to, tow, pos[w], pos[p]}
      BY <1>1, <2>2, <3>1
    <3> QED
      BY <1>3, <3>1, <3>2
  <2> QED
    BY <2>1, <2>2
<1>7. ASSUME NEW x \in Cells, board'[x] # 0
      PROVE  alive'[board'[x]] = "alive" /\ pos'[board'[x]] = x
  <2>1. CASE x \in {to, tow}
    BY <1>1, <1>2, <1>3, <1>4, <1>5, <2>1
  <2>2. CASE x \notin {to, tow}
    <3>1. board'[x] = board[x] /\ x \notin {pos[p], pos[w]} /\ board[x] \in Craft
      BY <1>3, <1>7, <2>2 DEF Inv, TypeOK
    <3>2. alive[board[x]] = "alive" /\ pos[board[x]] = x
      BY <1>7, <3>1 DEF Shown
    <3>3. board[x] \notin {w, p}
      BY <3>1, <3>2
    <3> QED
      BY <1>4, <1>5, <3>1, <3>2, <3>3
  <2> QED
    BY <2>1, <2>2
<1> QED
  BY <1>6, <1>7, Zenon DEF Shown

\* MOVE to an empty cell of a ship that is alive, with a tow that fits.
LEMMA ShownMoved ==
    ASSUME Inv, Shown, NEW w \in Ships, NEW to \in Cells, NEW tow \in Cells, NEW stored \in Cells,
           board[to] = 0, tow # to, alive[w] = "alive",
           ~BadTow(w, tow, stored), Moved(w, to, tow, stored)
    PROVE  Shown'
<1> USE FleetAssumption DEF FleetAssumption
<1>1. CASE trstat[w] # 0
  <2>1. stored = tow
    BY <1>1 DEF BadTow
  <2> QED
    BY <1>1, <2>1, ShownTowed
<1>2. CASE trstat[w] = 0
  <2>1. board' = Put(Clear(board, pos[w]), to, w) /\ pos' = [pos EXCEPT ![w] = to] /\ alive' = alive
    BY <1>2 DEF Moved
  <2> QED
    BY <2>1, ShownAt
<1> QED
  BY <1>1, <1>2

\* Only the captain of ship w goes on, to another stage.
LEMMA MannedStill ==
    ASSUME Inv, Manned, NEW w \in Ships,
           NEW stage \in {"ready", "command", "raising", "leaving", "spoken"}, Goto(w, stage),
           \A v \in Ships : v # w /\ alive'[v] # "free" => alive[v] # "free"
    PROVE  Manned'
<1>1. /\ cmd'[w].at # "away"
      /\ \A v \in Ships : v # w => cmd'[v] = cmd[v]
  BY GotoTyped DEF Inv
<1> QED
  BY <1>1 DEF Manned

\* A phaser, at a craft that is there or was destroyed and left its cell empty.
LEMMA PhaseredTrue ==
    ASSUME Inv, Shown, Manned, NEW w \in Ships, NEW t \in Craft, Phasered(t),
           ~CellTaken(t), alive[t] # "free", Goto(w, "ready")
    PROVE  Shown' /\ Manned'
<1> USE FleetAssumption DEF FleetAssumption
<1>1. CASE UNCHANGED <<board, pos, alive>>
  <2>1. Shown'
    BY <1>1 DEF Shown
  <2>2. Manned'
    BY <1>1, MannedStill
  <2> QED
    BY <2>1, <2>2
<1>2. CASE Destroyed(t)
  <2>1. /\ board' = Clear(board, pos[t]) /\ pos' = pos
        /\ alive'[t] = "dead" /\ \A v \in Craft : v # t => alive'[v] = alive[v]
    BY <1>2 DEF Destroyed, Inv, TypeOK
  <2>2. Shown'
    BY <2>1, ShownWithout
  <2>3. Manned'
    BY <2>1, MannedStill
  <2> QED
    BY <2>2, <2>3
<1> QED
  BY <1>1, <1>2 DEF Phasered, Damaged

\* One step of one captain.
LEMMA CaptainTrue ==
    ASSUME Inv, Shown, Manned, ~Careless, NEW w \in Ships,
           \/ \E x \in Cells : Enter(w, x) \/ Aim(w, x) \/ MoveWaits(w, x)
           \/ \E to, tow, stored \in Cells : Move(w, to, tow, stored)
           \/ \E tow, stored \in Cells : MoveOn(w, tow, stored)
           \/ \E v \in Ships : Tractor(w, v)
           \/ StartCommand(w) \/ OtherCommand(w) \/ Leave(w) \/ Free(w)
           \/ RaiseShields(w) \/ ShieldsAreUp(w) \/ LowerShields(w)
           \/ TractorOff(w) \/ Fire(w)
    PROVE  Shown' /\ Manned'
<1> USE FleetAssumption DEF FleetAssumption
<1>1. ASSUME NEW x \in Cells, Enter(w, x) PROVE Shown' /\ Manned'
  <2>1. /\ alive[w] = "free" /\ board[x] = 0 /\ alive' = [alive EXCEPT ![w] = "alive"]
        /\ board' = Put(board, x, w) /\ pos' = [pos EXCEPT ![w] = x] /\ Goto(w, "ready")
    BY <1>1 DEF Enter
  <2>3. alive'[w] = "alive" /\ \A v \in Craft : v # w => alive'[v] = alive[v]
    BY <2>1 DEF Inv, TypeOK
  <2>4. Shown'
    BY <2>1, <2>3, ShownAt
  <2>5. Manned'
    BY <2>1, <2>3, MannedStill
  <2> QED
    BY <2>4, <2>5
<1>2. ASSUME UNCHANGED <<board, pos, alive>>,
             NEW stage \in {"ready", "command", "raising", "leaving"}, Goto(w, stage)
      PROVE  Shown' /\ Manned'
  <2>1. Shown'
    BY <1>2 DEF Shown
  <2>2. Manned'
    BY <1>2, MannedStill
  <2> QED
    BY <2>1, <2>2
<1>3. ASSUME UNCHANGED <<board, pos, alive>>, NEW c, cmd' = [cmd EXCEPT ![w] = c],
             c.at # "away"
      PROVE  Shown' /\ Manned'
  <2>1. Shown'
    BY <1>3 DEF Shown
  <2>2. Manned'
    BY <1>3 DEF Manned, Inv, TypeOK
  <2> QED
    BY <2>1, <2>2
<1>4. ASSUME NEW x \in Cells, Aim(w, x) \/ MoveWaits(w, x) PROVE Shown' /\ Manned'
  <2> DEFINE aimed == [at |-> "aimed", target |-> board[x]]
             waiting == [at |-> "waiting", to |-> x]
  <2>1. aimed.at # "away" /\ waiting.at # "away"
    OBVIOUS
  <2>2. /\ UNCHANGED <<board, pos, alive>>
        /\ cmd' = [cmd EXCEPT ![w] = aimed] \/ cmd' = [cmd EXCEPT ![w] = waiting]
    BY <1>4 DEF Aim, MoveWaits
  <2> HIDE DEF aimed, waiting
  <2> QED
    BY <1>3, <2>1, <2>2
<1>5. CASE \/ StartCommand(w) \/ OtherCommand(w) \/ Leave(w)
           \/ RaiseShields(w) \/ ShieldsAreUp(w) \/ LowerShields(w) \/ TractorOff(w)
           \/ \E v \in Ships : Tractor(w, v)
  BY <1>2, <1>5 DEF StartCommand, OtherCommand, Leave, RaiseShields, ShieldsAreUp,
                    LowerShields, TractorOff, Tractor
<1>6. ASSUME NEW to \in Cells, NEW tow \in Cells, NEW stored \in Cells,
             Move(w, to, tow, stored)
      PROVE  Shown' /\ Manned'
  <2>1. /\ board[to] = 0 /\ tow # to /\ Moved(w, to, tow, stored) /\ Goto(w, "ready")
    BY <1>6 DEF Move
  <2>2. alive[w] = "alive" /\ ~BadTow(w, tow, stored)
    BY <1>6 DEF Careless
  <2>3. Shown'
    BY <2>1, <2>2, ShownMoved
  <2>4. alive' = alive
    BY <2>1 DEF Moved
  <2> QED
    BY <2>1, <2>3, <2>4, MannedStill
<1>7. ASSUME NEW tow \in Cells, NEW stored \in Cells, MoveOn(w, tow, stored)
      PROVE  Shown' /\ Manned'
  <2> DEFINE to == cmd[w].to
  <2>1. /\ to \in Cells /\ tow # to /\ Moved(w, to, tow, stored) /\ Goto(w, "ready")
    BY <1>7, Going DEF MoveOn, Inv
  <2>2. alive[w] = "alive" /\ board[to] = 0 /\ ~BadTow(w, tow, stored)
    BY <1>7 DEF Careless
  <2>3. Shown'
    BY <2>1, <2>2, ShownMoved
  <2>4. alive' = alive
    BY <2>1 DEF Moved
  <2> QED
    BY <2>1, <2>3, <2>4, MannedStill
<1>8. CASE Free(w)
  <2>1. /\ board' = Clear(board, pos[w]) /\ pos' = [pos EXCEPT ![w] = Nowhere]
        /\ alive' = [alive EXCEPT ![w] = "free"] /\ Goto(w, "away")
    BY <1>8 DEF Free
  <2>2. ~CellTaken(w)
    BY <1>8 DEF Careless
  <2>3. /\ \A v \in Craft : v # w => pos'[v] = pos[v] /\ alive'[v] = alive[v]
        /\ alive'[w] = "free"
    BY <2>1 DEF Inv, TypeOK
  <2>4. Shown'
    BY <2>1, <2>2, <2>3, ShownWithout
  <2>5. \A v \in Ships : v # w => cmd'[v] = cmd[v]
    BY <2>1, GotoTyped DEF Inv
  <2>6. Manned'
    BY <2>3, <2>5 DEF Manned
  <2> QED
    BY <2>4, <2>6
<1>9. CASE Fire(w)
  <2> DEFINE t == cmd[w].target
  <2>1. t \in Craft /\ Phasered(t) /\ Goto(w, "ready")
    BY <1>9, Aiming DEF Fire, Inv
  <2>2. ~CellTaken(t) /\ alive[t] # "free"
    BY <1>9 DEF Careless
  <2> HIDE DEF t
  <2> QED
    BY <2>1, <2>2, PhaseredTrue
<1> QED
  BY <1>1, <1>4, <1>5, <1>6, <1>7, <1>8, <1>9

\* A weapon that acts on a craft the board shows, or that is alive.
LEMMA WeaponTrue ==
    ASSUME Inv, Shown, Manned,
           \/ \E x \in Cells : Torpedo(x) \/ Nova(x) \/ TorpedoRomulan(x)
           \/ \E w \in Craft : PhaserHits(w)
    PROVE  Shown' /\ Manned'
<1> USE FleetAssumption DEF FleetAssumption
<1>1. ASSUME NEW w \in Craft, alive[w] = "alive", cmd' = cmd,
             Damaged(w) \/ Pushed(w) \/ Destroyed(w)
      PROVE  Shown' /\ Manned'
  <2>1. CASE Damaged(w)
    BY <1>1, <2>1 DEF Damaged, Shown, Manned
  <2>2. CASE Pushed(w)
    <3>1. PICK y \in Cells : /\ board[y] = 0
                             /\ board' = Put(Clear(board, pos[w]), y, w)
                             /\ pos' = [pos EXCEPT ![w] = y]
      BY <2>2 DEF Pushed
    <3>2. alive' = alive
      BY <2>2 DEF Pushed
    <3>4. Shown'
      BY <1>1, <3>1, <3>2, ShownAt
    <3> QED
      BY <1>1, <3>2, <3>4 DEF Manned
  <2>3. CASE Destroyed(w)
    <3>1. /\ board' = Clear(board, pos[w]) /\ pos' = pos
          /\ alive'[w] = "dead" /\ \A v \in Craft : v # w => alive'[v] = alive[v]
      BY <2>3 DEF Destroyed, Inv, TypeOK
    <3>2. ~CellTaken(w)
      BY <1>1 DEF CellTaken
    <3>3. Shown'
      BY <3>1, <3>2, ShownWithout
    <3>4. Manned'
      BY <1>1, <3>1 DEF Manned
    <3> QED
      BY <3>3, <3>4
  <2> QED
    BY <1>1, <2>1, <2>2, <2>3
<1>2. ASSUME NEW x \in Cells, board[x] # 0
      PROVE  board[x] \in Craft /\ alive[board[x]] = "alive"
  BY <1>2 DEF Inv, TypeOK, Shown
<1>3. ASSUME NEW x \in Cells, Torpedo(x) \/ Nova(x) \/ TorpedoRomulan(x)
      PROVE  Shown' /\ Manned'
  <2>1. board[x] # 0
    BY <1>3 DEF Torpedo, Nova, TorpedoRomulan
  <2> QED
    BY <1>1, <1>2, <1>3, <2>1 DEF Torpedo, Nova, TorpedoRomulan
<1>4. ASSUME NEW w \in Craft, PhaserHits(w) PROVE Shown' /\ Manned'
  BY <1>1, <1>4 DEF PhaserHits
<1> QED
  BY <1>3, <1>4

\* The Romulan's turn.
LEMMA RomulanTrue ==
    ASSUME Inv, Shown, Manned, ~Careless, NEW w \in Ships,
           \/ \E x \in Cells : RomulanArrives(w, x)
           \/ \E v \in Ships : RomulanMoves(w, v) \/ RomulanFires(w, v)
           \/ RomulanRests(w)
    PROVE  Shown' /\ Manned'
<1> USE FleetAssumption DEF FleetAssumption
<1>1. ASSUME NEW x \in Cells, RomulanArrives(w, x) PROVE Shown' /\ Manned'
  <2>1. /\ alive[Rom] # "alive" /\ board[x] = 0 /\ alive' = [alive EXCEPT ![Rom] = "alive"]
        /\ board' = Put(board, x, Rom) /\ pos' = [pos EXCEPT ![Rom] = x] /\ Goto(w, "spoken")
    BY <1>1 DEF RomulanArrives
  <2>2. alive'[Rom] = "alive" /\ \A v \in Craft : v # Rom => alive'[v] = alive[v]
    BY <2>1 DEF Inv, TypeOK
  <2>3. Shown'
    BY <2>1, <2>2, ShownAt
  <2>4. Manned'
    BY <2>1, <2>2, MannedStill
  <2> QED
    BY <2>3, <2>4
<1>2. ASSUME NEW v \in Ships, RomulanMoves(w, v) PROVE Shown' /\ Manned'
  <2> DEFINE sighted == [at |-> "sighted", target |-> v]
  <2>1. alive[Rom] = "alive" /\ alive' = alive /\ cmd' = [cmd EXCEPT ![w] = sighted]
    BY <1>2 DEF RomulanMoves
  <2>2. sighted.at # "away"
    OBVIOUS
  <2> HIDE DEF sighted
  <2>3. Manned'
    BY <2>1, <2>2 DEF Manned, Inv, TypeOK
  <2>4. CASE UNCHANGED <<board, pos>>
    BY <2>1, <2>3, <2>4 DEF Shown
  <2>5. ASSUME NEW y \in Cells, Relocated(y) PROVE Shown'
    <3>1. board[y] = 0 /\ board' = Put(Clear(board, pos[Rom]), y, Rom) /\ pos' = [pos EXCEPT ![Rom] = y]
      BY <2>5 DEF Relocated
    <3> QED
      BY <2>1, <3>1, ShownAt
  <2> QED
    BY <1>2, <2>3, <2>4, <2>5 DEF RomulanMoves
<1>3. ASSUME NEW v \in Ships, RomulanFires(w, v) PROVE Shown' /\ Manned'
  <2>1. ~CellTaken(v) /\ alive[v] # "free"
    BY <1>3 DEF Careless
  <2> QED
    BY <1>3, <2>1, PhaseredTrue DEF RomulanFires
<1>4. CASE RomulanRests(w)
  <2>1. Shown'
    BY <1>4 DEF RomulanRests, Shown
  <2>2. Manned'
    BY <1>4, MannedStill DEF RomulanRests
  <2> QED
    BY <2>1, <2>2
<1> QED
  BY <1>1, <1>2, <1>3, <1>4

\* The board becomes untrue, or a ship unavailable for good, by the steps that do
\* not look again and by no other: a weapon, JUMP, FREE, MOVE or PHASER that finds
\* what the command found before keeps BOARD, SHPCON and ALIVE together.
THEOREM CarelessOnly == Spec => OnlyCareless
<1>1. Inv /\ [Next]_vars => [BoardTrue => BoardTrue' \/ Careless]_vars
  <2> SUFFICES ASSUME Inv, Next, BoardTrue, ~Careless PROVE BoardTrue'
    OBVIOUS
  <2>1. Shown /\ Manned
    BY DEF BoardTrue, Shown, Manned
  <2>2. Shown' /\ Manned'
    BY <2>1, CaptainTrue, WeaponTrue, RomulanTrue DEF Next, Begins, GoesOn
  <2> QED
    BY <2>2 DEF BoardTrue, Shown, Manned
<1> QED
  BY <1>1, InvAlways, PTL DEF Spec, OnlyCareless

\* So the board is true for good where no command is careless: commands that find what
\* they found before they waited are enough, however they interleave.
THEOREM BoardTrueWithCare == Spec /\ [][~Careless]_vars => []BoardTrue
<1>1. Init => BoardTrue
  BY FleetAssumption DEF FleetAssumption, Init, BoardTrue
<1>2. BoardTrue /\ [BoardTrue => BoardTrue' \/ Careless]_vars /\ [~Careless]_vars => BoardTrue'
  <2>1. ASSUME BoardTrue, UNCHANGED vars PROVE BoardTrue'
    BY <2>1 DEF BoardTrue, vars, At, CellTaken, Craft
  <2> QED
    BY <2>1
<1> QED
  BY <1>1, <1>2, CarelessOnly, PTL DEF Spec, OnlyCareless
=============================================================================
