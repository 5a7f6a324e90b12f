------------------------------ MODULE MCFleet ------------------------------
(* Two ships of one side, one of the other; the Romulan acts in the turns of one captain. *)
EXTENDS Fleet, TLC

MCShips == 1..3
MCSide == <<1, 1, 2>>
MCOrders == <<{"move", "beam"}, {}, {"phaser", "romulan"}>>

FleetSymmetry == Permutations(Cells)
=============================================================================
