----------------------------- MODULE MCPlanets -----------------------------
(* A small board for checking Planets: planets p*, bases f* and e*, and a *)
(* cell that is empty at first.                                           *)
EXTENDS Planets, TLC

CONSTANTS c1, c2, p1, p2, f1, e1, free

MCTeam == [c \in {c1, c2} |-> 1]
MCCells == {p1, p2, f1, e1, free}
MCPlanetAt == <<p1, p2>>
MCBaseAt == <<<<f1>>, <<e1>>>>

CaptainSymmetry == Permutations(Captains)
=============================================================================
