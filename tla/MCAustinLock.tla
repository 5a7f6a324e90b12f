---------------------------- MODULE MCAustinLock ----------------------------
(* Model values and symmetry for checking AustinLock. *)
EXTENDS AustinLock, TLC

MCKeys == {GLOBAL, INTERNAL}

\* One routine of each kind: insistent and giving up, on each key, and FREE.
OneOfEachKind == {"FREE", "NOVA", "RSRV", "SRCH"}

\* Sessions are interchangeable (used for safety only).
JobSymmetry == Permutations(Jobs)
=============================================================================
