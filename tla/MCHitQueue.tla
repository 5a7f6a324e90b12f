----------------------------- MODULE MCHitQueue -----------------------------
(* The view for checking HitQueue. *)
EXTENDS HitQueue

\* A slot nobody has to read is overwritten before its words are looked at.
Seen == <<alive, hitser, to, hitflg,
          [q \in Slots |-> IF to[q] = {} THEN <<0, 0>> ELSE <<serial[q], hitq[q]>>]>>
=============================================================================
