----------------------------- MODULE MCTornFile -----------------------------
(* Small instances of the torn file for TLC. *)
EXTENDS TornFile

(* A cell of 40 counts as negative in the upper half of a number, one of 20 does not. *)
MCKeys == {<<20>>, <<40>>}
MCValues == {<<20>>, <<>>}
=============================================================================
