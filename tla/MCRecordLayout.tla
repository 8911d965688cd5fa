--------------------------- MODULE MCRecordLayout ---------------------------
(* Small instances of the record layout for TLC. *)
EXTENDS RecordLayout, TLC

(* A different DEFAULT for each column: a, b, a. *)
MCDefault == [c \in Columns |-> IF c = 2 THEN "b" ELSE "a"]
=============================================================================
