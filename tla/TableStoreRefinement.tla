------------------------ MODULE TableStoreRefinement ------------------------
(***************************************************************************)
(* The storage engine implements SqlTable. The rows are those of the live  *)
(* records, in the file that holds them, together with the rows an UPDATE  *)
(* has taken out of the file and not yet appended again: seen from above   *)
(* an UPDATE replaces a row at the moment it marks the old record.         *)
(***************************************************************************)
EXTENDS TableStoreProperties

storedRows == LiveRows(IF phase = "rename" THEN newTable ELSE table)

heldRows ==
  IF phase \in {"update", "append"}
    THEN {Stored(pending[i]) : i \in DOMAIN pending} ELSE {}

statementKind ==
  CASE phase \in {"insert", "delete", "update"} -> phase
    [] phase = "append" -> "update"
    [] OTHER -> "none"

unseenRows ==
  IF phase \in {"delete", "update"}
    THEN {RowOf(table[i]) : i \in {j \in LiveAt(table) : j >= scan}} ELSE {}

Abstract == INSTANCE SqlTable WITH
  Keys <- Text,
  Values <- Text,
  Wheres <- {cond.hits : cond \in Conditions},
  rows <- storedRows \cup heldRows,
  op <- statementKind,
  where <- condition.hits,
  todo <- unseenRows

(* Every behaviour of the engine is, through the mapping, a behaviour of a table: no row is *)
(* lost, doubled or brought back by tombstones, interrupted statements or compactions.      *)
ImplementsSqlTable == Abstract!TableSpec

(* The mapped rows have unique keys, those an UPDATE holds in memory included. *)
MappedKeysUnique == Abstract!UniqueKeys
=============================================================================
