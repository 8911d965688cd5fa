------------------------------ MODULE TableFile ------------------------------
(***************************************************************************)
(* The record region of a table file <table>.bin: the sequence of records  *)
(* behind the 32-byte header. A record's place in the sequence stands for  *)
(* its offset in the file. A file that does not exist and a file that      *)
(* holds only the header are both the empty sequence: every handler calls  *)
(* ensureTableFileExists first, and createTableFile leaves a file that     *)
(* exists as it is.                                                        *)
(***************************************************************************)
EXTENDS Literals, FiniteSets, FiniteSetsExt

(* RecordType::UNUSED is read like DELETE and written by nobody, so it is left out. *)
RecordTypes == {"INSERT", "UPDATE", "DELETE"}

Record == [type: RecordTypes, key: Text, val: Text]

IsLive(rec) == rec.type # "DELETE"

RowOf(rec) == [key |-> rec.key, val |-> rec.val]

LiveAt(file) == {i \in DOMAIN file : IsLive(file[i])}

LiveRows(file) == {RowOf(file[i]) : i \in LiveAt(file)}

TombstoneCount(file) == Cardinality(DOMAIN file \ LiveAt(file))

(* Mutant: the record type UNUSED is written. *)
TombstoneUnused(file, i) == [file EXCEPT ![i].type = "UNUSED"]

(* Overwriting the type byte of the record at position i; nothing else of the file changes. *)
Tombstone(file, i) == [file EXCEPT ![i].type = "DELETE"]

HoldersOf(file, k) == {i \in LiveAt(file) : file[i].key = k}

(* Mutant: tombstones are not skipped while the keys are extracted. *)
TombstoneIndex(file) ==
  LET At(k) == {i \in DOMAIN file : file[i].key = k}
  IN  [k \in Text |-> IF At(k) = {} THEN 0 ELSE Min(At(k))]

(* extractPrimaryKeysIndex: key to position, 0 where the key has no entry. *)
(* std::unordered_map::insert keeps the first of several records of a key. *)
ExtractPrimaryKeysIndex(file) ==
  [k \in Text |-> IF HoldersOf(file, k) = {} THEN 0 ELSE Min(HoldersOf(file, k))]

EmptyIndex == [k \in Text |-> 0]

IndexSize(idx) == Cardinality({k \in Text : idx[k] # 0})

(* COMPACTION_THRESHOLD = 0.40, compared with a quotient of integers: p / q >= 0.40. *)
ReachesThreshold(p, q) == 5 * p >= 2 * q

(* calculateTombstoneRatio, tombstones over all records. *)
(* An empty file gives 0.0 / 0, a NaN, for which the comparison is false. *)
RatioReachesThreshold(file) ==
  Len(file) > 0 /\ ReachesThreshold(TombstoneCount(file), Len(file))
==============================================================================
