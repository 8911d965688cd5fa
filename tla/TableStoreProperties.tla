------------------------ MODULE TableStoreProperties ------------------------
(***************************************************************************)
(* What the storage engine must guarantee for one table.                   *)
(***************************************************************************)
EXTENDS TableStore

(* The variables have their types. *)
TypeOK ==
  /\ table \in Seq(Record)
  /\ newTable \in Seq(Record)
  /\ index \in [Text -> Nat]
  /\ deleteCount \in Nat \cup {NoCounter}
  /\ phase \in Phases
  /\ scan \in Nat \ {0}
  /\ pending \in Seq(Row)
  /\ condition \in Condition
  /\ assigned \in Text \cup {Keep}

(* An index entry is the offset of a record of that very key, whatever was interrupted, imported *)
(* or quoted before: the type byte that a DELETE by key overwrites belongs to the key it looked  *)
(* up, and a SELECT by key never reads from the middle of another record. Between the removal of *)
(* the old file and the rename nobody uses the index.                                            *)
IndexAligned ==
  phase # "rename" =>
    \A k \in Text : index[k] # 0 => index[k] \in DOMAIN table /\ table[index[k]].key = k

(* Between two statements no index entry points to a tombstone. *)
IndexPointsToLive ==
  phase \in {"idle", "insert"} => \A k \in Text : index[k] # 0 => index[k] \in LiveAt(table)

(* Between two statements, and while an INSERT appends, every live record's key is in the index: *)
(* the uniqueness check of the next INSERT sees every row there is.                              *)
IndexComplete ==
  phase \in {"idle", "insert"} => \A i \in LiveAt(table) : index[table[i].key] # 0

(* No two live records have the same primary key, at any step of any statement. *)
UniqueLiveKeys ==
  \A i, j \in LiveAt(table) : table[i].key = table[j].key => i = j

(* The counter that decides whether the file is examined at all never claims a tombstone that *)
(* is not in the file.                                                                        *)
CounterBelowTombstones ==
  phase # "rename" => deleteCount <= TombstoneCount(table)

(* A compaction has copied exactly the live records it has passed, in their order. *)
CopyFaithful ==
  phase = "copy" =>
    LET passed == {i \in LiveAt(table) : i < scan}
        Rank(i) == Cardinality({j \in passed : j <= i})
    IN  /\ Len(newTable) = Cardinality(passed)
        /\ \A i \in passed : newTable[Rank(i)] = table[i]

(* SELECT ... WHERE key = lit through the index answers what a scan of the file answers. *)
IndexedReadAgrees ==
  phase = "idle" =>
    \A lit \in KeyLiterals :
      SelectByKey(lit) = {row \in LiveRows(table) : row.key = RemoveOuterQuotes(lit)}

(* Outside a compaction the file only grows, no record's contents change, and a tombstone *)
(* never comes back to life.                                                              *)
RecordsOnlyDie ==
  [][phase # "rename" /\ phase' # "rename" =>
       \A i \in DOMAIN table :
         /\ i \in DOMAIN table'
         /\ RowOf(table'[i]) = RowOf(table[i])
         /\ IsLive(table'[i]) => table'[i] = table[i]]_vars

(* A statement that has begun comes to its end, or takes the process down. *)
StatementEnds == phase \notin {"idle", "down"} ~> phase \in {"idle", "down"}

(* A session of CREATE TABLE, INSERT, UPDATE and DELETE, as in the README's example, does not *)
(* take the process down.                                                                     *)
SessionSurvives == phase # "down"

(* UPDATE does not change a primary key: the record it appends has the key of the one it read. *)
PrimaryKeyKept ==
  [][phase = "append" /\ pending' # pending => table'[Len(table')].key = Head(pending).key]_vars

(* The file is compacted when the ratio of tombstones to live records exceeds the threshold. *)
CompactsAtDocumentedRatio ==
  [][phase = "check" /\ phase' = "idle" =>
       5 * TombstoneCount(table) <= 2 * Cardinality(LiveAt(table))]_vars
=============================================================================
