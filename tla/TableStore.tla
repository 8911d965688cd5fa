----------------------------- MODULE TableStore -----------------------------
(***************************************************************************)
(* The storage engine at work on one table: the table file, the file a     *)
(* compaction leaves behind, the in-memory primary key index and delete    *)
(* counter of the ExecutionContext, and the statement being executed, one  *)
(* record at a time. The process may stop between any two steps (a kill,   *)
(* a power cut, QUIT) and be started again with INIT.                      *)
(*                                                                         *)
(* The primary key is the table's first column; a second column stands for *)
(* the others. Disk writes reach the file in the order they are made and   *)
(* a record whole: a crash keeps a prefix of the records that were being   *)
(* appended, which covers what a lost stream buffer leaves.                *)
(***************************************************************************)
EXTENDS TableFile, Integers

CONSTANTS
  KeyLiterals,       \* the key texts of a DELETE or SELECT by key, as typed
  ValueLiterals,     \* the texts an UPDATE assigns, as typed
  Keep,              \* an UPDATE that assigns to another column than the one modelled
  InsertBatches,     \* the rows of an INSERT, as typed
  ImportBatches,     \* the rows of a CSV file with the right number of fields
  Conditions,        \* the WHERE clauses that are evaluated record by record
  InitialCounters,   \* the delete counter INIT or an earlier table of the name has left
  StopPhases,        \* where the process may stop
  MaxRecords,        \* bound on the records of the table file
  MaxLeftover        \* bound on the records an interrupted compaction leaves behind

Phases == {"down", "idle", "insert", "delete", "update", "append", "check",
           "copy", "rename"}

(* What evaluateComparator answers for the rows of the table: TRUE on hits, FALSE elsewhere, *)
(* and std::out_of_range from std::stod on throws.                                           *)
Condition == [hits: SUBSET Row, throws: SUBSET Row]

NoCondition == [hits |-> {}, throws |-> {}]

(* The table has no entry in delete_counter_per_table: CREATE TABLE makes none. *)
NoCounter == -1

ASSUME StoreAssumption ==
  /\ KeyLiterals \subseteq Text
  /\ ValueLiterals \subseteq Text
  /\ Keep \notin Text
  /\ InsertBatches \subseteq Seq(Row)
  /\ ImportBatches \subseteq Seq(Row)
  /\ Conditions \subseteq Condition
  /\ InitialCounters \subseteq Nat \cup {NoCounter}
  /\ StopPhases \subseteq Phases \ {"down"}
  /\ MaxRecords \in Nat
  /\ MaxLeftover \in Nat

VARIABLES
  table,        \* <table>.bin
  newTable,     \* <table>-new.bin
  index,        \* ExecutionContext::indices for the table's key column
  deleteCount,  \* ExecutionContext::delete_counter_per_table, or NoCounter
  phase,        \* what the process is doing
  scan,         \* the record at the get pointer of the file being read
  pending,      \* the rows the statement has still to append
  condition,    \* the WHERE clause of the running DELETE or UPDATE
  assigned      \* what the running UPDATE assigns, after normalizeUpdate

disk == <<table, newTable>>
memory == <<index, deleteCount>>
statement == <<scan, pending, condition, assigned>>
vars == <<table, newTable, index, deleteCount, phase, scan, pending, condition, assigned>>

StatementOver == scan' = 1 /\ pending' = <<>> /\ condition' = NoCondition /\ assigned' = Keep

(* What was in memory is gone, what is on disk stays. *)
ProcessGone ==
  /\ phase' = "down"
  /\ index' = EmptyIndex
  /\ deleteCount' = NoCounter
  /\ StatementOver

Init ==
  /\ table = <<>>
  /\ newTable = <<>>
  /\ index = EmptyIndex
  /\ deleteCount \in InitialCounters
  /\ phase = "idle"
  /\ scan = 1
  /\ pending = <<>>
  /\ condition = NoCondition
  /\ assigned = Keep
-----------------------------------------------------------------------------
(* INSERT INTO and IMPORT FROM CSV *)

(* Mutant: the keys of the same statement are not compared with each other. *)
ValidInsertUnseen(batch) == \A i \in DOMAIN batch : index[batch[i].key] = 0

(* validateInsertSemantics: each key, as it was typed, is looked up in the index *)
(* and among the keys of the statement. An invalid INSERT changes nothing.       *)
ValidInsert(batch) ==
  /\ \A i \in DOMAIN batch : index[batch[i].key] = 0
  /\ \A i, j \in DOMAIN batch : i # j => batch[i].key # batch[j].key

(* Mutant: the file is opened without std::ios::app, which truncates it. *)
StartTruncating(batch) ==
  /\ Len(batch) <= MaxRecords
  /\ phase' = "insert"
  /\ pending' = batch
  /\ table' = <<>>
  /\ UNCHANGED <<newTable, memory, scan, condition, assigned>>

(* The handlers open the table file in append mode. *)
StartAppending(batch) ==
  /\ Len(table) + Len(batch) <= MaxRecords
  /\ phase' = "insert"
  /\ pending' = batch
  /\ UNCHANGED <<disk, memory, scan, condition, assigned>>

BeginInsert(batch) ==
  /\ phase = "idle"
  /\ ValidInsert(batch)
  /\ StartAppending(batch)

(* performCSVImport: nothing of a row is validated. *)
BeginImport(batch) ==
  /\ phase = "idle"
  /\ StartAppending(batch)

(* Mutant: upsertPrimaryKeyIndex is left out. *)
SerializeWithoutUpsert(type) ==
  LET row == Stored(Head(pending))
  IN  /\ table' = Append(table, [type |-> type, key |-> row.key, val |-> row.val])
      /\ pending' = Tail(pending)
      /\ UNCHANGED index

(* serializeNormalizedRecord, with upsertPrimaryKeyIndex. *)
SerializeNormalizedRecord(type) ==
  LET row == Stored(Head(pending))
  IN  /\ table' = Append(table, [type |-> type, key |-> row.key, val |-> row.val])
      /\ index' = [index EXCEPT ![row.key] = Len(table) + 1]
      /\ pending' = Tail(pending)

AppendInsert ==
  /\ phase = "insert"
  /\ pending # <<>>
  /\ SerializeNormalizedRecord("INSERT")
  /\ UNCHANGED <<newTable, deleteCount, phase, scan, condition, assigned>>

FinishInsert ==
  /\ phase = "insert"
  /\ pending = <<>>
  /\ phase' = "idle"
  /\ UNCHANGED <<disk, memory, statement>>
-----------------------------------------------------------------------------
(* DELETE FROM *)

(* Mutant: the key of the deleted record stays in the index. *)
EraseNothing(k) == index' = index

EraseKeyFromIndex(k) == index' = [index EXCEPT ![k] = 0]

(* setDeleteCountForTable(1 + getDeleteCountForTable): without a counter handleFatalError exits, *)
(* in silent mode the end iterator is dereferenced; either way the process is gone.              *)
HasCounter == deleteCount # NoCounter

CountDelete == deleteCount' = deleteCount + 1

(* DELETE ... WHERE key = lit. normalizeDelete strips the literal, the validator looks the result *)
(* up, performDeleteByIndexLookup strips it again: an absent key makes .at() throw before any     *)
(* change, which parseAndExecute catches.                                                         *)
DeleteByIndexLookup(lit) ==
  LET looked == RemoveOuterQuotes(lit)
      k == RemoveOuterQuotes(looked)
  IN  /\ phase = "idle"
      /\ index[looked] # 0
      /\ index[k] # 0
      /\ table' = Tombstone(table, index[k])
      /\ IF HasCounter
           THEN /\ EraseKeyFromIndex(k)
                /\ CountDelete
                /\ phase' = "check"
                /\ UNCHANGED statement
           ELSE ProcessGone
      /\ UNCHANGED newTable

BeginSequentialDelete(cond) ==
  /\ phase = "idle"
  /\ phase' = "delete"
  /\ condition' = cond
  /\ scan' = 1
  /\ UNCHANGED <<disk, memory, pending, assigned>>

(* Mutant: tombstones are matched like live records. *)
AtMatchAnyType ==
  scan \in DOMAIN table /\ RowOf(table[scan]) \in condition.hits \ condition.throws

(* The record under the get pointer is live and the WHERE clause holds for it. *)
AtMatch == scan \in LiveAt(table) /\ RowOf(table[scan]) \in condition.hits \ condition.throws

AtThrow == scan \in LiveAt(table) /\ RowOf(table[scan]) \in condition.throws

(* Mutant: the get pointer is not moved behind a record that is passed over. *)
StuckScan ==
  /\ phase \in {"delete", "update"}
  /\ scan \in DOMAIN table
  /\ ~AtMatch
  /\ ~AtThrow
  /\ UNCHANGED vars

(* TOMBSTONE and SKIP, the same in performSequentialDelete and in the scan of UPDATE. *)
ScanPast ==
  /\ phase \in {"delete", "update"}
  /\ scan \in DOMAIN table
  /\ ~AtMatch
  /\ ~AtThrow
  /\ scan' = scan + 1
  /\ UNCHANGED <<disk, memory, phase, pending, condition, assigned>>

(* std::stod throws in the middle of the scan: parseAndExecute catches the exception. What was   *)
(* tombstoned stays so, the old records an UPDATE had read are dropped, the index is not rebuilt. *)
ScanThrows ==
  /\ phase \in {"delete", "update"}
  /\ AtThrow
  /\ phase' = "idle"
  /\ StatementOver
  /\ UNCHANGED <<disk, memory>>

DeleteRecord ==
  /\ phase = "delete"
  /\ AtMatch
  /\ table' = Tombstone(table, scan)
  /\ IF HasCounter
       THEN /\ CountDelete
            /\ scan' = scan + 1
            /\ UNCHANGED <<index, phase, pending, condition, assigned>>
       ELSE ProcessGone
  /\ UNCHANGED newTable

RecalculateIndices == index' = ExtractPrimaryKeysIndex(table)

FinishSequentialDelete ==
  /\ phase = "delete"
  /\ scan \notin DOMAIN table
  /\ RecalculateIndices
  /\ phase' = "check"
  /\ StatementOver
  /\ UNCHANGED <<disk, deleteCount>>
-----------------------------------------------------------------------------
(* UPDATE *)

(* lit is what the statement assigns, Keep when it assigns to another column only. *)
BeginUpdate(cond, lit) ==
  /\ phase = "idle"
  /\ Len(table) + Cardinality(LiveAt(table)) <= MaxRecords
  /\ phase' = "update"
  /\ condition' = cond
  /\ assigned' = IF lit = Keep THEN Keep ELSE RemoveOuterQuotes(lit)
  /\ scan' = 1
  /\ UNCHANGED <<disk, memory, pending>>

(* The record that is appended for an old one: the inverse projection mask keeps the rest. *)
Projected(rec) ==
  [key |-> rec.key, val |-> IF assigned = Keep THEN rec.val ELSE assigned]

(* deserializeNextRecordAndMarkAsTombstone returns LIVE; the record is kept and counted. *)
MarkOldRecord ==
  /\ phase = "update"
  /\ AtMatch
  /\ table' = Tombstone(table, scan)
  /\ IF HasCounter
       THEN /\ CountDelete
            /\ pending' = Append(pending, Projected(table[scan]))
            /\ scan' = scan + 1
            /\ UNCHANGED <<index, phase, condition, assigned>>
       ELSE ProcessGone
  /\ UNCHANGED newTable

FinishScan ==
  /\ phase = "update"
  /\ scan \notin DOMAIN table
  /\ phase' = "append"
  /\ UNCHANGED <<disk, memory, statement>>

AppendUpdate ==
  /\ phase = "append"
  /\ pending # <<>>
  /\ SerializeNormalizedRecord("UPDATE")
  /\ UNCHANGED <<newTable, deleteCount, phase, scan, condition, assigned>>

FinishUpdate ==
  /\ phase = "append"
  /\ pending = <<>>
  /\ RecalculateIndices
  /\ phase' = "check"
  /\ StatementOver
  /\ UNCHANGED <<disk, deleteCount>>
-----------------------------------------------------------------------------
(* The compaction check at the end of DELETE and UPDATE, and the compaction *)

(* tombstone_approximation, from the counter and the size of the index. *)
TombstoneApproximationReaches ==
  ReachesThreshold(deleteCount, 1 + IndexSize(index) + deleteCount)

CheckTombstoneRatio ==
  /\ phase = "check"
  /\ IF ~HasCounter THEN ProcessGone
     ELSE /\ phase' = IF TombstoneApproximationReaches /\ RatioReachesThreshold(table)
                      THEN "copy" ELSE "idle"
          /\ UNCHANGED <<memory, statement>>
  /\ UNCHANGED disk

(* Mutant: tombstones are copied too. *)
CopyEveryRecord ==
  /\ phase = "copy"
  /\ scan \in DOMAIN table
  /\ newTable' = Append(newTable, table[scan])
  /\ scan' = scan + 1
  /\ UNCHANGED <<table, memory, phase, pending, condition, assigned>>

(* copyNextLiveRecord *)
CopyNextRecord ==
  /\ phase = "copy"
  /\ scan \in DOMAIN table
  /\ newTable' = IF scan \in LiveAt(table) THEN Append(newTable, table[scan]) ELSE newTable
  /\ scan' = scan + 1
  /\ UNCHANGED <<table, memory, phase, pending, condition, assigned>>

RemoveOldFile ==
  /\ phase = "copy"
  /\ scan \notin DOMAIN table
  /\ table' = <<>>
  /\ phase' = "rename"
  /\ UNCHANGED <<newTable, memory, statement>>

(* Mutant: the index is not rebuilt after the compaction. *)
RenameOnly ==
  /\ phase = "rename"
  /\ table' = newTable
  /\ newTable' = <<>>
  /\ deleteCount' = 0
  /\ phase' = "idle"
  /\ StatementOver
  /\ UNCHANGED index

(* Mutant: the delete counter is not reset after the compaction. *)
RenameWithoutReset ==
  /\ phase = "rename"
  /\ table' = newTable
  /\ newTable' = <<>>
  /\ index' = ExtractPrimaryKeysIndex(newTable)
  /\ phase' = "idle"
  /\ StatementOver
  /\ UNCHANGED deleteCount

(* The rename, the reset of the counter and recalculateIndicesForTable. *)
RenameNewFile ==
  /\ phase = "rename"
  /\ table' = newTable
  /\ newTable' = <<>>
  /\ deleteCount' = 0
  /\ index' = ExtractPrimaryKeysIndex(newTable)
  /\ phase' = "idle"
  /\ StatementOver
-----------------------------------------------------------------------------
(* SELECT ... WHERE key = lit; it changes nothing *)

(* validateSelectSemantics looks the literal up as it was typed, selectData without its quotation *)
(* marks; the record found is read if it is live and passes evaluateComparator.                   *)
SelectByKey(lit) ==
  LET k == RemoveOuterQuotes(lit)
  IN  IF /\ index[lit] # 0
         /\ index[k] \in LiveAt(table)
         /\ table[index[k]].key = k
      THEN {RowOf(table[index[k]])} ELSE {}
-----------------------------------------------------------------------------
(* The process *)

(* A kill, a crash, or QUIT when the process is idle. *)
Stop ==
  /\ phase \in StopPhases
  /\ phase \in {"copy", "rename"} => Len(newTable) <= MaxLeftover
  /\ ProcessGone
  /\ UNCHANGED disk

(* INIT: the ExecutionContext is built from what is on disk. *)
Start ==
  /\ phase = "down"
  /\ index' = ExtractPrimaryKeysIndex(table)
  /\ deleteCount' = 0
  /\ phase' = "idle"
  /\ UNCHANGED <<disk, statement>>

(* The steps the process takes by itself once a statement has begun. *)
StatementStep ==
  \/ AppendInsert \/ FinishInsert
  \/ ScanPast \/ ScanThrows
  \/ DeleteRecord \/ FinishSequentialDelete
  \/ MarkOldRecord \/ FinishScan \/ AppendUpdate \/ FinishUpdate
  \/ CheckTombstoneRatio \/ CopyNextRecord \/ RemoveOldFile \/ RenameNewFile

Next ==
  \/ \E batch \in InsertBatches : BeginInsert(batch)
  \/ \E batch \in ImportBatches : BeginImport(batch)
  \/ \E lit \in KeyLiterals : DeleteByIndexLookup(lit)
  \/ \E cond \in Conditions : BeginSequentialDelete(cond)
  \/ \E cond \in Conditions, lit \in ValueLiterals \cup {Keep} : BeginUpdate(cond, lit)
  \/ StatementStep
  \/ Stop
  \/ Start

Spec == Init /\ [][Next]_vars

(* A statement that has begun runs on: the engine is one thread and waits for nothing. *)
FairSpec == Spec /\ WF_vars(StatementStep)
=============================================================================
