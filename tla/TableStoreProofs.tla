-------------------------- MODULE TableStoreProofs --------------------------
(***************************************************************************)
(* Proofs about the storage engine. Types, the alignment of the index, the *)
(* dying of records and the approximation hold for every value of the      *)
(* constants that StoreAssumption admits: any literals, WHERE clauses that *)
(* throw, any imports, and a process that may stop anywhere. Unique keys,  *)
(* complete indexes, faithful copies and honest counters hold under the    *)
(* conditions named here, each by the theorems that need it. At the end:   *)
(* the storage engine implements SqlTable.                                 *)
(***************************************************************************)
EXTENDS TableStoreRefinement, Counting

(* removeOuterQuotes makes a text of a text. *)
LEMMA RemoveOuterQuotesType ==
  ASSUME NEW t \in Text
  PROVE  RemoveOuterQuotes(t) \in Text
<1>1. CASE t.quotes = <<>>
  BY <1>1 DEF RemoveOuterQuotes
<1>2. CASE t.quotes # <<>>
  <2>1. PICK n \in 0..MaxQuotes : t.quotes \in [1..n -> Marks]
    BY DEF Text, QuoteLayers
  <2>2. t.quotes \in Seq(Marks) /\ Len(t.quotes) = n
    BY <2>1, MaxQuotesAssumption
  <2>3. n # 0
    BY <1>2, <2>2
  <2>4. Tail(t.quotes) \in Seq(Marks) /\ Len(Tail(t.quotes)) = n - 1
    BY <1>2, <2>2, <2>3
  <2>5. \A s \in Seq(Marks) : s \in [1..Len(s) -> Marks]
    BY LenProperties
  <2>6. n - 1 \in 0..MaxQuotes
    BY <2>1, <2>3, MaxQuotesAssumption
  <2>7. Tail(t.quotes) \in QuoteLayers
    BY <2>4, <2>5, <2>6 DEF QuoteLayers
  <2> QED
    BY <1>2, <2>7 DEF RemoveOuterQuotes, Text
<1> QED
  BY <1>1, <1>2

LEMMA StoredType ==
  ASSUME NEW row \in Row
  PROVE  Stored(row) \in Row
BY RemoveOuterQuotesType DEF Stored, Row

(* The rebuilt index maps each key to a live record of that key, or to 0. *)
LEMMA ExtractedIndex ==
  ASSUME NEW file \in Seq(Record)
  PROVE  /\ ExtractPrimaryKeysIndex(file) \in [Text -> Nat]
         /\ \A k \in Text :
              ExtractPrimaryKeysIndex(file)[k] # 0 =>
                /\ ExtractPrimaryKeysIndex(file)[k] \in LiveAt(file)
                /\ file[ExtractPrimaryKeysIndex(file)[k]].key = k
<1>1. ASSUME NEW k \in Text, HoldersOf(file, k) # {}
      PROVE  /\ Min(HoldersOf(file, k)) \in HoldersOf(file, k)
             /\ Min(HoldersOf(file, k)) \in Nat
  <2>1. HoldersOf(file, k) \subseteq Nat
    BY DEF HoldersOf, LiveAt
  <2> QED
    BY <1>1, <2>1, MinIsLeast
<1>2. ExtractPrimaryKeysIndex(file) \in [Text -> Nat]
  BY <1>1 DEF ExtractPrimaryKeysIndex
<1>3. ASSUME NEW k \in Text, ExtractPrimaryKeysIndex(file)[k] # 0
      PROVE  ExtractPrimaryKeysIndex(file)[k] \in HoldersOf(file, k)
  BY <1>1, <1>3 DEF ExtractPrimaryKeysIndex
<1> QED
  BY <1>2, <1>3 DEF HoldersOf

(* Overwriting a type byte leaves a file of records with the same rows at the same places. *)
LEMMA TombstoneFile ==
  ASSUME NEW file \in Seq(Record), NEW p
  PROVE  /\ Tombstone(file, p) \in Seq(Record)
         /\ Len(Tombstone(file, p)) = Len(file)
         /\ \A i \in DOMAIN file :
              /\ RowOf(Tombstone(file, p)[i]) = RowOf(file[i])
              /\ Tombstone(file, p)[i].key = file[i].key
              /\ IsLive(Tombstone(file, p)[i]) => Tombstone(file, p)[i] = file[i]
<1>0. file \in [1..Len(file) -> Record] /\ DOMAIN file = 1..Len(file) /\ Len(file) \in Nat
  BY LenProperties
<1>1. \A i \in DOMAIN file : file[i] \in Record /\ [file[i] EXCEPT !.type = "DELETE"] \in Record
  BY <1>0 DEF Record, RecordTypes
<1>2. /\ DOMAIN Tombstone(file, p) = DOMAIN file
      /\ \A i \in DOMAIN file :
           Tombstone(file, p)[i] = IF i = p THEN [file[i] EXCEPT !.type = "DELETE"] ELSE file[i]
  BY DEF Tombstone
<1>3. Tombstone(file, p) \in [1..Len(file) -> Record]
  BY <1>0, <1>1, <1>2 DEF Tombstone
<1>4. Tombstone(file, p) \in Seq(Record) /\ Len(Tombstone(file, p)) = Len(file)
  BY <1>0, <1>2, <1>3, SeqDef, LenProperties
<1>5. ASSUME NEW i \in DOMAIN file
      PROVE  /\ RowOf(Tombstone(file, p)[i]) = RowOf(file[i])
             /\ Tombstone(file, p)[i].key = file[i].key
             /\ IsLive(Tombstone(file, p)[i]) => Tombstone(file, p)[i] = file[i]
  BY <1>1, <1>2, <1>5 DEF RowOf, IsLive, Record
<1> QED
  BY <1>4, <1>5
-----------------------------------------------------------------------------
(* Type correctness *)

LEMMA EmptyIndexType == EmptyIndex \in [Text -> Nat]
BY DEF EmptyIndex

LEMMA ConstantTypes ==
  /\ NoCondition \in Condition
  /\ Conditions \subseteq Condition
  /\ \A lit \in ValueLiterals \cup {Keep} :
       (IF lit = Keep THEN Keep ELSE RemoveOuterQuotes(lit)) \in Text \cup {Keep}
BY StoreAssumption, RemoveOuterQuotesType DEF NoCondition, Condition

(* The process that is gone leaves well-typed memory behind, whatever the disk holds. *)
LEMMA ProcessGoneType ==
  ASSUME TypeOK, ProcessGone, table' \in Seq(Record), newTable' \in Seq(Record)
  PROVE  TypeOK'
BY EmptyIndexType, ConstantTypes DEF TypeOK, ProcessGone, StatementOver, Phases, NoCounter

(* A row that is appended is a record, and its offset a position of the file. *)
LEMMA SerializeType ==
  ASSUME TypeOK, pending # <<>>, NEW type \in RecordTypes, SerializeNormalizedRecord(type)
  PROVE  /\ table' \in Seq(Record)
         /\ index' \in [Text -> Nat]
         /\ pending' \in Seq(Row)
         /\ Head(pending) \in Row
         /\ Stored(Head(pending)) \in Row
<1>1. pending \in Seq(Row) /\ Head(pending) \in Row /\ Tail(pending) \in Seq(Row)
  BY HeadTailProperties DEF TypeOK
<1>2. Stored(Head(pending)) \in Row
  BY <1>1, StoredType
<1>3. [type |-> type, key |-> Stored(Head(pending)).key, val |-> Stored(Head(pending)).val]
        \in Record
  BY <1>2 DEF Row, Record
<1>4. table' \in Seq(Record)
  BY <1>3 DEF TypeOK, SerializeNormalizedRecord
<1>5. index' \in [Text -> Nat]
  BY <1>2, LenProperties DEF TypeOK, SerializeNormalizedRecord, Row
<1> QED
  BY <1>1, <1>2, <1>4, <1>5 DEF SerializeNormalizedRecord

LEMMA CountDeleteType ==
  ASSUME TypeOK, HasCounter, CountDelete
  PROVE  deleteCount' \in Nat
BY DEF TypeOK, HasCounter, CountDelete

LEMMA TypeInit == Init => TypeOK
<1> SUFFICES ASSUME Init PROVE TypeOK
  OBVIOUS
<1> QED
  BY EmptyIndexType, ConstantTypes, EmptySeq, StoreAssumption
  DEF Init, TypeOK, Phases

LEMMA TypeNext == TypeOK /\ [Next]_vars => TypeOK'
<1> SUFFICES ASSUME TypeOK, [Next]_vars PROVE TypeOK'
  OBVIOUS
<1> USE DEF disk, memory, statement
<1>1. ASSUME NEW batch \in InsertBatches \cup ImportBatches, StartAppending(batch)
      PROVE  TypeOK'
  BY <1>1, StoreAssumption DEF TypeOK, StartAppending, Phases
<1>2. ASSUME NEW lit \in KeyLiterals, DeleteByIndexLookup(lit)
      PROVE  TypeOK'
  <2> DEFINE k == RemoveOuterQuotes(RemoveOuterQuotes(lit))
  <2>1. table' \in Seq(Record) /\ newTable' \in Seq(Record)
    BY <1>2, TombstoneFile DEF TypeOK, DeleteByIndexLookup
  <2>2. CASE ~HasCounter
    BY <1>2, <2>1, <2>2, ProcessGoneType DEF DeleteByIndexLookup
  <2>3. CASE HasCounter
    <3>1. EraseKeyFromIndex(k) /\ CountDelete /\ phase' = "check" /\ UNCHANGED statement
      BY <1>2, <2>3 DEF DeleteByIndexLookup
    <3>2. index' \in [Text -> Nat]
      BY <3>1 DEF TypeOK, EraseKeyFromIndex
    <3>3. deleteCount' \in Nat
      BY <2>3, <3>1, CountDeleteType
    <3> QED
      BY <2>1, <3>1, <3>2, <3>3 DEF TypeOK, Phases
  <2> QED
    BY <2>2, <2>3
<1>3. ASSUME NEW cond \in Conditions, BeginSequentialDelete(cond)
      PROVE  TypeOK'
  BY <1>3, ConstantTypes DEF TypeOK, BeginSequentialDelete, Phases
<1>4. ASSUME NEW cond \in Conditions, NEW lit \in ValueLiterals \cup {Keep}, BeginUpdate(cond, lit)
      PROVE  TypeOK'
  BY <1>4, ConstantTypes DEF TypeOK, BeginUpdate, Phases
<1>5. CASE AppendInsert
  BY <1>5, SerializeType DEF TypeOK, AppendInsert, RecordTypes
<1>6. CASE FinishInsert
  BY <1>6 DEF TypeOK, FinishInsert, Phases
<1>7. CASE ScanPast
  BY <1>7 DEF TypeOK, ScanPast
<1>8. CASE ScanThrows
  BY <1>8, ConstantTypes, EmptySeq DEF TypeOK, ScanThrows, StatementOver, Phases
<1>9. CASE DeleteRecord
  <2>1. table' \in Seq(Record) /\ newTable' \in Seq(Record)
    BY <1>9, TombstoneFile DEF TypeOK, DeleteRecord
  <2>2. CASE ~HasCounter
    BY <1>9, <2>1, <2>2, ProcessGoneType DEF DeleteRecord
  <2>3. CASE HasCounter
    BY <1>9, <2>1, <2>3, CountDeleteType DEF TypeOK, DeleteRecord
  <2> QED
    BY <2>2, <2>3
<1>10. CASE FinishSequentialDelete
  BY <1>10, ExtractedIndex, ConstantTypes, EmptySeq
  DEF TypeOK, FinishSequentialDelete, RecalculateIndices, StatementOver, Phases
<1>11. CASE MarkOldRecord
  <2>1. table' \in Seq(Record) /\ newTable' \in Seq(Record)
    BY <1>11, TombstoneFile DEF TypeOK, MarkOldRecord
  <2>2. CASE ~HasCounter
    BY <1>11, <2>1, <2>2, ProcessGoneType DEF MarkOldRecord
  <2>3. CASE HasCounter
    <3>1. table[scan] \in Record
      <4>1. table \in [1..Len(table) -> Record]
        BY LenProperties DEF TypeOK
      <4> QED
        BY <1>11, <4>1 DEF MarkOldRecord, AtMatch, LiveAt
    <3>2. Projected(table[scan]) \in Row
      BY <3>1 DEF TypeOK, Projected, Record, Row
    <3>3. /\ CountDelete
          /\ pending' = Append(pending, Projected(table[scan]))
          /\ scan' = scan + 1
          /\ UNCHANGED <<index, phase, condition, assigned>>
      BY <1>11, <2>3, Zenon DEF MarkOldRecord
    <3>4. pending' \in Seq(Row)
      BY <3>2, <3>3, AppendProperties DEF TypeOK
    <3>5. deleteCount' \in Nat
      BY <2>3, <3>3, CountDeleteType
    <3> QED
      BY <2>1, <3>3, <3>4, <3>5 DEF TypeOK
  <2> QED
    BY <2>2, <2>3
<1>12. CASE FinishScan
  BY <1>12 DEF TypeOK, FinishScan, Phases
<1>13. CASE AppendUpdate
  BY <1>13, SerializeType DEF TypeOK, AppendUpdate, RecordTypes
<1>14. CASE FinishUpdate
  BY <1>14, ExtractedIndex, ConstantTypes, EmptySeq
  DEF TypeOK, FinishUpdate, RecalculateIndices, StatementOver, Phases
<1>15. CASE CheckTombstoneRatio
  <2>1. CASE ~HasCounter
    BY <1>15, <2>1, ProcessGoneType DEF TypeOK, CheckTombstoneRatio
  <2>2. CASE HasCounter
    BY <1>15, <2>2 DEF TypeOK, CheckTombstoneRatio, Phases
  <2> QED
    BY <2>1, <2>2
<1>16. CASE CopyNextRecord
  <2>1. table[scan] \in Record
    BY <1>16, LenProperties DEF TypeOK, CopyNextRecord
  <2> QED
    BY <1>16, <2>1 DEF TypeOK, CopyNextRecord
<1>17. CASE RemoveOldFile
  BY <1>17, EmptySeq DEF TypeOK, RemoveOldFile, Phases
<1>18. CASE RenameNewFile
  BY <1>18, ExtractedIndex, ConstantTypes, EmptySeq
  DEF TypeOK, RenameNewFile, StatementOver, Phases
<1>19. CASE Stop
  BY <1>19, ProcessGoneType DEF TypeOK, Stop
<1>20. CASE Start
  BY <1>20, ExtractedIndex DEF TypeOK, Start, Phases
<1>21. CASE UNCHANGED vars
  BY <1>21 DEF TypeOK, vars
<1> QED
  BY <1>1, <1>2, <1>3, <1>4, <1>5, <1>6, <1>7, <1>8, <1>9, <1>10, <1>11, <1>12, <1>13, <1>14,
     <1>15, <1>16, <1>17, <1>18, <1>19, <1>20, <1>21
  DEF Next, StatementStep, BeginInsert, BeginImport

(* The variables keep their types in every behaviour of the engine. *)
THEOREM TypeCorrect == Spec => []TypeOK
<1> QED
  BY TypeInit, TypeNext, PTL DEF Spec
-----------------------------------------------------------------------------
(* The index entries *)

(* An index whose entries are positions of records of their keys in a file. *)
Aligned(idx, file) ==
  \A k \in Text : idx[k] # 0 => idx[k] \in DOMAIN file /\ file[idx[k]].key = k

LEMMA EmptyAligned ==
  ASSUME NEW file
  PROVE  Aligned(EmptyIndex, file)
BY DEF Aligned, EmptyIndex

LEMMA ExtractedAligned ==
  ASSUME NEW file \in Seq(Record)
  PROVE  Aligned(ExtractPrimaryKeysIndex(file), file)
BY ExtractedIndex DEF Aligned, LiveAt

(* A tombstone changes no key, and erasing a key only takes an entry away. *)
LEMMA TombstoneAligned ==
  ASSUME NEW file \in Seq(Record), NEW idx \in [Text -> Nat], Aligned(idx, file), NEW p
  PROVE  Aligned(idx, Tombstone(file, p))
<1>1. DOMAIN Tombstone(file, p) = DOMAIN file
  BY DEF Tombstone
<1> QED
  BY <1>1, TombstoneFile DEF Aligned

LEMMA EraseAligned ==
  ASSUME NEW file, NEW idx \in [Text -> Nat], Aligned(idx, file), NEW k
  PROVE  Aligned([idx EXCEPT ![k] = 0], file)
BY DEF Aligned

(* An appended record moves no other, and its own entry is its position. *)
LEMMA SerializeAligned ==
  ASSUME TypeOK, Aligned(index, table), pending # <<>>, NEW type \in RecordTypes,
         SerializeNormalizedRecord(type)
  PROVE  Aligned(index', table')
<1> DEFINE row == Stored(Head(pending))
           rec == [type |-> type, key |-> row.key, val |-> row.val]
<1>1. row \in Row
  BY SerializeType
<1>2. /\ table' = Append(table, rec)
      /\ index' = [index EXCEPT ![row.key] = Len(table) + 1]
  BY DEF SerializeNormalizedRecord
<1>3. rec \in Record /\ row.key \in Text
  BY <1>1 DEF Row, Record
<1>4. /\ Len(table) \in Nat
      /\ DOMAIN table = 1..Len(table)
      /\ DOMAIN table' = 1..(Len(table) + 1)
      /\ \A i \in 1..Len(table) : table'[i] = table[i]
      /\ table'[Len(table) + 1].key = row.key
  <2>1. table \in Seq(Record)
    BY DEF TypeOK
  <2>2. /\ table' \in Seq(Record)
        /\ Len(table') = Len(table) + 1
        /\ \A i \in 1..Len(table) : table'[i] = table[i]
        /\ table'[Len(table) + 1] = rec
    BY <1>2, <1>3, <2>1, AppendProperties
  <2> QED
    BY <2>1, <2>2, LenProperties
<1>5. ASSUME NEW k \in Text, index'[k] # 0
      PROVE  index'[k] \in DOMAIN table' /\ table'[index'[k]].key = k
  <2>1. CASE k = row.key
    BY <1>2, <1>3, <1>4, <2>1 DEF TypeOK
  <2>2. CASE k # row.key
    <3>1. index'[k] = index[k]
      BY <1>2, <2>2 DEF TypeOK
    <3>2. index[k] \in 1..Len(table) /\ table[index[k]].key = k
      BY <1>4, <1>5, <3>1 DEF Aligned
    <3> QED
      BY <1>4, <3>1, <3>2
  <2> QED
    BY <2>1, <2>2
<1> QED
  BY <1>5 DEF Aligned

LEMMA AlignedInit == Init => IndexAligned
BY EmptyAligned DEF Init, IndexAligned, Aligned

LEMMA AlignedNext == TypeOK /\ IndexAligned /\ [Next]_vars => IndexAligned'
<1> SUFFICES ASSUME TypeOK, IndexAligned, [Next]_vars, phase' # "rename"
             PROVE  Aligned(index', table')
  BY DEF IndexAligned, Aligned
<1> USE DEF disk, memory, statement
<1>1. ASSUME phase # "rename" PROVE Aligned(index, table)
  BY <1>1 DEF IndexAligned, Aligned
<1>2. CASE ProcessGone
  BY <1>2, EmptyAligned DEF ProcessGone
<1>3. CASE phase # "rename" /\ UNCHANGED <<table, index>>
  BY <1>1, <1>3
<1>4. ASSUME NEW lit \in KeyLiterals, DeleteByIndexLookup(lit)
      PROVE  Aligned(index', table')
  <2> DEFINE k == RemoveOuterQuotes(RemoveOuterQuotes(lit))
  <2>1. CASE HasCounter
    <3>1. Aligned(index, table) /\ table \in Seq(Record) /\ index \in [Text -> Nat]
      BY <1>1, <1>4 DEF DeleteByIndexLookup, TypeOK
    <3>2. table' = Tombstone(table, index[k]) /\ index' = [index EXCEPT ![k] = 0]
      BY <1>4, <2>1 DEF DeleteByIndexLookup, EraseKeyFromIndex
    <3> QED
      BY <3>1, <3>2, TombstoneAligned, EraseAligned
  <2>2. CASE ~HasCounter
    BY <1>2, <1>4, <2>2 DEF DeleteByIndexLookup
  <2> QED
    BY <2>1, <2>2
<1>5. CASE DeleteRecord \/ MarkOldRecord
  <2>1. CASE HasCounter
    <3>1. Aligned(index, table) /\ table \in Seq(Record) /\ index \in [Text -> Nat]
      BY <1>1, <1>5 DEF DeleteRecord, MarkOldRecord, TypeOK
    <3>2. table' = Tombstone(table, scan) /\ index' = index
      BY <1>5, <2>1 DEF DeleteRecord, MarkOldRecord
    <3> QED
      BY <3>1, <3>2, TombstoneAligned
  <2>2. CASE ~HasCounter
    BY <1>2, <1>5, <2>2 DEF DeleteRecord, MarkOldRecord
  <2> QED
    BY <2>1, <2>2
<1>6. CASE AppendInsert \/ AppendUpdate
  BY <1>1, <1>6, SerializeAligned DEF AppendInsert, AppendUpdate, RecordTypes
<1>7. CASE FinishSequentialDelete \/ FinishUpdate \/ Start
  BY <1>7, ExtractedAligned
  DEF TypeOK, FinishSequentialDelete, FinishUpdate, Start, RecalculateIndices
<1>8. CASE RenameNewFile
  BY <1>8, ExtractedAligned DEF TypeOK, RenameNewFile
<1>9. CASE CheckTombstoneRatio
  BY <1>2, <1>3, <1>9 DEF CheckTombstoneRatio
<1>10. CASE RemoveOldFile
  BY <1>10 DEF RemoveOldFile
<1>11. ASSUME NEW batch, BeginInsert(batch) \/ BeginImport(batch)
       PROVE  Aligned(index', table')
  BY <1>3, <1>11 DEF BeginInsert, BeginImport, StartAppending
<1>12. ASSUME NEW cond, NEW lit, BeginSequentialDelete(cond) \/ BeginUpdate(cond, lit)
       PROVE  Aligned(index', table')
  BY <1>3, <1>12 DEF BeginSequentialDelete, BeginUpdate
<1>13. CASE FinishInsert \/ ScanPast \/ ScanThrows \/ FinishScan \/ CopyNextRecord
  BY <1>3, <1>13 DEF FinishInsert, ScanPast, ScanThrows, FinishScan, CopyNextRecord
<1>14. CASE Stop
  BY <1>2, <1>14 DEF Stop
<1>15. CASE UNCHANGED vars
  BY <1>3, <1>15 DEF vars
<1> QED
  BY <1>4, <1>5, <1>6, <1>7, <1>8, <1>9, <1>10, <1>11, <1>12, <1>13, <1>14, <1>15
  DEF Next, StatementStep

(* Whatever was interrupted, imported, quoted or thrown, an index entry is the place of a record *)
(* of its key: a DELETE by key overwrites the type byte of a record it looked up and of no other. *)
THEOREM IndexAlwaysAligned == Spec => []IndexAligned
<1>1. Init => TypeOK /\ IndexAligned
  BY TypeInit, AlignedInit
<1>2. TypeOK /\ IndexAligned /\ [Next]_vars => (TypeOK /\ IndexAligned)'
  BY TypeNext, AlignedNext
<1> QED
  BY <1>1, <1>2, PTL DEF Spec
-----------------------------------------------------------------------------
(* The records *)

(* What a step outside a compaction may do to the file. *)
OnlyDie(file, next) ==
  \A i \in DOMAIN file :
    /\ i \in DOMAIN next
    /\ RowOf(next[i]) = RowOf(file[i])
    /\ IsLive(next[i]) => next[i] = file[i]

LEMMA SerializeOnlyDies ==
  ASSUME TypeOK, pending # <<>>, NEW type \in RecordTypes, SerializeNormalizedRecord(type)
  PROVE  OnlyDie(table, table')
<1> DEFINE rec == [type |-> type, key |-> Stored(Head(pending)).key,
                   val |-> Stored(Head(pending)).val]
<1>1. rec \in Record
  BY SerializeType DEF Row, Record
<1>2. table' = Append(table, rec) /\ table \in Seq(Record)
  BY DEF SerializeNormalizedRecord, TypeOK
<1> HIDE DEF rec
<1>3. /\ table' \in Seq(Record)
      /\ Len(table') = Len(table) + 1
      /\ \A i \in 1..Len(table) : table'[i] = table[i]
  BY <1>1, <1>2, AppendProperties
<1>4. DOMAIN table = 1..Len(table) /\ DOMAIN table' = 1..(Len(table) + 1) /\ Len(table) \in Nat
  BY <1>2, <1>3, LenProperties
<1> QED
  BY <1>3, <1>4 DEF OnlyDie

LEMMA TombstoneOnlyDies ==
  ASSUME NEW file \in Seq(Record), NEW p
  PROVE  OnlyDie(file, Tombstone(file, p))
<1>1. DOMAIN Tombstone(file, p) = DOMAIN file
  BY DEF Tombstone
<1> QED
  BY <1>1, TombstoneFile DEF OnlyDie

LEMMA StepOnlyDies ==
  ASSUME TypeOK, [Next]_vars, phase # "rename", phase' # "rename"
  PROVE  OnlyDie(table, table')
<1> USE DEF disk, memory, statement
<1>1. CASE UNCHANGED table
  BY <1>1 DEF OnlyDie
<1>2. CASE AppendInsert \/ AppendUpdate
  BY <1>2, SerializeOnlyDies DEF AppendInsert, AppendUpdate, RecordTypes
<1>3. ASSUME NEW lit, DeleteByIndexLookup(lit)
      PROVE  OnlyDie(table, table')
  BY <1>3, TombstoneOnlyDies DEF DeleteByIndexLookup, TypeOK
<1>4. CASE DeleteRecord \/ MarkOldRecord
  BY <1>4, TombstoneOnlyDies DEF DeleteRecord, MarkOldRecord, TypeOK
<1>5. ~RemoveOldFile /\ ~RenameNewFile
  BY DEF RemoveOldFile, RenameNewFile
<1>6. ASSUME NEW batch, BeginInsert(batch) \/ BeginImport(batch)
      PROVE  UNCHANGED table
  BY <1>6 DEF BeginInsert, BeginImport, StartAppending
<1>7. ASSUME NEW cond, NEW lit, BeginSequentialDelete(cond) \/ BeginUpdate(cond, lit)
      PROVE  UNCHANGED table
  BY <1>7 DEF BeginSequentialDelete, BeginUpdate
<1>8. ASSUME \/ FinishInsert \/ ScanPast \/ ScanThrows \/ FinishSequentialDelete \/ FinishScan
             \/ FinishUpdate \/ CheckTombstoneRatio \/ CopyNextRecord \/ Stop \/ Start
             \/ UNCHANGED vars
      PROVE  UNCHANGED table
  BY <1>8
  DEF FinishInsert, ScanPast, ScanThrows, FinishSequentialDelete, FinishScan, FinishUpdate,
      CheckTombstoneRatio, CopyNextRecord, Stop, Start, vars
<1> QED
  BY <1>1, <1>2, <1>3, <1>4, <1>5, <1>6, <1>7, <1>8 DEF Next, StatementStep

(* Whatever is interrupted, thrown or imported: outside the exchange of the two files, no record *)
(* is overwritten by another one or lost, and no tombstone comes back to life.                   *)
THEOREM RecordsDieOnly == Spec => RecordsOnlyDie
<1>1. TypeOK /\ [Next]_vars =>
        [phase # "rename" /\ phase' # "rename" =>
           \A i \in DOMAIN table :
             /\ i \in DOMAIN table'
             /\ RowOf(table'[i]) = RowOf(table[i])
             /\ IsLive(table'[i]) => table'[i] = table[i]]_vars
  BY StepOnlyDies DEF OnlyDie
<1> QED
  BY <1>1, TypeCorrect, PTL DEF Spec, RecordsOnlyDie
-----------------------------------------------------------------------------
(* Keys *)

IsBare(text) == text.quotes = <<>>

BareBatches == \A batch \in InsertBatches : \A i \in DOMAIN batch : IsBare(batch[i].key)

NothingImported == ImportBatches = {}

CompactionUninterrupted == StopPhases \cap {"copy", "rename"} = {}

(* The keys of a sequence of rows or records differ from each other. *)
DistinctKeys(rows) == \A i, j \in DOMAIN rows : rows[i].key = rows[j].key => i = j

BareKeys(rows) == \A i \in DOMAIN rows : IsBare(rows[i].key)

StoredBare == BareKeys(table) /\ BareKeys(newTable) /\ BareKeys(pending)

(* Every live record is the one its key's index entry points to. *)
LiveIndexed ==
  phase \notin {"down", "rename"} => \A i \in LiveAt(table) : index[table[i].key] = i

(* The rows still to append have keys of their own, which no live record holds. *)
PendingFresh ==
  /\ DistinctKeys(pending)
  /\ \A p \in DOMAIN pending : \A i \in LiveAt(table) : table[i].key # pending[p].key

(* The new file is there only during a compaction, and each of its keys belongs to a live *)
(* record that the copy has passed.                                                        *)
CopyDistinct ==
  /\ DistinctKeys(newTable)
  /\ phase \notin {"copy", "rename"} => newTable = <<>>
  /\ phase = "copy" =>
       \A n \in DOMAIN newTable :
         \E i \in LiveAt(table) : i < scan /\ table[i].key = newTable[n].key

KeyInv ==
  /\ TypeOK
  /\ StoredBare
  /\ UniqueLiveKeys
  /\ LiveIndexed
  /\ PendingFresh
  /\ CopyDistinct
-----------------------------------------------------------------------------
LEMMA BareIsStored ==
  ASSUME NEW row \in Row, IsBare(row.key)
  PROVE  Stored(row).key = row.key
BY DEF Stored, RemoveOuterQuotes, IsBare

(* A file with unique live keys is indexed completely by the extraction. *)
LEMMA ExtractedComplete ==
  ASSUME NEW file \in Seq(Record),
         \A i, j \in LiveAt(file) : file[i].key = file[j].key => i = j
  PROVE  \A i \in LiveAt(file) : ExtractPrimaryKeysIndex(file)[file[i].key] = i
<1> TAKE i \in LiveAt(file)
<1> DEFINE k == file[i].key
<1>1. i \in Nat \ {0} /\ file[i] \in Record /\ k \in Text
  <2>1. file \in [1..Len(file) -> Record]
    BY LenProperties
  <2> QED
    BY <2>1 DEF LiveAt, Record
<1>2. HoldersOf(file, k) = {i}
  BY DEF HoldersOf
<1>3. Min({i}) = i
  <2>1. {i} \in SUBSET Nat /\ {i} # {}
    BY <1>1
  <2>2. Min({i}) \in {i}
    BY <2>1, MinIsLeast
  <2> QED
    BY <2>2
<1> QED
  BY <1>1, <1>2, <1>3 DEF ExtractPrimaryKeysIndex

(* A tombstone adds no live record and changes no key. *)
LEMMA TombstoneLive ==
  ASSUME NEW file \in Seq(Record), NEW p
  PROVE  /\ LiveAt(Tombstone(file, p)) = LiveAt(file) \ {p}
         /\ \A i \in DOMAIN file : Tombstone(file, p)[i].key = file[i].key
         /\ DOMAIN Tombstone(file, p) = DOMAIN file
<1>1. DOMAIN Tombstone(file, p) = DOMAIN file
  BY DEF Tombstone
<1>2. \A i \in DOMAIN file : file[i] \in Record
  BY LenProperties
<1>3. \A i \in DOMAIN file :
        Tombstone(file, p)[i] = IF i = p THEN [file[i] EXCEPT !.type = "DELETE"] ELSE file[i]
  BY DEF Tombstone
<1>4. \A i \in DOMAIN file : IsLive(Tombstone(file, p)[i]) <=> IsLive(file[i]) /\ i # p
  BY <1>2, <1>3 DEF IsLive, Record
<1>5. LiveAt(Tombstone(file, p)) = LiveAt(file) \ {p}
  BY <1>1, <1>4 DEF LiveAt
<1> QED
  BY <1>1, <1>5, TombstoneFile

LEMMA TombstoneBare ==
  ASSUME NEW file \in Seq(Record), NEW p, BareKeys(file)
  PROVE  BareKeys(Tombstone(file, p))
BY TombstoneLive DEF BareKeys

(* What the append of a record makes of the positions, the keys and the live records. *)
LEMMA AppendedFile ==
  ASSUME NEW file \in Seq(Record), NEW rec \in Record
  PROVE  /\ DOMAIN Append(file, rec) = DOMAIN file \cup {Len(file) + 1}
         /\ Len(file) + 1 \notin DOMAIN file
         /\ \A i \in DOMAIN file : Append(file, rec)[i] = file[i]
         /\ Append(file, rec)[Len(file) + 1] = rec
         /\ LiveAt(Append(file, rec))
              = LiveAt(file) \cup (IF IsLive(rec) THEN {Len(file) + 1} ELSE {})
<1>1. /\ DOMAIN file = 1..Len(file) /\ Len(file) \in Nat
      /\ DOMAIN Append(file, rec) = 1..(Len(file) + 1)
  BY AppendProperties, LenProperties
<1>2. /\ \A i \in DOMAIN file : Append(file, rec)[i] = file[i]
      /\ Append(file, rec)[Len(file) + 1] = rec
  BY <1>1, AppendProperties
<1>3. /\ DOMAIN Append(file, rec) = DOMAIN file \cup {Len(file) + 1}
      /\ Len(file) + 1 \notin DOMAIN file
  BY <1>1
<1> QED
  BY <1>2, <1>3 DEF LiveAt

(* The rows behind the first of a sequence, and the first, which is none of them. *)
LEMMA RestOfRows ==
  ASSUME NEW S, NEW rows \in Seq(S), rows # <<>>
  PROVE  /\ 1 \in DOMAIN rows
         /\ Head(rows) = rows[1]
         /\ \A i \in DOMAIN Tail(rows) :
              i + 1 \in DOMAIN rows /\ i + 1 # 1 /\ Tail(rows)[i] = rows[i + 1]
<1>1. /\ Len(rows) \in Nat \ {0}
      /\ DOMAIN rows = 1..Len(rows)
      /\ Tail(rows) \in Seq(S)
      /\ Len(Tail(rows)) = Len(rows) - 1
      /\ \A i \in 1..Len(Tail(rows)) : Tail(rows)[i] = rows[i + 1]
  BY HeadTailProperties, LenProperties, EmptySeq
<1>2. DOMAIN Tail(rows) = 1..(Len(rows) - 1)
  BY <1>1, LenProperties
<1> QED
  BY <1>1, <1>2

LEMMA EmptyRows == DistinctKeys(<<>>) /\ BareKeys(<<>>) /\ DOMAIN <<>> = {} /\ LiveAt(<<>>) = {}
BY DEF DistinctKeys, BareKeys, LiveAt
-----------------------------------------------------------------------------
(* The steps *)

LEMMA KeyInit == Init => KeyInv
<1> SUFFICES ASSUME Init PROVE KeyInv
  OBVIOUS
<1> QED
  BY TypeInit, EmptyRows
  DEF Init, KeyInv, StoredBare, UniqueLiveKeys, LiveIndexed, PendingFresh, CopyDistinct

(* The process that is gone, with the table as it was or with one tombstone more. *)
LEMMA GoneKeys ==
  ASSUME KeyInv, TypeOK', ProcessGone, newTable' = <<>>, BareKeys(table'),
         LiveAt(table') \subseteq LiveAt(table),
         \A i \in LiveAt(table') : table'[i].key = table[i].key
  PROVE  KeyInv'
BY EmptyRows
DEF KeyInv, ProcessGone, StatementOver, StoredBare, UniqueLiveKeys, LiveIndexed, PendingFresh,
    CopyDistinct

(* A row that is appended brings its own key, and its own index entry. *)
LEMMA SerializeKeys ==
  ASSUME KeyInv, TypeOK', pending # <<>>, phase \in {"insert", "append"}, phase' = phase,
         NEW type \in {"INSERT", "UPDATE"}, SerializeNormalizedRecord(type),
         UNCHANGED <<newTable, scan>>
  PROVE  KeyInv'
<1> DEFINE row == Stored(Head(pending))
           rec == [type |-> type, key |-> row.key, val |-> row.val]
           last == Len(table) + 1
<1>1. /\ table' = Append(table, rec)
      /\ index' = [index EXCEPT ![row.key] = last]
      /\ pending' = Tail(pending)
  BY DEF SerializeNormalizedRecord
<1>2. /\ 1 \in DOMAIN pending
      /\ Head(pending) = pending[1]
      /\ \A i \in DOMAIN pending' :
           i + 1 \in DOMAIN pending /\ i + 1 # 1 /\ pending'[i] = pending[i + 1]
  BY <1>1, RestOfRows DEF KeyInv, TypeOK
<1>3. Head(pending) \in Row /\ row \in Row
  BY SerializeType DEF KeyInv, RecordTypes
<1>4. row.key = pending[1].key /\ IsBare(row.key) /\ row.key \in Text
  BY <1>2, <1>3, BareIsStored DEF KeyInv, StoredBare, BareKeys, Row
<1>5. rec \in Record /\ IsLive(rec) /\ rec.key = row.key
  BY <1>3 DEF Row, Record, RecordTypes, IsLive
<1>6. /\ DOMAIN table' = DOMAIN table \cup {last}
      /\ last \notin DOMAIN table
      /\ \A i \in DOMAIN table : table'[i] = table[i]
      /\ table'[last] = rec
      /\ LiveAt(table') = LiveAt(table) \cup {last}
      /\ LiveAt(table) \subseteq DOMAIN table
  <2>1. table \in Seq(Record)
    BY DEF KeyInv, TypeOK
  <2> HIDE DEF rec
  <2> QED
    BY <1>1, <1>5, <2>1, AppendedFile DEF LiveAt
<1>7. \A i \in LiveAt(table) : table[i].key # row.key
  BY <1>2, <1>4 DEF KeyInv, PendingFresh
<1> HIDE DEF rec, row, last
<1>8. BareKeys(table') /\ BareKeys(pending')
  BY <1>2, <1>4, <1>5, <1>6 DEF KeyInv, StoredBare, BareKeys
<1>9. UniqueLiveKeys'
  BY <1>5, <1>6, <1>7 DEF KeyInv, UniqueLiveKeys
<1>10. LiveIndexed'
  <2>1. \A i \in LiveAt(table) : table[i].key \in Text
    <3>1. table \in [1..Len(table) -> Record]
      BY LenProperties DEF KeyInv, TypeOK
    <3> QED
      BY <3>1 DEF LiveAt, Record
  <2>2. index \in [Text -> Nat]
    BY DEF KeyInv, TypeOK
  <2>3. \A i \in LiveAt(table) : index'[table'[i].key] = i
    BY <1>1, <1>6, <1>7, <2>1, <2>2 DEF KeyInv, LiveIndexed
  <2>4. index'[table'[last].key] = last
    BY <1>1, <1>4, <1>5, <1>6, <2>2
  <2> QED
    BY <1>6, <2>3, <2>4 DEF LiveIndexed
<1>11. PendingFresh'
  <2>1. DistinctKeys(pending')
    BY <1>2 DEF KeyInv, PendingFresh, DistinctKeys, TypeOK
  <2>2. ASSUME NEW p \in DOMAIN pending', NEW i \in LiveAt(table')
        PROVE  table'[i].key # pending'[p].key
    <3>1. p + 1 \in DOMAIN pending /\ p + 1 # 1 /\ pending'[p] = pending[p + 1]
      BY <1>2
    <3>2. CASE i = last
      BY <1>2, <1>4, <1>5, <1>6, <3>1, <3>2 DEF KeyInv, PendingFresh, DistinctKeys
    <3>3. CASE i # last
      BY <1>6, <3>1, <3>3 DEF KeyInv, PendingFresh
    <3> QED
      BY <3>2, <3>3
  <2> QED
    BY <2>1, <2>2 DEF PendingFresh
<1> QED
  BY <1>8, <1>9, <1>10, <1>11 DEF KeyInv, StoredBare, CopyDistinct

(* A live record dies, and what the statement holds on to is a row of its key or nothing. *)
LEMMA MarkedKeys ==
  ASSUME KeyInv, NEW p \in LiveAt(table), table' = Tombstone(table, p)
  PROVE  /\ BareKeys(table')
         /\ LiveAt(table') = LiveAt(table) \ {p}
         /\ \A i \in DOMAIN table : table'[i].key = table[i].key
         /\ LiveAt(table) \subseteq DOMAIN table
         /\ UniqueLiveKeys'
<1>1. table \in Seq(Record)
  BY DEF KeyInv, TypeOK
<1>2. /\ LiveAt(table') = LiveAt(table) \ {p}
      /\ \A i \in DOMAIN table : table'[i].key = table[i].key
      /\ LiveAt(table) \subseteq DOMAIN table
  BY <1>1, TombstoneLive DEF LiveAt
<1>3. BareKeys(table')
  BY <1>1, TombstoneBare DEF KeyInv, StoredBare
<1> QED
  BY <1>2, <1>3 DEF KeyInv, UniqueLiveKeys

(* The index is rebuilt from a file with unique live keys, nothing is left to append. *)
LEMMA RebuiltKeys ==
  ASSUME KeyInv, TypeOK', RecalculateIndices, UNCHANGED table, pending' = <<>>,
         newTable' = <<>>, phase' \notin {"down", "rename"}
  PROVE  KeyInv'
<1>1. table \in Seq(Record)
  BY DEF KeyInv, TypeOK
<1>2. \A i \in LiveAt(table) : index'[table[i].key] = i
  BY <1>1, ExtractedComplete DEF KeyInv, UniqueLiveKeys, RecalculateIndices
<1> QED
  BY <1>2, EmptyRows
  DEF KeyInv, StoredBare, UniqueLiveKeys, LiveIndexed, PendingFresh, CopyDistinct

(* Table, index, rows to append and new file stay as they are. *)
LEMMA QuietKeys ==
  ASSUME KeyInv, TypeOK', UNCHANGED <<table, newTable, index>>, phase # "copy", phase' # "copy",
         phase \notin {"down", "rename"}, phase' \notin {"down", "rename"},
         pending' = pending \/ pending' = <<>>
  PROVE  KeyInv'
BY EmptyRows
DEF KeyInv, StoredBare, UniqueLiveKeys, LiveIndexed, PendingFresh, CopyDistinct

LEMMA KeyNext ==
  ASSUME BareBatches, NothingImported, CompactionUninterrupted, KeyInv, [Next]_vars
  PROVE  KeyInv'
<1> USE DEF disk, memory, statement
<1>0. TypeOK' /\ TypeOK
  BY TypeNext DEF KeyInv
<1>1. ASSUME NEW batch \in InsertBatches, BeginInsert(batch)
      PROVE  KeyInv'
  <2>1. /\ pending' = batch
        /\ phase = "idle" /\ phase' = "insert"
        /\ UNCHANGED <<table, newTable, index>>
        /\ ValidInsert(batch)
    BY <1>1 DEF BeginInsert, StartAppending
  <2>2. BareKeys(batch)
    BY DEF BareBatches, BareKeys
  <2>3. PendingFresh'
    <3>1. ASSUME NEW p \in DOMAIN batch, NEW i \in LiveAt(table)
          PROVE  table[i].key # batch[p].key
      <4>1. index[table[i].key] = i /\ i # 0
        BY <1>0, <2>1 DEF KeyInv, LiveIndexed, LiveAt, TypeOK
      <4> QED
        BY <2>1, <4>1 DEF ValidInsert
    <3> QED
      BY <2>1, <3>1 DEF ValidInsert, PendingFresh, DistinctKeys
  <2> QED
    BY <1>0, <2>1, <2>2, <2>3 DEF KeyInv, StoredBare, UniqueLiveKeys, LiveIndexed, CopyDistinct
<1>2. ASSUME NEW lit \in KeyLiterals, DeleteByIndexLookup(lit)
      PROVE  KeyInv'
  <2> DEFINE k == RemoveOuterQuotes(RemoveOuterQuotes(lit))
  <2>1. /\ table' = Tombstone(table, index[k])
        /\ phase = "idle"
        /\ UNCHANGED newTable
        /\ newTable = <<>>
        /\ table \in Seq(Record)
    BY <1>0, <1>2 DEF DeleteByIndexLookup, KeyInv, CopyDistinct, TypeOK
  <2> HIDE DEF k
  <2>2. /\ LiveAt(table') = LiveAt(table) \ {index[k]}
        /\ \A i \in LiveAt(table') : table'[i].key = table[i].key
        /\ BareKeys(table')
    BY <2>1, TombstoneLive, TombstoneBare DEF KeyInv, StoredBare, LiveAt
  <2>3. CASE ~HasCounter
    <3>1. ProcessGone
      BY <1>2, <2>3 DEF DeleteByIndexLookup
    <3> QED
      BY <1>0, <2>1, <2>2, <3>1, GoneKeys
  <2>4. CASE HasCounter
    <3>1. /\ index' = [index EXCEPT ![k] = 0]
          /\ phase' = "check"
          /\ pending' = pending
      BY <1>2, <2>4 DEF DeleteByIndexLookup, EraseKeyFromIndex, k
    <3>2. ASSUME NEW i \in LiveAt(table')
          PROVE  index'[table'[i].key] = i
      <4>1. index[table[i].key] = i /\ i # index[k] /\ table'[i].key = table[i].key
        BY <2>1, <2>2 DEF KeyInv, LiveIndexed
      <4>2. table[i].key # k
        BY <4>1
      <4> QED
        BY <1>0, <3>1, <4>1, <4>2 DEF TypeOK
    <3>3. UniqueLiveKeys' /\ LiveIndexed'
      BY <2>2, <3>2 DEF KeyInv, UniqueLiveKeys, LiveIndexed
    <3>4. PendingFresh'
      BY <2>2, <3>1 DEF KeyInv, PendingFresh
    <3> QED
      BY <1>0, <2>1, <2>2, <3>1, <3>3, <3>4 DEF KeyInv, StoredBare, CopyDistinct
  <2> QED
    BY <2>3, <2>4
<1>3. ASSUME NEW cond, NEW lit, BeginSequentialDelete(cond) \/ BeginUpdate(cond, lit)
      PROVE  KeyInv'
  BY <1>0, <1>3, QuietKeys DEF BeginSequentialDelete, BeginUpdate
<1>4. CASE AppendInsert
  BY <1>0, <1>4, SerializeKeys DEF AppendInsert
<1>5. CASE FinishInsert \/ ScanPast \/ ScanThrows \/ FinishScan
  BY <1>0, <1>5, QuietKeys DEF FinishInsert, ScanPast, ScanThrows, FinishScan, StatementOver
<1>6. CASE DeleteRecord
  <2>1. /\ table' = Tombstone(table, scan) /\ scan \in LiveAt(table)
        /\ phase = "delete" /\ UNCHANGED newTable /\ newTable = <<>>
    BY <1>6 DEF DeleteRecord, AtMatch, KeyInv, CopyDistinct
  <2>2. /\ BareKeys(table')
        /\ LiveAt(table') \subseteq LiveAt(table)
        /\ \A i \in LiveAt(table') : table'[i].key = table[i].key
        /\ UniqueLiveKeys'
    BY <2>1, MarkedKeys
  <2>3. CASE ~HasCounter
    BY <1>0, <1>6, <2>1, <2>2, <2>3, GoneKeys DEF DeleteRecord
  <2>4. CASE HasCounter
    <3>1. UNCHANGED <<index, phase, pending>>
      BY <1>6, <2>4 DEF DeleteRecord
    <3> QED
      BY <1>0, <2>1, <2>2, <3>1 DEF KeyInv, StoredBare, LiveIndexed, PendingFresh, CopyDistinct
  <2> QED
    BY <2>3, <2>4
<1>7. CASE MarkOldRecord
  <2>1. /\ table' = Tombstone(table, scan) /\ scan \in LiveAt(table)
        /\ phase = "update" /\ UNCHANGED newTable /\ newTable = <<>>
    BY <1>7 DEF MarkOldRecord, AtMatch, KeyInv, CopyDistinct
  <2>2. /\ BareKeys(table')
        /\ LiveAt(table') = LiveAt(table) \ {scan}
        /\ LiveAt(table) \subseteq DOMAIN table
        /\ \A i \in LiveAt(table') : table'[i].key = table[i].key
        /\ UniqueLiveKeys'
    BY <2>1, MarkedKeys
  <2>3. CASE ~HasCounter
    BY <1>0, <1>7, <2>1, <2>2, <2>3, GoneKeys DEF MarkOldRecord
  <2>4. CASE HasCounter
    <3> DEFINE new == Projected(table[scan])
    <3>1. UNCHANGED <<index, phase>> /\ pending' = Append(pending, new)
      BY <1>7, <2>4, Zenon DEF MarkOldRecord
    <3>2. new.key = table[scan].key /\ IsBare(new.key)
      BY <2>1, <2>2 DEF Projected, KeyInv, StoredBare, BareKeys
    <3>3. /\ pending' \in Seq(Row)
          /\ DOMAIN pending' = DOMAIN pending \cup {Len(pending) + 1}
          /\ \A p \in DOMAIN pending : pending'[p] = pending[p]
          /\ pending'[Len(pending) + 1] = new
      <4>1. pending \in Seq(Row) /\ pending' \in Seq(Row)
        BY <1>0 DEF TypeOK
      <4>2. new \in Row
        <5>1. table \in [1..Len(table) -> Record]
          BY <1>0, LenProperties DEF TypeOK
        <5> QED
          BY <1>0, <2>1, <5>1 DEF LiveAt, Projected, TypeOK, Record, Row
      <4> HIDE DEF new
      <4>3. /\ Len(pending') = Len(pending) + 1
            /\ \A p \in 1..Len(pending) : pending'[p] = pending[p]
            /\ pending'[Len(pending) + 1] = new
        BY <3>1, <4>1, <4>2, AppendProperties
      <4> QED
        BY <4>1, <4>3, LenProperties
    <3> HIDE DEF new
    <3>4. BareKeys(pending')
      BY <3>2, <3>3 DEF KeyInv, StoredBare, BareKeys
    <3>5. PendingFresh'
      <4>1. \A p \in DOMAIN pending : pending[p].key # table[scan].key
        BY <2>1 DEF KeyInv, PendingFresh
      <4>2. DistinctKeys(pending')
        BY <3>2, <3>3, <4>1 DEF KeyInv, PendingFresh, DistinctKeys
      <4>3. \A i \in LiveAt(table') : table'[i].key # new.key
        BY <2>1, <2>2, <3>2 DEF KeyInv, UniqueLiveKeys
      <4>4. \A p \in DOMAIN pending : \A i \in LiveAt(table') : table'[i].key # pending[p].key
        BY <2>2 DEF KeyInv, PendingFresh
      <4> QED
        BY <3>3, <4>2, <4>3, <4>4 DEF PendingFresh
    <3>6. LiveIndexed'
      BY <2>1, <2>2, <3>1 DEF KeyInv, LiveIndexed
    <3> QED
      BY <1>0, <2>1, <2>2, <3>1, <3>4, <3>5, <3>6 DEF KeyInv, StoredBare, CopyDistinct
  <2> QED
    BY <2>3, <2>4
<1>8. CASE AppendUpdate
  BY <1>0, <1>8, SerializeKeys DEF AppendUpdate
<1>9. CASE FinishSequentialDelete \/ FinishUpdate
  <2>1. newTable = <<>>
    BY <1>9 DEF FinishSequentialDelete, FinishUpdate, KeyInv, CopyDistinct
  <2> QED
    BY <1>0, <1>9, <2>1, RebuiltKeys DEF FinishSequentialDelete, FinishUpdate, StatementOver
<1>10. CASE Start
  <2>1. newTable = <<>> /\ RecalculateIndices /\ UNCHANGED <<table, newTable, pending>>
    BY <1>10 DEF Start, KeyInv, CopyDistinct, RecalculateIndices
  <2>2. \A i \in LiveAt(table) : index'[table[i].key] = i
    BY <1>0, <2>1, ExtractedComplete DEF KeyInv, UniqueLiveKeys, RecalculateIndices, TypeOK
  <2> QED
    BY <1>0, <2>1, <2>2
    DEF KeyInv, StoredBare, UniqueLiveKeys, LiveIndexed, PendingFresh, CopyDistinct
<1>11. CASE Stop
  <2>1. /\ phase \notin {"copy", "rename"} /\ ProcessGone
        /\ UNCHANGED <<table, newTable>>
    BY <1>11 DEF Stop, CompactionUninterrupted
  <2>2. newTable = <<>> /\ BareKeys(table)
    BY <2>1 DEF KeyInv, CopyDistinct, StoredBare
  <2> QED
    BY <1>0, <2>1, <2>2, GoneKeys
<1>12. CASE CheckTombstoneRatio
  <2>1. /\ phase = "check" /\ UNCHANGED <<table, newTable>>
        /\ newTable = <<>> /\ BareKeys(table)
    BY <1>12 DEF CheckTombstoneRatio, KeyInv, CopyDistinct, StoredBare
  <2>2. CASE ~HasCounter
    BY <1>0, <1>12, <2>1, <2>2, GoneKeys DEF CheckTombstoneRatio
  <2>3. CASE HasCounter
    <3>1. phase' \in {"copy", "idle"} /\ UNCHANGED <<index, pending>>
      BY <1>12, <2>3 DEF CheckTombstoneRatio
    <3> QED
      BY <1>0, <2>1, <3>1, EmptyRows
      DEF KeyInv, StoredBare, UniqueLiveKeys, LiveIndexed, PendingFresh, CopyDistinct
  <2> QED
    BY <2>2, <2>3
<1>13. CASE CopyNextRecord
  <2>1. /\ phase = "copy" /\ UNCHANGED <<table, index, phase, pending>>
        /\ scan' = scan + 1
        /\ scan \in DOMAIN table
        /\ newTable' = IF scan \in LiveAt(table) THEN Append(newTable, table[scan]) ELSE newTable
    BY <1>13 DEF CopyNextRecord
  <2>2. BareKeys(newTable') /\ CopyDistinct'
    <3>1. CASE scan \notin LiveAt(table)
      BY <1>0, <2>1, <3>1 DEF KeyInv, StoredBare, CopyDistinct, TypeOK, LiveAt
    <3>2. CASE scan \in LiveAt(table)
      <4> DEFINE last == Len(newTable) + 1
      <4>1. table[scan] \in Record /\ newTable \in Seq(Record) /\ scan \in Nat
        BY <1>0, <2>1, LenProperties DEF TypeOK
      <4>2. /\ DOMAIN newTable' = DOMAIN newTable \cup {last}
            /\ \A n \in DOMAIN newTable : newTable'[n] = newTable[n]
            /\ newTable'[last] = table[scan]
        BY <2>1, <3>2, <4>1, AppendedFile
      <4> HIDE DEF last
      <4>3. \A n \in DOMAIN newTable :
              \E i \in LiveAt(table) : i < scan /\ table[i].key = newTable[n].key
        BY <2>1 DEF KeyInv, CopyDistinct
      <4>4. \A n \in DOMAIN newTable : newTable[n].key # table[scan].key
        <5> TAKE n \in DOMAIN newTable
        <5>1. PICK i \in LiveAt(table) : i < scan /\ table[i].key = newTable[n].key
          BY <4>3
        <5>2. i # scan
          BY <4>1, <5>1 DEF LiveAt
        <5> QED
          BY <3>2, <5>1, <5>2 DEF KeyInv, UniqueLiveKeys
      <4>5. DistinctKeys(newTable')
        BY <4>2, <4>4 DEF KeyInv, CopyDistinct, DistinctKeys
      <4>6. BareKeys(newTable')
        BY <2>1, <4>2 DEF KeyInv, StoredBare, BareKeys
      <4>7. ASSUME NEW n \in DOMAIN newTable'
            PROVE  \E i \in LiveAt(table) : i < scan + 1 /\ table[i].key = newTable'[n].key
        <5>1. CASE n = last
          <6>1. scan < scan + 1 /\ table[scan].key = newTable'[n].key
            BY <4>1, <4>2, <5>1
          <6> QED
            BY <3>2, <6>1
        <5>2. CASE n # last
          <6>1. PICK i \in LiveAt(table) : i < scan /\ table[i].key = newTable[n].key
            BY <4>2, <4>3, <5>2
          <6>2. i < scan + 1
            BY <1>0, <4>1, <6>1 DEF LiveAt, TypeOK
          <6> QED
            BY <4>2, <5>2, <6>1, <6>2
        <5> QED
          BY <5>1, <5>2
      <4> QED
        BY <2>1, <4>5, <4>6, <4>7 DEF CopyDistinct
    <3> QED
      BY <3>1, <3>2
  <2> QED
    BY <1>0, <2>1, <2>2 DEF KeyInv, StoredBare, UniqueLiveKeys, LiveIndexed, PendingFresh
<1>14. CASE RemoveOldFile
  <2>1. /\ phase = "copy" /\ phase' = "rename" /\ table' = <<>>
        /\ UNCHANGED <<newTable, pending>>
    BY <1>14 DEF RemoveOldFile
  <2> QED
    BY <1>0, <2>1, EmptyRows
    DEF KeyInv, StoredBare, UniqueLiveKeys, LiveIndexed, PendingFresh, CopyDistinct
<1>15. CASE RenameNewFile
  <2>1. /\ table' = newTable /\ newTable' = <<>> /\ pending' = <<>> /\ phase' = "idle"
        /\ index' = ExtractPrimaryKeysIndex(newTable)
    BY <1>15 DEF RenameNewFile, StatementOver
  <2>2. \A i, j \in LiveAt(newTable) : newTable[i].key = newTable[j].key => i = j
    BY DEF KeyInv, CopyDistinct, DistinctKeys, LiveAt
  <2>3. \A i \in LiveAt(newTable) : index'[newTable[i].key] = i
    BY <1>0, <2>1, <2>2, ExtractedComplete DEF TypeOK
  <2> QED
    BY <1>0, <2>1, <2>2, <2>3, EmptyRows
    DEF KeyInv, StoredBare, UniqueLiveKeys, LiveIndexed, PendingFresh, CopyDistinct
<1>16. CASE UNCHANGED vars
  BY <1>16, <1>0
  DEF vars, KeyInv, StoredBare, UniqueLiveKeys, LiveIndexed, PendingFresh, CopyDistinct
<1>17. ~(\E batch \in ImportBatches : BeginImport(batch))
  BY DEF NothingImported
<1> QED
  BY <1>1, <1>2, <1>3, <1>4, <1>5, <1>6, <1>7, <1>8, <1>9, <1>10, <1>11, <1>12, <1>13, <1>14,
     <1>15, <1>16, <1>17
  DEF Next, StatementStep
-----------------------------------------------------------------------------
LEMMA KeyInvariant ==
  ASSUME BareBatches, NothingImported, CompactionUninterrupted
  PROVE  Spec => []KeyInv
<1>1. KeyInv /\ [Next]_vars => KeyInv'
  BY KeyNext
<1> QED
  BY <1>1, KeyInit, PTL DEF Spec

(* No two live records have the same key, at any step of any statement. *)
THEOREM KeysStayUnique ==
  ASSUME BareBatches, NothingImported, CompactionUninterrupted
  PROVE  Spec => []UniqueLiveKeys
<1>1. KeyInv => UniqueLiveKeys
  BY DEF KeyInv
<1> QED
  BY <1>1, KeyInvariant, PTL

(* Between two statements the uniqueness check of the next INSERT sees every live row. *)
THEOREM IndexStaysComplete ==
  ASSUME BareBatches, NothingImported, CompactionUninterrupted
  PROVE  Spec => []IndexComplete
<1>1. KeyInv => IndexComplete
  BY DEF KeyInv, LiveIndexed, IndexComplete, LiveAt, TypeOK
<1> QED
  BY <1>1, KeyInvariant, PTL

(* A SELECT by a key without quotation marks answers what a scan of the file answers, even when *)
(* an interrupted statement has left index entries that point to tombstones.                    *)
THEOREM IndexedReadsAgree ==
  ASSUME BareBatches, NothingImported, CompactionUninterrupted, \A lit \in KeyLiterals : IsBare(lit)
  PROVE  Spec => []IndexedReadAgrees
<1>1. KeyInv => IndexedReadAgrees
  <2> SUFFICES ASSUME KeyInv, phase = "idle", NEW lit \in KeyLiterals
               PROVE  SelectByKey(lit) = {row \in LiveRows(table) : row.key = RemoveOuterQuotes(lit)}
    BY DEF IndexedReadAgrees
  <2> DEFINE found == index[lit] # 0 /\ index[lit] \in LiveAt(table) /\ table[index[lit]].key = lit
  <2>1. RemoveOuterQuotes(lit) = lit
    BY DEF RemoveOuterQuotes, IsBare
  <2>2. \A i \in LiveAt(table) : i # 0 /\ index[table[i].key] = i
    BY DEF KeyInv, LiveIndexed, LiveAt, TypeOK
  <2>3. SelectByKey(lit) = IF found THEN {RowOf(table[index[lit]])} ELSE {}
    BY <2>1 DEF SelectByKey
  <2>4. {row \in LiveRows(table) : row.key = lit}
          = {RowOf(table[i]) : i \in {j \in LiveAt(table) : table[j].key = lit}}
    BY DEF LiveRows, RowOf
  <2>5. CASE found
    <3>1. {j \in LiveAt(table) : table[j].key = lit} = {index[lit]}
      BY <2>2, <2>5
    <3> QED
      BY <2>1, <2>3, <2>4, <2>5, <3>1
  <2>6. CASE ~found
    <3>1. {j \in LiveAt(table) : table[j].key = lit} = {}
      BY <2>2, <2>6
    <3> QED
      BY <2>1, <2>3, <2>4, <2>6, <3>1
  <2> QED
    BY <2>5, <2>6
<1> QED
  BY <1>1, KeyInvariant, PTL
-----------------------------------------------------------------------------
(* Counting the records of a file *)

(* No WHERE clause throws on a row. *)
NothingThrows == \A cond \in Conditions : cond.throws = {}

LEMMA FileCounts ==
  ASSUME NEW file \in Seq(Record)
  PROVE  /\ IsFiniteSet(DOMAIN file) /\ IsFiniteSet(LiveAt(file))
         /\ Cardinality(LiveAt(file)) \in Nat
         /\ TombstoneCount(file) \in Nat
         /\ Len(file) = TombstoneCount(file) + Cardinality(LiveAt(file))
<1>1. DOMAIN file = 1..Len(file) /\ Len(file) \in Nat
  BY LenProperties
<1>2. IsFiniteSet(DOMAIN file) /\ Cardinality(DOMAIN file) = Len(file)
  BY <1>1, FS_Interval
<1>3. LiveAt(file) \subseteq DOMAIN file
  BY DEF LiveAt
<1>4. IsFiniteSet(LiveAt(file)) /\ IsFiniteSet(DOMAIN file \ LiveAt(file))
  BY <1>2, <1>3, FS_Subset, FS_Difference
<1>5. Cardinality(LiveAt(file)) \in Nat /\ TombstoneCount(file) \in Nat
  BY <1>4, FS_CardinalityType DEF TombstoneCount
<1>6. Cardinality(DOMAIN file \ LiveAt(file))
        = Cardinality(DOMAIN file) - Cardinality(DOMAIN file \cap LiveAt(file))
  BY <1>2, <1>4, FS_Difference
<1>7. DOMAIN file \cap LiveAt(file) = LiveAt(file)
  BY <1>3
<1>8. TombstoneCount(file) = Len(file) - Cardinality(LiveAt(file))
  BY <1>2, <1>6, <1>7 DEF TombstoneCount
<1>9. Len(file) = TombstoneCount(file) + Cardinality(LiveAt(file))
  BY <1>1, <1>5, <1>8
<1> QED
  BY <1>2, <1>4, <1>5, <1>9
-----------------------------------------------------------------------------
(* Entries of live records, and the counter *)

(* Until a DELETE or an UPDATE scans the file, the index has entries of live records only. *)
EntriesLive ==
  phase \in {"idle", "insert", "check", "copy"} =>
    \A k \in Text : index[k] # 0 => index[k] \in LiveAt(table)

CounterInv ==
  /\ TypeOK
  /\ IndexAligned
  /\ EntriesLive
  /\ CounterBelowTombstones
  /\ condition.throws = {}

LEMMA CounterInit ==
  ASSUME InitialCounters \subseteq {0, NoCounter}, Init
  PROVE  CounterInv
<1>1. TombstoneCount(<<>>) = 0
  BY EmptyRows, FS_EmptySet DEF TombstoneCount
<1> QED
  BY <1>1, TypeInit, AlignedInit
  DEF Init, CounterInv, EntriesLive, EmptyIndex, CounterBelowTombstones, NoCounter, NoCondition

(* A live record that becomes a tombstone is one more tombstone. *)
LEMMA TombstoneCounted ==
  ASSUME NEW file \in Seq(Record), NEW p \in LiveAt(file)
  PROVE  TombstoneCount(Tombstone(file, p)) = TombstoneCount(file) + 1
<1>1. /\ LiveAt(Tombstone(file, p)) = LiveAt(file) \ {p}
      /\ DOMAIN Tombstone(file, p) = DOMAIN file
  BY TombstoneLive
<1>2. /\ DOMAIN file \ (LiveAt(file) \ {p}) = (DOMAIN file \ LiveAt(file)) \cup {p}
      /\ p \notin DOMAIN file \ LiveAt(file)
  BY DEF LiveAt
<1>3. IsFiniteSet(DOMAIN file \ LiveAt(file))
  BY FileCounts, FS_Difference
<1>4. Cardinality((DOMAIN file \ LiveAt(file)) \cup {p})
        = Cardinality(DOMAIN file \ LiveAt(file)) + 1
  BY <1>2, <1>3, FS_AddElement
<1>5. TombstoneCount(Tombstone(file, p)) = Cardinality((DOMAIN file \ LiveAt(file)) \cup {p})
  BY <1>1, <1>2, Zenon DEF TombstoneCount
<1> QED
  BY <1>4, <1>5 DEF TombstoneCount

(* An appended row is live: the tombstones are those that were there. *)
LEMMA SerializedLive ==
  ASSUME TypeOK, pending # <<>>, NEW type \in {"INSERT", "UPDATE"},
         SerializeNormalizedRecord(type)
  PROVE  /\ LiveAt(table') = LiveAt(table) \cup {Len(table) + 1}
         /\ TombstoneCount(table') = TombstoneCount(table)
<1> DEFINE rec == [type |-> type, key |-> Stored(Head(pending)).key,
                   val |-> Stored(Head(pending)).val]
<1>1. type \in RecordTypes
  BY DEF RecordTypes
<1>2. rec \in Record /\ IsLive(rec)
  BY <1>1, SerializeType DEF Row, Record, IsLive
<1>3. table' = Append(table, rec) /\ table \in Seq(Record)
  BY DEF SerializeNormalizedRecord, TypeOK
<1> HIDE DEF rec
<1>4. /\ DOMAIN table' = DOMAIN table \cup {Len(table) + 1}
      /\ Len(table) + 1 \notin DOMAIN table
      /\ LiveAt(table') = LiveAt(table) \cup {Len(table) + 1}
  BY <1>2, <1>3, AppendedFile
<1>5. DOMAIN table' \ LiveAt(table') = DOMAIN table \ LiveAt(table)
  BY <1>4 DEF LiveAt
<1> QED
  BY <1>4, <1>5 DEF TombstoneCount

(* The process is gone: nothing is counted and nothing indexed. *)
LEMMA GoneCounter ==
  ASSUME TypeOK', ProcessGone
  PROVE  CounterInv'
<1>1. TombstoneCount(table') \in Nat
  BY FileCounts DEF TypeOK
<1>2. IndexAligned'
  BY EmptyAligned DEF IndexAligned, Aligned, ProcessGone
<1>3. EntriesLive'
  BY DEF EntriesLive, ProcessGone
<1>4. CounterBelowTombstones'
  BY <1>1 DEF CounterBelowTombstones, ProcessGone, NoCounter
<1>5. condition'.throws = {}
  BY DEF ProcessGone, StatementOver, NoCondition
<1> QED
  BY <1>2, <1>3, <1>4, <1>5 DEF CounterInv

LEMMA CounterNext ==
  ASSUME NothingThrows, CounterInv, [Next]_vars
  PROVE  CounterInv'
<1> USE DEF disk, memory, statement
<1>1. TypeOK /\ TypeOK' /\ IndexAligned /\ IndexAligned'
  BY TypeNext, AlignedNext DEF CounterInv
<1>2. CASE ProcessGone
  BY <1>1, <1>2, GoneCounter
<1>3. ASSUME UNCHANGED <<table, index, deleteCount>>, condition'.throws = {}, phase \notin {"rename", "down"},
             phase \in {"delete", "update", "append", "rename"} =>
               phase' \in {"delete", "update", "append", "rename"}
      PROVE  CounterInv'
  <2>1. EntriesLive'
    BY <1>1, <1>3 DEF CounterInv, EntriesLive, TypeOK, Phases
  <2>2. CounterBelowTombstones'
    BY <1>3 DEF CounterInv, CounterBelowTombstones
  <2> QED
    BY <1>1, <1>3, <2>1, <2>2 DEF CounterInv
<1>4. NoCondition.throws = {}
  BY DEF NoCondition
<1>5. ASSUME NEW batch, BeginInsert(batch) \/ BeginImport(batch)
      PROVE  CounterInv'
  BY <1>3, <1>5 DEF BeginInsert, BeginImport, StartAppending, CounterInv
<1>6. ASSUME NEW cond \in Conditions, NEW lit, BeginSequentialDelete(cond) \/ BeginUpdate(cond, lit)
      PROVE  CounterInv'
  BY <1>3, <1>6 DEF BeginSequentialDelete, BeginUpdate, CounterInv, NothingThrows
<1>7. ASSUME NEW lit \in KeyLiterals, DeleteByIndexLookup(lit)
      PROVE  CounterInv'
  <2> DEFINE k == RemoveOuterQuotes(RemoveOuterQuotes(lit))
  <2>1. CASE ~HasCounter
    BY <1>2, <1>7, <2>1 DEF DeleteByIndexLookup
  <2>2. CASE HasCounter
    <3>1. /\ phase = "idle" /\ phase' = "check" /\ index[k] # 0
          /\ table' = Tombstone(table, index[k])
          /\ index' = [index EXCEPT ![k] = 0]
          /\ deleteCount' = deleteCount + 1
          /\ condition' = condition
      BY <1>7, <2>2 DEF DeleteByIndexLookup, EraseKeyFromIndex, CountDelete
    <3>2. k \in Text
      BY <1>7, StoreAssumption, RemoveOuterQuotesType
    <3>3. table \in Seq(Record) /\ index \in [Text -> Nat]
      BY <1>1 DEF TypeOK
    <3>4. index[k] \in LiveAt(table)
      BY <3>1, <3>2 DEF CounterInv, EntriesLive
    <3>5. TombstoneCount(table') = TombstoneCount(table) + 1 /\ TombstoneCount(table) \in Nat
      BY <3>1, <3>3, <3>4, TombstoneCounted, FileCounts
    <3>6. deleteCount \in Nat /\ deleteCount <= TombstoneCount(table)
      BY <1>1, <2>2, <3>1 DEF CounterInv, CounterBelowTombstones, TypeOK, HasCounter
    <3>7. LiveAt(table') = LiveAt(table) \ {index[k]}
      BY <3>1, <3>3, TombstoneLive
    <3>8. ASSUME NEW j \in Text, index'[j] # 0
          PROVE  index'[j] \in LiveAt(table')
      <4>1. j # k /\ index'[j] = index[j]
        BY <3>1, <3>3, <3>8
      <4>2. index[j] \in LiveAt(table)
        BY <3>1, <3>8, <4>1 DEF CounterInv, EntriesLive
      <4>3. index[j] # index[k]
        BY <1>1, <3>1, <3>2, <3>8, <4>1 DEF IndexAligned
      <4> QED
        BY <3>7, <4>1, <4>2, <4>3
    <3>9. EntriesLive'
      BY <3>8 DEF EntriesLive
    <3>10. CounterBelowTombstones'
      BY <3>1, <3>5, <3>6 DEF CounterBelowTombstones
    <3> QED
      BY <1>1, <3>1, <3>9, <3>10 DEF CounterInv
  <2> QED
    BY <2>1, <2>2
<1>8. CASE AppendInsert \/ AppendUpdate
  <2>1. /\ LiveAt(table') = LiveAt(table) \cup {Len(table) + 1}
        /\ TombstoneCount(table') = TombstoneCount(table)
    BY <1>1, <1>8, SerializedLive DEF AppendInsert, AppendUpdate
  <2>2. phase' = phase /\ deleteCount' = deleteCount /\ condition' = condition
    BY <1>8 DEF AppendInsert, AppendUpdate
  <2>3. phase \in {"insert", "append"}
    BY <1>8 DEF AppendInsert, AppendUpdate
  <2>4. ASSUME NEW k \in Text, index'[k] # 0, phase = "insert"
        PROVE  index'[k] \in LiveAt(table')
    <3>1. index'[k] \in {index[k], Len(table) + 1}
      BY <1>1, <1>8 DEF AppendInsert, AppendUpdate, SerializeNormalizedRecord, TypeOK
    <3> QED
      BY <2>1, <2>4, <3>1 DEF CounterInv, EntriesLive
  <2>5. EntriesLive'
    BY <2>2, <2>3, <2>4 DEF EntriesLive
  <2>6. CounterBelowTombstones'
    BY <2>1, <2>2, <2>3 DEF CounterInv, CounterBelowTombstones
  <2> QED
    BY <1>1, <2>2, <2>5, <2>6 DEF CounterInv
<1>9. CASE DeleteRecord \/ MarkOldRecord
  <2>1. CASE ~HasCounter
    BY <1>2, <1>9, <2>1 DEF DeleteRecord, MarkOldRecord
  <2>2. CASE HasCounter
    <3>1. /\ scan \in LiveAt(table)
          /\ phase' = phase /\ phase \in {"delete", "update"}
          /\ table' = Tombstone(table, scan)
          /\ deleteCount' = deleteCount + 1
          /\ condition' = condition
      BY <1>9, <2>2 DEF DeleteRecord, MarkOldRecord, AtMatch, CountDelete
    <3>2. TombstoneCount(table') = TombstoneCount(table) + 1 /\ TombstoneCount(table) \in Nat
      BY <1>1, <3>1, TombstoneCounted, FileCounts DEF TypeOK
    <3>3. deleteCount \in Nat /\ deleteCount <= TombstoneCount(table)
      BY <1>1, <2>2, <3>1 DEF CounterInv, CounterBelowTombstones, TypeOK, HasCounter
    <3> QED
      BY <1>1, <3>1, <3>2, <3>3 DEF CounterInv, EntriesLive, CounterBelowTombstones
  <2> QED
    BY <2>1, <2>2
<1>10. CASE FinishSequentialDelete \/ FinishUpdate
  <2>1. /\ index' = ExtractPrimaryKeysIndex(table) /\ table' = table
        /\ deleteCount' = deleteCount /\ phase # "rename" /\ phase' = "check"
        /\ condition' = NoCondition
    BY <1>10 DEF FinishSequentialDelete, FinishUpdate, RecalculateIndices, StatementOver
  <2> QED
    BY <1>1, <1>4, <2>1, ExtractedIndex
    DEF CounterInv, EntriesLive, CounterBelowTombstones, TypeOK
<1>11. CASE RenameNewFile \/ Start
  <2>1. /\ index' = ExtractPrimaryKeysIndex(table') /\ table' \in Seq(Record)
        /\ deleteCount' = 0 /\ phase' = "idle"
    BY <1>1, <1>11 DEF RenameNewFile, Start, TypeOK
  <2>2. condition'.throws = {}
    BY <1>4, <1>11 DEF RenameNewFile, Start, StatementOver, CounterInv
  <2>3. TombstoneCount(table') \in Nat
    BY <2>1, FileCounts
  <2> QED
    BY <1>1, <2>1, <2>2, <2>3, ExtractedIndex DEF CounterInv, EntriesLive, CounterBelowTombstones
<1>12. CASE CheckTombstoneRatio
  BY <1>2, <1>3, <1>12 DEF CheckTombstoneRatio, CounterInv
<1>13. CASE RemoveOldFile
  BY <1>1, <1>13 DEF RemoveOldFile, CounterInv, EntriesLive, CounterBelowTombstones
<1>14. CASE ScanThrows
  BY <1>14 DEF ScanThrows, AtThrow, CounterInv
<1>15. CASE FinishInsert \/ ScanPast \/ FinishScan \/ CopyNextRecord
  BY <1>3, <1>15 DEF FinishInsert, ScanPast, FinishScan, CopyNextRecord, CounterInv
<1>16. CASE Stop
  BY <1>2, <1>16 DEF Stop
<1>17. CASE UNCHANGED vars
  BY <1>1, <1>17 DEF vars, CounterInv, EntriesLive, CounterBelowTombstones
<1> QED
  BY <1>5, <1>6, <1>7, <1>8, <1>9, <1>10, <1>11, <1>12, <1>13, <1>14, <1>15, <1>16, <1>17
  DEF Next, StatementStep

LEMMA CounterInvariant ==
  ASSUME NothingThrows, InitialCounters \subseteq {0, NoCounter}
  PROVE  Spec => []CounterInv
<1>1. Init => CounterInv
  BY CounterInit
<1>2. CounterInv /\ [Next]_vars => CounterInv'
  BY CounterNext
<1> QED
  BY <1>1, <1>2, PTL DEF Spec

(* If no WHERE clause throws, no index entry points to a tombstone between two statements, *)
(* whatever is imported, quoted or interrupted.                                            *)
THEOREM IndexStaysLive ==
  ASSUME NothingThrows, InitialCounters \subseteq {0, NoCounter}
  PROVE  Spec => []IndexPointsToLive
<1>1. CounterInv => IndexPointsToLive
  BY DEF CounterInv, EntriesLive, IndexPointsToLive
<1> QED
  BY <1>1, CounterInvariant, PTL

(* If no WHERE clause throws, the counter never claims a tombstone that is not in the file. *)
THEOREM CounterStaysBelow ==
  ASSUME NothingThrows, InitialCounters \subseteq {0, NoCounter}
  PROVE  Spec => []CounterBelowTombstones
<1>1. CounterInv => CounterBelowTombstones
  BY DEF CounterInv
<1> QED
  BY <1>1, CounterInvariant, PTL
-----------------------------------------------------------------------------
(* Compactions *)

(* The live records the copy has passed. *)
Passed == {i \in LiveAt(table) : i < scan}

(* The new file is empty when a compaction begins, and the scan is at the first record. *)
CopyInv ==
  /\ TypeOK
  /\ phase \notin {"copy", "rename"} => newTable = <<>>
  /\ phase \in {"idle", "insert", "check", "down"} => scan = 1
  /\ CopyFaithful

LEMMA CopyInit == Init => CopyInv
<1>1. Init => phase # "copy" /\ scan = 1 /\ newTable = <<>>
  BY DEF Init
<1>2. phase # "copy" => CopyFaithful
  BY Zenon DEF CopyFaithful
<1> QED
  BY <1>1, <1>2, TypeInit, Zenon DEF CopyInv

LEMMA CopyStep ==
  ASSUME CopyInv, TypeOK', CopyNextRecord
  PROVE  CopyInv'
<1>1. /\ TypeOK /\ phase = "copy" /\ phase' = "copy"
      /\ scan \in DOMAIN table /\ scan' = scan + 1
      /\ table' = table /\ newTable \in Seq(Record) /\ scan \in Nat
  BY DEF CopyInv, CopyNextRecord, TypeOK
<1>2. /\ Len(newTable) = Cardinality(Passed)
      /\ \A i \in Passed : newTable[RankIn(Passed, i)] = table[i]
  BY <1>1 DEF CopyInv, CopyFaithful, Passed, RankIn
<1>3. Passed \in SUBSET Nat /\ LiveAt(table) \subseteq Nat /\ IsFiniteSet(Passed) /\ \A i \in Passed : i < scan
  <2>1. table \in Seq(Record)
    BY <1>1 DEF TypeOK
  <2>2. IsFiniteSet(LiveAt(table)) /\ LiveAt(table) \subseteq Nat
    <3>1. DOMAIN table \subseteq Nat
      BY <2>1, LenProperties
    <3>2. LiveAt(table) \subseteq DOMAIN table
      BY DEF LiveAt
    <3> QED
      BY <2>1, <3>1, <3>2, FileCounts
  <2>3. Passed \subseteq LiveAt(table)
    BY DEF Passed
  <2> QED
    BY <2>2, <2>3, FS_Subset DEF Passed
<1>4. CASE scan \in LiveAt(table)
  <2>1. newTable' = Append(newTable, table[scan])
    BY <1>4 DEF CopyNextRecord
  <2>2. Passed' = Passed \cup {scan}
    BY <1>1, <1>4 DEF Passed, LiveAt, TypeOK
  <2>3. table[scan] \in Record
    BY <1>1 DEF TypeOK
  <2>4. Len(newTable') = Cardinality(Passed') /\ newTable'[Len(newTable) + 1] = table[scan]
    <3>1. Len(newTable') = Len(newTable) + 1 /\ newTable'[Len(newTable) + 1] = table[scan]
      BY <1>1, <2>1, <2>3, AppendProperties
    <3>2. Cardinality(Passed \cup {scan}) = Cardinality(Passed) + 1
      BY <1>1, <1>3, RankGrows
    <3> QED
      BY <1>2, <2>2, <3>1, <3>2
  <2>5. ASSUME NEW i \in Passed
        PROVE  newTable'[RankIn(Passed', i)] = table[i]
    <3>1. RankIn(Passed', i) = RankIn(Passed, i) /\ RankIn(Passed, i) \in 1..Len(newTable)
      BY <1>1, <1>2, <1>3, <2>2, RankGrows, RankBounds
    <3>2. newTable'[RankIn(Passed, i)] = newTable[RankIn(Passed, i)]
      BY <1>1, <2>1, <2>3, <3>1, AppendProperties
    <3> QED
      BY <1>2, <3>1, <3>2
  <2>6. newTable'[RankIn(Passed', scan)] = table[scan]
    BY <1>1, <1>2, <1>3, <2>2, <2>4, RankGrows
  <2> QED
    BY <1>1, <2>2, <2>4, <2>5, <2>6 DEF CopyInv, CopyFaithful, Passed, RankIn
<1>5. CASE scan \notin LiveAt(table)
  <2>1. newTable' = newTable
    BY <1>5 DEF CopyNextRecord
  <2>2. LiveAt(table)' = LiveAt(table)
    BY <1>1 DEF LiveAt
  <2>3. Passed' = Passed
    BY <1>1, <1>3, <1>5, <2>2 DEF Passed
  <2> QED
    BY <1>1, <1>2, <2>1, <2>3 DEF CopyInv, CopyFaithful, Passed, RankIn
<1> QED
  BY <1>4, <1>5
LEMMA CopyNext ==
  ASSUME CompactionUninterrupted, CopyInv, TypeOK', [Next]_vars
  PROVE  CopyInv'
<1> USE DEF disk, memory, statement
<1>1. /\ TypeOK
      /\ phase \notin {"copy", "rename"} => newTable = <<>>
      /\ phase \in {"idle", "insert", "check", "down"} => scan = 1
  BY DEF CopyInv
<1>2. ASSUME /\ newTable' = newTable /\ phase' # "copy"
             /\ phase \notin {"copy", "rename"}
             /\ phase' \in {"idle", "insert", "check", "down"} => scan' = 1
      PROVE  CopyInv'
  BY <1>1, <1>2, Zenon DEF CopyInv, CopyFaithful
<1>3. ASSUME ProcessGone, newTable' = newTable, phase \notin {"copy", "rename"}
      PROVE  CopyInv'
  BY <1>2, <1>3 DEF ProcessGone, StatementOver
<1>4. ASSUME NEW batch, BeginInsert(batch) \/ BeginImport(batch)
      PROVE  CopyInv'
  BY <1>1, <1>2, <1>4 DEF BeginInsert, BeginImport, StartAppending
<1>5. ASSUME NEW cond, NEW lit, BeginSequentialDelete(cond) \/ BeginUpdate(cond, lit)
      PROVE  CopyInv'
  BY <1>1, <1>2, <1>5 DEF BeginSequentialDelete, BeginUpdate
<1>6. ASSUME NEW lit, DeleteByIndexLookup(lit)
      PROVE  CopyInv'
  BY <1>1, <1>2, <1>3, <1>6 DEF DeleteByIndexLookup
<1>7. CASE AppendInsert \/ FinishInsert \/ ScanPast \/ ScanThrows \/ FinishSequentialDelete
             \/ FinishScan \/ AppendUpdate \/ FinishUpdate \/ Start
  BY <1>1, <1>2, <1>7
  DEF AppendInsert, FinishInsert, ScanPast, ScanThrows, FinishSequentialDelete, FinishScan,
      AppendUpdate, FinishUpdate, Start, SerializeNormalizedRecord, StatementOver
<1>8. CASE DeleteRecord \/ MarkOldRecord
  BY <1>1, <1>2, <1>3, <1>8 DEF DeleteRecord, MarkOldRecord
<1>9. CASE CheckTombstoneRatio
  <2>1. CASE phase' = "copy"
    <3>1. newTable' = <<>> /\ scan' = 1
      BY <1>1, <1>9, <2>1 DEF CheckTombstoneRatio, ProcessGone
    <3>2. Passed' = {}
      <4>1. LiveAt(table)' \subseteq Nat \ {0}
        BY LenProperties DEF LiveAt, TypeOK
      <4> QED
        BY <3>1, <4>1 DEF Passed
    <3>3. Len(newTable)' = Cardinality(Passed)'
      BY <3>1, <3>2, FS_EmptySet
    <3> QED
      BY <2>1, <3>1, <3>2, <3>3 DEF CopyInv, CopyFaithful, Passed
  <2>2. CASE phase' # "copy"
    BY <1>1, <1>2, <1>3, <1>9, <2>2 DEF CheckTombstoneRatio
  <2> QED
    BY <2>1, <2>2
<1>10. CASE CopyNextRecord
  BY <1>10, CopyStep
<1>11. CASE RemoveOldFile
  BY <1>11, Zenon DEF RemoveOldFile, CopyInv, CopyFaithful
<1>12. CASE RenameNewFile
  BY <1>12 DEF RenameNewFile, StatementOver, CopyInv, CopyFaithful
<1>13. CASE Stop
  BY <1>3, <1>13 DEF Stop, CompactionUninterrupted
<1>14. CASE UNCHANGED vars
  BY <1>14 DEF vars, CopyInv, CopyFaithful
<1> QED
  BY <1>4, <1>5, <1>6, <1>7, <1>8, <1>9, <1>10, <1>11, <1>12, <1>13, <1>14
  DEF Next, StatementStep

(* If no stop falls into a compaction, one has at each of its steps copied the live records it  *)
(* has passed, all of them, in their order, and nothing else; whatever was imported or thrown.  *)
THEOREM CopiesStayFaithful ==
  ASSUME CompactionUninterrupted
  PROVE  Spec => []CopyFaithful
<1>1. CopyInv /\ TypeOK' /\ [Next]_vars => CopyInv'
  BY CopyNext
<1>2. CopyInv => CopyFaithful
  BY DEF CopyInv
<1> QED
  BY <1>1, <1>2, CopyInit, TypeCorrect, PTL DEF Spec

-----------------------------------------------------------------------------
(* The refinement: the storage engine implements SqlTable, for every value of the constants *)
(* under which keys stay unique and a statement is not torn: no WHERE clause throws, no     *)
(* UPDATE and no compaction is interrupted, and the table has its delete counter. The       *)
(* process may stop at any other step.                                                      *)

UpdateUninterrupted == StopPhases \cap {"update", "append"} = {}

CounterPresent == InitialCounters \subseteq Nat

(* The live rows of the table that the copy has passed. *)
PassedRows == {RowOf(table[i]) : i \in {j \in LiveAt(table) : j < scan}}

(* What belongs to a statement is there only while it runs, and a compaction has taken over the *)
(* rows it has passed.                                                                           *)
StatementInv ==
  /\ phase \in {"idle", "insert", "check", "rename", "down"} => condition = NoCondition
  /\ phase = "copy" => condition = NoCondition
  /\ condition.throws = {}
  /\ phase \notin {"insert", "update", "append"} => pending = <<>>
  /\ phase \in {"idle", "insert", "check", "down"} => scan = 1
  /\ phase # "down" => HasCounter
  /\ phase = "copy" => LiveRows(newTable) = PassedRows

RefinementInv == KeyInv /\ StatementInv

LEMMA StatementInit ==
  ASSUME CounterPresent, Init
  PROVE  StatementInv
BY DEF CounterPresent, Init, StatementInv, HasCounter, NoCounter, NoCondition

LEMMA StatementNext ==
  ASSUME NothingThrows, RefinementInv, TypeOK', [Next]_vars
  PROVE  StatementInv'
<1> USE DEF disk, memory, statement
<1>1. TypeOK /\ StatementInv /\ CopyDistinct
  BY DEF RefinementInv, KeyInv
<1>2. NoCondition.throws = {}
  BY DEF NoCondition
<1>3. CASE ProcessGone
  BY <1>2, <1>3 DEF ProcessGone, StatementOver, StatementInv
<1>4. ASSUME NEW batch, BeginInsert(batch) \/ BeginImport(batch)
      PROVE  StatementInv'
  BY <1>1, <1>4 DEF BeginInsert, BeginImport, StartAppending, StatementInv, HasCounter
<1>5. ASSUME NEW cond \in Conditions, NEW lit, BeginSequentialDelete(cond) \/ BeginUpdate(cond, lit)
      PROVE  StatementInv'
  BY <1>1, <1>5 DEF BeginSequentialDelete, BeginUpdate, StatementInv, HasCounter, NothingThrows
<1>6. ASSUME NEW lit, DeleteByIndexLookup(lit)
      PROVE  StatementInv'
  <2>1. CASE HasCounter
    BY <1>1, <1>6, <2>1
    DEF DeleteByIndexLookup, CountDelete, StatementInv, HasCounter, NoCounter, TypeOK
  <2> QED
    BY <1>3, <1>6, <2>1 DEF DeleteByIndexLookup
<1>7. CASE AppendInsert \/ FinishInsert \/ AppendUpdate \/ FinishScan \/ ScanPast
  BY <1>1, <1>7
  DEF AppendInsert, FinishInsert, AppendUpdate, FinishScan, ScanPast, StatementInv, HasCounter
<1>8. CASE DeleteRecord \/ MarkOldRecord
  <2>1. HasCounter
    BY <1>1, <1>8 DEF DeleteRecord, MarkOldRecord, StatementInv
  <2> QED
    BY <1>1, <1>8, <2>1
    DEF DeleteRecord, MarkOldRecord, CountDelete, StatementInv, HasCounter, NoCounter, TypeOK
<1>9. CASE FinishSequentialDelete \/ FinishUpdate \/ ScanThrows
  BY <1>1, <1>2, <1>9
  DEF FinishSequentialDelete, FinishUpdate, ScanThrows, StatementOver, StatementInv, HasCounter
<1>10. CASE CheckTombstoneRatio
  <2>1. HasCounter /\ UNCHANGED <<disk, memory, statement>> /\ phase' \in {"idle", "copy"}
    BY <1>1, <1>10 DEF CheckTombstoneRatio, StatementInv
  <2>2. phase = "check" /\ newTable = <<>> /\ scan = 1
    BY <1>1, <1>10 DEF CheckTombstoneRatio, StatementInv, CopyDistinct
  <2>3. LiveRows(<<>>) = {}
    BY EmptyRows DEF LiveRows
  <2>4. {j \in LiveAt(table) : j < 1} = {}
    BY LenProperties DEF LiveAt, TypeOK
  <2>5. LiveRows(newTable') = PassedRows'
    BY <2>1, <2>2, <2>3, <2>4 DEF PassedRows
  <2> QED
    BY <1>1, <2>1, <2>2, <2>5 DEF StatementInv, HasCounter
<1>11. CASE CopyNextRecord
  <2>1. /\ phase = "copy" /\ phase' = "copy" /\ scan \in DOMAIN table /\ scan' = scan + 1
        /\ UNCHANGED <<table, memory, pending, condition, assigned>>
    BY <1>11 DEF CopyNextRecord
  <2>2. table \in Seq(Record) /\ newTable \in Seq(Record) /\ scan \in Nat
    BY <1>1 DEF TypeOK
  <2>3. LiveAt(table) \subseteq Nat
    BY <2>2, LenProperties DEF LiveAt
  <2>4. ASSUME scan \in LiveAt(table)
        PROVE  LiveRows(newTable') = PassedRows'
    <3>1. newTable' = Append(newTable, table[scan])
      BY <1>11, <2>4 DEF CopyNextRecord
    <3>2. table[scan] \in Record /\ IsLive(table[scan])
      BY <2>2, <2>4, LenProperties DEF LiveAt
    <3>3. /\ LiveAt(newTable') = LiveAt(newTable) \cup {Len(newTable) + 1}
          /\ \A i \in LiveAt(newTable) : newTable'[i] = newTable[i]
          /\ newTable'[Len(newTable) + 1] = table[scan]
      BY <2>2, <3>1, <3>2, AppendedFile DEF LiveAt
    <3>4. LiveRows(newTable') = LiveRows(newTable) \cup {RowOf(table[scan])}
      BY <3>3 DEF LiveRows
    <3>5. {j \in LiveAt(table) : j < scan + 1} = {j \in LiveAt(table) : j < scan} \cup {scan}
      BY <2>2, <2>3, <2>4
    <3>6. PassedRows' = PassedRows \cup {RowOf(table[scan])}
      BY <2>1, <3>5 DEF PassedRows
    <3> QED
      BY <1>1, <2>1, <3>4, <3>6 DEF StatementInv
  <2>5. ASSUME scan \notin LiveAt(table)
        PROVE  LiveRows(newTable') = PassedRows'
    <3>1. newTable' = newTable
      BY <1>11, <2>5 DEF CopyNextRecord
    <3>2. {j \in LiveAt(table) : j < scan + 1} = {j \in LiveAt(table) : j < scan}
      BY <2>2, <2>3, <2>5
    <3>3. PassedRows' = PassedRows
      BY <2>1, <3>2 DEF PassedRows
    <3> QED
      BY <1>1, <2>1, <3>1, <3>3 DEF StatementInv
  <2>6. LiveRows(newTable') = PassedRows'
    BY <2>4, <2>5
  <2> QED
    BY <1>1, <2>1, <2>6 DEF StatementInv, HasCounter
<1>12. CASE RemoveOldFile
  BY <1>1, <1>12 DEF RemoveOldFile, StatementInv, HasCounter
<1>13. CASE RenameNewFile
  BY <1>1, <1>2, <1>13 DEF RenameNewFile, StatementOver, StatementInv, HasCounter, NoCounter
<1>14. CASE Stop
  BY <1>3, <1>14 DEF Stop
<1>15. CASE Start
  BY <1>1, <1>15 DEF Start, StatementInv, HasCounter, NoCounter
<1>16. CASE UNCHANGED vars
  BY <1>1, <1>16 DEF vars, StatementInv, HasCounter, PassedRows
<1> QED
  BY <1>4, <1>5, <1>6, <1>7, <1>8, <1>9, <1>10, <1>11, <1>12, <1>13, <1>14, <1>15, <1>16
  DEF Next, StatementStep

LEMMA RefinementInvariant ==
  ASSUME BareBatches, NothingImported, CompactionUninterrupted, NothingThrows, CounterPresent
  PROVE  Spec => []RefinementInv
<1>1. Init => RefinementInv
  BY KeyInit, StatementInit DEF RefinementInv
<1>2. RefinementInv /\ [Next]_vars => RefinementInv'
  <2>1. RefinementInv /\ [Next]_vars => KeyInv'
    BY KeyNext DEF RefinementInv
  <2>2. KeyInv' => TypeOK'
    BY DEF KeyInv
  <2> QED
    BY <2>1, <2>2, StatementNext DEF RefinementInv
<1> QED
  BY <1>1, <1>2, PTL DEF Spec
-----------------------------------------------------------------------------
(* The mapped rows *)

mappedRows == storedRows \cup heldRows

(* The rows of the new file of a compaction, or of the table, have keys of their own, and so *)
(* have those an UPDATE holds.                                                                *)
LEMMA MappedUnique ==
  ASSUME RefinementInv
  PROVE  \A r, s \in mappedRows : r.key = s.key => r = s
<1>1. KeyInv /\ StatementInv
  BY DEF RefinementInv
<1>2. \A i \in DOMAIN pending : pending[i] \in Row /\ Stored(pending[i]).key = pending[i].key
  BY <1>1, BareIsStored, LenProperties DEF KeyInv, TypeOK, StoredBare, BareKeys
<1>3. \A r, s \in heldRows : r.key = s.key => r = s
  BY <1>1, <1>2 DEF heldRows, KeyInv, PendingFresh, DistinctKeys
<1>4. CASE phase = "rename"
  <2>1. mappedRows = LiveRows(newTable)
    BY <1>4 DEF mappedRows, storedRows, heldRows
  <2>2. \A i, j \in LiveAt(newTable) : newTable[i].key = newTable[j].key => i = j
    BY <1>1 DEF KeyInv, CopyDistinct, DistinctKeys, LiveAt
  <2> QED
    BY <2>1, <2>2 DEF LiveRows, RowOf
<1>5. CASE phase # "rename"
  <2>1. storedRows = LiveRows(table)
    BY <1>5 DEF storedRows
  <2>2. \A r, s \in storedRows : r.key = s.key => r = s
    BY <1>1, <2>1 DEF KeyInv, UniqueLiveKeys, LiveRows, RowOf
  <2>3. \A r \in storedRows, s \in heldRows : r.key # s.key
    BY <1>1, <1>2, <2>1 DEF heldRows, KeyInv, PendingFresh, LiveRows, RowOf
  <2> QED
    BY <1>3, <2>2, <2>3 DEF mappedRows
<1> QED
  BY <1>4, <1>5

(* The rows of the table and those an UPDATE holds in memory have unique keys at every step. *)
THEOREM MappedKeysStayUnique ==
  ASSUME BareBatches, NothingImported, CompactionUninterrupted, NothingThrows, CounterPresent
  PROVE  Spec => []MappedKeysUnique
<1>1. RefinementInv => MappedKeysUnique
  BY MappedUnique DEF MappedKeysUnique, Abstract!UniqueKeys, mappedRows
<1> QED
  BY <1>1, RefinementInvariant, PTL
-----------------------------------------------------------------------------
(* The steps *)

(* A step that leaves what is mapped alone, or looks at a record without touching it. *)
LEMMA StutterStep ==
  ASSUME UNCHANGED <<mappedRows, statementKind, condition.hits, unseenRows>>
  PROVE  [Abstract!TableNext]_(Abstract!tableVars)
BY DEF mappedRows, Abstract!tableVars

LEMMA InsertRefines ==
  ASSUME RefinementInv, TypeOK', pending # <<>>, AppendInsert
  PROVE  Abstract!TableNext
<1> DEFINE row == Stored(Head(pending))
           rec == [type |-> "INSERT", key |-> row.key, val |-> row.val]
<1>1. KeyInv /\ StatementInv /\ TypeOK
  BY DEF RefinementInv, KeyInv
<1>2. phase = "insert" /\ phase' = "insert" /\ UNCHANGED <<condition, scan>>
      /\ SerializeNormalizedRecord("INSERT")
  BY DEF AppendInsert
<1>3. row \in Row /\ Head(pending) \in Row
  BY <1>1, <1>2, SerializeType DEF RecordTypes
<1>4. table' = Append(table, rec) /\ table \in Seq(Record) /\ rec \in Record
  BY <1>1, <1>2, <1>3 DEF SerializeNormalizedRecord, TypeOK, Record, Row, RecordTypes
<1>5. RowOf(rec) = row /\ IsLive(rec)
  BY <1>3 DEF RowOf, IsLive, Row
<1> HIDE DEF rec
<1>6. /\ LiveAt(table') = LiveAt(table) \cup {Len(table) + 1}
      /\ \A i \in LiveAt(table) : table'[i] = table[i]
      /\ table'[Len(table) + 1] = rec
  BY <1>4, <1>5, AppendedFile DEF LiveAt
<1>7. LiveRows(table') = LiveRows(table) \cup {row}
  BY <1>5, <1>6 DEF LiveRows
<1>8. /\ storedRows = LiveRows(table) /\ heldRows = {}
      /\ storedRows' = LiveRows(table') /\ heldRows' = {}
      /\ statementKind = "insert" /\ statementKind' = "insert"
      /\ unseenRows = {} /\ unseenRows' = {}
  BY <1>2 DEF storedRows, heldRows, statementKind, unseenRows
<1>9. \A s \in LiveRows(table) : s.key # row.key
  <2>1. 1 \in DOMAIN pending /\ pending[1] = Head(pending)
    BY <1>1, RestOfRows DEF TypeOK
  <2>2. row.key = pending[1].key
    BY <1>1, <1>3, <2>1, BareIsStored DEF KeyInv, StoredBare, BareKeys
  <2> QED
    BY <1>1, <2>1, <2>2 DEF KeyInv, PendingFresh, LiveRows, RowOf
<1>10. row \in [key : Text, val : Text]
  BY <1>3 DEF Row
<1>11. Abstract!AddRow(row)
  BY <1>2, <1>7, <1>8, <1>9 DEF Abstract!AddRow
<1> QED
  BY <1>10, <1>11 DEF Abstract!TableNext, Abstract!TableRow

(* Live records have different rows. *)
LEMMA RowsDiffer ==
  ASSUME UniqueLiveKeys
  PROVE  \A i, j \in LiveAt(table) : RowOf(table[i]) = RowOf(table[j]) => i = j
BY DEF UniqueLiveKeys, RowOf

(* A tombstone takes one row out of the file. *)
LEMMA TombstoneRows ==
  ASSUME TypeOK, UniqueLiveKeys, NEW p \in LiveAt(table), table' = Tombstone(table, p)
  PROVE  /\ LiveAt(table') = LiveAt(table) \ {p}
         /\ \A i \in LiveAt(table') : RowOf(table'[i]) = RowOf(table[i])
         /\ LiveRows(table') = LiveRows(table) \ {RowOf(table[p])}
<1>1. table \in Seq(Record)
  BY DEF TypeOK
<1>2. LiveAt(table') = LiveAt(table) \ {p}
  BY <1>1, TombstoneLive
<1>3. \A i \in LiveAt(table') : RowOf(table'[i]) = RowOf(table[i])
  BY <1>1, <1>2, TombstoneFile DEF LiveAt
<1>4. LiveRows(table') = {RowOf(table[i]) : i \in LiveAt(table) \ {p}}
  BY <1>2, <1>3 DEF LiveRows
<1>5. {RowOf(table[i]) : i \in LiveAt(table) \ {p}} = LiveRows(table) \ {RowOf(table[p])}
  BY RowsDiffer DEF LiveRows
<1> QED
  BY <1>2, <1>3, <1>4, <1>5

(* The rows a scan has still to see, once it has moved on. *)
LEMMA ScanMovesOn ==
  ASSUME TypeOK, UniqueLiveKeys, phase \in {"delete", "update"}, phase' = phase,
         scan' = scan + 1,
         LiveAt(table') \ {scan} = LiveAt(table) \ {scan},
         \A i \in LiveAt(table') : RowOf(table'[i]) = RowOf(table[i])
  PROVE  unseenRows' =
           IF scan \in LiveAt(table) THEN unseenRows \ {RowOf(table[scan])} ELSE unseenRows
<1>1. LiveAt(table) \subseteq Nat /\ scan \in Nat
  BY LenProperties DEF LiveAt, TypeOK
<1>2. LiveAt(table') \subseteq LiveAt(table) \cup {scan}
  OBVIOUS
<1>3. {j \in LiveAt(table') : j >= scan + 1} = {j \in LiveAt(table) : j >= scan} \ {scan}
  BY <1>1, <1>2
<1>4. unseenRows' = {RowOf(table[i]) : i \in {j \in LiveAt(table) : j >= scan} \ {scan}}
  BY <1>3 DEF unseenRows
<1>5. unseenRows = {RowOf(table[i]) : i \in {j \in LiveAt(table) : j >= scan}}
  BY DEF unseenRows
<1>6. CASE scan \in LiveAt(table)
  BY <1>4, <1>5, <1>6, RowsDiffer
<1>7. CASE scan \notin LiveAt(table)
  BY <1>4, <1>5, <1>7
<1> QED
  BY <1>6, <1>7

LEMMA ScanPastRefines ==
  ASSUME RefinementInv, ScanPast
  PROVE  [Abstract!TableNext]_(Abstract!tableVars)
<1> DEFINE r == RowOf(table[scan])
<1>1. KeyInv /\ StatementInv /\ TypeOK /\ UniqueLiveKeys
  BY DEF RefinementInv, KeyInv
<1>2. /\ phase \in {"delete", "update"} /\ phase' = phase /\ scan' = scan + 1
      /\ UNCHANGED <<table, newTable, pending, condition>>
      /\ ~AtMatch /\ ~AtThrow
  BY DEF ScanPast, disk
<1>3. /\ storedRows' = storedRows /\ heldRows' = heldRows /\ statementKind' = statementKind
      /\ condition'.hits = condition.hits
  BY <1>2 DEF storedRows, heldRows, statementKind
<1>4. unseenRows' = IF scan \in LiveAt(table) THEN unseenRows \ {r} ELSE unseenRows
  BY <1>1, <1>2, ScanMovesOn
<1>5. CASE scan \in LiveAt(table)
  <2>1. r \notin condition.hits
    BY <1>2, <1>5 DEF AtMatch, AtThrow
  <2>2. r \in unseenRows
    BY <1>1, <1>2, <1>5 DEF unseenRows, TypeOK
  <2>3. statementKind \in {"delete", "update"}
    BY <1>2 DEF statementKind
  <2>4. Abstract!PassRow(r)
    BY <1>3, <1>4, <1>5, <2>1, <2>2, <2>3 DEF Abstract!PassRow
  <2> QED
    BY <2>2, <2>4 DEF Abstract!TableNext
<1>6. CASE scan \notin LiveAt(table)
  BY <1>3, <1>4, <1>6, StutterStep DEF mappedRows
<1> QED
  BY <1>5, <1>6

LEMMA DeleteRecordRefines ==
  ASSUME RefinementInv, DeleteRecord
  PROVE  Abstract!TableNext
<1> DEFINE r == RowOf(table[scan])
<1>1. KeyInv /\ StatementInv /\ TypeOK /\ UniqueLiveKeys
  BY DEF RefinementInv, KeyInv
<1>2. HasCounter
  BY <1>1 DEF DeleteRecord, StatementInv
<1>3. /\ phase = "delete" /\ phase' = "delete" /\ scan' = scan + 1
      /\ UNCHANGED <<newTable, pending, condition>>
      /\ table' = Tombstone(table, scan)
      /\ scan \in LiveAt(table) /\ r \in condition.hits
  BY <1>2 DEF DeleteRecord, AtMatch
<1>4. /\ LiveAt(table') = LiveAt(table) \ {scan}
      /\ \A i \in LiveAt(table') : RowOf(table'[i]) = RowOf(table[i])
      /\ LiveRows(table') = LiveRows(table) \ {r}
  BY <1>1, <1>3, TombstoneRows
<1>5. unseenRows' = unseenRows \ {r}
  BY <1>1, <1>3, <1>4, ScanMovesOn
<1>6. /\ storedRows = LiveRows(table) /\ storedRows' = LiveRows(table')
      /\ heldRows = {} /\ heldRows' = {}
      /\ statementKind = "delete" /\ statementKind' = "delete"
  BY <1>3 DEF storedRows, heldRows, statementKind
<1>7. r \in unseenRows
  BY <1>1, <1>3 DEF unseenRows, TypeOK
<1>8. Abstract!DeleteRow(r)
  BY <1>3, <1>4, <1>5, <1>6, <1>7 DEF Abstract!DeleteRow
<1> QED
  BY <1>7, <1>8 DEF Abstract!TableNext

(* DELETE by key removes the row of the key, or finds that it is a tombstone's. *)
LEMMA DeleteByKeyRefines ==
  ASSUME RefinementInv, IndexAligned, NEW lit \in KeyLiterals, DeleteByIndexLookup(lit)
  PROVE  Abstract!TableNext
<1> DEFINE k == RemoveOuterQuotes(RemoveOuterQuotes(lit))
           p == index[k]
<1>1. KeyInv /\ StatementInv /\ TypeOK /\ UniqueLiveKeys /\ LiveIndexed
  BY DEF RefinementInv, KeyInv
<1>2. HasCounter
  BY <1>1 DEF DeleteByIndexLookup, StatementInv
<1>3. /\ phase = "idle" /\ phase' = "check"
      /\ UNCHANGED <<newTable, pending, condition, scan>>
      /\ table' = Tombstone(table, p) /\ p # 0
  BY <1>2 DEF DeleteByIndexLookup, statement
<1>4. k \in Text
  BY StoreAssumption, RemoveOuterQuotesType
<1>5. p \in DOMAIN table /\ table[p].key = k
  BY <1>3, <1>4 DEF IndexAligned
<1>6. \A i \in LiveAt(table) : table[i].key = k => i = p
  BY <1>1, <1>3 DEF LiveIndexed
<1>7. LiveRows(table') = {r \in LiveRows(table) : r.key # k}
  <2>1. LiveRows(table) = {RowOf(table[i]) : i \in LiveAt(table)}
    BY DEF LiveRows
  <2>2. /\ LiveAt(table') = LiveAt(table) \ {p}
        /\ \A i \in DOMAIN table : RowOf(table'[i]) = RowOf(table[i])
    BY <1>1, <1>3, TombstoneLive, TombstoneFile DEF TypeOK
  <2>3. LiveRows(table') = {RowOf(table[i]) : i \in LiveAt(table) \ {p}}
    BY <2>2 DEF LiveRows, LiveAt
  <2>4. \A i \in LiveAt(table) : i \in LiveAt(table) \ {p} <=> RowOf(table[i]).key # k
    BY <1>5, <1>6 DEF RowOf
  <2> QED
    BY <2>1, <2>3, <2>4
<1>8. /\ storedRows = LiveRows(table) /\ storedRows' = LiveRows(table')
      /\ heldRows = {} /\ heldRows' = {}
      /\ statementKind = "none" /\ statementKind' = "none"
      /\ unseenRows = {} /\ unseenRows' = {}
  BY <1>3 DEF storedRows, heldRows, statementKind, unseenRows
<1>9. Abstract!DeleteKey(k)
  BY <1>3, <1>7, <1>8 DEF Abstract!DeleteKey
<1> QED
  BY <1>4, <1>9 DEF Abstract!TableNext

(* UPDATE replaces the row at the moment it marks the old record. *)
LEMMA MarkOldRecordRefines ==
  ASSUME RefinementInv, TypeOK', KeyInv', MarkOldRecord
  PROVE  Abstract!TableNext
<1> DEFINE r == RowOf(table[scan])
           new == Stored(Projected(table[scan]))
<1>1. KeyInv /\ StatementInv /\ TypeOK /\ UniqueLiveKeys /\ StoredBare
  BY DEF RefinementInv, KeyInv
<1>2. HasCounter
  BY <1>1 DEF MarkOldRecord, StatementInv
<1>3. /\ phase = "update" /\ phase' = "update" /\ scan' = scan + 1
      /\ UNCHANGED <<newTable, condition>>
      /\ table' = Tombstone(table, scan)
      /\ pending' = Append(pending, Projected(table[scan]))
      /\ scan \in LiveAt(table) /\ r \in condition.hits
  BY <1>2 DEF MarkOldRecord, AtMatch
<1>4. /\ LiveAt(table') = LiveAt(table) \ {scan}
      /\ \A i \in LiveAt(table') : RowOf(table'[i]) = RowOf(table[i])
      /\ LiveRows(table') = LiveRows(table) \ {r}
  BY <1>1, <1>3, TombstoneRows
<1>5. unseenRows' = unseenRows \ {r}
  BY <1>1, <1>3, <1>4, ScanMovesOn
<1>6. r \in unseenRows
  BY <1>1, <1>3 DEF unseenRows, TypeOK
<1>7. table[scan] \in Record
  BY <1>1, <1>3, LenProperties DEF TypeOK, LiveAt
<1>8. Projected(table[scan]) \in Row /\ Projected(table[scan]).key = table[scan].key
  BY <1>1, <1>7 DEF Projected, TypeOK, Record, Row
<1>9. new \in Row /\ new.key = r.key
  <2>1. IsBare(Projected(table[scan]).key)
    BY <1>1, <1>3, <1>8 DEF StoredBare, BareKeys, LiveAt
  <2> QED
    BY <1>8, <2>1, StoredType, BareIsStored DEF RowOf
<1>10. heldRows' = heldRows \cup {new}
  <2>1. heldRows = {Stored(pending[i]) : i \in DOMAIN pending}
    BY <1>3 DEF heldRows
  <2>2. heldRows' = {Stored(pending'[i]) : i \in DOMAIN pending'}
    BY <1>3 DEF heldRows
  <2>3. pending \in Seq(Row)
    BY <1>1 DEF TypeOK
  <2>4. /\ DOMAIN pending = 1..Len(pending) /\ Len(pending) \in Nat
        /\ DOMAIN pending' = 1..(Len(pending) + 1)
        /\ \A i \in 1..Len(pending) : pending'[i] = pending[i]
        /\ pending'[Len(pending) + 1] = Projected(table[scan])
    BY <1>3, <1>8, <2>3, AppendProperties, LenProperties
  <2>5. DOMAIN pending' = DOMAIN pending \cup {Len(pending) + 1}
    BY <2>4
  <2> QED
    BY <2>1, <2>2, <2>4, <2>5
<1>11. r \notin heldRows
  <2>1. \A i \in DOMAIN pending : Stored(pending[i]).key = pending[i].key
    BY <1>1, BareIsStored, LenProperties DEF TypeOK, StoredBare, BareKeys
  <2> QED
    BY <1>1, <1>3, <2>1 DEF heldRows, KeyInv, PendingFresh, RowOf
<1>12. new = [r EXCEPT !.val = new.val] /\ new.val \in Text
  BY <1>9 DEF Row, RowOf
<1>13. /\ storedRows = LiveRows(table) /\ storedRows' = LiveRows(table')
       /\ statementKind = "update" /\ statementKind' = "update"
  BY <1>3 DEF storedRows, statementKind
<1> HIDE DEF r, new
<1>14. storedRows' \cup heldRows' = ((storedRows \cup heldRows) \ {r}) \cup {new}
  BY <1>4, <1>10, <1>11, <1>13
<1>15. Abstract!ReplaceRow(r, new.val)
  BY <1>3, <1>5, <1>6, <1>12, <1>13, <1>14 DEF Abstract!ReplaceRow
<1> QED
  BY <1>6, <1>12, <1>15 DEF Abstract!TableNext

(* A row an UPDATE appends is one it held. *)
LEMMA AppendUpdateRefines ==
  ASSUME RefinementInv, TypeOK', AppendUpdate
  PROVE  [Abstract!TableNext]_(Abstract!tableVars)
<1> DEFINE row == Stored(Head(pending))
           rec == [type |-> "UPDATE", key |-> row.key, val |-> row.val]
<1>1. TypeOK /\ pending \in Seq(Row)
  BY DEF RefinementInv, KeyInv, TypeOK
<1>2. /\ phase = "append" /\ phase' = "append" /\ UNCHANGED <<condition, scan>>
      /\ pending # <<>> /\ SerializeNormalizedRecord("UPDATE")
  BY DEF AppendUpdate
<1>3. row \in Row
  BY <1>1, <1>2, SerializeType DEF RecordTypes
<1>4. /\ table' = Append(table, rec) /\ table \in Seq(Record) /\ rec \in Record
      /\ pending' = Tail(pending)
  BY <1>1, <1>2, <1>3 DEF SerializeNormalizedRecord, TypeOK, Record, Row, RecordTypes
<1>5. RowOf(rec) = row /\ IsLive(rec)
  BY <1>3 DEF RowOf, IsLive, Row
<1> HIDE DEF rec
<1>6. /\ LiveAt(table') = LiveAt(table) \cup {Len(table) + 1}
      /\ \A i \in LiveAt(table) : table'[i] = table[i]
      /\ table'[Len(table) + 1] = rec
  BY <1>4, <1>5, AppendedFile DEF LiveAt
<1>7. LiveRows(table') = LiveRows(table) \cup {row}
  BY <1>5, <1>6 DEF LiveRows
<1>8. heldRows = heldRows' \cup {row}
  <2>1. /\ heldRows = {Stored(pending[i]) : i \in DOMAIN pending}
        /\ heldRows' = {Stored(pending'[i]) : i \in DOMAIN pending'}
    BY <1>2 DEF heldRows
  <2>2. /\ Len(pending) \in Nat /\ Len(pending) # 0 /\ DOMAIN pending = 1..Len(pending)
        /\ Head(pending) = pending[1]
    BY <1>1, <1>2, EmptySeq, LenProperties
  <2>3. /\ Tail(pending) \in Seq(Row) /\ Len(Tail(pending)) = Len(pending) - 1
        /\ \A i \in 1..Len(Tail(pending)) : Tail(pending)[i] = pending[i + 1]
    BY <1>1, <1>2, HeadTailProperties
  <2>4. DOMAIN pending' = 1..(Len(pending) - 1)
    BY <1>4, <2>3, LenProperties
  <2>5. \A i \in DOMAIN pending' : i + 1 \in DOMAIN pending /\ pending'[i] = pending[i + 1]
    BY <1>4, <2>2, <2>3, <2>4
  <2>6. \A i \in DOMAIN pending : i = 1 \/ (i - 1 \in DOMAIN pending' /\ pending'[i - 1] = pending[i])
    BY <1>4, <2>2, <2>3, <2>4
  <2>7. heldRows' \subseteq heldRows
    BY <2>1, <2>5
  <2>8. row \in heldRows
    BY <2>1, <2>2
  <2>9. heldRows \subseteq heldRows' \cup {row}
    BY <2>1, <2>2, <2>6
  <2> QED
    BY <2>7, <2>8, <2>9
<1>9. /\ storedRows = LiveRows(table) /\ storedRows' = LiveRows(table')
      /\ statementKind = "update" /\ statementKind' = "update"
      /\ unseenRows = {} /\ unseenRows' = {}
  BY <1>2 DEF storedRows, statementKind, unseenRows
<1>10. mappedRows' = mappedRows
  BY <1>7, <1>8, <1>9 DEF mappedRows
<1> QED
  BY <1>2, <1>9, <1>10, StutterStep

(* When the scan has passed the last record there is nothing left to look at. *)
LEMMA NothingUnseen ==
  ASSUME TypeOK, scan \notin DOMAIN table
  PROVE  {j \in LiveAt(table) : j >= scan} = {}
<1>1. DOMAIN table = 1..Len(table) /\ Len(table) \in Nat /\ scan \in Nat \ {0}
  BY LenProperties DEF TypeOK
<1> QED
  BY <1>1 DEF LiveAt

LEMMA FinishRefines ==
  ASSUME RefinementInv, FinishInsert \/ FinishSequentialDelete \/ FinishUpdate
  PROVE  Abstract!TableNext
<1>1. TypeOK /\ StatementInv
  BY DEF RefinementInv, KeyInv
<1>2. /\ phase \in {"insert", "delete", "append"} /\ phase' \in {"idle", "check"}
      /\ table' = table /\ pending' = <<>> /\ condition' = NoCondition
      /\ phase = "append" => pending = <<>>
      /\ phase = "delete" => scan \notin DOMAIN table
  BY <1>1
  DEF FinishInsert, FinishSequentialDelete, FinishUpdate, StatementOver, StatementInv, disk,
      statement
<1>3. unseenRows = {} /\ unseenRows' = {}
  BY <1>1, <1>2, NothingUnseen DEF unseenRows
<1>4. heldRows = {} /\ heldRows' = {}
  BY <1>2, EmptyRows DEF heldRows
<1>5. storedRows = LiveRows(table) /\ storedRows' = LiveRows(table)
  BY <1>2 DEF storedRows
<1>6. statementKind # "none" /\ statementKind' = "none"
  BY <1>2 DEF statementKind
<1>7. condition'.hits = {}
  BY <1>2 DEF NoCondition
<1>8. Abstract!Finish
  BY <1>3, <1>4, <1>5, <1>6, <1>7 DEF Abstract!Finish
<1> QED
  BY <1>8 DEF Abstract!TableNext

LEMMA BeginInsertRefines ==
  ASSUME NEW batch, BeginInsert(batch)
  PROVE  Abstract!TableNext
<1>1. /\ phase = "idle" /\ phase' = "insert"
      /\ UNCHANGED <<table, newTable, scan, condition>>
  BY DEF BeginInsert, StartAppending, disk
<1>2. /\ storedRows' = storedRows /\ heldRows = {} /\ heldRows' = {}
      /\ unseenRows = {} /\ unseenRows' = {}
      /\ statementKind = "none" /\ statementKind' = "insert"
  BY <1>1 DEF storedRows, heldRows, unseenRows, statementKind
<1>3. Abstract!BeginInsert
  BY <1>1, <1>2 DEF Abstract!BeginInsert
<1> QED
  BY <1>3 DEF Abstract!TableNext

LEMMA BeginScanRefines ==
  ASSUME RefinementInv, NEW cond \in Conditions, NEW lit,
         BeginSequentialDelete(cond) \/ BeginUpdate(cond, lit)
  PROVE  Abstract!TableNext
<1>1. TypeOK /\ StatementInv
  BY DEF RefinementInv, KeyInv
<1>2. /\ phase = "idle" /\ phase' \in {"delete", "update"} /\ scan' = 1
      /\ condition' = cond /\ UNCHANGED <<table, newTable, pending>> /\ pending = <<>>
  BY <1>1 DEF BeginSequentialDelete, BeginUpdate, StatementInv, disk
<1>3. {j \in LiveAt(table) : j >= 1} = LiveAt(table)
  BY <1>1, LenProperties DEF LiveAt, TypeOK
<1>4. unseenRows' = LiveRows(table)
  BY <1>2, <1>3 DEF unseenRows, LiveRows
<1>5. /\ storedRows = LiveRows(table) /\ storedRows' = LiveRows(table)
      /\ statementKind = "none" /\ statementKind' \in {"delete", "update"}
  BY <1>2 DEF storedRows, statementKind
<1>6. heldRows = {} /\ heldRows' = {}
  BY <1>2, EmptyRows DEF heldRows
<1>7. Abstract!BeginScan(statementKind', cond.hits)
  BY <1>2, <1>4, <1>5, <1>6 DEF Abstract!BeginScan
<1> QED
  BY <1>5, <1>7 DEF Abstract!TableNext

(* Checking, copying and exchanging the files is not seen. *)
LEMMA UnseenRefines ==
  ASSUME RefinementInv,
         \/ CheckTombstoneRatio \/ CopyNextRecord \/ RemoveOldFile \/ RenameNewFile
         \/ Start \/ FinishScan
  PROVE  [Abstract!TableNext]_(Abstract!tableVars)
<1> USE DEF disk, memory, statement
<1>1. TypeOK /\ StatementInv
  BY DEF RefinementInv, KeyInv
<1>2. CASE FinishScan
  <2>1. /\ phase = "update" /\ phase' = "append" /\ scan \notin DOMAIN table
        /\ UNCHANGED <<table, newTable, pending, condition>>
    BY <1>2 DEF FinishScan
  <2>2. unseenRows = {} /\ unseenRows' = {}
    BY <1>1, <2>1, NothingUnseen DEF unseenRows
  <2>3. mappedRows' = mappedRows /\ statementKind' = statementKind
    BY <2>1 DEF mappedRows, storedRows, heldRows, statementKind
  <2> QED
    BY <2>1, <2>2, <2>3, StutterStep
<1>3. ASSUME phase \in {"check", "copy", "rename", "down"},
             phase' \in {"idle", "copy", "rename"},
             condition' = condition, storedRows' = storedRows
      PROVE  [Abstract!TableNext]_(Abstract!tableVars)
  <2>1. /\ heldRows = {} /\ heldRows' = {} /\ unseenRows = {} /\ unseenRows' = {}
        /\ statementKind = "none" /\ statementKind' = "none"
    BY <1>3 DEF heldRows, unseenRows, statementKind
  <2> QED
    BY <1>3, <2>1, StutterStep DEF mappedRows
<1>4. CASE CheckTombstoneRatio
  <2>1. /\ phase = "check" /\ phase' \in {"idle", "copy"}
        /\ UNCHANGED <<table, newTable, condition>>
    BY <1>1, <1>4 DEF CheckTombstoneRatio, StatementInv
  <2> QED
    BY <1>3, <2>1 DEF storedRows
<1>5. CASE CopyNextRecord
  BY <1>3, <1>5 DEF CopyNextRecord, storedRows
<1>6. CASE RemoveOldFile
  <2>1. /\ phase = "copy" /\ phase' = "rename" /\ scan \notin DOMAIN table
        /\ newTable' = newTable /\ condition' = condition
    BY <1>6 DEF RemoveOldFile
  <2>2. DOMAIN table = 1..Len(table) /\ Len(table) \in Nat /\ scan \in Nat \ {0}
    BY <1>1, LenProperties DEF TypeOK
  <2>3. {j \in LiveAt(table) : j < scan} = LiveAt(table)
    BY <2>1, <2>2 DEF LiveAt
  <2>4. LiveRows(newTable) = LiveRows(table)
    BY <1>1, <2>1, <2>3 DEF StatementInv, PassedRows, LiveRows
  <2>5. storedRows = LiveRows(table) /\ storedRows' = LiveRows(newTable)
    BY <2>1 DEF storedRows
  <2> QED
    BY <1>3, <2>1, <2>4, <2>5
<1>7. CASE RenameNewFile
  <2>1. /\ phase = "rename" /\ phase' = "idle" /\ table' = newTable
        /\ condition = NoCondition /\ condition' = NoCondition
    BY <1>1, <1>7 DEF RenameNewFile, StatementOver, StatementInv
  <2>2. storedRows' = storedRows
    BY <2>1 DEF storedRows
  <2> QED
    BY <1>3, <2>1, <2>2
<1>8. CASE Start
  BY <1>3, <1>8 DEF Start, storedRows
<1> QED
  BY <1>2, <1>4, <1>5, <1>6, <1>7, <1>8

(* A stop cuts an INSERT or a DELETE short; no other statement is stopped. *)
LEMMA StopRefines ==
  ASSUME CompactionUninterrupted, UpdateUninterrupted, RefinementInv, Stop
  PROVE  [Abstract!TableNext]_(Abstract!tableVars)
<1>1. StatementInv
  BY DEF RefinementInv
<1>2. /\ phase \in {"idle", "insert", "delete", "check"} /\ phase' = "down"
      /\ UNCHANGED <<table, newTable>> /\ condition' = NoCondition
  BY StoreAssumption
  DEF Stop, ProcessGone, StatementOver, CompactionUninterrupted, UpdateUninterrupted, Phases, disk
<1>3. /\ storedRows' = storedRows /\ heldRows = {} /\ heldRows' = {}
      /\ unseenRows' = {} /\ statementKind' = "none"
  BY <1>2 DEF storedRows, heldRows, unseenRows, statementKind
<1>4. condition'.hits = {}
  BY <1>2 DEF NoCondition
<1>5. CASE phase \in {"insert", "delete"}
  <2>1. statementKind \in {"insert", "delete"}
    BY <1>5 DEF statementKind
  <2>2. Abstract!CutShort
    BY <1>3, <1>4, <2>1 DEF Abstract!CutShort
  <2> QED
    BY <2>2 DEF Abstract!TableNext
<1>6. CASE phase \in {"idle", "check"}
  <2>1. statementKind = "none" /\ unseenRows = {} /\ condition = NoCondition
    BY <1>1, <1>6 DEF statementKind, unseenRows, StatementInv
  <2> QED
    BY <1>2, <1>3, <2>1, StutterStep DEF mappedRows
<1> QED
  BY <1>2, <1>5, <1>6

LEMMA StepRefines ==
  ASSUME NothingImported, CompactionUninterrupted, UpdateUninterrupted,
         RefinementInv, RefinementInv', IndexAligned, [Next]_vars
  PROVE  [Abstract!TableNext]_(Abstract!tableVars)
<1>1. TypeOK' /\ KeyInv' /\ StatementInv
  BY DEF RefinementInv, KeyInv
<1>2. ~\E batch \in ImportBatches : BeginImport(batch)
  BY DEF NothingImported
<1>3. ASSUME NEW batch, BeginInsert(batch)
      PROVE  Abstract!TableNext
  BY <1>3, BeginInsertRefines
<1>4. ASSUME NEW lit \in KeyLiterals, DeleteByIndexLookup(lit)
      PROVE  Abstract!TableNext
  BY <1>4, DeleteByKeyRefines
<1>5. ASSUME NEW cond \in Conditions, NEW lit, BeginSequentialDelete(cond) \/ BeginUpdate(cond, lit)
      PROVE  Abstract!TableNext
  BY <1>5, BeginScanRefines
<1>6. CASE AppendInsert
  BY <1>1, <1>6, InsertRefines DEF AppendInsert
<1>7. CASE FinishInsert \/ FinishSequentialDelete \/ FinishUpdate
  BY <1>7, FinishRefines
<1>8. CASE ScanPast
  BY <1>8, ScanPastRefines
<1>9. ~ScanThrows
  BY <1>1 DEF ScanThrows, AtThrow, StatementInv
<1>10. CASE DeleteRecord
  BY <1>10, DeleteRecordRefines
<1>11. CASE MarkOldRecord
  BY <1>1, <1>11, MarkOldRecordRefines
<1>12. CASE AppendUpdate
  BY <1>1, <1>12, AppendUpdateRefines
<1>13. CASE \/ CheckTombstoneRatio \/ CopyNextRecord \/ RemoveOldFile \/ RenameNewFile
            \/ Start \/ FinishScan
  BY <1>13, UnseenRefines
<1>14. CASE Stop
  BY <1>14, StopRefines
<1>15. CASE UNCHANGED vars
  BY <1>15, StutterStep
  DEF vars, mappedRows, storedRows, heldRows, statementKind, unseenRows
<1> QED
  BY <1>2, <1>3, <1>4, <1>5, <1>6, <1>7, <1>8, <1>9, <1>10, <1>11, <1>12, <1>13, <1>14, <1>15
  DEF Next, StatementStep

LEMMA InitRefines == Init => Abstract!TableInit
<1> SUFFICES ASSUME Init PROVE Abstract!TableInit
  OBVIOUS
<1>1. phase = "idle" /\ table = <<>> /\ condition = NoCondition
  BY DEF Init
<1>2. LiveRows(<<>>) = {}
  BY EmptyRows DEF LiveRows
<1>3. /\ storedRows = {} /\ heldRows = {} /\ statementKind = "none" /\ unseenRows = {}
      /\ condition.hits = {}
  BY <1>1, <1>2 DEF storedRows, heldRows, statementKind, unseenRows, NoCondition
<1> QED
  BY <1>3 DEF Abstract!TableInit

(* The storage engine implements the table of SqlTable: tombstones, index, delete counter,      *)
(* compactions and stops between the records of an INSERT or a DELETE show in no row that is    *)
(* lost, doubled, revived or changed.                                                           *)
THEOREM EngineImplementsTable ==
  ASSUME BareBatches, NothingImported, CompactionUninterrupted, UpdateUninterrupted,
         NothingThrows, CounterPresent
  PROVE  Spec => ImplementsSqlTable
<1>1. RefinementInv /\ RefinementInv' /\ IndexAligned /\ [Next]_vars
        => [Abstract!TableNext]_(Abstract!tableVars)
  BY StepRefines
<1> QED
  BY <1>1, InitRefines, RefinementInvariant, IndexAlwaysAligned, PTL
  DEF Spec, ImplementsSqlTable, Abstract!TableSpec
=============================================================================
