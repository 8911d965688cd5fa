------------------------------ MODULE TornFile ------------------------------
(***************************************************************************)
(* The table file as the cells its streams read and write: records behind  *)
(* each other, a record with its length in front. A crash while a record   *)
(* is appended may leave any number of its first cells in the file, and    *)
(* the next session appends behind them. INIT, SELECT and DELETE read the  *)
(* file record by record and go where the numbers in it lead them.         *)
(*                                                                         *)
(* A cell stands for a byte. A number has two of them instead of eight,    *)
(* and a number with anything but 0 in the upper one is larger than the    *)
(* file. The table has a key and one other column. TableStore has the      *)
(* statements in full, over files whose records are whole.                 *)
(***************************************************************************)
EXTENDS Integers, Sequences, FiniteSets

CONSTANTS
  Base,       \* how many values a cell has
  KeyTexts,   \* the keys of INSERT statements, as cells
  ValTexts,   \* the values of INSERT statements, as cells
  MaxCells,   \* bound on the length of the file
  MaxTears    \* bound on the crashes that cut a record

VARIABLES
  file,     \* the cells behind the file header
  records,  \* the records that were written whole: where their types are, keys, values, liveness
  tears,    \* where the records begin that were cut by a crash
  index,    \* the entries of the primary key index, <<key, offset>>
  indexed,  \* whether the table has an index: no, after an exception while it was rebuilt
  reader,   \* the scan that is under way and its stream
  answer    \* the rows a SELECT has delivered

tornVars == <<file, records, tears, index, indexed, reader, answer>>

NumberSize == 2
OffsetSize == 4  \* column_offset_t: a number, the column code, padding

INSERT == 0
DELETE == 1
UNUSED == 3

IsTombstone(type) == type \in {DELETE, UNUSED}

Cells(n) == <<n % Base, n \div Base>>

(* What goes on: nothing, a scan of the keys by INIT or by recalculateIndicesForTable, a SELECT *)
(* or a DELETE without WHERE; or the process is down.                                           *)
Kinds == {"none", "init", "keys", "rows", "delete", "down"}

ASSUME TornAssumption ==
  /\ Base \in Nat /\ Base > 16
  /\ \A t \in KeyTexts \cup ValTexts : t \in Seq(0..(Base - 1)) /\ Len(t) < 4
  /\ MaxCells \in Nat /\ MaxCells < Base
  /\ MaxTears \in Nat

Idle == [kind |-> "none", at |-> 1, good |-> TRUE]
Down == [Idle EXCEPT !.kind = "down"]
Scan(kind) == [Idle EXCEPT !.kind = kind]

TornInit ==
  /\ file = <<>>
  /\ records = <<>>
  /\ tears = <<>>
  /\ index = {}
  /\ indexed = TRUE
  /\ reader = Idle
  /\ answer = <<>>
-----------------------------------------------------------------------------
(* serializeNormalizedRecord *)

Body(key, val) ==
  <<INSERT>> \o Cells(0) \o <<1, 0>> \o Cells(Len(key)) \o key \o Cells(Len(val)) \o val

(* Mutant: record_length counts itself. *)
LengthWithItself(key, val) == Cells(NumberSize + Len(Body(key, val))) \o Body(key, val)

Encoded(key, val) == Cells(Len(Body(key, val))) \o Body(key, val)

Dead(at) == [i \in DOMAIN records |->
  IF records[i].at = at THEN [records[i] EXCEPT !.live = FALSE] ELSE records[i]]

(* Mutant: the position in front of the length goes into the index. *)
LengthOffset(n) == n + 1

(* Where the type of a record is that is appended to n cells: tellp() after the length. *)
TypeOffset(n) == n + NumberSize + 1

EntriesOf(key) == {e \in index : e[1] = key}

(* INSERT of one row, and the process goes on. *)
AppendRecord(key, val) ==
  /\ reader.kind = "none" /\ indexed
  /\ EntriesOf(key) = {}
  /\ Len(file) + Len(Encoded(key, val)) <= MaxCells
  /\ file' = file \o Encoded(key, val)
  /\ records' = Append(records, [at |-> Len(file) + NumberSize + 1, key |-> key, val |-> val,
                                 live |-> TRUE])
  /\ index' = index \cup {<<key, TypeOffset(Len(file))>>}
  /\ UNCHANGED <<tears, indexed, reader, answer>>

(* A crash during the INSERT leaves the first n cells of the record. *)
TearRecord(key, val, n) ==
  /\ reader.kind = "none" /\ indexed
  /\ EntriesOf(key) = {}
  /\ Len(tears) < MaxTears
  /\ Len(file) + n <= MaxCells
  /\ file' = file \o SubSeq(Encoded(key, val), 1, n)
  /\ tears' = Append(tears, Len(file) + 1)
  /\ reader' = Down
  /\ UNCHANGED <<records, index, indexed, answer>>
-----------------------------------------------------------------------------
(* Reading *)

Readable(at, n) == reader.good /\ at + n - 1 <= Len(file)

NumberAt(at) == file[at] + Base * file[at + 1]

TextAt(at, n) == SubSeq(file, at, at + n - 1)

(* More than the file has; std::string may be able to grow to it or not. *)
Huge(n) == n >= Base

(* A length and as many cells as it says. *)
HoldsText(at) ==
  /\ Readable(at, NumberSize)
  /\ ~Huge(NumberAt(at))
  /\ Readable(at + NumberSize, NumberAt(at))

BehindText(at) == at + NumberSize + NumberAt(at)

(* The get pointer after a seek over a distance that was computed in std::uint64_t. *)
Landing(from, distance) ==
  from + IF 2 * distance >= Base * Base THEN distance - Base * Base ELSE distance

(* Mutant: the get pointer stays where it is. *)
StayAt(at) == reader' = reader

(* Mutant: a seek to a place in front of the file counts as one that succeeds. *)
MoveAnywhere(at) == reader' = [reader EXCEPT !.at = at]

(* seekg: a place in front of the file fails the stream, one behind its end does not. *)
MoveTo(at) ==
  reader' = IF at < 1 THEN [reader EXCEPT !.good = FALSE] ELSE [reader EXCEPT !.at = at]

(* IOERROR; the stream has its failbit, so that the next read ends the scan. *)
StreamFails ==
  /\ reader' = [reader EXCEPT !.good = FALSE]
  /\ UNCHANGED <<file, records, tears, index, indexed, answer>>

Scanning == reader.kind \in {"init", "keys", "rows", "delete"}

(* The record at the get pointer. *)
TypeAt == reader.at + NumberSize
KeyAt == TypeAt + 1 + OffsetSize
AtRecord == Scanning /\ Readable(reader.at, NumberSize)
AtLive(kinds) ==
  /\ reader.kind \in kinds
  /\ AtRecord
  /\ Readable(TypeAt, 1)
  /\ ~IsTombstone(file[TypeAt])

TypeMissing == AtRecord /\ ~Readable(TypeAt, 1) /\ StreamFails

SkipTombstone ==
  /\ AtRecord
  /\ Readable(TypeAt, 1)
  /\ IsTombstone(file[TypeAt])
  /\ MoveTo(Landing(TypeAt + 1, NumberAt(reader.at) - 1))
  /\ UNCHANGED <<file, records, tears, index, indexed, answer>>

(* An exception ends the process during INIT, and a statement otherwise; the table has no index *)
(* if it was being rebuilt.                                                                     *)
Throws ==
  /\ reader' = IF reader.kind = "init" THEN Down ELSE Idle
  /\ indexed' = (indexed /\ reader.kind # "keys")
  /\ UNCHANGED <<file, records, tears, index, answer>>

(* deserializeNextPrimaryKey: the first record of a key stays in the index. *)
ReadKey ==
  /\ AtLive({"init", "keys"})
  /\ HoldsText(KeyAt)
  /\ LET key == TextAt(KeyAt + NumberSize, NumberAt(KeyAt))
     IN  index' = IF EntriesOf(key) = {} THEN index \cup {<<key, TypeAt>>} ELSE index
  /\ MoveTo(Landing(BehindText(KeyAt), NumberAt(reader.at) - (BehindText(KeyAt) - TypeAt)))
  /\ UNCHANGED <<file, records, tears, indexed, answer>>

KeyUnreadable ==
  /\ AtLive({"init", "keys"})
  /\ ~HoldsText(KeyAt)
  /\ \/ StreamFails
     \/ Readable(KeyAt, NumberSize) /\ Huge(NumberAt(KeyAt)) /\ Throws

(* Mutant: the length of the record is taken from where it is written. *)
LengthEnd(valAt) == reader.at + NumberAt(reader.at)

(* The scan goes on behind the last column, wherever the length of the record ends. *)
RowEnd(valAt) == BehindText(valAt)

(* deserializeNextRecord *)
ReadRow ==
  /\ AtLive({"rows"})
  /\ HoldsText(KeyAt)
  /\ LET valAt == BehindText(KeyAt)
     IN  /\ HoldsText(valAt)
         /\ answer' = Append(answer, <<TextAt(KeyAt + NumberSize, NumberAt(KeyAt)),
                                      TextAt(valAt + NumberSize, NumberAt(valAt))>>)
         /\ MoveTo(RowEnd(valAt))
  /\ UNCHANGED <<file, records, tears, index, indexed>>

(* A length that could not be read is not initialised. *)
RowUnreadable ==
  /\ AtLive({"rows"})
  /\ LET at == IF HoldsText(KeyAt) THEN BehindText(KeyAt) ELSE KeyAt
     IN  /\ ~HoldsText(at)
         /\ \/ StreamFails
            \/ (Readable(at, NumberSize) => Huge(NumberAt(at))) /\ Throws

(* performSequentialDelete without WHERE *)
DeleteRecord ==
  /\ AtLive({"delete"})
  /\ file' = [file EXCEPT ![TypeAt] = DELETE]
  /\ records' = Dead(TypeAt)
  /\ MoveTo(Landing(TypeAt, NumberAt(reader.at)))
  /\ UNCHANGED <<tears, index, indexed, answer>>

(* The length cannot be read: ENDOFTABLE. DELETE goes on to rebuild the index. *)
EndScan ==
  /\ Scanning
  /\ ~Readable(reader.at, NumberSize)
  /\ IF reader.kind = "delete"
       THEN reader' = Scan("keys") /\ index' = {} /\ UNCHANGED indexed
       ELSE /\ reader' = Idle
            /\ indexed' = (indexed \/ reader.kind = "keys")
            /\ UNCHANGED index
  /\ UNCHANGED <<file, records, tears, answer>>
-----------------------------------------------------------------------------
(* DELETE ... WHERE key = lit overwrites the cell the index names. *)
DeleteByIndexLookup(entry) ==
  /\ reader.kind = "none" /\ indexed
  /\ entry \in index
  /\ file' = [file EXCEPT ![entry[2]] = DELETE]
  /\ records' = Dead(entry[2])
  /\ index' = index \ {entry}
  /\ UNCHANGED <<tears, indexed, reader, answer>>

BeginScan(kind) ==
  /\ reader.kind = "none"
  /\ reader' = Scan(kind)
  /\ answer' = <<>>
  /\ UNCHANGED <<file, records, tears, index, indexed>>

(* QUIT, or a crash that cuts no record. *)
Stop ==
  /\ reader.kind # "down"
  /\ reader' = Down
  /\ UNCHANGED <<file, records, tears, index, indexed, answer>>

(* INIT *)
Start ==
  /\ reader.kind = "down"
  /\ reader' = Scan("init")
  /\ index' = {}
  /\ indexed' = TRUE
  /\ answer' = <<>>
  /\ UNCHANGED <<file, records, tears>>

ScanStep ==
  \/ TypeMissing \/ SkipTombstone
  \/ ReadKey \/ KeyUnreadable
  \/ ReadRow \/ RowUnreadable
  \/ DeleteRecord \/ EndScan

TornNext ==
  \/ \E key \in KeyTexts, val \in ValTexts : AppendRecord(key, val)
  \/ \E key \in KeyTexts, val \in ValTexts :
       \E n \in 1..(Len(Encoded(key, val)) - 1) : TearRecord(key, val, n)
  \/ \E entry \in index : DeleteByIndexLookup(entry)
  \/ \E kind \in {"rows", "delete"} : BeginScan(kind)
  \/ ScanStep
  \/ Stop
  \/ Start

TornSpec == TornInit /\ [][TornNext]_tornVars /\ WF_tornVars(ScanStep)
-----------------------------------------------------------------------------
(* The variables have their types; what the index names is a cell of the file. *)
TornTypeOK ==
  /\ file \in Seq(0..(Base - 1))
  /\ \A i \in DOMAIN records : records[i].at \in DOMAIN file /\ records[i].live \in BOOLEAN
  /\ \A i \in DOMAIN tears : tears[i] \in DOMAIN file
  /\ \A e \in index : e[2] \in DOMAIN file
  /\ indexed \in BOOLEAN
  /\ reader.kind \in Kinds /\ reader.at \in Nat \ {0} /\ reader.good \in BOOLEAN

(* What is in front of everything a crash has cut. *)
InFront(at) == tears # <<>> => at < Head(tears)

Undisturbed == {i \in DOMAIN records : InFront(records[i].at)}

LiveRecords == {i \in Undisturbed : records[i].live}

(* Whatever a scan takes for a record behind a cut one, no DELETE writes into a record in front *)
(* of it: there only type bytes change, and only from INSERT to DELETE.                         *)
RecordsUndamaged ==
  \A i \in Undisturbed :
    LET r == records[i]
        cells == Encoded(r.key, r.val)
    IN  SubSeq(file, r.at - NumberSize, r.at - NumberSize + Len(cells) - 1)
          = [cells EXCEPT ![NumberSize + 1] = IF r.live THEN INSERT ELSE DELETE]

(* Between two statements the index has every live record in front of the first cut one under *)
(* its own key and at its type byte, and nothing else of that part of the file: a cut record  *)
(* hides no record before it.                                                                 *)
IndexNamesRecords ==
  reader.kind = "none" /\ indexed =>
    {e \in index : InFront(e[2])} = {<<records[i].key, records[i].at>> : i \in LiveRecords}

(* A SELECT that reaches the end of the table, or throws, has delivered the live records in *)
(* front of the first cut one, in their order; of a file without a cut, exactly those.      *)
SelectReadsRecords ==
  [][reader.kind = "rows" /\ reader'.kind = "none" =>
       LET Rank(i) == Cardinality({j \in LiveRecords : j <= i})
       IN  /\ Len(answer) >= Cardinality(LiveRecords)
           /\ tears = <<>> => Len(answer) = Cardinality(LiveRecords)
           /\ \A i \in LiveRecords : answer[Rank(i)] = <<records[i].key, records[i].val>>]_tornVars

(* Every scan ends, whatever numbers it finds behind a cut record: none leads it back. *)
ScansEnd == Scanning ~> ~Scanning
=============================================================================
