---------------------------- MODULE RecordLayout ----------------------------
(***************************************************************************)
(* The columns of a record. serializeNormalizedRecord writes the primary   *)
(* key first, wherever it stands in the schema, then the other columns in  *)
(* the order of the schema, and an offset region that says where each of   *)
(* them is. A sequential DELETE finds a column through the offset region;  *)
(* SELECT and UPDATE skip the region and take the i-th value of the record *)
(* for the i-th column of the schema.                                      *)
(*                                                                         *)
(* Statements are whole steps here, and the file is the set of its live    *)
(* records: TableStore is about steps, order and tombstones.               *)
(***************************************************************************)
EXTENDS Integers

CONSTANTS
  ColumnCount,   \* how many columns the schema has
  PrimaryKey,    \* which of them is the primary key
  Literals,      \* the values of columns
  Empty,         \* a value that an INSERT leaves out
  Default,       \* what getDefaultValue gives for a column
  WithUpdate     \* whether UPDATE statements are made

Columns == 1..ColumnCount

(* col_code is a std::uint8_t; a table with a 256th column is refused with a fatal error. *)
ASSUME LayoutAssumption ==
  /\ ColumnCount \in 1..255
  /\ PrimaryKey \in Columns
  /\ Empty \notin Literals
  /\ Default \in [Columns -> Literals]
  /\ WithUpdate \in BOOLEAN

Payload == Columns \ {PrimaryKey}

SchemaRow == [Columns -> Literals]

(* initializeColumnEncodingMapForTable *)
ColumnCode(c) == (c - 1) % 256

(* Mutant: the column is not moved to the left of the primary key's place. *)
UnshiftedPlace(c) == c

(* The place of a column among the values behind the primary key. *)
PayloadPlace(c) == IF c < PrimaryKey THEN c ELSE c - 1

(* The column whose value is the i-th of a record. *)
ColumnAt(i) == IF i = 1 THEN PrimaryKey ELSE IF i <= PrimaryKey THEN i - 1 ELSE i

(* serializeNormalizedRecord *)
Serialize(row) ==
  [offsets |-> {[col_id |-> ColumnCode(c), place |-> PayloadPlace(c)] : c \in Payload},
   values |-> [i \in Columns |-> row[ColumnAt(i)]]]

(* The key is the first value of a record; it is what the index holds. *)
KeyOf(rec) == rec.values[1]

(* How performSequentialDelete reads a column. *)
ColumnByOffset(rec, c) ==
  IF c = PrimaryKey THEN KeyOf(rec)
  ELSE LET entry == CHOOSE e \in rec.offsets : e.col_id = ColumnCode(c)
       IN  rec.values[1 + entry.place]

RowByOffset(rec) == [c \in Columns |-> ColumnByOffset(rec, c)]

(* How deserializeNextRecord and deserializeNextRecordAndMarkAsTombstone read it. *)
RowByPosition(rec) == [c \in Columns |-> rec.values[c]]

VARIABLES
  records,   \* the live records of the table file
  rows       \* the rows the statements so far denote, in the order of the schema

layoutVars == <<records, rows>>

LayoutInit == records = {} /\ rows = {}

(* Mutant: DEFAULT is not substituted. *)
UnfilledRow(values) == [c \in Columns |-> IF values[c] = Empty THEN Default[PrimaryKey] ELSE values[c]]

(* The DEFAULT of the column stands in for a value that is left out. *)
FilledRow(values) == [c \in Columns |-> IF values[c] = Empty THEN Default[c] ELSE values[c]]

InsertRow(values) ==
  /\ values[PrimaryKey] # Empty
  /\ \A rec \in records : KeyOf(rec) # values[PrimaryKey]
  /\ records' = records \cup {Serialize(FilledRow(values))}
  /\ rows' = rows \cup
       {[c \in Columns |-> IF values[c] = Empty THEN Default[c] ELSE values[c]]}

(* DELETE ... WHERE c = v, by index or by scan. *)
DeleteRows(c, v) ==
  /\ records' = {rec \in records : ColumnByOffset(rec, c) # v}
  /\ rows' = {row \in rows : row[c] # v}

(* Mutant: the inverse projection mask is inverted. *)
MaskedUpdate(row, set, new) == [c \in Columns |-> IF c = set THEN row[c] ELSE new]

(* The record UPDATE builds from an old one: the mask keeps what is not assigned. *)
UpdatedRow(row, set, new) == [c \in Columns |-> IF c = set THEN new ELSE row[c]]

(* UPDATE ... SET set = new WHERE c = v; the primary key cannot be assigned. *)
UpdateRows(set, new, c, v) ==
  /\ WithUpdate
  /\ set # PrimaryKey
  /\ records' = {rec \in records : RowByPosition(rec)[c] # v} \cup
                {Serialize(UpdatedRow(RowByPosition(rec), set, new)) :
                   rec \in {r \in records : RowByPosition(r)[c] = v}}
  /\ rows' = {row \in rows : row[c] # v} \cup
             {[row EXCEPT ![set] = new] : row \in {r \in rows : r[c] = v}}

LayoutNext ==
  \/ \E values \in [Columns -> Literals \cup {Empty}] : InsertRow(values)
  \/ \E c \in Columns, v \in Literals : DeleteRows(c, v)
  \/ \E set, c \in Columns, new, v \in Literals : UpdateRows(set, new, c, v)

LayoutSpec == LayoutInit /\ [][LayoutNext]_layoutVars
-----------------------------------------------------------------------------
(* Every live record holds, column by column through its offset region, a row the statements *)
(* denote, and every such row has its record: DELETE compares and removes the right ones.     *)
OffsetsAgree == {RowByOffset(rec) : rec \in records} = rows

(* SELECT and UPDATE read the rows the statements denote, each value in its column. *)
PositionsAgree == {RowByPosition(rec) : rec \in records} = rows

(* UPDATE leaves every column that it does not assign, the key above all, as it was: the keys *)
(* of the stored records stay the keys of the rows.                                            *)
KeysAgree == {KeyOf(rec) : rec \in records} = {row[PrimaryKey] : row \in rows}
=============================================================================
