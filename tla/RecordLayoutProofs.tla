------------------------- MODULE RecordLayoutProofs -------------------------
(***************************************************************************)
(* Any schema of up to 255 columns, the primary key anywhere: the offset   *)
(* region leads to the right column. Reading by position is right when the *)
(* primary key is the first column.                                        *)
(***************************************************************************)
EXTENDS RecordLayout, TLAPS

(* The column codes of a schema differ from each other. *)
LEMMA CodesDiffer ==
  ASSUME NEW c \in Columns, NEW d \in Columns, ColumnCode(c) = ColumnCode(d)
  PROVE  c = d
<1>1. c - 1 \in 0..255 /\ d - 1 \in 0..255
  BY LayoutAssumption DEF Columns
<1>2. (c - 1) % 256 = c - 1 /\ (d - 1) % 256 = d - 1
  BY <1>1
<1> QED
  BY <1>2, LayoutAssumption DEF ColumnCode, Columns

(* The value at a column's place is the value of the column. *)
LEMMA PlacesAreInverse ==
  ASSUME NEW c \in Payload
  PROVE  1 + PayloadPlace(c) \in Columns /\ ColumnAt(1 + PayloadPlace(c)) = c
<1>1. CASE c < PrimaryKey
  BY <1>1, LayoutAssumption DEF Payload, Columns, PayloadPlace, ColumnAt
<1>2. CASE c > PrimaryKey
  BY <1>2, LayoutAssumption DEF Payload, Columns, PayloadPlace, ColumnAt
<1> QED
  BY <1>1, <1>2, LayoutAssumption DEF Payload, Columns

LEMMA KeyIsFirst ==
  ASSUME NEW row \in SchemaRow
  PROVE  KeyOf(Serialize(row)) = row[PrimaryKey]
BY LayoutAssumption DEF KeyOf, Serialize, ColumnAt, Columns

(* What DELETE reads of a record is what was written for the column. *)
LEMMA OffsetsLeadBack ==
  ASSUME NEW row \in SchemaRow
  PROVE  /\ \A c \in Columns : ColumnByOffset(Serialize(row), c) = row[c]
         /\ RowByOffset(Serialize(row)) = row
<1>1. ASSUME NEW c \in Columns
      PROVE  ColumnByOffset(Serialize(row), c) = row[c]
  <2>1. CASE c = PrimaryKey
    BY <2>1, KeyIsFirst DEF ColumnByOffset
  <2>2. CASE c # PrimaryKey
    <3> DEFINE entries == Serialize(row).offsets
               own == [col_id |-> ColumnCode(c), place |-> PayloadPlace(c)]
               found == CHOOSE e \in entries : e.col_id = ColumnCode(c)
    <3>1. c \in Payload
      BY <2>2 DEF Payload
    <3>2. own \in entries /\ own.col_id = ColumnCode(c)
      BY <3>1 DEF Serialize
    <3>3. found \in entries /\ found.col_id = ColumnCode(c)
      BY <3>2
    <3> HIDE DEF found
    <3>4. PICK d \in Payload : found = [col_id |-> ColumnCode(d), place |-> PayloadPlace(d)]
      BY <3>3 DEF Serialize
    <3>5. d = c
      BY <3>3, <3>4, CodesDiffer DEF Payload
    <3>6. found.place = PayloadPlace(c)
      BY <3>4, <3>5
    <3>7. Serialize(row).values[1 + PayloadPlace(c)] = row[c]
      BY <3>1, PlacesAreInverse DEF Serialize
    <3> QED
      BY <2>2, <3>6, <3>7 DEF ColumnByOffset, found
  <2> QED
    BY <2>1, <2>2
<1>2. row = [c \in Columns |-> row[c]]
  BY DEF SchemaRow
<1> QED
  BY <1>1, <1>2 DEF RowByOffset

(* With the key in the first column, the order on disk is the order of the schema. *)
LEMMA PositionsLeadBack ==
  ASSUME PrimaryKey = 1, NEW row \in SchemaRow
  PROVE  RowByPosition(Serialize(row)) = row
<1>1. \A c \in Columns : ColumnAt(c) = c
  BY LayoutAssumption DEF ColumnAt, Columns
<1>2. row = [c \in Columns |-> row[c]]
  BY DEF SchemaRow
<1> QED
  BY <1>1, <1>2 DEF RowByPosition, Serialize
-----------------------------------------------------------------------------
(* The file holds the serialized rows and nothing else. *)
LayoutInv == rows \subseteq SchemaRow /\ records = {Serialize(row) : row \in rows}

LEMMA LayoutNextInv ==
  ASSUME LayoutInv, [LayoutNext]_layoutVars, PrimaryKey = 1 \/ ~WithUpdate
  PROVE  LayoutInv'
<1>1. ASSUME NEW values \in [Columns -> Literals \cup {Empty}], InsertRow(values)
      PROVE  LayoutInv'
  <2> DEFINE new == [c \in Columns |-> IF values[c] = Empty THEN Default[c] ELSE values[c]]
  <2>1. new \in SchemaRow
    BY LayoutAssumption DEF SchemaRow
  <2>2. records' = records \cup {Serialize(new)} /\ rows' = rows \cup {new}
    BY <1>1 DEF InsertRow, FilledRow
  <2> HIDE DEF new
  <2> QED
    BY <2>1, <2>2 DEF LayoutInv
<1>2. ASSUME NEW c \in Columns, NEW v \in Literals, DeleteRows(c, v)
      PROVE  LayoutInv'
  <2>1. \A row \in rows : ColumnByOffset(Serialize(row), c) = row[c]
    BY OffsetsLeadBack DEF LayoutInv
  <2> QED
    BY <1>2, <2>1 DEF LayoutInv, DeleteRows
<1>3. ASSUME NEW set \in Columns, NEW new \in Literals, NEW c \in Columns, NEW v \in Literals,
             UpdateRows(set, new, c, v)
      PROVE  LayoutInv'
  <2>1. PrimaryKey = 1
    BY <1>3 DEF UpdateRows
  <2>2. \A row \in SchemaRow : RowByPosition(Serialize(row)) = row
    BY <2>1, PositionsLeadBack
  <2>3. \A row \in SchemaRow :
          /\ UpdatedRow(row, set, new) = [row EXCEPT ![set] = new]
          /\ [row EXCEPT ![set] = new] \in SchemaRow
    BY DEF UpdatedRow, SchemaRow
  <2>4. rows' \subseteq SchemaRow
    BY <1>3, <2>3 DEF LayoutInv, UpdateRows
  <2>5. {rec \in records : RowByPosition(rec)[c] # v} = {Serialize(row) : row \in {r \in rows : r[c] # v}}
    BY <2>2 DEF LayoutInv
  <2>6. {Serialize(UpdatedRow(RowByPosition(rec), set, new)) :
           rec \in {r \in records : RowByPosition(r)[c] = v}}
          = {Serialize([row EXCEPT ![set] = new]) : row \in {r \in rows : r[c] = v}}
    <3> DEFINE hit == {r \in rows : r[c] = v}
               Rewritten(rec) == Serialize(UpdatedRow(RowByPosition(rec), set, new))
               Assigned(row) == Serialize([row EXCEPT ![set] = new])
    <3>1. {r \in records : RowByPosition(r)[c] = v} = {Serialize(row) : row \in hit}
      BY <2>2 DEF LayoutInv
    <3>2. \A row \in hit : Rewritten(Serialize(row)) = Assigned(row)
      BY <2>2, <2>3 DEF LayoutInv
    <3> HIDE DEF hit, Rewritten, Assigned
    <3>3. {Rewritten(rec) : rec \in {Serialize(row) : row \in hit}} = {Assigned(row) : row \in hit}
      BY <3>2
    <3> QED
      BY <3>1, <3>3 DEF hit, Rewritten, Assigned
  <2>7. records' = {Serialize(row) : row \in {r \in rows : r[c] # v}} \cup
                   {Serialize([row EXCEPT ![set] = new]) : row \in {r \in rows : r[c] = v}}
    BY <1>3, <2>5, <2>6 DEF UpdateRows
  <2>8. rows' = {row \in rows : row[c] # v} \cup
                {[row EXCEPT ![set] = new] : row \in {r \in rows : r[c] = v}}
    BY <1>3 DEF UpdateRows
  <2> QED
    BY <2>4, <2>7, <2>8 DEF LayoutInv
<1>4. CASE UNCHANGED layoutVars
  BY <1>4 DEF layoutVars, LayoutInv
<1> QED
  BY <1>1, <1>2, <1>3, <1>4 DEF LayoutNext

LEMMA LayoutInvariant ==
  ASSUME PrimaryKey = 1 \/ ~WithUpdate
  PROVE  LayoutSpec => []LayoutInv
<1>1. LayoutInit => LayoutInv
  BY DEF LayoutInit, LayoutInv
<1>2. LayoutInv /\ [LayoutNext]_layoutVars => LayoutInv'
  BY LayoutNextInv
<1> QED
  BY <1>1, <1>2, PTL DEF LayoutSpec

(* INSERT and DELETE keep the file and the rows they denote together, whatever the schema. *)
THEOREM OffsetsAlwaysAgree ==
  ASSUME PrimaryKey = 1 \/ ~WithUpdate
  PROVE  LayoutSpec => []OffsetsAgree
<1>1. LayoutInv => OffsetsAgree
  <2> SUFFICES ASSUME LayoutInv PROVE OffsetsAgree
    OBVIOUS
  <2>1. \A row \in rows : RowByOffset(Serialize(row)) = row
    BY OffsetsLeadBack DEF LayoutInv
  <2> QED
    BY <2>1 DEF LayoutInv, OffsetsAgree
<1> QED
  BY <1>1, LayoutInvariant, PTL

(* SELECT and UPDATE read every column right in a table whose first column is the key. *)
THEOREM PositionsAgreeWithFirstKey ==
  ASSUME PrimaryKey = 1
  PROVE  LayoutSpec => []PositionsAgree
<1>1. LayoutInv => PositionsAgree
  <2> SUFFICES ASSUME LayoutInv PROVE PositionsAgree
    OBVIOUS
  <2>1. \A row \in rows : RowByPosition(Serialize(row)) = row
    BY PositionsLeadBack DEF LayoutInv
  <2> QED
    BY <2>1 DEF LayoutInv, PositionsAgree
<1> QED
  BY <1>1, LayoutInvariant, PTL
=============================================================================
