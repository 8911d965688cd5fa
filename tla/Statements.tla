----------------------------- MODULE Statements -----------------------------
(***************************************************************************)
(* What an INSERT, an UPDATE or a CSV row stores: normalizeInsert rewrites *)
(* the records of the statement in the order of the schema,                *)
(* validateInsertSemantics looks at them, serializeNormalizedRecord fills  *)
(* in the DEFAULTs; or normalizeUpdate and the projection mask of UPDATE.  *)
(* INIT may read the schema back from its metadata in between. denoted     *)
(* has the rows the statements mean, worked out from the column names.     *)
(*                                                                         *)
(* Statements are whole steps, as in RecordLayout; TableStore has the      *)
(* steps, the tombstones and the order of the records. A record lists its  *)
(* values as the file does, the key first, and UPDATE reads them as if     *)
(* they were in the order of the schema.                                   *)
(***************************************************************************)
EXTENDS CsvRows

CONSTANTS
  Schemas,     \* the column lists of CREATE
  Inserts,     \* the INSERT statements
  CsvLines,    \* the lines of imported files
  Updates,     \* the assignment lists of UPDATE statements without WHERE
  NoList,      \* an INSERT without a column list
  MaxRows      \* bound on the rows of the table

(* A literal of a statement. nullptr stands for a column the normalizer fills with nothing. *)
Empty == [type |-> "EMPTY", text |-> Nothing]
Null == [type |-> "NULLVAL", text |-> Bare("NULL")]
String(text) == [type |-> "STRING", text |-> text]
Nullptr == [type |-> "nullptr", text |-> Nothing]

Literal ==
  {lit \in [type: STRING, text: Text(STRING)] :
     lit.type # "nullptr" /\ (lit.type = "EMPTY" => lit = Empty)}

ASSUME StatementAssumption ==
  /\ \A s \in Schemas :
       /\ s \in Seq(Column)
       /\ Cardinality({i \in DOMAIN s : IsKey(s[i])}) = 1
       /\ \A i \in DOMAIN s : \A m \in Range(s[i].modifiers) :
            PrimaryKey \notin Range(m.text.parts)
       /\ \A i, j \in DOMAIN s : s[i].name = s[j].name => i = j
  /\ \A stmt \in Inserts :
       /\ stmt.columns = NoList \/ stmt.columns \in Seq(STRING)
       /\ stmt.records \in Seq(Seq(Literal))
  /\ CsvLines \subseteq Seq(STRING)
  /\ \A assignments \in Updates : assignments \in Seq([name: STRING, literal: Literal])
  /\ MaxRows \in Nat

VARIABLES
  declared,  \* the schema as CREATE had it, which is what metadata.txt is written from
  schema,    \* untyped_tables: the schema the engine works with
  stored,    \* the live records of the table file
  denoted,   \* the rows the statements so far mean, by column name
  outcome    \* of the last statement

statementVars == <<declared, schema, stored, denoted, outcome>>

Outcomes == {"accepted", "rejected", "threw", "undefined"}

RecordTypes == {"INSERT", "UPDATE"}

StatementInit ==
  /\ declared \in Schemas
  /\ schema = declared
  /\ stored = <<>>
  /\ denoted = <<>>
  /\ outcome = "accepted"

ColumnNames == [i \in DOMAIN schema |-> schema[i].name]

(* The first column of the name; 0 if there is none. *)
SchemaIndex(name) == SelectInSeq(ColumnNames, LAMBDA n : n = name)

KeyIndex == SelectInSeq(schema, IsKey)

(* The column whose value is at place p of a record, and the place of a column. *)
ColumnAt(p) == IF p = 1 THEN KeyIndex ELSE IF p <= KeyIndex THEN p - 1 ELSE p

FilePlace(c) == IF c = KeyIndex THEN 1 ELSE IF c < KeyIndex THEN c + 1 ELSE c

IsEmpty(lit) == lit.type \in {"EMPTY", "nullptr"}
-----------------------------------------------------------------------------
(* normalizeInsert *)

UserColumns(stmt) == IF stmt.columns = NoList THEN ColumnNames ELSE stmt.columns

AllKnown(columns) == \A i \in DOMAIN columns : SchemaIndex(columns[i]) # 0

TooLong(values) == Len(values) > Len(schema)

(* The columns the mask marks: all of the list, or those before the first unknown one. *)
ProjectionMask(stmt) ==
  LET columns == UserColumns(stmt)
  IN  {SchemaIndex(columns[i]) :
         i \in {j \in DOMAIN columns : AllKnown(SubSeq(columns, 1, j))}}

(* Mutant: the values stay as they are written. *)
AsWritten(stmt, values) == values

(* A column that is listed twice takes its last value; values behind the list are dropped. *)
NormalizedRow(stmt, values) ==
  LET columns == UserColumns(stmt)
  IN  [c \in DOMAIN schema |->
         LET j == SelectLastInSeq(columns, LAMBDA n : SchemaIndex(n) = c)
         IN  IF j = 0 THEN Nullptr ELSE IF j <= Len(values) THEN values[j] ELSE Empty]

IsNormalized(stmt) ==
  /\ AllKnown(UserColumns(stmt))
  /\ \A k \in DOMAIN stmt.records : ~TooLong(stmt.records[k])

(* The records as the normalizer leaves them: it stops at the first that is too long, and has *)
(* not begun if a column is unknown.                                                           *)
NormalizedRecords(stmt) ==
  [k \in DOMAIN stmt.records |->
     IF /\ AllKnown(UserColumns(stmt))
        /\ \A l \in 1..k : ~TooLong(stmt.records[l])
     THEN NormalizedRow(stmt, stmt.records[k])
     ELSE stmt.records[k]]
-----------------------------------------------------------------------------
(* validateInsertSemantics *)

Keys == {stored[i].values[1] : i \in DOMAIN stored}

(* Mutant: earlier records of the statement are not asked. *)
InIndex(records, k) == records[k][KeyIndex].text \in Keys

(* The key of the record is in the index, or in an earlier record of the statement. *)
DuplicateKey(records, k) ==
  LET key == records[k][KeyIndex].text
  IN  \/ key \in Keys
      \/ \E l \in 1..(k - 1) : /\ KeyIndex \in DOMAIN records[l]
                              /\ ~IsEmpty(records[l][KeyIndex])
                              /\ records[l][KeyIndex].text = key

(* Column c violates a rule: a value is missing that must be given, or the key is there already. *)
Violates(stmt, records, k, c) ==
  LET absent == IsEmpty(records[k][c])
  IN  \/ /\ absent \/ c \notin ProjectionMask(stmt)
         /\ HasEmptyLiteralRuleViolations(schema[c])
      \/ ~absent /\ c = KeyIndex /\ DuplicateKey(records, k)

(* What the validator makes of column c of record k: it goes on, rejects the statement, or reads *)
(* behind the end of the record.                                                                  *)
Look(stmt, records, k, c) ==
  IF TooLong(records[k]) THEN "rejected"
  ELSE IF c > Len(records[k]) THEN "undefined"
  ELSE IF Violates(stmt, records, k, c) THEN "rejected"
  ELSE "accepted"

Faults(stmt, records) ==
  {at \in (DOMAIN records) \X (DOMAIN schema) : Look(stmt, records, at[1], at[2]) # "accepted"}

NotBehind(at, later) == at[1] < later[1] \/ (at[1] = later[1] /\ at[2] <= later[2])

Foremost(faults) == CHOOSE at \in faults : \A later \in faults : NotBehind(at, later)

(* Column by column, record by record, up to the first that is not accepted. *)
Verdict(stmt, records) ==
  LET faults == Faults(stmt, records)
      first == Foremost(faults)
  IN  IF faults = {} THEN "accepted" ELSE Look(stmt, records, first[1], first[2])

(* visit(InsertNode&): the validator runs whether or not the normalizer was content. *)
InsertVerdict(stmt) ==
  LET verdict == Verdict(stmt, NormalizedRecords(stmt))
  IN  IF verdict = "accepted" /\ ~IsNormalized(stmt) THEN "rejected" ELSE verdict
-----------------------------------------------------------------------------
(* serializeNormalizedRecord *)

Filled(mask, record, c) == c = KeyIndex \/ (c \in mask /\ ~IsEmpty(record[c]))

SerializeThrows(mask, record) ==
  \E c \in DOMAIN schema : ~Filled(mask, record, c) /\ DefaultThrows(schema[c])

SerializedValue(mask, record, c) ==
  IF Filled(mask, record, c) THEN RemoveOuterQuotes(record[c].text) ELSE GetDefaultValue(schema[c])

(* Mutant: a column that is not listed is not written. *)
ListedOnly(type, mask, record) ==
  [type |-> type,
   values |-> [p \in {FilePlace(c) : c \in mask \cup {KeyIndex}} |->
                 SerializedValue(mask, record, ColumnAt(p))]]

(* The key is written first, the other columns follow in their order. *)
SerializedRecord(type, mask, record) ==
  [type |-> type,
   values |-> [p \in DOMAIN schema |-> SerializedValue(mask, record, ColumnAt(p))]]

(* How many records are in the file when the INSERT ends. *)
WrittenRecords(mask, records) ==
  LET thrower == SelectInSeq(records, LAMBDA r : SerializeThrows(mask, r))
  IN  IF thrower = 0 THEN Len(records) ELSE thrower - 1
-----------------------------------------------------------------------------
(* The meaning of an INSERT, from CREATE's columns and without masks or schema positions *)

DeclaredNames == {declared[i].name : i \in DOMAIN declared}

Place(name) == CHOOSE i \in DOMAIN declared : declared[i].name = name

(* A column that is listed twice takes the value it is given last. *)
ListedAt(stmt, name) ==
  IF stmt.columns = NoList THEN Place(name)
  ELSE Max({0} \cup {j \in DOMAIN stmt.columns : stmt.columns[j] = name})

Given(stmt, values, name) ==
  LET j == ListedAt(stmt, name) IN j \in DOMAIN values /\ values[j] # Empty

Meaning(stmt, values) ==
  [name \in DeclaredNames |->
     IF Given(stmt, values, name)
     THEN RemoveOuterQuotes(values[ListedAt(stmt, name)].text)
     ELSE GetDefaultValue(declared[Place(name)])]
-----------------------------------------------------------------------------
Insert(stmt) ==
  LET records == NormalizedRecords(stmt)
      mask == ProjectionMask(stmt)
      verdict == InsertVerdict(stmt)
      n == WrittenRecords(mask, records)
  IN  /\ Len(stored) + Len(records) <= MaxRows
      /\ IF verdict = "accepted"
           THEN /\ stored' = stored \o [k \in 1..n |-> SerializedRecord("INSERT", mask, records[k])]
                /\ denoted' = denoted \o [k \in 1..n |-> Meaning(stmt, stmt.records[k])]
                /\ outcome' = IF n < Len(records) THEN "threw" ELSE "accepted"
           ELSE /\ outcome' = verdict
                /\ UNCHANGED <<stored, denoted>>
      /\ UNCHANGED <<declared, schema>>

(* A field is never EMPTY, and what is behind the last column is dropped. *)
FieldValues(fields) == [c \in DOMAIN schema |-> String(fields[c])]

(* performCSVImport, a line: nothing is validated. A row of the wrong width is reported as one    *)
(* that is skipped, and then serialised; of a short one the fields behind its end are read. What  *)
(* a line means is a row if it has a field for each column, and otherwise none.                   *)
ImportRow(line) ==
  LET fields == ParseCsvRow(line)
      meant == CsvMeaning(line)
  IN  /\ Len(stored) < MaxRows
      /\ IF Len(fields) < Len(schema)
           THEN outcome' = "undefined" /\ UNCHANGED stored
           ELSE /\ stored' =
                     Append(stored, SerializedRecord("INSERT", DOMAIN schema, FieldValues(fields)))
                /\ outcome' = "accepted"
      /\ denoted' = IF Len(meant) = Len(declared)
                    THEN Append(denoted, [name \in DeclaredNames |->
                                            RemoveOuterQuotes(meant[Place(name)])])
                    ELSE denoted
      /\ UNCHANGED <<declared, schema>>

(* normalizeUpdate: every name known, none twice, not the key. *)
UpdateNormalized(assignments) ==
  /\ \A i \in DOMAIN assignments : SchemaIndex(assignments[i].name) \notin {0, KeyIndex}
  /\ \A i, j \in DOMAIN assignments : assignments[i].name = assignments[j].name => i = j

(* The record updateData builds: what the inverse projection mask keeps is the old record's value *)
(* at the column's number, which is another column's if the key is not the first. All of it is   *)
(* STRING by then, an EMPTY literal too, so that no DEFAULT is filled in.                         *)
NewValues(assignments, old) ==
  [c \in DOMAIN schema |->
     LET i == SelectInSeq(assignments, LAMBDA a : SchemaIndex(a.name) = c)
     IN  String(IF i = 0 THEN old.values[c] ELSE RemoveOuterQuotes(assignments[i].literal.text))]

(* Mutant: the new record has the assigned columns only, the others fall back to their DEFAULT. *)
AssignedOnly(assignments, old) ==
  SerializedRecord("UPDATE",
                   {SchemaIndex(assignments[i].name) : i \in DOMAIN assignments},
                   NewValues(assignments, old))

(* serializeNormalizedRecord takes off quotation marks that were stored as part of a value. *)
UpdatedRecord(assignments, old) ==
  SerializedRecord("UPDATE", DOMAIN schema, NewValues(assignments, old))

(* What an assignment means; an EMPTY literal stands for the column's DEFAULT. *)
AssignedMeaning(literal, name) ==
  IF literal = Empty THEN GetDefaultValue(declared[Place(name)])
  ELSE RemoveOuterQuotes(literal.text)

Update(assignments) ==
  /\ IF UpdateNormalized(assignments)
       THEN /\ stored' = [i \in DOMAIN stored |-> UpdatedRecord(assignments, stored[i])]
            /\ denoted' =
                 [i \in DOMAIN denoted |->
                    [name \in DeclaredNames |->
                       IF \E a \in Range(assignments) : a.name = name
                       THEN AssignedMeaning(
                              (CHOOSE a \in Range(assignments) : a.name = name).literal, name)
                       ELSE denoted[i][name]]]
            /\ outcome' = "accepted"
       ELSE outcome' = "rejected" /\ UNCHANGED <<stored, denoted>>
  /\ UNCHANGED <<declared, schema>>

(* QUIT and INIT, or a crash and INIT. *)
Restart ==
  /\ schema' = ReadBack(declared)
  /\ outcome' = "accepted"
  /\ UNCHANGED <<declared, stored, denoted>>

StatementNext ==
  \/ outcome # "undefined" /\ \E stmt \in Inserts : Insert(stmt)
  \/ outcome # "undefined" /\ \E line \in CsvLines : ImportRow(line)
  \/ outcome # "undefined" /\ \E assignments \in Updates : Update(assignments)
  \/ Restart

StatementSpec == StatementInit /\ [][StatementNext]_statementVars
=============================================================================
