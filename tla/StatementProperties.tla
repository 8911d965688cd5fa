------------------------ MODULE StatementProperties ------------------------
(***************************************************************************)
(* What INSERT, UPDATE, IMPORT and INIT must guarantee for the rows of a   *)
(* table, whatever columns and values the statements list.                 *)
(***************************************************************************)
EXTENDS Statements

(* The variables have their types: records and rows are as wide as the schema. *)
StatementTypeOK ==
  /\ declared \in Schemas
  /\ [i \in DOMAIN schema |-> schema[i].name] = [i \in DOMAIN declared |-> declared[i].name]
  /\ \A i \in DOMAIN stored :
       stored[i].type \in RecordTypes /\ DOMAIN stored[i].values = DOMAIN declared
  /\ \A i \in DOMAIN denoted : DOMAIN denoted[i] = DeclaredNames
  /\ outcome \in Outcomes

(* The DEFAULT of a column holds a comma: INIT does not read it back as it was. *)
CommaDefault(col) ==
  \E i \in DOMAIN col.modifiers :
    col.modifiers[i].kind = "DEFAULT" /\ Len(col.modifiers[i].text.parts) > 1

(* Column c of a row that an UPDATE has written need not be what it means: the values have been *)
(* read at the wrong places if the key is not the first column, and a pair of quotation marks   *)
(* that belongs to a value has been taken off.                                                  *)
SpoiltByUpdate(i, c) ==
  /\ stored[i].type = "UPDATE"
  /\ KeyIndex # 1 \/ ~IsUnmarked(denoted[i][declared[c].name])

(* The rows in the file are the rows the statements mean, column for column: no value ends up   *)
(* in another column, however a statement lists them or wherever the key is written; no DEFAULT *)
(* is forgotten, or filled in where a value was given; of an INSERT that was cut short the      *)
(* first rows are stored; an UPDATE keeps what it does not assign. The two exceptions are those *)
(* of SpoiltByUpdate, and a DEFAULT with a comma, which may be another after a restart.         *)
StoredAsDenoted ==
  /\ Len(stored) = Len(denoted)
  /\ \A i \in DOMAIN stored, c \in DOMAIN declared :
       CommaDefault(declared[c]) \/ SpoiltByUpdate(i, c)
         \/ stored[i].values[FilePlace(c)] = denoted[i][declared[c].name]

(* What CREATE has said of a column. *)
DeclaredKinds(name) == {m.kind : m \in Range(declared[Place(name)].modifiers)}

IsNullable(name) == DeclaredKinds(name) \cap {PrimaryKey, NotNull} = {}

(* A value must be given for the key, and for a NOT NULL column without a DEFAULT. *)
MustBeGiven(name) ==
  \/ PrimaryKey \in DeclaredKinds(name)
  \/ NotNull \in DeclaredKinds(name) /\ "DEFAULT" \notin DeclaredKinds(name)

(* The statement lists columns at most once, no more values than columns, and no key in quotation *)
(* marks (those are in TableStore: the index is asked for the key with its marks). It gives NULL  *)
(* to columns that may be null only: the engine takes NULL for a value like any other.            *)
Proper(stmt) ==
  LET columns == UserColumns(stmt)
  IN  /\ \A i, j \in DOMAIN columns : columns[i] = columns[j] => i = j
      /\ \A k \in DOMAIN stmt.records :
           /\ Len(stmt.records[k]) <= Len(columns)
           /\ \A j \in DOMAIN stmt.records[k] :
                /\ SchemaIndex(columns[j]) = KeyIndex => IsUnmarked(stmt.records[k][j].text)
                /\ stmt.records[k][j] = Null /\ columns[j] \in DeclaredNames
                     => IsNullable(columns[j])

(* What an INSERT must satisfy, by CREATE's column list. *)
Legitimate(stmt) ==
  /\ stmt.columns # NoList => Range(stmt.columns) \subseteq DeclaredNames
  /\ \A k \in DOMAIN stmt.records, name \in DeclaredNames :
       LET values == stmt.records[k]
       IN  /\ MustBeGiven(name) => Given(stmt, values, name)
           /\ PrimaryKey \in DeclaredKinds(name) =>
                /\ \A i \in DOMAIN denoted : denoted[i][name] # Meaning(stmt, values)[name]
                /\ \A l \in 1..(k - 1) :
                     Meaning(stmt, stmt.records[l])[name] # Meaning(stmt, values)[name]

(* No UPDATE has changed a key. *)
KeysIntact == \A i \in DOMAIN stored : ~SpoiltByUpdate(i, KeyIndex)

(* As long as no UPDATE has changed a key, the engine accepts an INSERT exactly when it is       *)
(* legitimate: the masks, the rewriting and the order in which normalizer and validator give up  *)
(* lose no violation and invent none, before and after a restart, and no key is forgotten.       *)
VerdictAgrees ==
  KeysIntact =>
    \A stmt \in Inserts : Proper(stmt) => (InsertVerdict(stmt) = "accepted" <=> Legitimate(stmt))

(* The literal of column c in a record of the statement is NULL. *)
GivesNull(stmt, values, c) ==
  Given(stmt, values, declared[c].name) /\ values[ListedAt(stmt, declared[c].name)] = Null

(* "column modifiers: PRIMARY KEY, DEFAULT, NOT NULL" (README.md:22): no NULL for such a column. *)
NullsRejected ==
  \A stmt \in Inserts :
    (\E c \in DOMAIN declared, k \in DOMAIN stmt.records :
       GivesNull(stmt, stmt.records[k], c) /\ ~IsNullable(declared[c].name))
    => InsertVerdict(stmt) # "accepted"

(* The validator reads behind the end of a record only in a statement that names a column the *)
(* table does not have: after that the normalizer has rewritten nothing.                      *)
ReadsWithinRecords ==
  \A stmt \in Inserts :
    InsertVerdict(stmt) = "undefined" => ~AllKnown(UserColumns(stmt))

(* An INSERT is stored whole or not at all, unless CREATE gave a column that may be left out the *)
(* EMPTY literal as its DEFAULT: then getDefaultValue throws with earlier rows in the file.      *)
InsertsCutOnlyByDefault ==
  [][outcome' = "threw" =>
       \E c \in DOMAIN declared : Default(Nothing) \in Range(declared[c].modifiers)]_statementVars

(* No restart loses a PRIMARY KEY, a NOT NULL or the place of a column, and the modifiers of a *)
(* column whose DEFAULT has no comma are what CREATE made them.                                *)
RestartKeepsSchema ==
  \A c \in DOMAIN declared :
    /\ schema[c].name = declared[c].name
    /\ \A kind \in {PrimaryKey, NotNull, "DEFAULT"} :
         HasModifier(declared[c], kind) => HasModifier(schema[c], kind)
    /\ ~CommaDefault(declared[c]) => schema[c] = declared[c]

(* "if we find a bad row, just skip it, and keep inserting values" (csv-import.cpp:25). *)
BadRowsSkipped ==
  [][\A line \in CsvLines :
       Len(ParseCsvRow(line)) # Len(declared) /\ ImportRow(line) => UNCHANGED stored]_statementVars

(* "default value substitutions" (README.md:25), after a restart too. *)
DefaultsSubstituted ==
  \A i \in DOMAIN stored, c \in DOMAIN declared :
    SpoiltByUpdate(i, c) \/ stored[i].values[FilePlace(c)] = denoted[i][declared[c].name]
=============================================================================
