------------------------------ MODULE Catalog ------------------------------
(***************************************************************************)
(* The tables of a database: CREATE and DROP of several tables over their  *)
(* metadata and data directories, the context INIT builds from what it     *)
(* finds there, and stops between any two file operations. Records are     *)
(* only told apart by the CREATE they were inserted after and its columns. *)
(***************************************************************************)
EXTENDS Integers

CONSTANTS
  Tables,          \* table names
  Schemas,         \* the column lists of CREATE statements
  ColumnCount,     \* how many columns a schema has
  Keyed,           \* the schemas with a PRIMARY KEY column
  StopPhases,      \* the phases in which the process may be stopped
  MaxIncarnation   \* bound: how often a name is given to a table

ASSUME CatalogAssumption ==
  /\ Schemas \cap {"none", "folder", "blank"} = {}
  /\ ColumnCount \in [Schemas -> Nat \ {0}]
  /\ Keyed \subseteq Schemas
  /\ MaxIncarnation \in Nat

(* A metadata.txt without lines gives a table without columns. *)
ReadableSchemas == Schemas \cup {"blank"}

HasKey(s) == s \in Keyed

(* The std::uint8_t column code of initializeColumnEncodingMapForTable comes back to 0. *)
CodesWrap(s) == s \in Schemas /\ \E n \in 1..ColumnCount[s] : n % 256 = 0

VARIABLES
  metadata,     \* metadata[t]: "none", "folder", "blank" (metadata.txt is empty) or its schema
  datafile,     \* datafile[t]: "none", "folder", "blank" (no header), "ready", or "headless":
                \* records, but no header before them
  records,      \* records[t]: the live records in the file of t
  known,        \* untyped_tables: the schema of t, or "none"
  indexed,      \* the tables with an entry in indices for their key column
  counted,      \* the tables with an entry in delete_counter_per_table
  phase,        \* where the running statement or INIT is; "down" stopped, "failed" exited
  booting,      \* INIT is running
  todo,         \* the tables whose index INIT has still to build
  target,       \* the table being worked on
  schema,       \* the columns of the running CREATE
  incarnation   \* how many CREATEs of t there have been

disk == <<metadata, datafile, records>>
memory == <<known, indexed, counted>>
control == <<phase, booting, todo, target, schema>>
catalogVars == <<disk, memory, control, incarnation>>

StatementPhases ==
  {"createFile", "writeSchema", "dropSchemaFolder", "dropData", "dropDataFolder"}
LoadPhases == {"codes", "next", "ensureFolder", "ensureFile", "writeHeader", "load"}
Gone == {"down", "failed"}
CatalogPhases == {"idle"} \cup StatementPhases \cup LoadPhases \cup Gone

NoTables == [t \in Tables |-> "none"]

(* Records of one incarnation of a table, written with its columns. *)
TableRecord == [of: 1..MaxIncarnation, columns: Schemas]

Width(s) == IF s \in Schemas THEN ColumnCount[s] ELSE 0

(* A scan of the file of t skips an offset region as long as t has columns now; a live record *)
(* with more or fewer of them is read from a wrong place.                                     *)
Misread(t) == \E rec \in records[t] : Width(rec.columns) # Width(known[t])

CatalogInit ==
  /\ metadata = NoTables
  /\ datafile = NoTables
  /\ records = [t \in Tables |-> {}]
  /\ known = NoTables
  /\ indexed = {}
  /\ counted = {}
  /\ phase = "down"
  /\ booting = FALSE
  /\ todo = {}
  /\ target \in Tables
  /\ schema \in Schemas
  /\ incarnation = [t \in Tables |-> 0]

(* The process ends, and all it had in memory with it. *)
ProcessEnds(how) ==
  /\ phase' = how
  /\ known' = NoTables
  /\ indexed' = {}
  /\ counted' = {}
  /\ booting' = FALSE
  /\ todo' = {}
  /\ UNCHANGED <<target, schema>>

Proceed(next) ==
  /\ phase' = next
  /\ UNCHANGED <<booting, todo, target, schema>>
-----------------------------------------------------------------------------
(* INIT *)

(* Mutant: a folder without metadata.txt is not skipped. *)
UnskippedSchema(found) == found

(* What initializeUntypedTableMetadata takes for the schema of a table. *)
SchemaRead(found) == IF found = "folder" THEN "none" ELSE found

(* INIT reads all metadata. *)
Start ==
  /\ phase \in Gone
  /\ phase' = "codes"
  /\ booting' = TRUE
  /\ known' = [t \in Tables |-> SchemaRead(metadata[t])]
  /\ UNCHANGED <<disk, indexed, counted, todo, target, schema, incarnation>>

KnownTables == {t \in Tables : known[t] # "none"}

(* initializeColumnEncodingMap: one table with too many columns ends the process. *)
EncodeColumns ==
  /\ phase = "codes"
  /\ IF \E t \in Tables : CodesWrap(known[t])
       THEN ProcessEnds("failed")
       ELSE /\ phase' = "next"
            /\ todo' = KnownTables
            /\ UNCHANGED <<memory, booting, target, schema>>
  /\ UNCHANGED <<disk, incarnation>>

(* Mutant: the table is not taken from the list. *)
SameTable ==
  /\ phase = "next"
  /\ \E t \in todo : target' = t
  /\ phase' = "ensureFolder"
  /\ UNCHANGED <<disk, memory, booting, todo, schema, incarnation>>

(* initializePrimaryKeyIndices goes on with a table not done yet. *)
NextTable ==
  /\ phase = "next"
  /\ \E t \in todo :
       /\ target' = t
       /\ todo' = todo \ {t}
  /\ phase' = "ensureFolder"
  /\ UNCHANGED <<disk, memory, booting, schema, incarnation>>

(* After the last one initializeDeleteCounters gives every known table a counter. *)
InitializeDeleteCounters ==
  /\ phase = "next"
  /\ todo = {}
  /\ phase' = "idle"
  /\ booting' = FALSE
  /\ counted' = KnownTables
  /\ UNCHANGED <<disk, known, indexed, todo, target, schema, incarnation>>

(* ensureTableFileExists, first the folder ... *)
EnsureFolder ==
  /\ phase = "ensureFolder"
  /\ datafile' = [datafile EXCEPT ![target] = IF @ = "none" THEN "folder" ELSE @]
  /\ Proceed("ensureFile")
  /\ UNCHANGED <<metadata, records, memory, incarnation>>

(* Mutant: the new file is closed without its header. *)
EnsureBlankFile ==
  /\ phase = "ensureFile"
  /\ datafile' = [datafile EXCEPT ![target] = IF @ = "folder" THEN "blank" ELSE @]
  /\ Proceed("load")
  /\ UNCHANGED <<metadata, records, memory, incarnation>>

(* ... then the file, if there is none: createTableFile opens it ... *)
EnsureFile ==
  /\ phase = "ensureFile"
  /\ datafile' = [datafile EXCEPT ![target] = IF @ = "folder" THEN "blank" ELSE @]
  /\ Proceed(IF datafile[target] = "folder" THEN "writeHeader" ELSE "load")
  /\ UNCHANGED <<metadata, records, memory, incarnation>>

(* ... and the header reaches it when it is closed. *)
WriteHeader ==
  /\ phase = "writeHeader"
  /\ datafile' = [datafile EXCEPT ![target] = "ready"]
  /\ Proceed("load")
  /\ UNCHANGED <<metadata, records, memory, incarnation>>

(* Mutant: the index that was built is not inserted. *)
IndexedWithout(t) == indexed

IndexedWith(t) == IF HasKey(known[t]) THEN indexed \cup {t} ELSE indexed

(* checkFileValidity rejects a file that begins with a record. It compares an uninitialised  *)
(* header when the file is blank, and extractPrimaryKeyColumn returns nothing when there is  *)
(* no key: the process may survive either, the second without an index anyone can look up.   *)
LoadSurvives == datafile[target] # "headless"
LoadMayFail == datafile[target] # "ready" \/ ~HasKey(known[target])

(* deserializeNextPrimaryKey takes for the length of a key what stands at the wrong place; *)
(* resize may throw. Nothing catches that in INIT; in a statement it ends the statement.   *)
LoadMayThrow == Misread(target)

Load ==
  /\ phase = "load"
  /\ \/ /\ LoadSurvives
        /\ indexed' = IndexedWith(target)
        /\ Proceed(IF booting THEN "next" ELSE "idle")
        /\ UNCHANGED <<known, counted>>
     \/ /\ LoadSurvives /\ LoadMayThrow /\ ~booting
        /\ Proceed("idle")
        /\ UNCHANGED memory
     \/ /\ LoadMayFail \/ (booting /\ LoadMayThrow)
        /\ ProcessEnds("failed")
  /\ UNCHANGED <<disk, incarnation>>
-----------------------------------------------------------------------------
(* CREATE UNTYPED TABLE *)

(* Mutant: the name is not looked up first. *)
BeginCreateAnyway(t, s) ==
  /\ phase = "idle"
  /\ incarnation[t] < MaxIncarnation
  /\ incarnation' = [incarnation EXCEPT ![t] = @ + 1]
  /\ metadata' = [metadata EXCEPT ![t] = IF @ = "none" THEN "folder" ELSE @]
  /\ target' = t
  /\ schema' = s
  /\ phase' = "createFile"
  /\ UNCHANGED <<datafile, records, memory, booting, todo>>

(* The name must be unknown; the folder may be there already. *)
BeginCreate(t, s) ==
  /\ phase = "idle"
  /\ known[t] = "none"
  /\ incarnation[t] < MaxIncarnation
  /\ incarnation' = [incarnation EXCEPT ![t] = @ + 1]
  /\ metadata' = [metadata EXCEPT ![t] = IF @ = "none" THEN "folder" ELSE @]
  /\ target' = t
  /\ schema' = s
  /\ phase' = "createFile"
  /\ UNCHANGED <<datafile, records, memory, booting, todo>>

(* The std::ofstream creates or truncates metadata.txt. *)
OpenMetadata ==
  /\ phase = "createFile"
  /\ metadata' = [metadata EXCEPT ![target] = "blank"]
  /\ Proceed("writeSchema")
  /\ UNCHANGED <<datafile, records, memory, incarnation>>

(* close() writes the columns. The context learns the table before its columns are counted; *)
(* recalculateIndicesForTable then drops the old index and builds it as INIT does.          *)
WriteSchema ==
  /\ phase = "writeSchema"
  /\ metadata' = [metadata EXCEPT ![target] = schema]
  /\ IF CodesWrap(schema)
       THEN ProcessEnds("failed")
       ELSE /\ known' = [known EXCEPT ![target] = schema]
            /\ indexed' = indexed \ {target}
            /\ Proceed("ensureFolder")
            /\ UNCHANGED counted
  /\ UNCHANGED <<datafile, records, incarnation>>
-----------------------------------------------------------------------------
(* DROP TABLE: remove_all of one directory, then of the other. *)

BeginDrop(t) ==
  /\ phase = "idle"
  /\ known[t] # "none"
  /\ metadata' = [metadata EXCEPT ![t] = "folder"]
  /\ target' = t
  /\ phase' = "dropSchemaFolder"
  /\ UNCHANGED <<datafile, records, memory, booting, todo, schema, incarnation>>

DropSchemaFolder ==
  /\ phase = "dropSchemaFolder"
  /\ metadata' = [metadata EXCEPT ![target] = "none"]
  /\ Proceed("dropData")
  /\ UNCHANGED <<datafile, records, memory, incarnation>>

(* Mutant: the data directory is not removed. *)
ForgetOnly ==
  /\ phase = "dropData"
  /\ known' = [known EXCEPT ![target] = "none"]
  /\ indexed' = indexed \ {target}
  /\ Proceed("idle")
  /\ UNCHANGED <<disk, counted, incarnation>>

DropDataFile ==
  /\ phase = "dropData"
  /\ datafile' = [datafile EXCEPT ![target] = "folder"]
  /\ records' = [records EXCEPT ![target] = {}]
  /\ Proceed("dropDataFolder")
  /\ UNCHANGED <<metadata, memory, incarnation>>

(* Mutant: the context keeps the table. *)
DropDataFolderOnly ==
  /\ phase = "dropDataFolder"
  /\ datafile' = [datafile EXCEPT ![target] = "none"]
  /\ indexed' = indexed \ {target}
  /\ Proceed("idle")
  /\ UNCHANGED <<metadata, records, known, counted, incarnation>>

(* The context forgets schema and index; the delete counter stays. *)
DropDataFolder ==
  /\ phase = "dropDataFolder"
  /\ datafile' = [datafile EXCEPT ![target] = "none"]
  /\ known' = [known EXCEPT ![target] = "none"]
  /\ indexed' = indexed \ {target}
  /\ Proceed("idle")
  /\ UNCHANGED <<metadata, records, counted, incarnation>>
-----------------------------------------------------------------------------
(* Statements on the rows of a table, and the end of the process. *)

(* insertData appends without a look at the header. *)
InsertRow(t) ==
  /\ phase = "idle"
  /\ t \in indexed
  /\ records' = [records EXCEPT ![t] = @ \cup {[of |-> incarnation[t], columns |-> known[t]]}]
  /\ datafile' = [datafile EXCEPT ![t] = IF @ = "blank" THEN "headless" ELSE @]
  /\ UNCHANGED <<metadata, memory, control, incarnation>>

DeleteRows(t) ==
  /\ phase = "idle"
  /\ t \in indexed \cap counted
  /\ datafile[t] = "ready"
  /\ ~Misread(t)
  /\ \E kept \in SUBSET records[t] : records' = [records EXCEPT ![t] = kept]
  /\ UNCHANGED <<metadata, datafile, memory, control, incarnation>>

(* DELETE and UPDATE end the process where the header is not one, and at the latest where *)
(* they read a counter that is not there, with a first row marked already.                *)
ChangeFails(t) ==
  /\ phase = "idle"
  /\ t \in indexed
  /\ \/ datafile[t] # "ready" /\ UNCHANGED records
     \/ /\ datafile[t] = "ready"
        /\ t \notin counted
        /\ \E kept \in SUBSET records[t] : records' = [records EXCEPT ![t] = kept]
  /\ ProcessEnds("failed")
  /\ UNCHANGED <<metadata, datafile, incarnation>>

(* A DELETE or UPDATE that misreads the file marks any records. The index is rebuilt at the end; *)
(* an exception may come before, or from there with the old index erased, and an UPDATE may take *)
(* the process down. A file it has damaged counts as one that still is misread.                  *)
ChangeMisread(t) ==
  /\ phase = "idle"
  /\ HasKey(known[t])
  /\ datafile[t] = "ready"
  /\ Misread(t)
  /\ \E kept \in SUBSET records[t] : records' = [records EXCEPT ![t] = kept]
  /\ \/ /\ t \in counted
        /\ indexed' = indexed \cup {t}
        /\ UNCHANGED <<known, counted, control>>
     \/ /\ indexed' \in {indexed, indexed \ {t}}
        /\ UNCHANGED <<known, counted, control>>
        /\ Misread(t)'
     \/ ProcessEnds("failed")
  /\ UNCHANGED <<metadata, datafile, incarnation>>

(* A statement on a table without a key looks for the key's name where none was returned. *)
KeylessFails(t) ==
  /\ phase = "idle"
  /\ known[t] # "none"
  /\ ~HasKey(known[t])
  /\ ProcessEnds("failed")
  /\ UNCHANGED <<disk, incarnation>>

Stop ==
  /\ phase \in StopPhases
  /\ ProcessEnds("down")
  /\ UNCHANGED <<disk, incarnation>>

(* What a running statement or INIT does next; it waits for nothing. *)
WorkStep ==
  \/ EncodeColumns \/ NextTable \/ InitializeDeleteCounters
  \/ EnsureFolder \/ EnsureFile \/ WriteHeader \/ Load
  \/ OpenMetadata \/ WriteSchema
  \/ DropSchemaFolder \/ DropDataFile \/ DropDataFolder

CatalogNext ==
  \/ Start
  \/ WorkStep
  \/ \E t \in Tables, s \in Schemas : BeginCreate(t, s)
  \/ \E t \in Tables : BeginDrop(t) \/ InsertRow(t) \/ DeleteRows(t)
                         \/ ChangeFails(t) \/ ChangeMisread(t) \/ KeylessFails(t)
  \/ Stop

CatalogSpec == CatalogInit /\ [][CatalogNext]_catalogVars

CatalogFairSpec == CatalogSpec /\ WF_catalogVars(WorkStep)
=============================================================================
