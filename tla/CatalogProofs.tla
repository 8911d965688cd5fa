--------------------------- MODULE CatalogProofs ---------------------------
(***************************************************************************)
(* Any number of tables and schemas, any CREATEs and DROPs, stops at any   *)
(* step: the context agrees with the disk between two statements. If no    *)
(* stop falls between the removal of a table's metadata and of its data,   *)
(* the catalog implements a registry of tables; if none leaves a file      *)
(* without its first lines, INIT accepts what it finds.                    *)
(***************************************************************************)
EXTENDS CatalogProperties, TLAPS

CreatePhases == {"createFile", "writeSchema"}
DropPhases == {"dropSchemaFolder", "dropData", "dropDataFolder"}
OpenPhases == {"ensureFolder", "ensureFile", "writeHeader", "load"}

Agrees(t) == known[t] = SchemaRead(metadata[t])

(* The context agrees with the disk on every table but the one a CREATE or DROP is working on. *)
Agreement ==
  /\ phase \in {"idle"} \cup LoadPhases => \A t \in Tables : Agrees(t)
  /\ phase \in CreatePhases \cup DropPhases => \A t \in Tables \ {target} : Agrees(t)
  /\ phase = "createFile" => known[target] = "none" /\ metadata[target] = "folder"
  /\ phase = "writeSchema" => known[target] = "none" /\ metadata[target] = "blank"
  /\ phase = "dropSchemaFolder" => metadata[target] = "folder"
  /\ phase \in {"dropData", "dropDataFolder"} => metadata[target] = "none"

(* Only a table with a key is in the index, and a process that is gone has none. *)
IndexedKeyed ==
  /\ \A t \in indexed : HasKey(known[t])
  /\ phase \in Gone \cup {"codes"} => indexed = {}

(* A name that has a folder was given to a table. *)
Named == \A t \in Tables : metadata[t] # "none" => incarnation[t] >= 1

CatalogInv == CatalogTypeOK /\ Agreement /\ IndexedKeyed /\ Named

USE DEF Gone, StatementPhases, LoadPhases, CreatePhases, DropPhases

LEMMA SchemaNames ==
  \A s \in Schemas : s \notin {"none", "folder", "blank"}
BY CatalogAssumption

LEMMA InitCatalogInv == CatalogInit => CatalogInv
<1> SUFFICES ASSUME CatalogInit PROVE CatalogInv
  OBVIOUS
<1>1. CatalogTypeOK
  <2>1. /\ NoTables \in [Tables -> ReadableSchemas \cup {"none", "folder"}]
        /\ NoTables \in [Tables -> {"none", "folder", "blank", "ready", "headless"}]
        /\ NoTables \in [Tables -> ReadableSchemas \cup {"none"}]
    BY DEF NoTables
  <2>2. [t \in Tables |-> {}] \in [Tables -> SUBSET TableRecord]
    OBVIOUS
  <2>3. [t \in Tables |-> 0] \in [Tables -> 0..MaxIncarnation]
    BY CatalogAssumption
  <2> QED
    BY <2>1, <2>2, <2>3 DEF CatalogInit, CatalogTypeOK, CatalogPhases
<1>2. Agreement /\ IndexedKeyed /\ Named
  BY DEF CatalogInit, Agreement, IndexedKeyed, Named, NoTables
<1> QED
  BY <1>1, <1>2 DEF CatalogInv

(* Whatever ends the process leaves a state the invariant allows, if the disk still has its type. *)
LEMMA EndKeepsInv ==
  ASSUME CatalogInv, NEW how \in Gone, ProcessEnds(how),
         metadata' \in [Tables -> ReadableSchemas \cup {"none", "folder"}],
         datafile' \in [Tables -> {"none", "folder", "blank", "ready", "headless"}],
         records' \in [Tables -> SUBSET TableRecord],
         incarnation' = incarnation,
         Named'
  PROVE  CatalogInv'
BY DEF CatalogInv, CatalogTypeOK, ProcessEnds, NoTables, CatalogPhases, Agreement, IndexedKeyed

(* Every step keeps the invariant. *)
LEMMA NextCatalogInv == CatalogInv /\ [CatalogNext]_catalogVars => CatalogInv'
<1> SUFFICES ASSUME CatalogInv, [CatalogNext]_catalogVars PROVE CatalogInv'
  OBVIOUS
<1> USE DEF CatalogInv
<1>t. CatalogTypeOK /\ Agreement /\ IndexedKeyed /\ Named
  OBVIOUS
<1>1. CASE Start
  BY <1>1, <1>t, SchemaNames DEF Start, disk, CatalogTypeOK, Agreement, Agrees, IndexedKeyed, Named,
     SchemaRead, ReadableSchemas, CatalogPhases
<1>2. CASE EncodeColumns
  <2>1. CASE ProcessEnds("failed")
    BY <2>1, <1>2, EndKeepsInv DEF EncodeColumns, disk, Named, CatalogTypeOK
  <2>2. CASE phase' = "next"
    BY <2>2, <1>2, <1>t DEF EncodeColumns, ProcessEnds, disk, memory, CatalogTypeOK, Agreement, Agrees,
       IndexedKeyed, Named, CatalogPhases, KnownTables
  <2> QED
    BY <2>1, <2>2, <1>2 DEF EncodeColumns
<1>3. CASE NextTable
  BY <1>3, <1>t DEF NextTable, disk, memory, CatalogTypeOK, Agreement, Agrees, IndexedKeyed, Named,
     CatalogPhases
<1>4. CASE InitializeDeleteCounters
  BY <1>4, <1>t DEF InitializeDeleteCounters, disk, CatalogTypeOK, Agreement, Agrees, IndexedKeyed,
     Named, CatalogPhases, KnownTables
<1>5. CASE EnsureFolder
  BY <1>5, <1>t DEF EnsureFolder, Proceed, memory, CatalogTypeOK, Agreement, Agrees, IndexedKeyed, Named,
     CatalogPhases
<1>6. CASE EnsureFile
  BY <1>6, <1>t DEF EnsureFile, Proceed, memory, CatalogTypeOK, Agreement, Agrees, IndexedKeyed, Named,
     CatalogPhases
<1>7. CASE WriteHeader
  BY <1>7, <1>t DEF WriteHeader, Proceed, memory, CatalogTypeOK, Agreement, Agrees, IndexedKeyed, Named,
     CatalogPhases
<1>8. CASE Load
  <2>1. CASE ProcessEnds("failed")
    BY <2>1, <1>8, EndKeepsInv DEF Load, disk, Named, CatalogTypeOK
  <2>2. CASE Proceed(IF booting THEN "next" ELSE "idle") /\ indexed' \in {indexed, IndexedWith(target)}
                /\ UNCHANGED <<known, counted>>
    BY <2>2, <1>8, <1>t DEF Load, Proceed, IndexedWith, disk, CatalogTypeOK, Agreement, Agrees,
       IndexedKeyed, Named, CatalogPhases
  <2> QED
    BY <2>1, <2>2, <1>8 DEF Load, memory
<1>9. CASE OpenMetadata
  BY <1>9, <1>t DEF OpenMetadata, Proceed, memory, CatalogTypeOK, Agreement, Agrees, IndexedKeyed, Named,
     CatalogPhases, ReadableSchemas
<1>10. CASE WriteSchema
  <2>1. Named' /\ metadata' \in [Tables -> ReadableSchemas \cup {"none", "folder"}]
    BY <1>10, <1>t DEF WriteSchema, Named, Agreement, CatalogTypeOK, ReadableSchemas
  <2>2. CASE ProcessEnds("failed")
    BY <2>1, <2>2, <1>10, EndKeepsInv DEF WriteSchema, CatalogTypeOK
  <2>3. CASE ~CodesWrap(schema)
    <3>1. CatalogTypeOK'
      BY <2>1, <2>3, <1>10, <1>t DEF WriteSchema, Proceed, CatalogTypeOK, CatalogPhases, ReadableSchemas
    <3>2. Agreement'
      BY <2>3, <1>10, <1>t, SchemaNames DEF WriteSchema, Proceed, Agreement, Agrees, SchemaRead,
         CatalogTypeOK
    <3>3. IndexedKeyed'
      BY <2>3, <1>10, <1>t DEF WriteSchema, Proceed, IndexedKeyed, CatalogTypeOK
    <3> QED
      BY <2>1, <3>1, <3>2, <3>3
  <2> QED
    BY <2>2, <2>3, <1>10 DEF WriteSchema
<1>11. CASE DropSchemaFolder
  BY <1>11, <1>t DEF DropSchemaFolder, Proceed, memory, CatalogTypeOK, Agreement, Agrees, IndexedKeyed,
     Named, CatalogPhases
<1>12. CASE DropDataFile
  BY <1>12, <1>t DEF DropDataFile, Proceed, memory, CatalogTypeOK, Agreement, Agrees, IndexedKeyed,
     Named, CatalogPhases
<1>13. CASE DropDataFolder
  BY <1>13, <1>t DEF DropDataFolder, Proceed, CatalogTypeOK, Agreement, Agrees, IndexedKeyed, Named,
     CatalogPhases, SchemaRead
<1>14. ASSUME NEW t \in Tables, NEW s \in Schemas, BeginCreate(t, s) PROVE CatalogInv'
  <2>1. CatalogTypeOK' /\ IndexedKeyed'
    BY <1>14, <1>t, CatalogAssumption DEF BeginCreate, memory, CatalogTypeOK, IndexedKeyed, CatalogPhases
  <2>2. metadata[t] \in {"none", "folder"}
    BY <1>14, <1>t DEF BeginCreate, Agreement, Agrees, SchemaRead
  <2>3. Agreement'
    BY <2>2, <1>14, <1>t DEF BeginCreate, memory, Agreement, Agrees, CatalogTypeOK
  <2>4. Named'
    BY <1>14, <1>t, CatalogAssumption DEF BeginCreate, Named, CatalogTypeOK
  <2> QED
    BY <2>1, <2>3, <2>4
<1>15. ASSUME NEW t \in Tables, BeginDrop(t) PROVE CatalogInv'
  <2>1. metadata[t] # "none"
    BY <1>15, <1>t DEF BeginDrop, Agreement, Agrees, SchemaRead
  <2> QED
    BY <2>1, <1>15, <1>t DEF BeginDrop, memory, CatalogTypeOK, Agreement, Agrees, IndexedKeyed, Named,
       CatalogPhases
<1>16. ASSUME NEW t \in Tables, InsertRow(t) PROVE CatalogInv'
  <2>1. [of |-> incarnation[t], columns |-> known[t]] \in TableRecord
    <3>1. HasKey(known[t]) /\ known[t] = SchemaRead(metadata[t])
      BY <1>16, <1>t DEF InsertRow, IndexedKeyed, Agreement, Agrees
    <3>2. metadata[t] # "none" /\ known[t] \in Schemas
      BY <3>1, SchemaNames, CatalogAssumption DEF HasKey, SchemaRead
    <3>3. incarnation[t] \in 1..MaxIncarnation
      BY <3>2, <1>t, CatalogAssumption DEF Named, CatalogTypeOK
    <3> QED
      BY <3>2, <3>3 DEF TableRecord
  <2>2. CatalogTypeOK'
    BY <2>1, <1>16, <1>t DEF InsertRow, memory, control, CatalogTypeOK
  <2> QED
    BY <2>2, <1>16, <1>t DEF InsertRow, memory, control, Agreement, Agrees, IndexedKeyed, Named
<1>17. ASSUME NEW t \in Tables, DeleteRows(t) PROVE CatalogInv'
  <2>1. CatalogTypeOK'
    BY <1>17, <1>t DEF DeleteRows, memory, control, CatalogTypeOK
  <2> QED
    BY <2>1, <1>17, <1>t DEF DeleteRows, memory, control, Agreement, Agrees, IndexedKeyed, Named
<1>18. ASSUME NEW t \in Tables, ChangeFails(t) PROVE CatalogInv'
  <2>1. records' \in [Tables -> SUBSET TableRecord]
    BY <1>18, <1>t DEF ChangeFails, CatalogTypeOK
  <2> QED
    BY <2>1, <1>18, <1>t, EndKeepsInv DEF ChangeFails, Named, CatalogTypeOK
<1>19. ASSUME NEW t \in Tables, KeylessFails(t) PROVE CatalogInv'
  BY <1>19, EndKeepsInv DEF KeylessFails, disk, Named, CatalogTypeOK
<1>20. CASE Stop
  BY <1>20, EndKeepsInv DEF Stop, disk, Named, CatalogTypeOK
<1>22. ASSUME NEW t \in Tables, ChangeMisread(t) PROVE CatalogInv'
  <2>1. records' \in [Tables -> SUBSET TableRecord]
    BY <1>22, <1>t DEF ChangeMisread, CatalogTypeOK
  <2>2. CASE ProcessEnds("failed")
    BY <2>1, <2>2, <1>22, <1>t, EndKeepsInv DEF ChangeMisread, Named, CatalogTypeOK
  <2>3. CASE UNCHANGED <<known, counted, control>>
    <3>1. indexed' \subseteq indexed \cup {t}
      BY <2>3, <1>22 DEF ChangeMisread, ProcessEnds, control
    <3>2. CatalogTypeOK'
      BY <2>1, <2>3, <3>1, <1>22, <1>t DEF ChangeMisread, control, CatalogTypeOK
    <3> QED
      BY <3>1, <3>2, <2>3, <1>22, <1>t
         DEF ChangeMisread, control, Agreement, Agrees, IndexedKeyed, Named
  <2> QED
    BY <2>2, <2>3, <1>22 DEF ChangeMisread
<1>21. CASE UNCHANGED catalogVars
  BY <1>21, <1>t DEF catalogVars, disk, memory, control, CatalogTypeOK, Agreement, Agrees, IndexedKeyed,
     Named
<1> QED
  BY <1>1, <1>2, <1>3, <1>4, <1>5, <1>6, <1>7, <1>8, <1>9, <1>10, <1>11, <1>12, <1>13, <1>14, <1>15,
     <1>16, <1>17, <1>18, <1>19, <1>20, <1>21, <1>22 DEF CatalogNext, WorkStep

LEMMA CatalogInvariant == CatalogSpec => []CatalogInv
BY InitCatalogInv, NextCatalogInv, PTL DEF CatalogSpec

(* The variables of the catalog keep their types, whatever is created, dropped and stopped. *)
THEOREM CatalogTypeCorrect == CatalogSpec => []CatalogTypeOK
<1>1. CatalogInv => CatalogTypeOK
  BY DEF CatalogInv
<1> QED
  BY <1>1, CatalogInvariant, PTL

(* Between two statements the context knows exactly the tables whose metadata is on disk. *)
THEOREM TablesStayKnown == CatalogSpec => []KnownTablesOnDisk
<1>1. CatalogInv => KnownTablesOnDisk
  BY DEF CatalogInv, Agreement, Agrees, KnownTablesOnDisk
<1> QED
  BY <1>1, CatalogInvariant, PTL
-----------------------------------------------------------------------------
(* A DROP is not stopped between the removal of the metadata and that of the data. *)
DropsWhole == StopPhases \cap {"dropSchemaFolder", "dropData"} = {}

(* The table whose metadata a running DROP has removed and whose data it has not. *)
Orphaned(t) == t = target /\ phase \in {"dropSchemaFolder", "dropData"}

(* A table holds records of its own incarnation, and a name that is none holds no records. *)
RowsInv ==
  \A t \in Tables :
    /\ metadata[t] \in Schemas =>
         records[t] \subseteq {[of |-> incarnation[t], columns |-> metadata[t]]}
    /\ metadata[t] \notin Schemas /\ ~Orphaned(t) => records[t] = {}

(* The steps that neither touch metadata and records nor end a removal. *)
Quiet ==
  /\ UNCHANGED <<metadata, records, incarnation>>
  /\ phase \notin {"dropSchemaFolder", "dropData"}

LEMMA QuietSteps ==
  ASSUME DropsWhole,
         \/ Start \/ EncodeColumns \/ NextTable \/ InitializeDeleteCounters
         \/ EnsureFolder \/ EnsureFile \/ WriteHeader \/ Load \/ DropDataFolder
         \/ \E t \in Tables : KeylessFails(t)
         \/ Stop
  PROVE  Quiet
<1>1. CASE Start \/ EncodeColumns \/ NextTable \/ InitializeDeleteCounters
  BY <1>1 DEF Start, EncodeColumns, NextTable, InitializeDeleteCounters, disk, Quiet
<1>2. CASE EnsureFolder \/ EnsureFile \/ WriteHeader \/ Load \/ DropDataFolder
  BY <1>2 DEF EnsureFolder, EnsureFile, WriteHeader, Load, DropDataFolder, disk, Quiet
<1>3. CASE \E t \in Tables : KeylessFails(t)
  BY <1>3 DEF KeylessFails, disk, Quiet
<1>4. CASE Stop
  BY <1>4 DEF Stop, disk, Quiet, DropsWhole
<1> QED
  BY <1>1, <1>2, <1>3, <1>4

LEMMA IndexedOnDisk ==
  ASSUME CatalogInv, phase = "idle", NEW t \in indexed
  PROVE  t \in Tables /\ metadata[t] \in Schemas /\ known[t] = metadata[t]
BY SchemaNames, CatalogAssumption
   DEF CatalogInv, CatalogTypeOK, Agreement, Agrees, IndexedKeyed, HasKey, SchemaRead

LEMMA KeyedOnDisk ==
  ASSUME CatalogInv, phase = "idle", NEW t \in Tables, HasKey(known[t])
  PROVE  metadata[t] \in Schemas /\ known[t] = metadata[t]
BY SchemaNames, CatalogAssumption
   DEF CatalogInv, CatalogTypeOK, Agreement, Agrees, HasKey, SchemaRead

(* Without an interrupted DROP no file of a known table is misread. *)
LEMMA NothingMisread ==
  ASSUME CatalogInv, RowsInv, NEW t \in Tables, metadata[t] \in Schemas, known[t] = metadata[t]
  PROVE  ~Misread(t)
BY DEF RowsInv, Misread, CatalogInv, CatalogTypeOK

LEMMA CreateOnDisk ==
  ASSUME CatalogInv, NEW t \in Tables, NEW s \in Schemas, BeginCreate(t, s)
  PROVE  metadata[t] \in {"none", "folder"}
BY DEF CatalogInv, BeginCreate, Agreement, Agrees, SchemaRead

(* Every step keeps the records with their tables. *)
LEMMA NextRowsInv ==
  ASSUME DropsWhole, CatalogInv, RowsInv, CatalogNext
  PROVE  RowsInv'
<1> USE DEF RowsInv, Orphaned
<1>1. CASE Quiet
  BY <1>1 DEF Quiet
<1>2. CASE OpenMetadata
  <2>1. phase = "createFile" /\ phase' = "writeSchema" /\ target' = target /\ target \in Tables
        /\ metadata[target] = "folder" /\ metadata' = [metadata EXCEPT ![target] = "blank"]
        /\ UNCHANGED <<records, incarnation>>
    BY <1>2 DEF OpenMetadata, Proceed, CatalogInv, CatalogTypeOK, Agreement
  <2> QED
    BY <2>1, SchemaNames DEF CatalogInv, CatalogTypeOK
<1>3. CASE WriteSchema
  <2>1. phase = "writeSchema" /\ phase' \notin {"dropSchemaFolder", "dropData"}
        /\ target \in Tables /\ metadata[target] = "blank" /\ schema \in Schemas
        /\ metadata' = [metadata EXCEPT ![target] = schema] /\ UNCHANGED <<records, incarnation>>
    BY <1>3 DEF WriteSchema, Proceed, ProcessEnds, CatalogInv, CatalogTypeOK, Agreement
  <2> QED
    BY <2>1, SchemaNames DEF CatalogInv, CatalogTypeOK
<1>4. CASE DropSchemaFolder
  <2>1. phase = "dropSchemaFolder" /\ phase' = "dropData" /\ target' = target /\ target \in Tables
        /\ metadata' = [metadata EXCEPT ![target] = "none"] /\ UNCHANGED <<records, incarnation>>
    BY <1>4 DEF DropSchemaFolder, Proceed, CatalogInv, CatalogTypeOK
  <2> QED
    BY <2>1, SchemaNames DEF CatalogInv, CatalogTypeOK
<1>5. CASE DropDataFile
  <2>1. phase = "dropData" /\ phase' = "dropDataFolder" /\ target' = target /\ target \in Tables
        /\ records' = [records EXCEPT ![target] = {}] /\ UNCHANGED <<metadata, incarnation>>
    BY <1>5 DEF DropDataFile, Proceed, CatalogInv, CatalogTypeOK
  <2> QED
    BY <2>1 DEF CatalogInv, CatalogTypeOK
<1>6. ASSUME NEW t \in Tables, NEW s \in Schemas, BeginCreate(t, s) PROVE RowsInv'
  <2>1. metadata[t] \in {"none", "folder"} /\ records[t] = {}
    BY <1>6, CreateOnDisk, SchemaNames DEF BeginCreate
  <2>2. phase = "idle" /\ phase' = "createFile" /\ UNCHANGED records
        /\ metadata' = [metadata EXCEPT ![t] = IF @ = "none" THEN "folder" ELSE @]
        /\ incarnation' = [incarnation EXCEPT ![t] = @ + 1]
    BY <1>6 DEF BeginCreate
  <2> QED
    BY <2>1, <2>2, SchemaNames DEF CatalogInv, CatalogTypeOK
<1>7. ASSUME NEW t \in Tables, BeginDrop(t) PROVE RowsInv'
  <2>1. phase = "idle" /\ phase' = "dropSchemaFolder" /\ target' = t
        /\ metadata' = [metadata EXCEPT ![t] = "folder"] /\ UNCHANGED <<records, incarnation>>
    BY <1>7 DEF BeginDrop
  <2> QED
    BY <2>1, SchemaNames DEF CatalogInv, CatalogTypeOK
<1>8. ASSUME NEW t \in Tables, InsertRow(t) PROVE RowsInv'
  <2>1. phase = "idle" /\ metadata[t] \in Schemas /\ known[t] = metadata[t]
    BY <1>8, IndexedOnDisk DEF InsertRow
  <2> QED
    BY <2>1, <1>8 DEF InsertRow, control, CatalogInv, CatalogTypeOK
<1>9. ASSUME NEW t \in Tables, DeleteRows(t) \/ ChangeFails(t) PROVE RowsInv'
  <2>1. phase = "idle" /\ metadata[t] \in Schemas /\ UNCHANGED <<metadata, incarnation>>
        /\ phase' \notin {"dropSchemaFolder", "dropData"}
    BY <1>9, IndexedOnDisk DEF DeleteRows, ChangeFails, ProcessEnds, control
  <2>2. records' = records \/ \E kept \in SUBSET records[t] : records' = [records EXCEPT ![t] = kept]
    BY <1>9 DEF DeleteRows, ChangeFails
  <2> QED
    BY <2>1, <2>2 DEF CatalogInv, CatalogTypeOK
<1>10. ASSUME NEW t \in Tables, ChangeMisread(t) PROVE RowsInv'
  BY <1>10, KeyedOnDisk, NothingMisread DEF ChangeMisread
<1> QED
  BY <1>1, <1>2, <1>3, <1>4, <1>5, <1>6, <1>7, <1>8, <1>9, <1>10, QuietSteps DEF CatalogNext, WorkStep

LEMMA RowsInvariant ==
  ASSUME DropsWhole
  PROVE  CatalogSpec => []RowsInv
<1>1. CatalogInit => RowsInv
  BY DEF CatalogInit, RowsInv
<1>2. CatalogInv /\ RowsInv /\ [CatalogNext]_catalogVars => RowsInv'
  <2>1. CASE UNCHANGED catalogVars
    BY <2>1 DEF catalogVars, disk, control, RowsInv, Orphaned
  <2> QED
    BY <2>1, NextRowsInv
<1> QED
  BY <1>1, <1>2, CatalogInvariant, PTL DEF CatalogSpec

(* No row of a dropped table comes back under its name, unless a DROP is stopped half way. *)
THEOREM RowsStayOwn ==
  ASSUME DropsWhole
  PROVE  CatalogSpec => []OwnRecords
<1>1. CatalogInv /\ RowsInv => OwnRecords
  BY DEF CatalogInv, CatalogTypeOK, Agreement, Agrees, RowsInv, Orphaned, OwnRecords, KnownTables,
     SchemaRead, ReadableSchemas
<1> QED
  BY <1>1, CatalogInvariant, RowsInvariant, PTL
-----------------------------------------------------------------------------
(* The mapped variables change where metadata and records do. *)
LEMMA MappedStutter ==
  ASSUME metadata' = metadata, records' = records
  PROVE  UNCHANGED Registry!registryVars
BY DEF Registry!registryVars, registeredTables, registeredRows

(* A change of one name's metadata that no registry sees. *)
LEMMA HiddenMetadata ==
  ASSUME CatalogInv, NEW t \in Tables, NEW m, m \notin Schemas, metadata[t] \notin Schemas,
         metadata' = [metadata EXCEPT ![t] = m], records' = records
  PROVE  UNCHANGED Registry!registryVars
BY DEF Registry!registryVars, registeredTables, registeredRows, CatalogInv, CatalogTypeOK

(* A table that loses some of its records. *)
LEMMA MappedDelete ==
  ASSUME CatalogInv, NEW t \in Tables, metadata[t] \in Schemas, metadata' = metadata,
         NEW kept \in SUBSET records[t], records' = [records EXCEPT ![t] = kept]
  PROVE  Registry!Delete(t)
<1>1. registeredTables' = registeredTables /\ registeredTables[t] # "none"
  BY SchemaNames DEF registeredTables
<1>2. registeredRows[t] = records[t]
  BY DEF registeredRows
<1>3. registeredRows' = [registeredRows EXCEPT ![t] = kept]
  BY DEF registeredRows, CatalogInv, CatalogTypeOK
<1> QED
  BY <1>1, <1>2, <1>3 DEF Registry!Delete

(* Every step of the catalog is a step of the registry or none. *)
LEMMA StepImplements ==
  ASSUME DropsWhole, CatalogInv, RowsInv, [CatalogNext]_catalogVars
  PROVE  [Registry!RegistryNext]_(Registry!registryVars)
<1>1. CASE Quiet
  BY <1>1, MappedStutter DEF Quiet
<1>2. CASE OpenMetadata
  <2>1. target \in Tables /\ metadata[target] = "folder" /\ records' = records
        /\ metadata' = [metadata EXCEPT ![target] = "blank"]
    BY <1>2 DEF OpenMetadata, CatalogInv, CatalogTypeOK, Agreement
  <2> QED
    BY <2>1, HiddenMetadata, SchemaNames
<1>3. CASE WriteSchema
  <2>1. target \in Tables /\ metadata[target] = "blank" /\ schema \in Schemas
        /\ phase = "writeSchema" /\ records' = records
        /\ metadata' = [metadata EXCEPT ![target] = schema]
    BY <1>3 DEF WriteSchema, CatalogInv, CatalogTypeOK, Agreement
  <2>2. records[target] = {}
    BY <2>1, SchemaNames DEF RowsInv, Orphaned
  <2>3. registeredTables[target] = "none"
        /\ registeredTables' = [registeredTables EXCEPT ![target] = schema]
    BY <2>1, SchemaNames DEF registeredTables, CatalogInv, CatalogTypeOK
  <2>4. registeredRows' = registeredRows
    BY <2>1, <2>2, SchemaNames DEF registeredRows, CatalogInv, CatalogTypeOK
  <2>5. Registry!Create(target, schema)
    BY <2>3, <2>4 DEF Registry!Create
  <2> QED
    BY <2>1, <2>5 DEF Registry!RegistryNext
<1>4. CASE DropSchemaFolder
  <2>1. target \in Tables /\ metadata[target] = "folder" /\ records' = records
        /\ metadata' = [metadata EXCEPT ![target] = "none"]
    BY <1>4 DEF DropSchemaFolder, CatalogInv, CatalogTypeOK, Agreement
  <2> QED
    BY <2>1, HiddenMetadata, SchemaNames
<1>5. CASE DropDataFile
  <2>1. target \in Tables /\ metadata[target] = "none" /\ metadata' = metadata
        /\ records' = [records EXCEPT ![target] = {}]
    BY <1>5 DEF DropDataFile, CatalogInv, CatalogTypeOK, Agreement
  <2>2. registeredTables' = registeredTables /\ registeredRows' = registeredRows
    BY <2>1, SchemaNames DEF registeredTables, registeredRows, CatalogInv, CatalogTypeOK
  <2> QED
    BY <2>2 DEF Registry!registryVars
<1>6. ASSUME NEW t \in Tables, NEW s \in Schemas, BeginCreate(t, s)
      PROVE  [Registry!RegistryNext]_(Registry!registryVars)
  <2>1. metadata[t] \in {"none", "folder"}
    BY <1>6, CreateOnDisk
  <2>2. metadata' = [metadata EXCEPT ![t] = "folder"] /\ records' = records
    BY <2>1, <1>6 DEF BeginCreate, CatalogInv, CatalogTypeOK
  <2> QED
    BY <2>1, <2>2, HiddenMetadata, SchemaNames
<1>7. ASSUME NEW t \in Tables, BeginDrop(t)
      PROVE  [Registry!RegistryNext]_(Registry!registryVars)
  <2>1. metadata' = [metadata EXCEPT ![t] = "folder"] /\ records' = records
    BY <1>7 DEF BeginDrop
  <2>2. CASE metadata[t] \notin Schemas
    BY <2>1, <2>2, HiddenMetadata, SchemaNames
  <2>3. CASE metadata[t] \in Schemas
    <3>1. registeredTables[t] # "none"
          /\ registeredTables' = [registeredTables EXCEPT ![t] = "none"]
      BY <2>1, <2>3, SchemaNames DEF registeredTables, CatalogInv, CatalogTypeOK
    <3>2. registeredRows' = [registeredRows EXCEPT ![t] = {}]
      BY <2>1, <2>3, SchemaNames DEF registeredRows, CatalogInv, CatalogTypeOK
    <3>3. Registry!Drop(t)
      BY <3>1, <3>2 DEF Registry!Drop
    <3> QED
      BY <3>3 DEF Registry!RegistryNext
  <2> QED
    BY <2>2, <2>3
<1>8. ASSUME NEW t \in Tables, InsertRow(t)
      PROVE  [Registry!RegistryNext]_(Registry!registryVars)
  <2> DEFINE new == [of |-> incarnation[t], columns |-> known[t]]
  <2>1. metadata[t] \in Schemas /\ metadata' = metadata
        /\ records' = [records EXCEPT ![t] = @ \cup {new}]
    BY <1>8, IndexedOnDisk DEF InsertRow
  <2>2. new \in TableRecord
    <3>1. incarnation[t] \in 1..MaxIncarnation
      BY <2>1, SchemaNames, CatalogAssumption DEF CatalogInv, CatalogTypeOK, Named
    <3>2. known[t] \in Schemas
      BY <2>1, <1>8, IndexedOnDisk DEF InsertRow
    <3> QED
      BY <3>1, <3>2 DEF TableRecord
  <2> HIDE DEF new
  <2>3. registeredTables' = registeredTables /\ registeredTables[t] # "none"
    BY <2>1, SchemaNames DEF registeredTables
  <2>4. registeredRows' = [registeredRows EXCEPT ![t] = @ \cup {new}]
    BY <2>1 DEF registeredRows, CatalogInv, CatalogTypeOK
  <2>5. Registry!Insert(t, new)
    BY <2>3, <2>4 DEF Registry!Insert
  <2> QED
    BY <2>2, <2>5 DEF Registry!RegistryNext
<1>9. ASSUME NEW t \in Tables, DeleteRows(t) \/ ChangeFails(t)
      PROVE  [Registry!RegistryNext]_(Registry!registryVars)
  <2>1. metadata[t] \in Schemas /\ metadata' = metadata
    BY <1>9, IndexedOnDisk DEF DeleteRows, ChangeFails
  <2>2. CASE records' = records
    BY <2>1, <2>2, MappedStutter
  <2>3. CASE \E kept \in SUBSET records[t] : records' = [records EXCEPT ![t] = kept]
    BY <2>1, <2>3, MappedDelete DEF Registry!RegistryNext
  <2> QED
    BY <2>2, <2>3, <1>9 DEF DeleteRows, ChangeFails
<1>10. CASE UNCHANGED catalogVars
  BY <1>10, MappedStutter DEF catalogVars, disk
<1>11. ASSUME NEW t \in Tables, ChangeMisread(t)
       PROVE  [Registry!RegistryNext]_(Registry!registryVars)
  BY <1>11, KeyedOnDisk, NothingMisread DEF ChangeMisread
<1> QED
  BY <1>1, <1>2, <1>3, <1>4, <1>5, <1>6, <1>7, <1>8, <1>9, <1>10, <1>11, QuietSteps
     DEF CatalogNext, WorkStep

(* CREATE and DROP happen at one moment each, whatever is stopped but the middle of a DROP. *)
THEOREM CatalogImplementsRegistry ==
  ASSUME DropsWhole
  PROVE  CatalogSpec => ImplementsRegistry
<1>1. CatalogInit => Registry!RegistryInit
  BY SchemaNames DEF CatalogInit, NoTables, Registry!RegistryInit, registeredTables, registeredRows
<1>2. CatalogInv /\ RowsInv /\ [CatalogNext]_catalogVars
        => [Registry!RegistryNext]_(Registry!registryVars)
  BY StepImplements
<1> QED
  BY <1>1, <1>2, CatalogInvariant, RowsInvariant, PTL
     DEF CatalogSpec, ImplementsRegistry, Registry!RegistrySpec
-----------------------------------------------------------------------------
(* The tables whose file and index INIT or CREATE has still to see to. *)
Unbuilt == todo \cup (IF phase \in OpenPhases THEN {target} ELSE {})

HasFile(t) == datafile[t] \notin {"none", "folder"}

(* INIT has work to do only while it runs, and only on known tables; *)
WorkList ==
  /\ booting => phase \in LoadPhases
  /\ phase = "codes" => booting
  /\ ~booting => todo = {}
  /\ todo \subseteq KnownTables
  /\ phase \in OpenPhases => target \in KnownTables \ todo

Dropped(t) == t = target /\ phase \in DropPhases

(* what it is done with has its file and, if that is read right, its index. *)
Built ==
  /\ phase \notin Gone \cup {"codes"} =>
       /\ \A t \in Tables \ Unbuilt :
            Dropped(t) \/ (HasKey(known[t]) /\ ~Misread(t) => t \in indexed)
       /\ \A t \in KnownTables \ Unbuilt : Dropped(t) \/ HasFile(t)
  /\ phase = "ensureFile" => datafile[target] # "none"
  /\ phase \in {"writeHeader", "load"} => HasFile(target)

UsableInv == WorkList /\ Built

LEMMA KeyedIsKnown ==
  \A t \in Tables : HasKey(known[t]) => t \in KnownTables
BY SchemaNames, CatalogAssumption DEF HasKey, KnownTables

LEMMA EndIsUsable ==
  ASSUME NEW how \in Gone, ProcessEnds(how)
  PROVE  UsableInv'
BY DEF ProcessEnds, UsableInv, WorkList, Built, OpenPhases

LEMMA NextUsableInv ==
  ASSUME CatalogInv, UsableInv, CatalogNext, ~\E how \in Gone : ProcessEnds(how)
  PROVE  UsableInv'
<1> USE DEF UsableInv, OpenPhases, Dropped
<1>t. CatalogTypeOK /\ IndexedKeyed /\ Agreement
  BY DEF CatalogInv
<1>1. CASE Start
  <2>1. phase \in Gone /\ phase' = "codes" /\ booting' = TRUE /\ todo' = todo
    BY <1>1 DEF Start
  <2>2. todo = {}
    BY <2>1 DEF WorkList
  <2> QED
    BY <2>1, <2>2 DEF WorkList, Built
<1>2. CASE EncodeColumns
  <2>1. /\ phase = "codes" /\ phase' = "next" /\ todo' = KnownTables
        /\ known' = known /\ indexed' = indexed /\ booting' = booting
    BY <1>2 DEF EncodeColumns, memory
  <2>2. KnownTables' = KnownTables /\ Unbuilt' = KnownTables
    BY <2>1 DEF KnownTables, Unbuilt
  <2>3. booting'
    BY <2>1 DEF WorkList
  <2> QED
    BY <2>1, <2>2, <2>3, KeyedIsKnown DEF WorkList, Built
<1>3. CASE NextTable
  BY <1>3, <1>t DEF NextTable, disk, memory, WorkList, Built, Unbuilt, KnownTables, HasFile, Misread
<1>4. CASE InitializeDeleteCounters
  BY <1>4, <1>t DEF InitializeDeleteCounters, disk, WorkList, Built, Unbuilt, KnownTables, HasFile, Misread
<1>5. CASE EnsureFolder
  <2>1. WorkList'
    BY <1>5 DEF EnsureFolder, Proceed, memory, WorkList, KnownTables
  <2>2. datafile'[target] # "none" /\ \A t \in Tables \ {target} : datafile'[t] = datafile[t]
    BY <1>5, <1>t DEF EnsureFolder, CatalogTypeOK
  <2> QED
    BY <2>1, <2>2, <1>5 DEF EnsureFolder, Proceed, memory, Built, Unbuilt, KnownTables, HasFile, Misread
<1>6. CASE EnsureFile
  <2>1. WorkList'
    BY <1>6 DEF EnsureFile, Proceed, memory, WorkList, KnownTables
  <2>2. HasFile(target)' /\ \A t \in Tables \ {target} : datafile'[t] = datafile[t]
    BY <1>6, <1>t DEF EnsureFile, Proceed, CatalogTypeOK, Built, HasFile
  <2> QED
    BY <2>1, <2>2, <1>6 DEF EnsureFile, Proceed, memory, Built, Unbuilt, KnownTables, HasFile, Misread
<1>7. CASE WriteHeader
  <2>1. WorkList'
    BY <1>7 DEF WriteHeader, Proceed, memory, WorkList, KnownTables
  <2>2. HasFile(target)' /\ \A t \in Tables \ {target} : datafile'[t] = datafile[t]
    BY <1>7, <1>t DEF WriteHeader, Proceed, CatalogTypeOK, HasFile
  <2> QED
    BY <2>1, <2>2, <1>7 DEF WriteHeader, Proceed, memory, Built, Unbuilt, KnownTables, HasFile, Misread
<1>8. CASE Load
  <2>1. /\ indexed' = IndexedWith(target) \/ (indexed' = indexed /\ Misread(target))
        /\ Proceed(IF booting THEN "next" ELSE "idle")
        /\ UNCHANGED <<known, counted, datafile, records>>
    BY <1>8 DEF Load, LoadMayThrow, disk, memory
  <2>2. WorkList'
    BY <2>1 DEF Proceed, WorkList, KnownTables
  <2>3. /\ \A t \in Tables \ (todo \cup {target}) :
             HasKey(known[t]) /\ ~Misread(t) => t \in indexed
        /\ target \in Tables /\ HasFile(target)
        /\ \A t \in KnownTables \ (todo \cup {target}) : HasFile(t)
    BY <1>8, <1>t DEF Load, Built, Unbuilt, CatalogTypeOK
  <2>4. Unbuilt' = todo
    BY <2>1 DEF Unbuilt, Proceed
  <2>5. \A t \in Tables : Misread(t)' = Misread(t)
    BY <2>1 DEF Misread
  <2>6. \A t \in Tables \ todo : HasKey(known[t]) /\ ~Misread(t) => t \in indexed'
    BY <2>1, <2>3 DEF IndexedWith
  <2> QED
    BY <2>1, <2>2, <2>3, <2>4, <2>5, <2>6 DEF Built, Proceed, KnownTables, HasFile
<1>9. CASE OpenMetadata
  BY <1>9, <1>t DEF OpenMetadata, Proceed, memory, WorkList, Built, Unbuilt, KnownTables, HasFile, Misread
<1>10. CASE WriteSchema
  <2>1. /\ known' = [known EXCEPT ![target] = schema] /\ indexed' = indexed \ {target}
        /\ Proceed("ensureFolder") /\ UNCHANGED <<datafile, records>> /\ phase = "writeSchema"
        /\ target \in Tables /\ schema \in Schemas
    BY <1>10, <1>t DEF WriteSchema, CatalogTypeOK
  <2>2. todo = {} /\ ~booting
    BY <2>1 DEF WorkList
  <2>3. WorkList'
    BY <2>1, <2>2, <1>t, SchemaNames DEF Proceed, WorkList, KnownTables, CatalogTypeOK
  <2>4. Built'
    BY <2>1, <2>2, <1>t DEF Proceed, Built, Unbuilt, KnownTables, HasFile, Misread, CatalogTypeOK
  <2> QED
    BY <2>3, <2>4
<1>11. CASE DropSchemaFolder
  BY <1>11, <1>t DEF DropSchemaFolder, Proceed, memory, WorkList, Built, Unbuilt, KnownTables, HasFile, Misread
<1>12. CASE DropDataFile
  <2>1. \A t \in Tables \ {target} : datafile'[t] = datafile[t]
    BY <1>12, <1>t DEF DropDataFile, CatalogTypeOK
  <2> QED
    BY <2>1, <1>12, <1>t DEF DropDataFile, Proceed, memory, WorkList, Built, Unbuilt, KnownTables, HasFile, Misread
<1>13. CASE DropDataFolder
  <2>1. /\ known' = [known EXCEPT ![target] = "none"] /\ indexed' = indexed \ {target}
        /\ Proceed("idle") /\ records' = records /\ phase = "dropDataFolder" /\ target \in Tables
        /\ \A t \in Tables \ {target} : datafile'[t] = datafile[t]
    BY <1>13, <1>t DEF DropDataFolder, CatalogTypeOK
  <2>2. todo = {} /\ ~booting
    BY <2>1 DEF WorkList
  <2>3. WorkList'
    BY <2>1, <2>2 DEF Proceed, WorkList
  <2>4. Built'
    BY <2>1, <2>2, <1>t, CatalogAssumption
       DEF Proceed, Built, Unbuilt, KnownTables, HasFile, Misread, CatalogTypeOK, HasKey
  <2> QED
    BY <2>3, <2>4
<1>14. ASSUME NEW t \in Tables, NEW s \in Schemas, BeginCreate(t, s) PROVE UsableInv'
  BY <1>14 DEF BeginCreate, memory, WorkList, Built, Unbuilt, KnownTables, HasFile, Misread
<1>15. ASSUME NEW t \in Tables, BeginDrop(t) PROVE UsableInv'
  BY <1>15 DEF BeginDrop, memory, WorkList, Built, Unbuilt, KnownTables, HasFile, Misread
<1>16. ASSUME NEW t \in Tables, InsertRow(t) PROVE UsableInv'
  <2>1. \A u \in Tables : HasFile(u) => HasFile(u)'
    BY <1>16, <1>t DEF InsertRow, HasFile, CatalogTypeOK
  <2>2. \A u \in Tables : u \notin indexed => Misread(u)' = Misread(u)
    BY <1>16, <1>t DEF InsertRow, memory, Misread, CatalogTypeOK
  <2> QED
    BY <2>1, <2>2, <1>16 DEF InsertRow, memory, control, WorkList, Built, Unbuilt, KnownTables
<1>17. ASSUME NEW t \in Tables, DeleteRows(t) PROVE UsableInv'
  <2>1. \A u \in Tables : u \notin indexed => Misread(u)' = Misread(u)
    BY <1>17, <1>t DEF DeleteRows, memory, Misread, CatalogTypeOK
  <2> QED
    BY <2>1, <1>17 DEF DeleteRows, memory, control, WorkList, Built, Unbuilt, KnownTables, HasFile
<1>18. ASSUME NEW t \in Tables, ChangeMisread(t) PROVE UsableInv'
  <2>1. UNCHANGED <<known, datafile, control>>
    BY <1>18 DEF ChangeMisread
  <2>2. t \in indexed' \/ Misread(t)'
    BY <1>18 DEF ChangeMisread
  <2>3. \A u \in Tables \ {t} : Misread(u)' = Misread(u) /\ (u \in indexed => u \in indexed')
    BY <2>1, <1>18, <1>t DEF ChangeMisread, Misread, CatalogTypeOK
  <2> QED
    BY <2>1, <2>2, <2>3 DEF control, WorkList, Built, Unbuilt, KnownTables, HasFile
<1> QED
  BY <1>1, <1>2, <1>3, <1>4, <1>5, <1>6, <1>7, <1>8, <1>9, <1>10, <1>11, <1>12, <1>13, <1>14, <1>15,
     <1>16, <1>17, <1>18 DEF CatalogNext, WorkStep, Stop, ChangeFails, KeylessFails

LEMMA UsableInvariant == CatalogSpec => []UsableInv
<1>1. CatalogInit => UsableInv
  BY DEF CatalogInit, UsableInv, WorkList, Built, OpenPhases
<1>2. CatalogInv /\ UsableInv /\ [CatalogNext]_catalogVars => UsableInv'
  <2>1. CASE UNCHANGED catalogVars
    BY <2>1 DEF catalogVars, disk, memory, control, UsableInv, WorkList, Built, Unbuilt, KnownTables,
       HasFile, Misread, Dropped
  <2> QED
    BY <2>1, NextUsableInv, EndIsUsable
<1> QED
  BY <1>1, <1>2, CatalogInvariant, PTL DEF CatalogSpec

(* Between two statements every known table has its file and, with a key, its index, whatever was *)
(* stopped before: but for a table whose file has records of another number of columns.           *)
THEOREM TablesStayUsable == CatalogSpec => []KnownTablesUsable
<1>1. CatalogInv /\ UsableInv => KnownTablesUsable
  BY DEF CatalogInv, IndexedKeyed, UsableInv, WorkList, Built, Unbuilt, Dropped, OpenPhases, HasFile,
     KnownTablesUsable, KnownTables
<1> QED
  BY <1>1, CatalogInvariant, UsableInvariant, PTL

(* So every table with a key has its index, if no DROP is stopped half way. *)
THEOREM EveryKeyIndexed ==
  ASSUME DropsWhole
  PROVE  CatalogSpec => [](phase = "idle" => indexed = {t \in Tables : HasKey(known[t])})
<1>1. CatalogInv /\ RowsInv /\ UsableInv
        => (phase = "idle" => indexed = {t \in Tables : HasKey(known[t])})
  <2> SUFFICES ASSUME CatalogInv, RowsInv, UsableInv, phase = "idle"
               PROVE  indexed = {t \in Tables : HasKey(known[t])}
    OBVIOUS
  <2>1. \A t \in Tables : HasKey(known[t]) => ~Misread(t)
    BY KeyedOnDisk, NothingMisread
  <2>2. \A t \in Tables : HasKey(known[t]) => t \in indexed
    BY <2>1 DEF UsableInv, WorkList, Built, Unbuilt, Dropped, OpenPhases
  <2> QED
    BY <2>2 DEF CatalogInv, CatalogTypeOK, IndexedKeyed
<1> QED
  BY <1>1, CatalogInvariant, RowsInvariant, UsableInvariant, PTL
-----------------------------------------------------------------------------
(* Every CREATE declares a key, and fewer columns than there are column codes. *)
SoundSchemas ==
  /\ Keyed = Schemas
  /\ \A s \in Schemas : ColumnCount[s] < 256

(* No stop falls between the making of a file and the writing of its first lines. *)
FilesFilled == StopPhases \cap {"writeSchema", "writeHeader"} = {}

(* Only the file being made is without its content. *)
FilledInv ==
  \A t \in Tables :
    /\ metadata[t] = "blank" => t = target /\ phase = "writeSchema"
    /\ datafile[t] # "headless"
    /\ datafile[t] = "blank" => t = target /\ phase = "writeHeader"

LEMMA NoCodeWraps ==
  ASSUME SoundSchemas, NEW s
  PROVE  ~CodesWrap(s)
<1>1. \A n \in 1..255 : n % 256 # 0
  OBVIOUS
<1>2. s \in Schemas => ColumnCount[s] \in Nat /\ ColumnCount[s] < 256
  BY CatalogAssumption DEF SoundSchemas
<1>3. s \in Schemas => 1..ColumnCount[s] \subseteq 1..255
  BY <1>2
<1> QED
  BY <1>1, <1>3 DEF CodesWrap

(* A table that INIT or CREATE is at is one with a key, and its file, if there, has its header. *)
LEMMA LoadSucceeds ==
  ASSUME SoundSchemas, CatalogInv, RowsInv, UsableInv, FilledInv, phase = "load"
  PROVE  ~LoadMayFail /\ ~LoadMayThrow
<1>1. target \in Tables /\ target \in KnownTables /\ HasFile(target) /\ Agrees(target)
  BY DEF CatalogInv, CatalogTypeOK, Agreement, UsableInv, WorkList, Built, OpenPhases
<1>2. datafile[target] = "ready"
  BY <1>1 DEF FilledInv, HasFile, CatalogInv, CatalogTypeOK
<1>3. known[target] \in Schemas /\ known[target] = metadata[target]
  BY <1>1 DEF FilledInv, Agrees, SchemaRead, KnownTables, CatalogInv, CatalogTypeOK, ReadableSchemas
<1> QED
  BY <1>1, <1>2, <1>3, NothingMisread DEF LoadMayFail, LoadMayThrow, HasKey, SoundSchemas

LEMMA NextFilledInv ==
  ASSUME SoundSchemas, FilesFilled, CatalogInv, UsableInv, FilledInv, CatalogNext
  PROVE  FilledInv'
<1> USE DEF FilledInv
<1>t. CatalogTypeOK /\ Agreement
  BY DEF CatalogInv
<1>1. CASE Start \/ EncodeColumns \/ NextTable \/ InitializeDeleteCounters
  BY <1>1 DEF Start, EncodeColumns, NextTable, InitializeDeleteCounters, disk
<1>2. CASE EnsureFolder
  BY <1>2, <1>t DEF EnsureFolder, Proceed, CatalogTypeOK
<1>3. CASE EnsureFile
  BY <1>3, <1>t DEF EnsureFile, Proceed, CatalogTypeOK
<1>4. CASE WriteHeader
  BY <1>4, <1>t DEF WriteHeader, Proceed, CatalogTypeOK
<1>5. CASE Load
  BY <1>5 DEF Load, disk
<1>6. CASE OpenMetadata
  BY <1>6, <1>t DEF OpenMetadata, Proceed, CatalogTypeOK
<1>7. CASE WriteSchema
  BY <1>7, <1>t, NoCodeWraps, SchemaNames DEF WriteSchema, Proceed, CatalogTypeOK
<1>8. CASE DropSchemaFolder \/ DropDataFile \/ DropDataFolder
  BY <1>8, <1>t DEF DropSchemaFolder, DropDataFile, DropDataFolder, Proceed, CatalogTypeOK
<1>9. ASSUME NEW t \in Tables, NEW s \in Schemas, BeginCreate(t, s) PROVE FilledInv'
  BY <1>9, <1>t DEF BeginCreate, CatalogTypeOK
<1>10. ASSUME NEW t \in Tables, BeginDrop(t) PROVE FilledInv'
  BY <1>10, <1>t DEF BeginDrop, CatalogTypeOK
<1>11. ASSUME NEW t \in Tables, InsertRow(t) PROVE FilledInv'
  BY <1>11, <1>t DEF InsertRow, control, CatalogTypeOK
<1>12. ASSUME NEW t \in Tables, DeleteRows(t) \/ ChangeFails(t) \/ ChangeMisread(t) \/ KeylessFails(t)
       PROVE  FilledInv'
  BY <1>12 DEF DeleteRows, ChangeFails, ChangeMisread, KeylessFails, control, disk
<1>13. CASE Stop
  BY <1>13 DEF Stop, disk, FilesFilled
<1> QED
  BY <1>1, <1>2, <1>3, <1>4, <1>5, <1>6, <1>7, <1>8, <1>9, <1>10, <1>11, <1>12, <1>13
     DEF CatalogNext, WorkStep

LEMMA FilledInvariant ==
  ASSUME SoundSchemas, FilesFilled
  PROVE  CatalogSpec => []FilledInv
<1>1. CatalogInit => FilledInv
  BY DEF CatalogInit, NoTables, FilledInv
<1>2. CatalogInv /\ UsableInv /\ FilledInv /\ [CatalogNext]_catalogVars => FilledInv'
  <2>1. CASE UNCHANGED catalogVars
    BY <2>1 DEF catalogVars, disk, control, FilledInv
  <2> QED
    BY <2>1, NextFilledInv
<1> QED
  BY <1>1, <1>2, CatalogInvariant, UsableInvariant, PTL DEF CatalogSpec

(* INIT accepts what earlier sessions left, whatever they created and dropped and wherever they *)
(* were stopped, if every table has a key and fewer than 256 columns, no file was left without  *)
(* its content, and no DROP was stopped half way.                                               *)
THEOREM InitAlwaysSucceeds ==
  ASSUME SoundSchemas, FilesFilled, DropsWhole
  PROVE  CatalogSpec => InitSucceeds
<1>1. CatalogInv /\ RowsInv /\ UsableInv /\ FilledInv /\ [CatalogNext]_catalogVars
        => (booting => phase' # "failed")
  <2> SUFFICES ASSUME CatalogInv, RowsInv, UsableInv, FilledInv, [CatalogNext]_catalogVars, booting
               PROVE  phase' # "failed"
    OBVIOUS
  <2>1. phase \in LoadPhases
    BY DEF UsableInv, WorkList
  <2>2. CASE UNCHANGED catalogVars
    BY <2>1, <2>2 DEF catalogVars, control
  <2>3. CASE EncodeColumns
    BY <2>3, NoCodeWraps DEF EncodeColumns
  <2>4. CASE Load
    BY <2>4, LoadSucceeds DEF Load, Proceed
  <2>5. CASE NextTable \/ InitializeDeleteCounters \/ EnsureFolder \/ EnsureFile \/ WriteHeader
    BY <2>5 DEF NextTable, InitializeDeleteCounters, EnsureFolder, EnsureFile, WriteHeader, Proceed
  <2>6. CASE Stop
    BY <2>6 DEF Stop, ProcessEnds
  <2> QED
    BY <2>1, <2>2, <2>3, <2>4, <2>5, <2>6
       DEF CatalogNext, WorkStep, Start, OpenMetadata, WriteSchema, DropSchemaFolder, DropDataFile,
           DropDataFolder, BeginCreate, BeginDrop, InsertRow, DeleteRows, ChangeFails,
           ChangeMisread, KeylessFails
<1> QED
  BY <1>1, CatalogInvariant, RowsInvariant, UsableInvariant, FilledInvariant, PTL DEF CatalogSpec, InitSucceeds
=============================================================================
