------------------------- MODULE CatalogProperties -------------------------
(***************************************************************************)
(* What CREATE, DROP and INIT must guarantee.                              *)
(***************************************************************************)
EXTENDS Catalog

(* The variables have their types. *)
CatalogTypeOK ==
  /\ metadata \in [Tables -> ReadableSchemas \cup {"none", "folder"}]
  /\ datafile \in [Tables -> {"none", "folder", "blank", "ready", "headless"}]
  /\ records \in [Tables -> SUBSET TableRecord]
  /\ known \in [Tables -> ReadableSchemas \cup {"none"}]
  /\ indexed \subseteq Tables
  /\ counted \subseteq Tables
  /\ phase \in CatalogPhases
  /\ booting \in BOOLEAN
  /\ todo \subseteq Tables
  /\ target \in Tables
  /\ schema \in Schemas
  /\ incarnation \in [Tables -> 0..MaxIncarnation]

(* Between two statements the context knows exactly the tables whose metadata is on disk, with *)
(* the columns that are there: what one session leaves is what the next one finds, wherever    *)
(* CREATEs, DROPs and INITs were stopped before.                                               *)
KnownTablesOnDisk ==
  phase = "idle" => \A t \in Tables : known[t] = SchemaRead(metadata[t])

(* Between two statements every known table has its file, no index is left of a table that is  *)
(* not known, and a table with a key has its index, so that the at() calls of the handlers find *)
(* it: unless an interrupted DROP has left records of another number of columns in its file.    *)
KnownTablesUsable ==
  phase = "idle" =>
    /\ \A t \in indexed : HasKey(known[t])
    /\ \A t \in Tables : HasKey(known[t]) /\ ~Misread(t) => t \in indexed
    /\ \A t \in KnownTables : datafile[t] \notin {"none", "folder"}

(* Between two statements a table holds only records inserted since it was created, with its   *)
(* columns: neither DROP and CREATE nor a stop brings rows of a dropped table of the name back. *)
OwnRecords ==
  phase = "idle" => \A t \in KnownTables : 
    records[t] \subseteq {[of |-> incarnation[t], columns |-> known[t]]}

(* CREATE ends with empty indices: the file it finds or makes has no records. *)
CreatedTableEmpty ==
  [][phase = "load" /\ ~booting /\ phase' = "idle" => records[target] = {}]_catalogVars

(* INIT accepts what earlier sessions left, whatever tables they created and dropped. *)
InitSucceeds == [][booting => phase' # "failed"]_catalogVars

(* A CREATE, a DROP and an INIT over any number of tables come to their end. *)
WorkEnds == phase \in StatementPhases \cup LoadPhases ~> phase \in {"idle"} \cup Gone

(* The tables and their rows, as the metadata on disk tells. *)
registeredTables == [t \in Tables |-> IF metadata[t] \in Schemas THEN metadata[t] ELSE "none"]

registeredRows == [t \in Tables |-> IF metadata[t] \in Schemas THEN records[t] ELSE {}]

Registry == INSTANCE TableRegistry WITH
  Names <- Tables,
  Columns <- Schemas,
  Rows <- TableRecord,
  tables <- registeredTables,
  rows <- registeredRows

(* CREATE adds one empty table and DROP removes one table with its rows, each at one moment, *)
(* although they take several file operations and the process may stop between them.         *)
ImplementsRegistry == Registry!RegistrySpec
=============================================================================
