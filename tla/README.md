# MiniSQL verification

TLA+ models of the MiniSQL engine (`src/`), checked with TLC, with theorems
checked by TLAPS. MiniSQL is a single-process, single-threaded SQL engine in C++:
a CLI reads statements, a Bison/Flex parser builds an AST, an interpreter visits
it, and per statement a normalizer, a validator and a file handler run one after
the other. Every table has one metadata file and one binary file of records.

Nothing here runs concurrently. What makes the engine hard is *order in time*:
statements write the file record by record; an in-memory index and counter must
follow; an exception or a stop can fall between any two writes; what the next
INIT finds is whatever was left.

## 1. Inventory

| Component | State | Operations | Module |
|---|---|---|---|
| INSERT, DELETE, UPDATE handlers (`filehandler/handlers`) | `<table>.bin` | append a record, overwrite a type byte | `TableStore`; the values in `Statements`, the bytes in `TornFile` |
| Compactor (`filehandler/compactor`) | `<table>-new.bin` | approximate, measure, copy, remove, rename | `TableStore` |
| ExecutionContext (`execution_context`) | key index, delete counter, column codes, schemas | build at INIT, upsert, erase, recalculate | `TableStore`, `Catalog`, `TornFile` |
| SELECT handler | none | read by key, read by scan | `TableStore` (by key), `TornFile` (scan), `RecordLayout` (columns) |
| Literals (`auxiliary/utils/string_utils.cpp`) | none | `removeOuterQuotes` | `Literals`, `Metadata` |
| Normalizer (`services/semantic_normalizer`) | none | rewriting a statement into schema order | `Statements`, `Conditions` |
| Validator (`services/semantic_validator`) | none | keys, NOT NULL, columns, comparators | `Statements`, `Conditions`, `TableStore` (keys) |
| Condition evaluator | none | compare, LIKE, null and boolean tests; may throw | `Conditions`; `TableStore` (what follows) |
| CSV importer | none | parse lines, serialise without validation | `CsvRows`, `Statements`, `TableStore` |
| Record layout and codec | the bytes of a record | serialise key first; read by offset, by position, by length | `RecordLayout`, `TornFile` |
| Catalog: CREATE, DROP, INIT | metadata and data directories, schemas | create and remove files; rebuild the context | `Catalog`; the lines of metadata in `Metadata` |
| CLI driver | line buffer, one interpreter | INIT, QUIT, buffering, catching exceptions | `CliDriver` |
| Parser, lexer, AST | none | programs, strings, semicolons | `CliDriver` (as far as the driver depends on it) |
| Logger, tests, benchmarks | none of interest | | not modelled |

How they interact: the visitor calls normalizer, validator and handler in turn.
The handler calls the ExecutionContext for the schema, the index and the counter,
the evaluator for every record of a scan, and the compactor at the end of a DELETE
or UPDATE. The validator reads the *index*, not the file: the index is a cache of
the file, and its staleness is the root of most hazards. `runcli.cpp` catches
every exception of a statement and goes on with the session; `handleFatalError`
exits the process.

What must be right, per component:

- **Handlers**: no row lost, doubled or revived by an interrupted statement; live
  keys unique; a tombstone is final; UPDATE keeps the key.
- **Index**: an entry is always the place of a record of its own key (the DELETE
  by key overwrites a byte there); between statements every live row is in it and
  nothing else.
- **Counter**: never claims a tombstone that is not there; exists when needed.
- **Compactor**: copies exactly the live records; is triggered as documented; an
  interrupted one does no harm to the next.
- **Catalog**: a dropped table stays dropped; INIT accepts what an earlier session
  left; column codes are distinct.
- **Statements**: what is stored is what the statement means by its column names;
  exactly the legitimate INSERTs are accepted, before and after a restart.
- **Layout and codecs**: what is written is what is read, column by column, and a
  record cut by a crash damages none before it.
- **Conditions**: a comparator means what it is documented to mean; index lookup and
  scan agree; a comparison that throws is the exception and known.
- **CLI driver**: statements run in the order they are entered, each once, however
  the text is cut into lines; a statement that fails ends its own program only.

The hazards, one by one at their lines, are in `PROJECT.json` under "hazards".

## 2. The modules

`Literals` — texts as words in layers of quotation marks. The engine strips one
layer at several places (normalizer, serializer, index lookup), and a key that is
stripped twice on one path and once on another is a different key; so the model
keeps the layers and nothing else of a string.

`TableFile` — the record region of a table file as a sequence of
`[type, key, val]`; a record's place stands for its file offset. Holds the pure
operators: liveness, tombstoning, the extraction of the index from a file, the
40 % threshold in integers (`5p >= 2q` for `p / q >= 0.40`).

`TableStore` — the state machine. Its variables and what they are in the code:

| Variable | Code |
|---|---|
| `table`, `newTable` | `<table>.bin`, `<table>-new.bin` |
| `index` | `ExecutionContext::indices` for the key column; 0 is "no entry" |
| `deleteCount` | `delete_counter_per_table[table]`; `NoCounter` is "no entry" |
| `phase`, `scan` | the place in the running handler, and the get pointer of its stream |
| `pending` | the rows still to append: an INSERT's normalised rows, an UPDATE's new records |
| `condition`, `assigned` | the WHERE clause and the SET literal of the running statement |

`InitialCounters` are the delete counters a session may begin with: `NoCounter` for a
table that was just created, 0 after INIT, and more for a table that is created again
under the name of one that was dropped, since DROP leaves the counter.

Its actions:

| Action | Code |
|---|---|
| `BeginInsert`, `BeginImport`, `AppendInsert`, `FinishInsert` | `validateInsertSemantics`, `insertData`, `performCSVImport`, `serializeNormalizedRecord` |
| `DeleteByIndexLookup` | `performDeleteByIndexLookup`, with `normalizeDelete` and the validator |
| `BeginSequentialDelete`, `DeleteRecord`, `ScanPast`, `ScanThrows`, `FinishSequentialDelete` | `performSequentialDelete` |
| `BeginUpdate`, `MarkOldRecord`, `FinishScan`, `AppendUpdate`, `FinishUpdate` | `updateData` |
| `CheckTombstoneRatio`, `CopyNextRecord`, `RemoveOldFile`, `RenameNewFile` | the end of `deleteData` and `updateData`, `calculateTombstoneRatio`, `compactTable` |
| `Stop`, `Start` | a kill or QUIT; INIT |

One action is one write to a file, with the changes of memory that go with it; an
exception (`ScanThrows`) and a stop (`Stop`) fall between any two of them.

`TableStoreProperties` — the properties of `TableStore`.

`SqlTable` — the abstract specification: a set of rows with unique keys; INSERT
adds rows whose keys are not there, DELETE removes rows its WHERE clause holds
for, UPDATE replaces each such row, keeps its key, and looks at each row once.
INSERT and DELETE may be cut short, UPDATE may not.

`TableStoreRefinement` — the mapping from `TableStore` to `SqlTable`. The rows are
the live records, plus those an UPDATE has in memory between marking the old
record and appending the new one; during the rename the rows are in `newTable`.

`TableStoreProofs` — the theorems. `MCTableStore` — the instances for TLC.

`Counting` — lemmas about sets of natural numbers, the places their elements have, and
sequences put together of sequences, which this and the other modules of proofs use.

`RecordLayout` — one record of any schema: `Serialize` puts the key first and writes
an offset region; `ColumnByOffset` is how a scanning DELETE reads a column,
`RowByPosition` how SELECT and UPDATE do. `records` is the file, `rows` what the
statements so far denote; a property compares the two. Statements are single steps.
`RecordLayoutProofs` has its theorems, `MCRecordLayout` its instances.

`Catalog` — several tables, seen from their directories:

| Variable | Code |
|---|---|
| `metadata[t]` | `schema/metadata/<t>/metadata.txt`: no folder, no file, empty, or the columns |
| `datafile[t]` | `schema/data/<t>/<t>.bin`: no folder, no file, no header, header, records without a header |
| `records[t]` | which CREATEs of the name the live records in the file belong to, and with which columns they were written |
| `known`, `indexed`, `counted` | `untyped_tables`, the keys of `indices` and of `delete_counter_per_table` |
| `phase`, `booting`, `todo`, `target`, `schema` | the place in CREATE, DROP or INIT and its arguments |

CREATE is `BeginCreate`, `OpenMetadata`, `WriteSchema`; DROP is `BeginDrop`,
`DropSchemaFolder`, `DropDataFile`, `DropDataFolder`; INIT is `Start`,
`EncodeColumns`, `NextTable`, `InitializeDeleteCounters`; and CREATE and INIT share
`EnsureFolder`, `EnsureFile`, `WriteHeader`, `Load`, as they share
`initializePrimaryKeyIndicesForTable`. `ProcessEnds` tells an exit by
`handleFatalError` ("failed") from a stop ("down"). Two reads of undefined values
are choices between survival and exit: the header of an empty file and the key
column of a table that has none.

A stop between the two removals of a DROP leaves the records, and a CREATE of the name
may then give the table another number of columns. A scan skips the offset region of a
record by the number of columns the table has now, so such a record is read at the wrong
place (`Misread`): what it takes for the length of the key may make `resize` throw
(`LoadMayThrow`). `Load` then ends INIT, or leaves a CREATE with a table that is known and
has no index; `ChangeMisread` is a DELETE or UPDATE over such a file.

`TableRegistry` — the abstract specification: a name is a table or not, a table
begins empty, DROP removes it with its rows. `CatalogProperties` has the properties
and the mapping (a table is there when its metadata is), `CatalogProofs` the
theorems, `MCCatalog` the instances.

`Metadata` — column definitions, their modifiers and DEFAULTs, and `ReadBack`: what INIT
makes of the line of a column. Commas separate modifiers there and may be in a DEFAULT
as well, so a text is kept as the words between its commas, with the quotation marks
around it, one inside the other, since the engine takes a pair off at several places.

`CsvRows` — `ParseCsvRow` and the fields a line means.

`Statements` (extends both) — the values of rows. `stored` has the records of the file
with their types, each value at its place in the record, the key first (`FilePlace`);
`denoted` has what the statements mean by column name. The two are computed along
different ways, the engine's with masks, schema positions and normalised records. UPDATE
reads a record as if its values were in schema order, as the code does, and serialises
what it has read once more (`NewValues`, `UpdatedRecord`).

| Action | Code |
|---|---|
| `Insert` | `normalizeInsert`, `validateInsertSemantics` (whether or not the first was content), `serializeNormalizedRecord` with `getDefaultValue` |
| `ImportRow` | `performCSVImport` for a line, of any width |
| `Update` | `normalizeUpdate`, the projection masks of `updateData`, `serializeNormalizedRecord` |
| `Restart` | `createUntypedTable` wrote the metadata, `initializeUntypedTableMetadata` reads it |

A record that is shorter than the schema and read behind its end is the outcome
"undefined", after which nothing is claimed. `StatementProperties` has the properties,
`StatementProofs` the theorems.

`TornFile` — the table file cell by cell: length, type, offset region, and each column
with its length. `TearRecord` is a crash that leaves the first n cells of an appended
record; the next session appends behind them, and from there a scan reads numbers that
nobody wrote as such. `ReadKey`, `ReadRow`, `SkipTombstone`, `DeleteRecord`, `EndScan`
are the loops of `extractPrimaryKeysIndex`, `deserializeNextRecord` and
`performSequentialDelete`, with the arithmetic of their seeks (unsigned, so that a
distance may lead backwards), the failbit of the stream, and lengths that were never read.

`Conditions` — a WHERE clause on one record: which comparator the validator admits for
which literal, and what `evaluateComparator` answers, by the types it finds in the two
texts. Texts are sequences of symbols; a numeral or a keyword is one symbol.
`ConditionsProofs` has the theorems.

`CliDriver` — `runCLI`: lines are gathered until a semicolon outside quotation marks,
measured, parsed as a program, and its statements visited one after the other.
`EnterPart`, `EnterTooLarge`, `EnterTooEarly`, `EnterProgram` are the ways a line can go;
`VisitStatement` is a step of `visit(ProgramNode&)`, with the exception around the whole
program and the exit of `handleFatalError`. `CliDriverProofs` has the theorems.

`MCStatements`, `MCTornFile`, `MCConditions`, `MCCliDriver` — their instances.

## 3. The runs

Runs that pass:

- `store_crash` — bare keys, WHERE clauses that may throw, counters of earlier sessions
  and of dropped tables, stops anywhere but inside a compaction. Live keys are unique at
  every step (`UniqueLiveKeys`), the index sees every live row between statements
  (`IndexComplete`), a SELECT by key answers what a scan answers (`IndexedReadAgrees`), and
  a compaction has copied exactly the live records it passed (`CopyFaithful`). `ScanThrows`
  leaves a stale index entry for a tombstone; the run shows that it hides no row.
- `store_any` — the strongest environment: nested quotes, unvalidated imports,
  exceptions, stops at every step including between removal and rename. Even then
  an index entry is the place of a record of its key (`IndexAligned`) and records
  only die (`RecordsOnlyDie`).
- `store_refinement` — bare keys, no exceptions, no stops inside UPDATE or a
  compaction: the engine implements `SqlTable` (`ImplementsSqlTable`), index entries are of
  live records (`IndexPointsToLive`), the counter claims no tombstone that is not there
  (`CounterBelowTombstones`), and a statement that begins ends (`StatementEnds`).
- `layout_first_key` — three columns, the key first, a different DEFAULT for each:
  DELETE finds every column through the offsets (`OffsetsAgree`), SELECT and UPDATE by
  position (`PositionsAgree`).
- `catalog_any_stop` — two names, schemas of two and of three columns, one without a
  key, one with 256 columns, stops at every step. Between statements the context agrees
  with the disk (`KnownTablesOnDisk`), known tables have their files, those whose records
  are not `Misread` have their index and no index is left over (`KnownTablesUsable`), and
  every CREATE, DROP and INIT ends (`WorkEnds`).
- `catalog_harmless_stop` — two keyed schemas, one with 255 columns, stops everywhere but
  at four steps (below): the catalog implements `TableRegistry`, no row outlives its
  table (`OwnRecords`), and INIT never fails (`InitSucceeds`).
- `statements` — five schemas with the key first, in the middle and last; INSERTs with
  every kind of column list, CSV lines that are too short or fit, UPDATEs, restarts. Rows
  are stored as they are meant (`StoredAsDenoted`), the verdict is that of a definition
  without masks (`VerdictAgrees`), the validator reads behind a record only for an unknown
  column (`ReadsWithinRecords`), an INSERT is cut only by an EMPTY DEFAULT
  (`InsertsCutOnlyByDefault`), a restart keeps the schema (`RestartKeepsSchema`).

  What the engine is known to get wrong is excepted in the properties or not in the run, and
  shown by the configurations below: a DEFAULT with a comma after a restart; what an UPDATE
  has written where the key is not the first column, and of a value in quotation marks of
  its own (`SpoiltByUpdate`; `VerdictAgrees` asks nothing once a key may have been changed);
  a CSV line with too many fields; an EMPTY literal in an UPDATE; a key in quotation marks
  and a NULL where there may be none (`Proper`).
- `torn_file` — a crash at any cell of an append, then INSERTs, SELECTs, DELETEs and
  restarts: the records before the cut one are never damaged (`RecordsUndamaged`), are in
  the index (`IndexNamesRecords`), are delivered (`SelectReadsRecords`), and every scan
  comes to an end (`ScansEnd`).
- `cli_session` — lines of words, semicolons and quotation marks in every order: the
  statements visited are those of the whole text (`VisitsWhatIsTyped`), a failing one ends
  its program (`FailureEndsProgram`), the buffer is bounded although it is measured before
  the line is appended (`BufferBounded`).
- `conditions` — every comparator on every pair of texts: what is admitted
  (`AdmitsTheDocumented`), LIKE against a definition by cutting the text
  (`LikeMeansPattern`), equality (`EqualityIsOfTexts`), negations (`NegationsPartition`),
  exceptions (`ThrowsOnlyOutOfRange`).

Runs that end in a violation, each a disagreement of the code with its own
documentation (`PROJECT.json`, "findings"):

- `find_session_exit` — DELETE or UPDATE on a table created in the same session
  exits the process: CREATE makes no delete counter (`getters.cpp:17`).
- `find_is_true` — `IS TRUE` holds for a NULL: unless both sides are booleans IS asks only
  whether the stored text is null (`evaluate.cpp:14`).

Further configurations reproduce other disagreements by hand
(`tlc -config X.cfg M`); they are not part of the runs:

- `FindQuotedDuplicate` (`MCTableStore`) — `INSERT ... ('a')` twice gives two live rows: the
  validator looks `'a'` up with its quotes, the index holds `a`.
- `FindQuotedSelect` (`MCTableStore`) — `SELECT ... WHERE id = 'a'` is rejected although
  the row is there.
- `FindLeftover` (`MCTableStore`) — a compaction that follows an interrupted one appends
  to the file that one left, stale rows included.
- `FindKeyUpdated` (`MCTableStore`) — UPDATE strips the old key again, so a key that is
  itself in quotation marks changes.
- `FindRatio` (`MCTableStore`) — the ratio measured is tombstones / all records,
  documented as tombstones / live records.
- `FindKeyNotFirst` (`MCRecordLayout`) — where the key is not the first column SELECT
  answers values in the wrong columns (`PositionsAgree`) and UPDATE gives the record another
  column's value as its key (`KeysAgree`; `tlc -continue` shows both).
- `FindWideTable` (`MCCatalog`) — CREATE with 256 columns, the documented maximum, exits
  after the metadata is written, and so does every INIT from then on.
- `FindRevivedRows` (`MCCatalog`) — a table created after an interrupted DROP of its name
  has the rows of the dropped one.
- `FindMisread` (`MCCatalog`) — if that table has another number of columns, INIT may end in
  the exception of a key length that is none, with every start.
- `FindCsvRow` (`MCStatements`) — a CSV line with too many fields is reported and stored
  all the same, where a comment says it is skipped.
- `FindEmptyUpdate` (`MCStatements`) — UPDATE ... SET c = EMPTY stores an empty text where
  INSERT takes the DEFAULT.
- `FindNullKey` (`MCStatements`) — NULL is accepted for the key and for NOT NULL columns.
- `FindCommaDefault` (`MCStatements`) — after a restart a DEFAULT with a comma in it is
  only what is before the comma, with its opening quotation mark.
- `FindLikeLines` (`MCConditions`) — `%` and `_` do not match the end of a line.

### Bounds, and why they are enough

- Two words (`Words`) for keys and for values: a conflict needs one key twice, and
  telling a hit from a bystander needs a second.
- `MaxQuotes` 0 where quoting is not the question, 1 for the findings about one
  pair, 2 where a literal may be stripped twice (the most any path does).
- `MaxRecords` 3 to 5, records of `<table>.bin`: `INSERT; UPDATE; DELETE` of one key
  takes 2 records, a compaction that is triggered and copies something takes a live
  record and two tombstones, the approximation's extra one needs a fifth record to matter.
- `MaxLeftover` 1, records an interrupted compaction leaves: one stale record is
  enough to be doubled or revived.
- A stop is possible in `StopPhases`; the runs name the phases they leave out, and
  the findings and hazards say what goes wrong there.
- Three columns in `RecordLayout`, so that the key has a column on either side, and
  three literals; the keys bound the number of records.
- Two names in `Catalog`: INIT has a table to fail on before or after another.
  `MaxIncarnation` 2 and 3, CREATEs of one name: one to leave something behind, one to
  find it, and one more. The column counts 255 and 256 are on both sides of the wrap, 2 and
  3 are different widths of a record.
- The four steps left out of `catalog_harmless_stop`: "writeSchema" leaves an empty
  metadata file and "writeHeader" an empty table file, both of which INIT trips over;
  "dropSchemaFolder" and "dropData" leave the data of a table whose metadata is gone, which a
  later CREATE of the name finds, with the same columns or with others.
- In `Statements` two rows (`MaxRows`): a duplicate key needs a second row, of the same
  INSERT or of another; the two literals that are not EMPTY differ, so that a swap of two
  columns shows. Schemas have three columns: the key in each place, a DEFAULT that is plain,
  empty, with one comma, and with a modifier's words between two.
- In `TornFile` a cell has 64 values (`Base`) and the file at most 39 cells (`MaxCells`):
  two whole records and a cut one fit, and a number is either inside the file, just behind
  it, or larger than any file. Numbers have two cells: what a scan misreads then consists of
  parts of different fields, as with eight bytes. One crash (`MaxTears`) cuts a record: the
  properties are about what is in front of the first cut.
- In `CliDriver` lines of up to six tokens, sessions of nine (`MaxTyped`), a limit of six
  (`MaxSize`): the buffer can pass its limit, a string can span two lines and hold a
  semicolon or an escaped mark, and a program can have two statements.
- In `Conditions` texts and patterns of up to three symbols, among them `%` and `_` side by
  side, a character that is special in regular expressions, and the end of a line; numerals
  of equal value, one that no double holds, one that is no number.
- Deadlock is checked in every run but two: the engine can always take the next statement.
  `conditions` ends with its answer, `cli_session` after QUIT or at the bound of its tokens.

### Fairness

`FairSpec` adds `WF_vars(StatementStep)`: once a statement runs, the engine takes
its next step. The code justifies it: one thread, no locks, no waiting; every step
is a bounded computation or a file operation. New statements, stops and INIT have
no fairness: the user owes nothing. `StatementEnds` rests on it alone, in
`store_refinement`.
`CatalogFairSpec` does the same for `WorkStep`, and `WorkEnds` rests on that.
`TornSpec` has `WF_tornVars(ScanStep)`: a loop over the file takes its next turn. That it
ends is then a matter of the numbers it finds, which is what `ScansEnd` is about.

## 4. The proofs

`TableStoreProofs` proves, for every value of the constants that satisfies
`StoreAssumption` and `MaxQuotesAssumption`:

- `TypeCorrect`: `Spec => []TypeOK`. `TypeOK` is inductive. The interesting steps
  are the appends, where a stripped text must still be a text
  (`RemoveOuterQuotesType`), the tombstone, which keeps a file a sequence of records
  (`TombstoneFile`), and `ExtractedIndex`, whose minimum needs the well-foundedness
  of the natural numbers (`MinIsLeast`).
- `IndexAlwaysAligned`: `Spec => []IndexAligned`. `IndexAligned` is inductive
  together with `TypeOK`: an append moves no record, a tombstone changes a type and
  no key, the extraction points to holders of the key, and in the window between
  removal and rename nothing reads the index. No assumption about quoting,
  uniqueness, exceptions or stops is used: that is the point of the theorem, since the
  DELETE by key overwrites a byte at the offset it finds in the index.

- `RecordsDieOnly`: `Spec => RecordsOnlyDie`, an action property, step by step from
  `TypeOK`; lemmas say that an append and a tombstone only let records die.

Its second part proves `KeysStayUnique`, `IndexStaysComplete` and
`IndexedReadsAgree` under three named assumptions:

- `BareBatches`: no literal of an INSERT has quotation marks (`FindQuotedDuplicate`);
- `NothingImported`: no CSV import, which does not look keys up;
- `CompactionUninterrupted`: no stop while a compaction copies or renames (`FindLeftover`).

`UniqueLiveKeys` is not inductive. Its strengthening `KeyInv` says also: all stored
and pending texts are bare (`StoredBare`), the index entry of every live record's key points
to that record, in every phase that has an index (`LiveIndexed`), the keys of `pending` are distinct and not in the
file (`PendingFresh`), which is what the validator's check before the INSERT and
the tombstones of an UPDATE establish, and the copy of a compaction has distinct keys
too (`CopyDistinct`). `IndexComplete` and, with the extraction of the index,
`IndexedReadAgrees` follow.

Its third part is about the counters: `IndexStaysLive` and `CounterStaysBelow`, if no WHERE
clause throws (`NothingThrows`) and no counter is inherited (`InitialCounters` has 0 and
`NoCounter` only). `CounterInv` adds `EntriesLive`: outside a scan every entry is that of a
live record, also while a compaction is considered or copies, where the properties do not ask
for it yet.

Its last part proves `CopiesStayFaithful`, `Spec => []CopyFaithful`, under
`CompactionUninterrupted` (a stop leaves a file behind to which the next compaction appends:
`FindLeftover`). The invariant `CopyInv` adds that the new file is empty whenever no compaction
copies. That a copied record lies where it has to is said with ranks, the number of live
records up to it, so that passing one more live record is a fact about cardinalities.

After these come the steps of the refinement, `EngineImplementsTable`,
`Spec => ImplementsSqlTable`, under the assumptions above and two more: `UpdateUninterrupted` (an UPDATE has rows in memory
only) and `CounterPresent` (without a counter the process exits in the middle of an UPDATE).
`StatementInv` says that what belongs to a statement is there only while it runs and that a
copy has taken over the rows it has passed. Each step is shown to be a step of `SqlTable` or
a stutter: an append is an abstract insertion, marking a record is a deletion in a DELETE and
the replacement itself in an UPDATE, whose later append changes nothing, and a compaction
moves the rows to another file and changes none. `MappedKeysStayUnique` is the lemma that
makes replacing a row by its key well defined.

`RecordLayoutProofs` proves for any schema of 1 to 255 columns: `OffsetsAlwaysAgree`
(with the key anywhere if there is no UPDATE, and first if there is) and
`PositionsAgreeWithFirstKey`. The lemmas say that column codes differ and that
`ColumnAt` undoes `PayloadPlace`, so that each reading undoes `Serialize`;
the invariant `LayoutInv` says that the file is the image of `rows` under `Serialize`.

`CatalogProofs` proves for any names and schemas, with stops at every step:

- `CatalogTypeCorrect`, `TablesStayKnown`, from `CatalogInv`: the context agrees with
  the disk on all tables but the one being created or dropped, and for that one each
  phase says what is there (`Agreement`); only keyed tables are indexed;
- `TablesStayUsable`, from `UsableInv`: the tables INIT is not yet done with, and those
  whose records are `Misread`, are the only ones with a key that may be without an index
  (`WorkList`, `Built`).

And, assuming that no stop falls between the removal of a table's metadata and of its
data (`DropsWhole`; `FindRevivedRows` shows why), from `RowsInv`:

- `RowsStayOwn`: `[]OwnRecords`;
- `EveryKeyIndexed`: the indexed tables between two statements are exactly the known ones
  with a key, as no records are `Misread`;
- `CatalogImplementsRegistry`: `CatalogSpec => ImplementsRegistry`. `WriteSchema` is the
  abstract Create, `BeginDrop` the abstract Drop, `InsertRow`, `DeleteRows` and
  `ChangeFails` are what their names say, `ChangeMisread` has no file to work on, every
  other step is a stutter. The proof needs less than the run assumes: schemas without keys,
  wide ones and stops in the middle of CREATE do no harm to the registry, only to INIT.

The other half of that is `InitAlwaysSucceeds` (`InitSucceeds`). It assumes that every schema
has a key and fewer than 256 columns (`SoundSchemas`), that no stop falls between the making
of a file and the writing of its first lines (`FilesFilled`), and `DropsWhole`: after an
interrupted DROP and a CREATE with other columns INIT may die (`FindMisread`). The invariant
`FilledInv` says that only the file being made is without its content; with `UsableInv` and
`RowsInv`, the table INIT is at has a header where it has a file, and nothing is left for which
`LoadMayFail` or `LoadMayThrow` could hold.

`ConditionsProofs` proves for any texts, literals and numerals that satisfy
`ConditionAssumption`: `AlwaysAdmitsTheDocumented`, `EqualityAlwaysOfTexts`,
`NegationsAlwaysPartition`, `ThrowsAlwaysOutOfRange`. The invariant is that an answer is there
only for an admitted condition and is the evaluator's. `LikeAlwaysMeansPattern`
(`LikeMeansPattern`) is about a recursion: `LikeMatch` computes a table from what is left of
text and pattern, `Fits` asks for a way to cut the whole text into parts, one for each symbol of
the pattern. That a table exists is shown by giving one (`TableExists`), and that it is the
meaning by induction over what is left (`TableIsMeaning`): a part in front of a text that fits
is added to its cuts (`CutsInFront`), and behind the first part of a text that fits the rest
fits (`CutsBehind`).

`TornFileProofs` is about files with cut records: any texts of up to three cells, a file of
any length below the size of a number's lower cell, any number of crashes.

- `TornTypeCorrect` needs `TornAssumption` alone. Its work is in showing that what a crash
  leaves of a record, what a scan takes for a text, and where a seek goes have the types they
  should, whatever the cells are.
- `FrontUndamaged`, `IndexNamesFront` and `SelectReadsFront` (`RecordsUndamaged`,
  `IndexNamesRecords`, `SelectReadsRecords`) come from `FileInv`. A record that no crash has
  cut and that lies in front of the first cut one has all its cells (`Whole`), and these
  records follow each other from the beginning of the file to the first cut, or to the end
  (`FrontInv`). A scan whose position is in front of the first cut is at the beginning of such
  a record, and one that is behind it stays there (`ReaderInv`). What a scan reads at such a
  beginning is the record (`FrontScan`, from `Layout`, which computes the cells of `Encoded`);
  what it reads behind the cut is unknown, and the invariant says only that no seek leads back
  (`AnyLanding`). The index has in front exactly the live records the scan has passed
  (`IndexInv`), the answer of a SELECT their rows (`AnswerInv`).
- These three assume `NoTopCells`: no text has a cell of the highest value. A distance that
  leads back is a number with the highest value in its upper cell, so that no part of a text
  may be read as one. It stands for statements in UTF-8, where the byte 255 does not occur;
  the lexer does not refuse that byte, so it is an assumption about the input and not a fact
  about the code. It is needed: with the keys `<<20>>`, `<<40, 63>>`, the value `<<45, 63>>`
  and 47 cells, TLC finds a DELETE that goes back and writes into a record in front. No other
  theorem uses it.

`StatementProofs` is about the values of rows: any schemas, INSERTs, UPDATEs and lines of
imported files of any length that `StatementAssumption` admits, which asks that statements are
of the types the parser gives them, that a schema has columns of different names and exactly
one of them the key, and that no word of a modifier between two commas is spelled
`PRIMARY KEY` (in a DEFAULT it would make a key of its column at the next start).

- `ReadBackKeeps`: INIT makes of the modifiers of a column, joined by commas and split at
  commas again, what `KeptColumn` says, and of a column without a comma in its DEFAULT the
  column itself. `SchemaSurvives` (`RestartKeepsSchema`) follows: the engine's schema is at
  any time the declared one or what `KeptColumn` leaves of it.
- `FieldsAreMeant`: `ParseCsvRow`, a fold over the symbols of a line with a state of three
  parts, finds for every line the fields it means. The proof is by induction over the symbols read: the fields so far are those between the separators so
  far, and the field being read has the symbols behind the last of them (`RowGrows`).
- `RecordsAreLongEnough` (`ReadsWithinRecords`) needs the schema only: no read of the
  validator or of the serializer is past the end of a record.
- `OnlyDefaultsCut` (`InsertsCutOnlyByDefault`): an INSERT that throws does so for a column
  that CREATE gave the EMPTY literal as its DEFAULT. A DEFAULT with a comma, which INIT cuts,
  does not become such a one.
- `RowsAreDenoted` (`StoredAsDenoted`), with `RowsHaveTheirWidth` for the types, assumes that
  no imported line has too many fields (`LinesFit`) and that no UPDATE assigns the EMPTY
  literal (`NoEmptyAssigned`). The invariant `AgreeInv` says that record and meaning agree
  in every column without a comma in its DEFAULT that no UPDATE has spoilt. An INSERT
  agrees because the values a normalised record lists and the columns it is said to list are
  found by the same places (`ValuesFound`), and the key is never a default (`KeyMustBeGiven`).
  An UPDATE agrees where the key is the first column, since file and schema have the same
  order then, and for values without quotation marks of their own, which the second
  `removeOuterQuotes` leaves as they are. That rows are of the right width and of texts is a
  part of its own, `StatementInv`, and holds for all statements.
- `VerdictsAreRight` (`VerdictAgrees`): as long as no UPDATE has changed a key, the engine
  accepts a `Proper` INSERT exactly when it is `Legitimate`, which is said by the kinds of
  modifiers CREATE gave the columns. It assumes `LinesFit`; of the rows only the agreement of
  the keys is needed, so an EMPTY literal in an UPDATE does no harm. The validator stops at the first fault in the order of records and columns
  (`VerdictIs`), so that the converse needs a rule for each of its ways out. A list
  without repetitions is no longer than the schema (`ListFits`, which counts places), so that
  no record is too long; the other hard case is that of a key that is there already
  (`DuplicatesAgree`), since the validator compares what it finds at the place of the key in
  normalised records with the index and with the earlier records of the statement.

`CliDriverProofs` proves for any lines and any limit `BufferStaysBounded`,
`FailureAlwaysEndsProgram` and `VisitsAlwaysWhatIsTyped` (`VisitsWhatIsTyped`). The last one
compares two readings of the same text, the buffer's and that of the whole session. What a token
adds to the statements of a text is a step of a scan from left to right with a state of three
parts: the statements so far, the tokens behind the last of them and whether these end inside a
string (`OneTokenRead`). The invariant `VisitInv` says that the scan of the session is where that
of the buffer is, with the statements in front that the driver is done with and those of the
program it is at (`Continues`); a line keeps that, whatever it is (`LineContinues`), and a buffer
that `EndsWithSemicolonOutsideQuotes` takes leaves nothing open (`ProgramEnds`). What is done
with has been visited in order, and all of it unless a statement failed (`Visited`).

Each proof has one step per action; facts used twice are lemmas.

Model-checked only: liveness under fairness (`StatementEnds`, `WorkEnds`, `ScansEnd`), which is
out of the prover's reach. Every invariant, action property and refinement that a passing run
checks is the subject of one of the theorems above.

## 5. What the models leave out

In the modules above:

- In `TableStore` the primary key is the table's first column, a record is written whole and
  a statement has one column besides the key; the other modules are about those.
- Of a file with a cut record `TornFile` has INSERT, SELECT, DELETE and INIT, not UPDATE and
  compaction, which read it through the same loop and copy what it finds. Its INSERT looks up
  one key; its table has two columns.
- Writes reach the disk in order; a disk that reorders them is not modelled.
- In `TableStore` a missing table file and one that holds only its header are one
  state; `Catalog` tells them apart, and a file without its header too. It has no
  states between the bytes of a header or of a line of metadata.
- Metadata: a newline inside the literal of a DEFAULT, and text that has a quotation mark
  inside; CSV: a newline between double quotes (`std::getline` ends the row there).
- Columns of equal names.
- In `CliDriver` QUIT and INIT are lines of their own; the code takes them for commands also
  in the middle of a string of several lines, which needs no more state than that.
- Silent mode, which changes what is printed; where it lets the engine go on after
  a fatal error the behaviour is undefined and taken as the end of the process.

Not modelled:

- The projection of SELECT (`normalizeSelect`, printing of rows): it reads and formats.
- The rest of the grammar, lexer and AST: statements enter the models as parsed. The
  generated parser accepts what the grammar says, and no property of the engine depends on
  the shape of the tree.
- The version and the other fields of the file header, which are written and compared once.
- I/O errors and exceptions of `std::filesystem`: the code has no handling of its own for
  them beyond the exception of a statement, which `ScanThrows` and `VisitStatement` have.
- `RecordType::UNUSED` as something written: it never is; where it is read, as in a file
  with a cut record, it counts as a tombstone.
- Logger and message templates, tests, benchmarks, build files: no behaviour of the engine.

## 6. How the modules build on each other

`Literals` and `TableFile` are under `TableStore`, `Metadata` under `CsvRows` under
`Statements`; `TableStoreRefinement` composes `TableStore` with `SqlTable`,
`CatalogProperties` composes `Catalog` with `TableRegistry`. What one module treats as an
input another one justifies:

- `TableStore` takes conditions that hit, miss or throw; `Conditions` says when they throw
  and that an equality on the key may be sent to the index.
- `TableStore` takes normalised rows; `Statements` says how they come about.
- `TableStore` takes counters that a table may begin with; `Catalog` says which tables have one.
- `TableStore` and `RecordLayout` take records as whole; `TornFile` says what is left of that
  when one is not.
- All of them take a sequence of statements; `CliDriver` says which one it is.

Worth adding, in this order: UPDATE and compaction in `TornFile`; several columns besides the
key in `TableStore`; the values of the delete counter in `Catalog`, as a composition with
`TableStore`.
