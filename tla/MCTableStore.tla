---------------------------- MODULE MCTableStore ----------------------------
(* Small instances of the storage engine for TLC, with the refinement mapping. *)
EXTENDS TableStoreRefinement

CONSTANT TypedQuotes  \* the quotation marks a statement may wrap a word in

(* 1; 'a'; '"a"', whose double quotes are part of the string *)
MCBare == {<<>>}
MCQuoted == {<<>>, <<"single">>}
MCNested == {<<>>, <<"single">>, <<"single", "double">>}

Bare(w) == [word |-> w, quotes |-> <<>>]

MCKeep == [word |-> "keep", quotes |-> <<>>]

MCKeyLiterals == [word: {"1", "2"}, quotes: TypedQuotes]

MCValueLiterals == {Bare("1")}

TypedRows == [key: MCKeyLiterals, val: {Bare("1"), Bare("2")}]

(* Every row by itself, and two statements of two rows. *)
MCInsertBatches ==
  {<<row>> : row \in TypedRows}
    \cup {<<[key |-> Bare("1"), val |-> Bare("2")], [key |-> k, val |-> Bare("1")]>> :
            k \in {Bare("1"), Bare("2")}}

(* One value, so that the quotation marks of the keys can be deeper. *)
MCOneValueBatches == {<<[key |-> k, val |-> Bare("1")]>> : k \in MCKeyLiterals}

MCNoBatches == {}

MCImportBatches == {<<[key |-> Bare("1"), val |-> Bare("2")]>>}

RowsWith(v) == {row \in Row : row.val = Bare(v)}

(* WHERE TRUE-like, by the value of a column, and a comparison that throws on a value. *)
MCSafeConditions ==
  {[hits |-> Row, throws |-> {}], [hits |-> RowsWith("1"), throws |-> {}],
   [hits |-> {}, throws |-> {}]}

MCConditions == MCSafeConditions \cup {[hits |-> RowsWith("1"), throws |-> RowsWith("2")]}

(* After INIT; after CREATE TABLE; after DROP and CREATE of a table with two tombstones counted. *)
MCStarted == {0}
MCCreated == {NoCounter}
MCInherited == {0, 2}

MCNoPhases == {}
MCAllPhases == Phases \ {"down"}
MCStopOutsideCompaction == MCAllPhases \ {"copy", "rename"}
MCStopOutsideUpdate == MCStopOutsideCompaction \ {"update", "append"}
=============================================================================
