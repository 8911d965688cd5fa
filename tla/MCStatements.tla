---------------------------- MODULE MCStatements ----------------------------
(* Small instances of the statements for TLC. *)
EXTENDS StatementProperties

MCNoList == <<>>

Plain(name) == [name |-> name, modifiers |-> <<>>]
Key(name) == [name |-> name, modifiers |-> <<Modifier(PrimaryKey)>>]
Required(name, text) == [name |-> name, modifiers |-> <<Modifier(NotNull), Default(text)>>]

(* The key first, in the middle and last; a DEFAULT that is plain, empty, has a comma, or spells a modifier. *)
MCSchemas ==
  {<<Key("k"), Plain("a"), [name |-> "b", modifiers |-> <<Modifier(NotNull)>>]>>,
   <<Key("k"), [name |-> "b", modifiers |-> <<Default(Quoted(<<"d", "e">>))>>],
     Required("a", Quoted(<<"d">>))>>,
   <<Plain("a"), Required("b", Quoted(<<"d">>)), Key("k")>>,
   <<Required("a", Nothing), Key("k"), Plain("b")>>,
   <<[name |-> "b", modifiers |-> <<Default(Quoted(<<"d", "e">>)), Modifier(NotNull)>>],
     Key("k"), [name |-> "a", modifiers |-> <<Default(Quoted(<<"d", "NOT NULL", "e">>))>>]>>}

MCLiterals == {Empty, Null, String(Bare("1"))}

MCLists ==
  {MCNoList} \cup TupleOf({"k", "a", "b", "unknown"}, 1) \cup TupleOf({"k", "a", "b"}, 2)
    \cup {<<"k", "unknown">>, <<"unknown", "k">>, <<"b", "k", "a">>, <<"a", "b", "k">>}

(* One value, or two that differ: a swap of two columns must show. *)
Records == TupleOf(MCLiterals, 1) \cup {r \in TupleOf(MCLiterals, 2) : r[1] # r[2]}

OneRecord == [columns: MCLists, records: TupleOf(Records, 1)]

TwoRecords ==
  [columns: {MCNoList, <<"k", "a">>, <<"b", "k">>, <<"k", "unknown">>},
   records: {<<<<String(Bare("1")), String(Bare("2"))>>, r>> :
               r \in {<<String(Bare("1"))>>, <<Empty, String(Bare("2"))>>,
                      <<String(Quoted(<<"2">>)), Empty, String(Bare("1"))>>,
                      <<String(Bare("2")), String(Nested(<<"1">>))>>,
                      <<Null, Null, Null, Null>>}}]

MCInserts == OneRecord \cup TwoRecords

(* Short; a comma in marks and an empty field; a mark that is never closed. *)
MCFittingLines ==
  {<<"1", Comma, "1">>,
   <<"1", Comma, Mark, "1", Comma, "2", Mark, Comma>>,
   <<"1", Comma, "1", Comma, Mark, "1", Comma, "2">>}

(* One field too many. *)
MCCsvLines == MCFittingLines \cup {<<"1", Comma, "1", Comma, Comma, "2">>}

Assign(name, text) == [name |-> name, literal |-> String(text)]

MCUpdates ==
  {<<Assign("a", Quoted(<<"x">>))>>,
   <<Assign("b", Bare("1")), Assign("a", Quoted(<<"x">>))>>,
   <<Assign("a", Bare("1")), Assign("a", Bare("2"))>>, <<Assign("k", Bare("1"))>>}

MCEmptyUpdates == {<<[name |-> "a", literal |-> Empty]>>}
=============================================================================
