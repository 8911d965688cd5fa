------------------------------ MODULE Metadata ------------------------------
(***************************************************************************)
(* Column definitions, and what is left of them when INIT reads them back  *)
(* from metadata.txt. A column is one line there: its name, a blank, and   *)
(* its modifiers joined by commas. The text of a DEFAULT is written as it  *)
(* was typed, so a comma in it ends the modifier when it is read.          *)
(***************************************************************************)
EXTENDS Naturals, Sequences, SequencesExt

(* A text: the words between its commas, and the quotation marks around it, the outermost first; *)
(* an "open" one has lost its closing mark.                                                      *)
Marks == {"single", "double", "open"}

Text(words) == [marks: Seq(Marks), parts: Seq(words) \ {<<>>}]

Bare(word) == [marks |-> <<>>, parts |-> <<word>>]

Quoted(words) == [marks |-> <<"single">>, parts |-> words]

(* Double quotation marks inside single ones. *)
Nested(words) == [marks |-> <<"single", "double">>, parts |-> words]

(* A null, and the value of an EMPTY literal. *)
Nothing == Bare("")

(* No pair of quotation marks is around the text. *)
IsUnmarked(text) == text.marks = <<>> \/ Head(text.marks) = "open"

(* removeOuterQuotes: each call takes off one pair. *)
RemoveOuterQuotes(text) == IF IsUnmarked(text) THEN text ELSE [text EXCEPT !.marks = Tail(@)]

PrimaryKey == "PRIMARY KEY"
NotNull == "NOT NULL"

(* Only a DEFAULT has a text. *)
Modifier(kind) == [kind |-> kind, text |-> Nothing]

Default(text) == [kind |-> "DEFAULT", text |-> text]

Column == [name: STRING, modifiers: Seq([kind: STRING, text: Text(STRING)])]

(* getModifiers *)
HasModifier(col, kind) == \E i \in DOMAIN col.modifiers : col.modifiers[i].kind = kind

(* The first DEFAULT of a column counts. *)
DefaultText(col) ==
  col.modifiers[SelectInSeq(col.modifiers, LAMBDA m : m.kind = "DEFAULT")].text

(* Mutant: a column without a DEFAULT throws as well. *)
MissingThrows(col) == ~HasModifier(col, "DEFAULT") \/ DefaultText(col) = Nothing

(* getDefaultValue: trim makes "DEFAULT" of "DEFAULT ", and substr(8) of that throws. *)
DefaultThrows(col) == HasModifier(col, "DEFAULT") /\ DefaultText(col) = Nothing

GetDefaultValue(col) ==
  IF HasModifier(col, "DEFAULT") THEN RemoveOuterQuotes(DefaultText(col)) ELSE Nothing

IsKey(col) == HasModifier(col, PrimaryKey)

(* hasEmptyLiteralRuleViolations *)
HasEmptyLiteralRuleViolations(col) ==
  IsKey(col) \/ (HasModifier(col, NotNull) /\ ~HasModifier(col, "DEFAULT"))

-----------------------------------------------------------------------------
(* What a modifier becomes between the commas of its line. The first piece of a DEFAULT keeps *)
(* the opening mark; the last ends in the closing one and is no modifier; a piece between them *)
(* is the modifier it spells.                                                                  *)
Pieces(mod) ==
  LET parts == mod.text.parts
      between == SubSeq(parts, 2, Len(parts) - 1)
  IN  IF mod.kind # "DEFAULT" \/ Len(parts) = 1 THEN <<mod>>
      ELSE <<Default([marks |-> <<"open">>, parts |-> <<Head(parts)>>])>>
             \o [i \in DOMAIN between |-> Modifier(between[i])]
             \o <<Modifier("other")>>

(* Mutant: a modifier is read up to the first blank, so NOT NULL and PRIMARY KEY are lost. *)
FirstWords(mods) ==
  FlattenSeq([i \in DOMAIN mods |->
    IF mods[i].kind = "DEFAULT" THEN Pieces(mods[i]) ELSE <<Modifier("other")>>])

ReadModifiers(mods) == FlattenSeq([i \in DOMAIN mods |-> Pieces(mods[i])])

(* initializeUntypedTableMetadata after createUntypedTable: a line for every column. *)
ReadBack(columns) ==
  [i \in DOMAIN columns |-> [columns[i] EXCEPT !.modifiers = ReadModifiers(@)]]
=============================================================================
