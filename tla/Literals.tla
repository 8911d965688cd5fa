------------------------------ MODULE Literals ------------------------------
(***************************************************************************)
(* The texts that travel from an SQL statement, or a CSV field, to the     *)
(* table file. A text is a word wrapped in layers of quotation marks, the  *)
(* outermost first: 7 has no layer, 'Tim' has one, '"x"' has two. Wherever *)
(* the engine wants the bare value it calls removeOuterQuotes, which takes *)
(* off one layer each time it is called; how often a text has been through *)
(* it is what the properties about quoting depend on.                      *)
(***************************************************************************)
EXTENDS Naturals, Sequences

CONSTANTS
  Words,      \* the texts without their outer quotation marks
  MaxQuotes   \* how many layers a text has at most

ASSUME MaxQuotesAssumption == MaxQuotes \in Nat

Marks == {"single", "double"}

QuoteLayers == UNION {[1..n -> Marks] : n \in 0..MaxQuotes}

Text == [word: Words, quotes: QuoteLayers]

(* removeOuterQuotes: one matching pair is removed, a bare text is returned as it is. *)
RemoveOuterQuotes(t) ==
  IF t.quotes = <<>> THEN t ELSE [t EXCEPT !.quotes = Tail(@)]

(* A row of a table with the primary key and one other column. *)
Row == [key: Text, val: Text]

(* What serializeNormalizedRecord writes of a row: every value loses a layer. *)
Stored(row) ==
  [key |-> RemoveOuterQuotes(row.key), val |-> RemoveOuterQuotes(row.val)]
=============================================================================
