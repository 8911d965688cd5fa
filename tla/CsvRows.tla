------------------------------ MODULE CsvRows -------------------------------
(***************************************************************************)
(* A line of an imported file and its fields. A line is a sequence of      *)
(* words, commas and double quotation marks, with no two words in a row.   *)
(***************************************************************************)
EXTENDS Metadata, FiniteSets

Comma == ","
Mark == "\""

(* Words and commas as one text. *)
AsText(symbols) ==
  [marks |-> <<>>,
   parts |-> FoldLeft(LAMBDA parts, c : IF c = Comma THEN Append(parts, "")
                                        ELSE [parts EXCEPT ![Len(parts)] = c],
                      <<"">>, symbols)]

ReadSymbol(row, c) ==
  CASE c = Mark -> [row EXCEPT !.inQuotes = ~@]
    [] c = Comma /\ ~row.inQuotes ->
         [result |-> Append(row.result, row.current), current |-> <<>>, inQuotes |-> FALSE]
    [] OTHER -> [row EXCEPT !.current = Append(@, c)]

(* parseCsvRow: a mark is dropped, and a comma ends the field unless the marks before it are odd. *)
ParseCsvRow(line) ==
  LET read[n \in 0..Len(line)] ==
        IF n = 0 THEN [result |-> <<>>, current |-> <<>>, inQuotes |-> FALSE]
        ELSE ReadSymbol(read[n - 1], line[n])
      last == read[Len(line)]
      result == Append(last.result, last.current)
  IN  [k \in DOMAIN result |-> AsText(result[k])]

(* The numbers of a set in their order. *)
InOrder(S) ==
  [r \in 1..Cardinality(S) |->
     CHOOSE i \in S : Cardinality({j \in S : j <= i}) = r]

(* The fields a line means, from the places of its commas and marks: a field has the symbols with *)
(* as many cuts before them as there are fields before it.                                         *)
Cuts(line) ==
  {i \in DOMAIN line :
     line[i] = Comma /\ Cardinality({j \in 1..i : line[j] = Mark}) % 2 = 0}

FieldPlaces(line, k) ==
  {i \in DOMAIN line \ Cuts(line) :
     line[i] # Mark /\ Cardinality({j \in Cuts(line) : j <= i}) = k - 1}

CsvMeaning(line) ==
  [k \in 1..(Cardinality(Cuts(line)) + 1) |->
     LET places == InOrder(FieldPlaces(line, k))
     IN  AsText([r \in DOMAIN places |-> line[places[r]]])]
=============================================================================
