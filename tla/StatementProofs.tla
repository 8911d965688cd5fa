-------------------------- MODULE StatementProofs ---------------------------
(***************************************************************************)
(* Proofs about the statements, for all schemas, statements and lines of   *)
(* imported files that StatementAssumption admits.                         *)
(***************************************************************************)
EXTENDS StatementProperties, Counting, SequenceTheorems, TLAPS

-----------------------------------------------------------------------------
(* CSV rows *)

(* The symbols of a line at some places. *)
SymbolsAt(line, S) == [r \in 1..Cardinality(S) |-> line[InOrder(S)[r]]]

LEMMA SymbolsAreElements ==
  ASSUME NEW line, NEW S, NEW n, Cardinality(S) = n, n \in Nat
  PROVE  SymbolsAt(line, S) = ElementsAt(line, S)
<1>1. \A r \in 1..n :
        InOrder(S)[r] = CHOOSE i \in S : Cardinality({j \in S : j <= i}) = r
  BY DEF InOrder
<1>2. SymbolsAt(line, S) = [r \in 1..n |-> line[InOrder(S)[r]]]
  BY DEF SymbolsAt
<1>3. ElementsAt(line, S)
        = [r \in 1..n |-> line[CHOOSE i \in S : Cardinality({j \in S : j <= i}) = r]]
  BY DEF ElementsAt
<1> QED
  BY <1>1, <1>2, <1>3

LEMMA InOrderGrows ==
  ASSUME NEW line, NEW S \in SUBSET Nat, IsFiniteSet(S), NEW n \in Nat, \A i \in S : i < n
  PROVE  SymbolsAt(line, S \cup {n}) = Append(SymbolsAt(line, S), line[n])
<1>1. Cardinality(S) \in Nat /\ Cardinality(S \cup {n}) = Cardinality(S) + 1
  BY RankGrows, FS_CardinalityType
<1>2. SymbolsAt(line, S) = ElementsAt(line, S)
  BY <1>1, SymbolsAreElements
<1>3. SymbolsAt(line, S \cup {n}) = ElementsAt(line, S \cup {n})
  BY <1>1, SymbolsAreElements
<1> QED
  BY <1>2, <1>3, ElementsGrow

(* The state of parseCsvRow after n symbols, from the places of commas and marks. *)
MarksUpTo(line, n) == {j \in 1..n : line[j] = Mark}
CutsUpTo(line, n) == {i \in Cuts(line) : i <= n}
PlacesUpTo(line, k, n) == {i \in FieldPlaces(line, k) : i <= n}
OddUpTo(line, n) == Cardinality(MarksUpTo(line, n)) % 2 # 0
Row(result, current, inQuotes) ==
  [result |-> result, current |-> current, inQuotes |-> inQuotes]
RowUpTo(line, n) ==
  Row([k \in 1..Cardinality(CutsUpTo(line, n)) |-> SymbolsAt(line, PlacesUpTo(line, k, n))],
      SymbolsAt(line, PlacesUpTo(line, Cardinality(CutsUpTo(line, n)) + 1, n)),
      OddUpTo(line, n))

LEMMA PlacesFinite ==
  ASSUME NEW line \in Seq(STRING), NEW n \in Nat
  PROVE  /\ \A S \in {MarksUpTo(line, n), CutsUpTo(line, n)} :
              S \in SUBSET (1..n) /\ S \in SUBSET Nat /\ IsFiniteSet(S) /\ Cardinality(S) \in Nat
         /\ \A k : LET S == PlacesUpTo(line, k, n)
                   IN  S \in SUBSET (1..n) /\ S \in SUBSET Nat /\ IsFiniteSet(S)
<1>1. DOMAIN line = 1..Len(line) /\ Len(line) \in Nat
  BY LenProperties
<1>2. IsFiniteSet(1..n) /\ 1..n \subseteq Nat
  BY FS_Interval
<1>3. \A S \in SUBSET (1..n) : IsFiniteSet(S) /\ Cardinality(S) \in Nat /\ S \in SUBSET Nat
  BY <1>2, FS_Subset, FS_CardinalityType
<1>4. MarksUpTo(line, n) \in SUBSET (1..n)
  BY DEF MarksUpTo
<1>5. CutsUpTo(line, n) \in SUBSET (1..n)
  BY <1>1 DEF CutsUpTo, Cuts
<1>6. \A k : PlacesUpTo(line, k, n) \in SUBSET (1..n)
  BY <1>1 DEF PlacesUpTo, FieldPlaces
<1> QED
  BY <1>3, <1>4, <1>5, <1>6

LEMMA NoSymbols ==
  ASSUME NEW line
  PROVE  SymbolsAt(line, {}) = <<>>
<1>1. Cardinality({}) = 0
  BY FS_EmptySet
<1> QED
  BY <1>1 DEF SymbolsAt

LEMMA MarkIsNoComma == Mark # Comma
  BY Zenon DEF Mark, Comma

(* What the symbol at n adds to the marks, the cuts and the fields. *)
LEMMA PlacesGrow ==
  ASSUME NEW line \in Seq(STRING), NEW n \in 1..Len(line), NEW p, p = n - 1
  PROVE  /\ MarksUpTo(line, n) = MarksUpTo(line, p) \cup (IF line[n] = Mark THEN {n} ELSE {})
         /\ CutsUpTo(line, n) = CutsUpTo(line, p) \cup (IF n \in Cuts(line) THEN {n} ELSE {})
         /\ n \in Cuts(line) <=> line[n] = Comma /\ Cardinality(MarksUpTo(line, p)) % 2 = 0
         /\ \A k : PlacesUpTo(line, k, n) = PlacesUpTo(line, k, p)
                     \cup (IF n \in FieldPlaces(line, k) THEN {n} ELSE {})
         /\ \A k : n \in FieldPlaces(line, k) <=>
                     /\ n \notin Cuts(line) /\ line[n] # Mark
                     /\ Cardinality(CutsUpTo(line, n)) = k - 1
<1>1. DOMAIN line = 1..Len(line) /\ Len(line) \in Nat
  BY LenProperties
<1>2. /\ n \in Nat /\ p \in Nat /\ n \in DOMAIN line
      /\ \A i \in 1..Len(line) : i <= n <=> i <= p \/ i = n
      /\ 1..n = (1..p) \cup {n}
  BY <1>1
<1>3. MarksUpTo(line, n) = MarksUpTo(line, p) \cup (IF line[n] = Mark THEN {n} ELSE {})
  BY <1>2 DEF MarksUpTo
<1>4. Cuts(line) \subseteq 1..Len(line) /\ \A k : FieldPlaces(line, k) \subseteq 1..Len(line)
  BY <1>1 DEF Cuts, FieldPlaces
<1>5. CutsUpTo(line, n) = CutsUpTo(line, p) \cup (IF n \in Cuts(line) THEN {n} ELSE {})
  BY <1>2, <1>4 DEF CutsUpTo
<1>6. \A k : PlacesUpTo(line, k, n) = PlacesUpTo(line, k, p)
               \cup (IF n \in FieldPlaces(line, k) THEN {n} ELSE {})
  BY <1>2, <1>4 DEF PlacesUpTo
<1>7. n \in Cuts(line) <=> line[n] = Comma /\ Cardinality(MarksUpTo(line, p)) % 2 = 0
  <2>1. n \in Cuts(line) <=> line[n] = Comma /\ Cardinality(MarksUpTo(line, n)) % 2 = 0
    BY <1>2 DEF Cuts, MarksUpTo
  <2>2. line[n] = Comma => MarksUpTo(line, n) = MarksUpTo(line, p)
    BY <1>3, MarkIsNoComma
  <2> QED
    BY <2>1, <2>2
<1>8. \A k : n \in FieldPlaces(line, k) <=>
               /\ n \notin Cuts(line) /\ line[n] # Mark
               /\ Cardinality(CutsUpTo(line, n)) = k - 1
  BY <1>2 DEF FieldPlaces, CutsUpTo
<1> QED
  BY <1>3, <1>5, <1>6, <1>7, <1>8

LEMMA ReadSymbolCases ==
  ASSUME NEW r, NEW c, NEW q \in BOOLEAN, NEW symbol
  PROVE  /\ symbol = Mark => ReadSymbol(Row(r, c, q), symbol) = Row(r, c, ~q)
         /\ symbol = Comma /\ ~q => ReadSymbol(Row(r, c, q), symbol) = Row(Append(r, c), <<>>, q)
         /\ symbol # Mark /\ ~(symbol = Comma /\ ~q) =>
              ReadSymbol(Row(r, c, q), symbol) = Row(r, Append(c, symbol), q)
<1> DEFINE row == [result |-> r, current |-> c, inQuotes |-> q]
<1>2. /\ row.result = r /\ row.current = c /\ row.inQuotes = q
      /\ [row EXCEPT !.inQuotes = ~@] = [result |-> r, current |-> c, inQuotes |-> ~q]
      /\ [row EXCEPT !.current = Append(@, symbol)]
           = [result |-> r, current |-> Append(c, symbol), inQuotes |-> q]
  OBVIOUS
<1> HIDE DEF row
<1>3. /\ symbol = Mark => ReadSymbol(row, symbol) = [row EXCEPT !.inQuotes = ~@]
      /\ symbol = Comma /\ ~row.inQuotes =>
           ReadSymbol(row, symbol)
             = [result |-> Append(row.result, row.current), current |-> <<>>, inQuotes |-> FALSE]
      /\ symbol # Mark /\ ~(symbol = Comma /\ ~row.inQuotes) =>
           ReadSymbol(row, symbol) = [row EXCEPT !.current = Append(@, symbol)]
  BY MarkIsNoComma DEF ReadSymbol
<1> QED
  BY <1>2, <1>3 DEF row, Row

LEMMA RowGrows ==
  ASSUME NEW line \in Seq(STRING), NEW n \in 1..Len(line), NEW p, p = n - 1
  PROVE  RowUpTo(line, n) = ReadSymbol(RowUpTo(line, p), line[n])
<1> DEFINE marks == Cardinality(MarksUpTo(line, p))
           odd == OddUpTo(line, p)
           cuts == Cardinality(CutsUpTo(line, p))
           field == [k \in 1..cuts |-> SymbolsAt(line, PlacesUpTo(line, k, p))]
           current == SymbolsAt(line, PlacesUpTo(line, cuts + 1, p))
<1>1. Len(line) \in Nat
  BY LenProperties
<1>2. n \in Nat /\ p \in Nat /\ \A i \in 1..p : i < n
  BY <1>1
<1>3. /\ marks \in Nat /\ cuts \in Nat
      /\ MarksUpTo(line, p) \in SUBSET Nat /\ IsFiniteSet(MarksUpTo(line, p))
      /\ CutsUpTo(line, p) \in SUBSET Nat /\ IsFiniteSet(CutsUpTo(line, p))
      /\ MarksUpTo(line, p) \in SUBSET (1..p) /\ CutsUpTo(line, p) \in SUBSET (1..p)
      /\ \A k : /\ PlacesUpTo(line, k, p) \in SUBSET Nat /\ IsFiniteSet(PlacesUpTo(line, k, p))
                /\ PlacesUpTo(line, k, p) \in SUBSET (1..p)
  BY <1>2, PlacesFinite
<1>4. /\ MarksUpTo(line, n) = MarksUpTo(line, p) \cup (IF line[n] = Mark THEN {n} ELSE {})
      /\ CutsUpTo(line, n) = CutsUpTo(line, p) \cup (IF n \in Cuts(line) THEN {n} ELSE {})
      /\ n \in Cuts(line) <=> line[n] = Comma /\ marks % 2 = 0
      /\ \A k : PlacesUpTo(line, k, n) = PlacesUpTo(line, k, p)
                  \cup (IF n \in FieldPlaces(line, k) THEN {n} ELSE {})
      /\ \A k : n \in FieldPlaces(line, k) <=>
                  /\ n \notin Cuts(line) /\ line[n] # Mark
                  /\ Cardinality(CutsUpTo(line, n)) = k - 1
  BY PlacesGrow
<1>4a. /\ line[n] = Mark => MarksUpTo(line, n) = MarksUpTo(line, p) \cup {n}
       /\ line[n] # Mark => MarksUpTo(line, n) = MarksUpTo(line, p)
       /\ n \in Cuts(line) => CutsUpTo(line, n) = CutsUpTo(line, p) \cup {n}
       /\ n \notin Cuts(line) => CutsUpTo(line, n) = CutsUpTo(line, p)
       /\ \A k : /\ n \in FieldPlaces(line, k) =>
                      PlacesUpTo(line, k, n) = PlacesUpTo(line, k, p) \cup {n}
                 /\ n \notin FieldPlaces(line, k) =>
                      PlacesUpTo(line, k, n) = PlacesUpTo(line, k, p)
  BY <1>4
<1>5. /\ Cardinality(MarksUpTo(line, p) \cup {n}) = marks + 1
      /\ Cardinality(CutsUpTo(line, p) \cup {n}) = cuts + 1
      /\ \A k : SymbolsAt(line, PlacesUpTo(line, k, p) \cup {n})
                  = Append(SymbolsAt(line, PlacesUpTo(line, k, p)), line[n])
  <2>1. Cardinality(MarksUpTo(line, p) \cup {n}) = marks + 1
    <3>1. \A i \in MarksUpTo(line, p) : i < n
      BY <1>2, <1>3
    <3> QED
      BY <1>2, <1>3, <3>1, RankGrows
  <2>2. Cardinality(CutsUpTo(line, p) \cup {n}) = cuts + 1
    <3>1. \A i \in CutsUpTo(line, p) : i < n
      BY <1>2, <1>3
    <3> QED
      BY <1>2, <1>3, <3>1, RankGrows
  <2>3. ASSUME NEW k
        PROVE  SymbolsAt(line, PlacesUpTo(line, k, p) \cup {n})
                 = Append(SymbolsAt(line, PlacesUpTo(line, k, p)), line[n])
    <3>1. \A i \in PlacesUpTo(line, k, p) : i < n
      BY <1>2, <1>3
    <3>2. PlacesUpTo(line, k, p) \in SUBSET Nat /\ IsFiniteSet(PlacesUpTo(line, k, p))
      BY <1>3
    <3> QED
      BY <1>2, <3>1, <3>2, InOrderGrows
  <2> QED
    BY <2>1, <2>2, <2>3
<1>6. RowUpTo(line, p) = Row(field, current, odd) /\ odd \in BOOLEAN
  BY DEF RowUpTo, OddUpTo
<1>7. CASE line[n] = Mark
  <2>1. n \notin Cuts(line) /\ \A k : n \notin FieldPlaces(line, k)
    BY <1>4, <1>7, MarkIsNoComma
  <2>2. /\ CutsUpTo(line, n) = CutsUpTo(line, p) /\ Cardinality(MarksUpTo(line, n)) = marks + 1
        /\ \A k : PlacesUpTo(line, k, n) = PlacesUpTo(line, k, p)
    BY <1>4a, <1>5, <1>7, <2>1, Zenon
  <2>3. RowUpTo(line, n) = Row(field, current, OddUpTo(line, n))
    BY <2>2 DEF RowUpTo
  <2>4. OddUpTo(line, n) = ~OddUpTo(line, p)
    <3>1. (marks + 1) % 2 # 0 <=> ~(marks % 2 # 0)
      <4> HIDE DEF marks
      <4> QED
        BY <1>3
    <3>2. OddUpTo(line, n) <=> (marks + 1) % 2 # 0
      BY <2>2 DEF OddUpTo
    <3> QED
      BY <3>1, <3>2 DEF OddUpTo
  <2> HIDE DEF field, current, odd, marks
  <2>5. ReadSymbol(RowUpTo(line, p), line[n])
          = Row(field, current, ~odd)
    BY <1>6, <1>7, ReadSymbolCases
  <2> QED
    BY <2>3, <2>4, <2>5 DEF odd
<1>8. CASE n \in Cuts(line)
  <2>1. line[n] = Comma /\ line[n] # Mark /\ ~odd /\ \A k : n \notin FieldPlaces(line, k)
    BY <1>4, <1>8, MarkIsNoComma DEF OddUpTo
  <2>2. /\ Cardinality(CutsUpTo(line, n)) = cuts + 1 /\ MarksUpTo(line, n) = MarksUpTo(line, p)
        /\ \A k : PlacesUpTo(line, k, n) = PlacesUpTo(line, k, p)
    BY <1>4a, <1>5, <1>8, <2>1, Zenon
  <2>3. PlacesUpTo(line, cuts + 1 + 1, p) = {}
    <3> SUFFICES ASSUME NEW i \in PlacesUpTo(line, cuts + 1 + 1, p)
                 PROVE  FALSE
      OBVIOUS
    <3>1. i <= p /\ Cardinality(CutsUpTo(line, i)) = cuts + 1 + 1 - 1 /\ i \in Nat
      BY <1>3 DEF PlacesUpTo, FieldPlaces, CutsUpTo
    <3>2. CutsUpTo(line, i) \in SUBSET CutsUpTo(line, p)
      <4>1. \A j \in Nat : j <= i => j <= p
        BY <1>2, <3>1
      <4>2. Cuts(line) \subseteq Nat
        BY <1>1, LenProperties DEF Cuts
      <4> QED
        BY <4>1, <4>2 DEF CutsUpTo
    <3>3. Cardinality(CutsUpTo(line, i)) <= cuts
      BY <1>3, <3>2, FS_Subset
    <3> HIDE DEF cuts
    <3> QED
      BY <1>3, <3>1, <3>3
  <2>4. RowUpTo(line, n) = Row([k \in 1..(cuts + 1) |-> SymbolsAt(line, PlacesUpTo(line, k, p))], <<>>, odd)
    BY <2>2, <2>3, NoSymbols DEF RowUpTo, OddUpTo
  <2>5. Append(field, current) = [k \in 1..(cuts + 1) |-> SymbolsAt(line, PlacesUpTo(line, k, p))]
    <3> DEFINE F(k) == SymbolsAt(line, PlacesUpTo(line, k, p))
    <3> HIDE DEF F, cuts
    <3>1. [k \in 1..cuts |-> F(k)] \in Seq({F(k) : k \in 1..cuts}) /\ Len([k \in 1..cuts |-> F(k)]) = cuts
      BY <1>3
    <3>2. Append([k \in 1..cuts |-> F(k)], F(cuts + 1)) = [k \in 1..(cuts + 1) |-> F(k)]
      BY <1>3, <3>1
    <3> QED
      BY <3>2 DEF F, cuts
  <2> HIDE DEF field, current, odd, marks, cuts
  <2>6. ReadSymbol(RowUpTo(line, p), line[n])
          = Row(Append(field, current), <<>>, odd)
    BY <1>6, <2>1, ReadSymbolCases
  <2> QED
    BY <2>4, <2>5, <2>6
<1>9. CASE n \notin Cuts(line) /\ line[n] # Mark
  <2>1. CutsUpTo(line, n) = CutsUpTo(line, p) /\ MarksUpTo(line, n) = MarksUpTo(line, p)
    BY <1>4, <1>9
  <2>2. \A k \in Int : n \in FieldPlaces(line, k) <=> k = cuts + 1
    <3>1. \A k \in Int : n \in FieldPlaces(line, k) <=> cuts = k - 1
      BY <1>4, <1>9, <2>1
    <3> HIDE DEF cuts
    <3> QED
      BY <1>3, <3>1
  <2>3. SymbolsAt(line, PlacesUpTo(line, cuts + 1, n)) = Append(current, line[n])
    <3>1. n \in FieldPlaces(line, cuts + 1)
      BY <1>3, <2>2
    <3>2. PlacesUpTo(line, cuts + 1, n) = PlacesUpTo(line, cuts + 1, p) \cup {n}
      BY <1>4, <3>1
    <3> QED
      BY <1>5, <3>2
  <2>4. \A k \in 1..cuts : PlacesUpTo(line, k, n) = PlacesUpTo(line, k, p)
    <3> SUFFICES ASSUME NEW k \in 1..cuts
                 PROVE  PlacesUpTo(line, k, n) = PlacesUpTo(line, k, p)
      OBVIOUS
    <3>1. k \in Int /\ k # cuts + 1
      BY <1>3
    <3>2. n \notin FieldPlaces(line, k)
      BY <2>2, <3>1
    <3> QED
      BY <1>4, <3>2
  <2>5. RowUpTo(line, n) = Row(field, Append(current, line[n]), odd)
    BY <2>1, <2>3, <2>4 DEF RowUpTo, OddUpTo
  <2>6. ~(line[n] = Comma /\ ~odd)
    BY <1>4, <1>9 DEF OddUpTo
  <2> HIDE DEF field, current, odd, marks, cuts
  <2>7. ReadSymbol(RowUpTo(line, p), line[n])
          = Row(field, Append(current, line[n]), odd)
    BY <1>6, <1>9, <2>6, ReadSymbolCases
  <2> QED
    BY <2>5, <2>7
<1> QED
  BY <1>7, <1>8, <1>9

LEMMA RowAtStart ==
  ASSUME NEW line \in Seq(STRING)
  PROVE  RowUpTo(line, 0) = Row(<<>>, <<>>, FALSE)
<1>1. /\ MarksUpTo(line, 0) = {} /\ CutsUpTo(line, 0) = {}
      /\ \A k : PlacesUpTo(line, k, 0) = {}
  <2>1. 1..0 = {} /\ 0 \in Nat
    OBVIOUS
  <2>2. \A S \in SUBSET (1..0) : S = {}
    BY <2>1, Zenon
  <2>3. MarksUpTo(line, 0) \in SUBSET (1..0) /\ CutsUpTo(line, 0) \in SUBSET (1..0)
    BY <2>1, PlacesFinite
  <2>4. \A k : PlacesUpTo(line, k, 0) \in SUBSET (1..0)
    BY <2>1, PlacesFinite
  <2> QED
    BY <2>2, <2>3, <2>4, Zenon
<1>2. Cardinality({}) = 0
  BY FS_EmptySet
<1>3. OddUpTo(line, 0) = FALSE
  <2>1. Cardinality(MarksUpTo(line, 0)) = 0
    BY <1>1, <1>2, Zenon
  <2>0. 0 % 2 = 0
    OBVIOUS
  <2>2. ~(Cardinality(MarksUpTo(line, 0)) % 2 # 0)
    BY <2>0, <2>1, Zenon
  <2> QED
    BY <2>2, Zenon DEF OddUpTo
<1>4. [k \in 1..0 |-> SymbolsAt(line, PlacesUpTo(line, k, 0))] = <<>>
  OBVIOUS
<1> QED
  BY <1>1, <1>2, <1>3, <1>4, NoSymbols DEF RowUpTo

(* parseCsvRow, symbol after symbol, has the fields by their places. *)
LEMMA RowsRead ==
  ASSUME NEW line \in Seq(STRING), NEW row, row = RowUpTo(line, Len(line))
  PROVE  ParseCsvRow(line) =
           LET result == Append(row.result, row.current)
           IN  [k \in DOMAIN result |-> AsText(result[k])]
<1> DEFINE Start == [result |-> <<>>, current |-> <<>>, inQuotes |-> FALSE]
           Rows(f) == [n \in 0..Len(line) |->
                         IF n = 0 THEN Start ELSE ReadSymbol(f[n - 1], line[n])]
           read == CHOOSE f : f = Rows(f)
           rows == [n \in 0..Len(line) |-> RowUpTo(line, n)]
<1>1. Len(line) \in Nat
  BY LenProperties
<1>2. RowUpTo(line, 0) = Start
  BY RowAtStart DEF Row
<1>3. \A n \in 1..Len(line) : RowUpTo(line, n) = ReadSymbol(RowUpTo(line, n - 1), line[n])
  BY RowGrows
<1>4. ParseCsvRow(line) =
        LET last == read[Len(line)]
            result == Append(last.result, last.current)
        IN  [k \in DOMAIN result |-> AsText(result[k])]
  BY DEF ParseCsvRow
<1> HIDE DEF Start
<1>5. rows = Rows(rows)
  <2>1. \A n \in 0..Len(line) :
          RowUpTo(line, n) = IF n = 0 THEN Start ELSE ReadSymbol(rows[n - 1], line[n])
    <3> SUFFICES ASSUME NEW n \in 0..Len(line)
                 PROVE  RowUpTo(line, n) = IF n = 0 THEN Start ELSE ReadSymbol(rows[n - 1], line[n])
      OBVIOUS
    <3>1. CASE n = 0
      BY <1>2, <3>1
    <3>2. CASE n # 0
      <4>1. n \in 1..Len(line) /\ n - 1 \in 0..Len(line)
        BY <1>1, <3>2
      <4>2. rows[n - 1] = RowUpTo(line, n - 1)
        BY <4>1
      <4> QED
        BY <1>3, <3>2, <4>1, <4>2
    <3> QED
      BY <3>1, <3>2
  <2> QED
    BY <2>1, Zenon
<1>6. read = Rows(read)
  BY <1>5
<1> HIDE DEF read, rows
<1>7. /\ read[0] = Start
      /\ \A n \in 1..Len(line) : read[n] = ReadSymbol(read[n - 1], line[n])
  <2>1. \A n \in 0..Len(line) : read[n] = IF n = 0 THEN Start ELSE ReadSymbol(read[n - 1], line[n])
    BY <1>6, Zenon
  <2>2. 0 \in 0..Len(line) /\ \A n \in 1..Len(line) : n \in 0..Len(line) /\ n # 0
    BY <1>1
  <2> QED
    BY <2>1, <2>2, Zenon
<1>8. 0..Len(line) \subseteq {n \in 0..Len(line) : read[n] = RowUpTo(line, n)}
  <2> DEFINE S == {n \in 0..Len(line) : read[n] = RowUpTo(line, n)}
  <2>1. 0 \in S
    BY <1>1, <1>2, <1>7
  <2>2. ASSUME NEW k \in 0..Len(line), k \in S, k < Len(line)
        PROVE  k + 1 \in S
    <3>1. k + 1 \in 1..Len(line) /\ k + 1 - 1 = k /\ k + 1 \in 0..Len(line)
      BY <1>1, <2>2
    <3>2. read[k + 1] = ReadSymbol(read[k], line[k + 1])
      BY <1>7, <3>1
    <3>3. RowUpTo(line, k + 1) = ReadSymbol(RowUpTo(line, k), line[k + 1])
      BY <1>3, <3>1
    <3>4. read[k] = RowUpTo(line, k)
      BY <2>2
    <3> QED
      BY <3>1, <3>2, <3>3, <3>4
  <2> HIDE DEF S
  <2>3. 0..Len(line) \subseteq S
    BY <1>1, <2>1, <2>2, InductionUpTo
  <2> QED
    BY <2>3 DEF S
<1>9. read[Len(line)] = row
  BY <1>1, <1>8
<1> QED
  BY <1>4, <1>9

(* Import reads the fields a line means: parseCsvRow cuts at the commas outside quotation marks. *)
THEOREM FieldsAreMeant ==
  ASSUME NEW line \in Seq(STRING)
  PROVE  ParseCsvRow(line) = CsvMeaning(line)
<1> DEFINE row == RowUpTo(line, Len(line))
           cuts == Cardinality(Cuts(line))
           Field(k) == SymbolsAt(line, FieldPlaces(line, k))
<1>1. Len(line) \in Nat /\ DOMAIN line = 1..Len(line)
  BY LenProperties
<1>2. CutsUpTo(line, Len(line)) = Cuts(line) /\ cuts \in Nat
  <2>1. CutsUpTo(line, Len(line)) = Cuts(line)
    BY <1>1 DEF CutsUpTo, Cuts
  <2> QED
    BY <1>1, <2>1, PlacesFinite
<1>3. \A k : PlacesUpTo(line, k, Len(line)) = FieldPlaces(line, k)
  BY <1>1 DEF PlacesUpTo, FieldPlaces
<1>4. row = Row([k \in 1..cuts |-> Field(k)], Field(cuts + 1), OddUpTo(line, Len(line)))
  BY <1>2, <1>3 DEF RowUpTo
<1>5. row.result = [k \in 1..cuts |-> Field(k)] /\ row.current = Field(cuts + 1)
  BY <1>4 DEF Row
<1> HIDE DEF row, cuts, Field
<1>6. Append(row.result, row.current) = [k \in 1..(cuts + 1) |-> Field(k)]
  <2>1. row.result \in Seq({Field(k) : k \in 1..cuts}) /\ Len(row.result) = cuts
    BY <1>2, <1>5
  <2> QED
    BY <1>2, <1>5, <2>1
<1>7. ParseCsvRow(line) = [k \in 1..(cuts + 1) |-> AsText(Field(k))]
  <2>1. ParseCsvRow(line) =
          LET result == Append(row.result, row.current)
          IN  [k \in DOMAIN result |-> AsText(result[k])]
    BY RowsRead DEF row
  <2> QED
    BY <1>6, <2>1
<1>8. CsvMeaning(line) = [k \in 1..(cuts + 1) |-> AsText(Field(k))]
  <2>1. \A k : Field(k) = LET places == InOrder(FieldPlaces(line, k))
                          IN  [r \in DOMAIN places |-> line[places[r]]]
    <3>1. \A S : DOMAIN InOrder(S) = 1..Cardinality(S)
      BY DEF InOrder
    <3> QED
      BY <3>1 DEF Field, SymbolsAt
  <2> QED
    BY <2>1 DEF CsvMeaning, cuts
<1> QED
  BY <1>7, <1>8

-----------------------------------------------------------------------------
(* Columns: what a restart leaves of the modifiers *)

(* The words of a metadata file: those of CREATE, and those that the engine writes and reads. *)
Words == STRING \cup {"", "DEFAULT", "other"}
AModifier == [kind: Words, text: Text(Words)]

LEMMA WordsOfEngine == "" \in Words /\ "DEFAULT" \in Words /\ "other" \in Words
  BY Zenon DEF Words

LEMMA ColumnsTyped ==
  ASSUME NEW S, S \subseteq Words
  PROVE  /\ Text(S) \subseteq Text(Words)
         /\ [kind: S, text: Text(S)] \subseteq AModifier
         /\ Seq([kind: S, text: Text(S)]) \subseteq Seq(AModifier)
<1>1. Seq(S) \subseteq Seq(Words)
  BY SeqMonotonic
<1>2. Text(S) \subseteq Text(Words)
  BY <1>1 DEF Text
<1>3. [kind: S, text: Text(S)] \subseteq AModifier
  BY <1>2 DEF AModifier
<1>4. PICK R : R = [kind: S, text: Text(S)]
  OBVIOUS
<1>5. Seq(R) \subseteq Seq(AModifier)
  BY <1>3, <1>4, SeqMonotonic
<1> QED
  BY <1>2, <1>3, <1>4, <1>5

LEMMA TextTypes ==
  /\ Nothing \in Text(Words)
  /\ \A kind \in Words : Modifier(kind) \in AModifier
  /\ \A text \in Text(Words) : Default(text) \in AModifier
<1>1. \A word \in Words : Bare(word) \in Text(Words)
  <2> SUFFICES ASSUME NEW word \in Words
               PROVE  Bare(word) \in Text(Words)
    OBVIOUS
  <2>1. <<word>> \in Seq(Words) /\ <<word>> # <<>>
    OBVIOUS
  <2> QED
    BY <2>1 DEF Bare, Text, Marks
<1>2. Nothing \in Text(Words)
  BY <1>1, WordsOfEngine, Zenon DEF Nothing
<1>3. \A kind \in Words : Modifier(kind) \in AModifier
  BY <1>2 DEF Modifier, AModifier
<1>4. \A text \in Text(Words) : Default(text) \in AModifier
  <2>1. PICK kind \in Words : kind = "DEFAULT"
    BY WordsOfEngine, Zenon
  <2> QED
    BY <2>1 DEF Default, AModifier
<1> QED
  BY <1>2, <1>3, <1>4

(* What metadata.txt splits a modifier into. *)
SplitOf(mod, pieces) ==
  /\ Len(pieces) \in Nat /\ Len(pieces) >= 1
  /\ pieces[1].kind = mod.kind
  /\ pieces = <<mod>> \/ pieces[1].text.marks = <<"open">>
  /\ mod.kind # "DEFAULT" \/ ~(Len(mod.text.parts) > 1) => pieces = <<mod>>
  /\ \A k \in 1..Len(pieces) :
       k > 1 => mod.kind = "DEFAULT" /\ pieces[k].kind \in Range(mod.text.parts) \cup {"other"}

LEMMA PiecesOfModifier ==
  ASSUME NEW mod \in AModifier
  PROVE  Pieces(mod) \in Seq(AModifier) /\ SplitOf(mod, Pieces(mod))
<1> DEFINE parts == mod.text.parts
           between == SubSeq(parts, 2, Len(parts) - 1)
           first == Default([marks |-> <<"open">>, parts |-> <<Head(parts)>>])
           middle == [i \in DOMAIN between |-> Modifier(between[i])]
<1>1. /\ mod.kind \in Words /\ mod.text \in Text(Words)
      /\ parts \in Seq(Words) /\ parts # <<>> /\ Len(parts) \in Nat /\ Len(parts) # 0
  <2>1. mod.kind \in Words /\ mod.text \in Text(Words)
    BY DEF AModifier
  <2>2. parts \in Seq(Words) /\ parts # <<>>
    BY <2>1 DEF Text
  <2> HIDE DEF parts
  <2> QED
    BY <2>1, <2>2, EmptySeq
<1> HIDE DEF parts
<1>2. CASE mod.kind # "DEFAULT" \/ Len(parts) = 1
  <2>1. Pieces(mod) = <<mod>>
    BY <1>2 DEF Pieces, parts
  <2>2. <<mod>> \in Seq(AModifier) /\ Len(<<mod>>) = 1 /\ <<mod>>[1] = mod
    OBVIOUS
  <2> HIDE DEF between, first, middle
  <2> QED
    BY <1>1, <1>2, <2>1, <2>2 DEF parts, SplitOf
<1>3. CASE mod.kind = "DEFAULT" /\ Len(parts) # 1
  <2>1. Pieces(mod) = <<first>> \o middle \o <<Modifier("other")>>
    BY <1>3 DEF Pieces, parts
  <2>2. /\ between \in Seq(Words) /\ DOMAIN between = 1..Len(between) /\ Len(between) \in Nat
        /\ \A i \in 1..Len(between) : between[i] \in Range(parts) /\ between[i] \in Words
    <3>1. \A i \in 1..Len(parts) : parts[i] \in Words /\ parts[i] \in Range(parts)
      BY <1>1, LenProperties DEF Range
    <3>2. PICK m : m = Len(parts) - 1
      OBVIOUS
    <3>3. m \in Int /\ 2 \in Int /\ \A i \in 2..m : i \in 1..Len(parts)
      BY <1>1, <3>2
    <3>4. PICK S : S = Words \cap Range(parts)
      OBVIOUS
    <3>5. \A i \in 2..m : parts[i] \in S
      BY <3>1, <3>3, <3>4
    <3>6. SubSeq(parts, 2, m) \in Seq(S)
      BY <3>3, <3>5, SubSeqProperties
    <3>7. between \in Seq(S)
      BY <3>2, <3>6
    <3> HIDE DEF between
    <3>8. /\ DOMAIN between = 1..Len(between) /\ Len(between) \in Nat
          /\ \A i \in 1..Len(between) : between[i] \in S
      BY <3>7, LenProperties, ElementOfSeq
    <3>9. between \in Seq(Words)
      BY <3>4, <3>7, SeqMonotonic
    <3> QED
      BY <3>4, <3>8, <3>9
  <2> HIDE DEF between
  <2>3. /\ middle \in Seq(AModifier) /\ Len(middle) = Len(between)
        /\ \A i \in 1..Len(between) : middle[i].kind \in Range(parts)
    <3>1. \A i \in 1..Len(between) : Modifier(between[i]) \in AModifier
      BY <2>2, TextTypes
    <3>2. \A i \in 1..Len(between) : Modifier(between[i]).kind = between[i]
      BY DEF Modifier
    <3> QED
      BY <2>2, <3>1, <3>2
  <2>4. /\ first \in AModifier /\ first.kind = mod.kind /\ first.text.marks = <<"open">>
        /\ Modifier("other") \in AModifier /\ Modifier("other").kind = "other"
    <3>1. Head(parts) \in Words
      BY <1>1, HeadTailProperties
    <3>2. <<Head(parts)>> \in Seq(Words) /\ <<Head(parts)>> # <<>>
      BY <3>1
    <3>3. [marks |-> <<"open">>, parts |-> <<Head(parts)>>] \in Text(Words)
      BY <3>2 DEF Text, Marks
    <3>4. first \in AModifier
      BY <3>3, TextTypes
    <3>5. first.kind = mod.kind /\ first.text.marks = <<"open">>
      BY <1>3 DEF Default
    <3>6. Modifier("other") \in AModifier /\ Modifier("other").kind = "other"
      <4>1. PICK kind \in Words : kind = "other"
        BY WordsOfEngine, Zenon
      <4>2. Modifier(kind) \in AModifier /\ Modifier(kind).kind = kind
        BY TextTypes DEF Modifier
      <4> QED
        BY <4>1, <4>2
    <3> QED
      BY <3>4, <3>5, <3>6
  <2> HIDE DEF first, middle
  <2>5. PICK n, last, s, t : /\ n = Len(between) /\ last = Modifier("other")
                             /\ s = <<first>> \o middle /\ t = s \o <<last>>
    OBVIOUS
  <2>6. /\ s \in Seq(AModifier) /\ Len(s) = n + 1 /\ s[1] = first /\ n \in Nat
        /\ \A i \in 1..n : s[i + 1] = middle[i]
    BY <2>2, <2>3, <2>4, <2>5
  <2>7. /\ t \in Seq(AModifier) /\ Len(t) = n + 2 /\ t[n + 2] = last
        /\ \A i \in 1..(n + 1) : t[i] = s[i]
    <3>1. last \in AModifier
      BY <2>4, <2>5
    <3>2. t = Append(s, last)
      BY <2>5, <2>6, <3>1
    <3> QED
      BY <2>6, <3>1, <3>2
  <2>8. t[1] = first
    BY <2>6, <2>7
  <2>9. \A k \in 1..(n + 2) : k > 1 => t[k].kind \in Range(parts) \cup {"other"}
    <3> SUFFICES ASSUME NEW k \in 1..(n + 2), k > 1
                 PROVE  t[k].kind \in Range(parts) \cup {"other"}
      OBVIOUS
    <3>1. CASE k = n + 2
      BY <2>4, <2>5, <2>7, <3>1
    <3>2. CASE k # n + 2
      <4>1. PICK i : i = k - 1
        OBVIOUS
      <4>2. i \in 1..n /\ i + 1 = k /\ k \in 1..(n + 1)
        BY <2>6, <3>2, <4>1
      <4>3. t[k] = middle[i]
        BY <2>6, <2>7, <4>2
      <4> QED
        BY <2>3, <2>5, <4>2, <4>3
    <3> QED
      BY <3>1, <3>2
  <2>10. Pieces(mod) = t
    BY <2>1, <2>5
  <2>11. Len(parts) > 1 /\ Len(t) >= 1
    <3>1. \A a \in Nat : (a # 0 /\ a # 1 => a > 1) /\ a + 2 >= 1
      OBVIOUS
    <3> QED
      BY <1>1, <1>3, <2>6, <2>7, <3>1, Zenon
  <2>12. SplitOf(mod, t)
    <3>1. /\ t[1].kind = mod.kind /\ t[1].text.marks = <<"open">>
          /\ \A k \in 1..Len(t) : k > 1 => t[k].kind \in Range(parts) \cup {"other"}
      BY <2>4, <2>7, <2>8, <2>9
    <3>2. Len(t) \in Nat
      BY <2>6, <2>7
    <3> QED
      BY <1>3, <2>11, <3>1, <3>2 DEF SplitOf, parts
  <2> QED
    BY <2>7, <2>10, <2>12
<1> QED
  BY <1>2, <1>3

LEMMA FirstDefault ==
  ASSUME NEW T, NEW col, col.modifiers \in Seq(T), HasModifier(col, "DEFAULT")
  PROVE  \E f \in 1..Len(col.modifiers) :
           /\ col.modifiers[f].kind = "DEFAULT"
           /\ \A i \in 1..(f - 1) : col.modifiers[i].kind # "DEFAULT"
           /\ DefaultText(col) = col.modifiers[f].text
<1>1. PICK mods, n, I, r : /\ mods = col.modifiers /\ n = Len(mods)
                           /\ I = {i \in 1..n : mods[i].kind = "DEFAULT"}
                           /\ r = (IF I # {} THEN Min(I) ELSE 0)
  OBVIOUS
<1>2. n \in Nat /\ DOMAIN mods = 1..n
  BY <1>1, LenProperties
<1>3. r = SelectInSeq(mods, LAMBDA m : m.kind = "DEFAULT")
  BY <1>1 DEF SelectInSeq
<1>4. I \in SUBSET (1..n) /\ I # {}
  BY <1>1, <1>2 DEF HasModifier
<1>5. r \in I /\ r \in 1..n /\ \A i \in 1..(r - 1) : i \notin I
  <2>1. r = (IF I # {} THEN Min(I) ELSE 0)
    BY <1>1
  <2> QED
    BY <1>2, <1>4, <2>1, FirstPlace
<1>6. DefaultText(col) = mods[r].text
  BY <1>1, <1>3 DEF DefaultText
<1>7. \A i \in 1..(r - 1) : i \in 1..n
  BY <1>2, <1>5
<1>8. mods[r].kind = "DEFAULT" /\ \A i \in 1..(r - 1) : mods[i].kind # "DEFAULT"
  BY <1>1, <1>5, <1>7
<1> QED
  BY <1>1, <1>5, <1>6, <1>8

(* What is left of a column after a restart. *)
KeptColumn(col, back) ==
  /\ back.name = col.name
  /\ back.modifiers \in Seq(AModifier)
  /\ IsKey(back) <=> IsKey(col)
  /\ HasModifier(back, "DEFAULT") <=> HasModifier(col, "DEFAULT")
  /\ HasModifier(col, NotNull) => HasModifier(back, NotNull)
  /\ HasModifier(back, NotNull) => HasModifier(col, NotNull) \/ HasModifier(col, "DEFAULT")
  /\ ~CommaDefault(col) => back = col
  /\ DefaultThrows(back) => Default(Nothing) \in Range(col.modifiers)

(* INIT reads a column back as KeptColumn says: its constraints stay, and all of it does if no *)
(* DEFAULT has a comma in it (createUntypedTable, initializeUntypedTableMetadata).               *)
THEOREM ReadBackKeeps ==
  ASSUME NEW N, NEW col \in [name: N, modifiers: Seq(AModifier)], NEW back,
         back = [col EXCEPT !.modifiers = ReadModifiers(@)],
         \A m \in Range(col.modifiers) : PrimaryKey \notin Range(m.text.parts)
  PROVE  KeptColumn(col, back)
<1>1. PICK mods, n, pieces, read :
        /\ mods = col.modifiers /\ n = Len(mods)
        /\ pieces = [i \in DOMAIN mods |-> Pieces(mods[i])]
        /\ read = FlattenSeq(pieces)
  OBVIOUS
<1>2. /\ n \in Nat /\ DOMAIN mods = 1..n /\ mods \in Seq(AModifier)
      /\ \A i \in 1..n : mods[i] \in AModifier
  <2>1. mods \in Seq(AModifier)
    BY <1>1
  <2> QED
    BY <1>1, <2>1, LenProperties, ElementOfSeq
<1>3. back.name = col.name /\ back.modifiers = read
  BY <1>1 DEF ReadModifiers
<1>4. \A i \in 1..n : pieces[i] \in Seq(AModifier) /\ SplitOf(mods[i], pieces[i])
  <2> SUFFICES ASSUME NEW i \in 1..n
               PROVE  pieces[i] \in Seq(AModifier) /\ SplitOf(mods[i], pieces[i])
    OBVIOUS
  <2>1. pieces[i] = Pieces(mods[i]) /\ mods[i] \in AModifier
    BY <1>1, <1>2
  <2>2. Pieces(mods[i]) \in Seq(AModifier) /\ SplitOf(mods[i], Pieces(mods[i]))
    BY <2>1, PiecesOfModifier
  <2> QED
    BY <2>1, <2>2
<1>5. pieces \in Seq(Seq(AModifier)) /\ Len(pieces) = n
  BY <1>1, <1>2, <1>4
<1>6. read \in Seq(AModifier) /\ JoinOf(pieces, n, read)
  BY <1>1, <1>5, FlattenJoins
<1>7. DOMAIN read = 1..Len(read) /\ Len(read) \in Nat
  BY <1>6, LenProperties
<1>4a. \A i \in 1..n : SplitOf(mods[i], pieces[i])
  BY <1>4
<1>6a. /\ \A j \in 1..Len(read) : FromPiece(pieces, n, read, j)
       /\ \A i \in 1..n : \A k \in 1..Len(pieces[i]) : HasElement(read, pieces[i][k])
  BY <1>6, Zenon DEF JoinOf
<1>8. \A i \in 1..n : \E j \in 1..Len(read) : read[j].kind = mods[i].kind
  <2> SUFFICES ASSUME NEW i \in 1..n
               PROVE  \E j \in 1..Len(read) : read[j].kind = mods[i].kind
    OBVIOUS
  <2>1. PICK p : p = pieces[i]
    OBVIOUS
  <2>2. 1 \in 1..Len(p) /\ p[1].kind = mods[i].kind
    BY <1>4a, <2>1 DEF SplitOf
  <2>3. HasElement(read, p[1])
    BY <1>6a, <2>1, <2>2, Zenon
  <2> QED
    BY <2>2, <2>3, Zenon DEF HasElement
<1>9. \A kind : HasModifier(col, kind) => HasModifier(back, kind)
  BY <1>1, <1>2, <1>3, <1>7, <1>8 DEF HasModifier
<1>10. \A j \in 1..Len(read) : \E i \in 1..n :
         \/ read[j].kind = mods[i].kind /\ read[j] = pieces[i][1]
         \/ /\ mods[i].kind = "DEFAULT"
            /\ read[j].kind \in Range(mods[i].text.parts) \cup {"other"}
            /\ \E l \in 1..(j - 1) : read[l].kind = "DEFAULT"
  <2> SUFFICES ASSUME NEW j \in 1..Len(read)
               PROVE  \E i \in 1..n :
                        \/ read[j].kind = mods[i].kind /\ read[j] = pieces[i][1]
                        \/ /\ mods[i].kind = "DEFAULT"
                           /\ read[j].kind \in Range(mods[i].text.parts) \cup {"other"}
                           /\ \E l \in 1..(j - 1) : read[l].kind = "DEFAULT"
    OBVIOUS
  <2>1. PICK i \in 1..n : \E k \in 1..Len(pieces[i]) :
          /\ read[j] = pieces[i][k]
          /\ k > 1 => \E l \in 1..(j - 1) : read[l] = pieces[i][1]
    BY <1>6a, Zenon DEF FromPiece
  <2>2. PICK p : p = pieces[i]
    OBVIOUS
  <2>3. PICK k \in 1..Len(p) :
          /\ read[j] = p[k]
          /\ k > 1 => \E l \in 1..(j - 1) : read[l] = p[1]
    BY <2>1, <2>2
  <2>4. /\ Len(p) \in Nat /\ p[1].kind = mods[i].kind
        /\ k > 1 => mods[i].kind = "DEFAULT" /\ p[k].kind \in Range(mods[i].text.parts) \cup {"other"}
    BY <1>4a, <2>2 DEF SplitOf
  <2>5. k = 1 \/ k > 1
    BY <2>4
  <2>6. CASE k = 1
    <3>1. read[j].kind = mods[i].kind /\ read[j] = pieces[i][1]
      BY <2>2, <2>3, <2>4, <2>6, Zenon
    <3> QED
      BY <3>1
  <2>7. CASE k > 1
    <3>1. mods[i].kind = "DEFAULT" /\ read[j].kind \in Range(mods[i].text.parts) \cup {"other"}
      BY <2>3, <2>4, <2>7, Zenon
    <3>2. PICK l \in 1..(j - 1) : read[l] = p[1]
      BY <2>3, <2>7, Zenon
    <3>3. read[l].kind = "DEFAULT"
      BY <2>4, <3>1, <3>2
    <3> QED
      BY <3>1, <3>3
  <2> QED
    BY <2>5, <2>6, <2>7
<1>11. HasModifier(back, "DEFAULT") => HasModifier(col, "DEFAULT")
  <2> SUFFICES ASSUME NEW j \in 1..Len(read), read[j].kind = "DEFAULT"
               PROVE  \E i \in 1..n : mods[i].kind = "DEFAULT"
    BY <1>1, <1>2, <1>3, <1>7, Zenon DEF HasModifier
  <2> QED
    BY <1>10
<1>12. IsKey(back) => IsKey(col)
  <2> SUFFICES ASSUME NEW j \in 1..Len(read), read[j].kind = PrimaryKey
               PROVE  \E i \in 1..n : mods[i].kind = PrimaryKey
    BY <1>1, <1>2, <1>3, <1>7, Zenon DEF IsKey, HasModifier
  <2>0. PrimaryKey # "other"
    BY Zenon DEF PrimaryKey
  <2>1. \A i \in 1..n : PrimaryKey \notin Range(mods[i].text.parts)
    <3>1. \A i \in 1..n : mods[i] \in Range(mods)
      BY <1>2 DEF Range
    <3> QED
      BY <1>1, <3>1
  <2> QED
    BY <1>10, <2>0, <2>1
<1>13. HasModifier(back, NotNull) => HasModifier(col, NotNull) \/ HasModifier(col, "DEFAULT")
  <2> SUFFICES ASSUME NEW j \in 1..Len(read), read[j].kind = NotNull
               PROVE  \E i \in 1..n : mods[i].kind = NotNull \/ mods[i].kind = "DEFAULT"
    BY <1>1, <1>2, <1>3, <1>7 DEF HasModifier
  <2> QED
    BY <1>10
<1>14. ASSUME ~CommaDefault(col)
       PROVE  back = col
  <2>1. \A i \in 1..n : mods[i].kind # "DEFAULT" \/ ~(Len(mods[i].text.parts) > 1)
    BY <1>1, <1>2, <1>14 DEF CommaDefault
  <2>2. \A i \in 1..n : pieces[i] = <<mods[i]>>
    BY <1>4a, <2>1, Zenon DEF SplitOf
  <2>3. pieces = [i \in DOMAIN mods |-> <<mods[i]>>]
    BY <1>1, <1>2, <2>2
  <2>4. read = mods
    BY <1>1, <1>2, <2>3, FlattenSingles
  <2> QED
    BY <1>1, <2>4 DEF ReadModifiers
<1>15. ASSUME DefaultThrows(back)
       PROVE  Default(Nothing) \in Range(col.modifiers)
  <2>1. HasModifier(back, "DEFAULT") /\ DefaultText(back) = Nothing
    BY <1>15 DEF DefaultThrows
  <2>2. PICK f \in 1..Len(read) : /\ read[f].kind = "DEFAULT"
                                  /\ \A i \in 1..(f - 1) : read[i].kind # "DEFAULT"
                                  /\ read[f].text = Nothing
    <3>1. back.modifiers \in Seq(AModifier)
      BY <1>3, <1>6
    <3> QED
      BY <1>3, <2>1, <3>1, FirstDefault
  <2>3. PICK i \in 1..n : read[f].kind = mods[i].kind /\ read[f] = pieces[i][1]
    BY <1>10, <2>2
  <2>4. Nothing.marks = <<>>
    BY Zenon DEF Nothing, Bare
  <2>5. pieces[i][1].text.marks # <<"open">>
    <3>1. <<>> # <<"open">>
      OBVIOUS
    <3> QED
      BY <2>2, <2>3, <2>4, <3>1, Zenon
  <2>6. pieces[i] = <<mods[i]>>
    BY <1>4a, <2>5, Zenon DEF SplitOf
  <2>7. read[f] = mods[i]
    BY <2>3, <2>6
  <2>8. mods[i] = Default(Nothing)
    <3>1. mods[i] \in AModifier /\ mods[i].kind = "DEFAULT" /\ mods[i].text = Nothing
      BY <1>2, <2>2, <2>7
    <3>2. mods[i] = [kind |-> mods[i].kind, text |-> mods[i].text]
      BY <3>1 DEF AModifier
    <3> QED
      BY <3>1, <3>2 DEF Default
  <2> QED
    BY <1>1, <1>2, <2>8 DEF Range
<1> QED
  BY <1>3, <1>6, <1>9, <1>11, <1>12, <1>13, <1>14, <1>15 DEF KeptColumn, IsKey

-----------------------------------------------------------------------------
(* The schema: the same columns in the same places before and after a restart *)

(* What StatementAssumption says of a schema. *)
Declarable(s) ==
  /\ s \in Seq(Column)
  /\ \E k \in 1..Len(s) : \A i \in 1..Len(s) : IsKey(s[i]) <=> i = k
  /\ \A i \in 1..Len(s) : \A m \in Range(s[i].modifiers) : PrimaryKey \notin Range(m.text.parts)
  /\ \A i, j \in 1..Len(s) : s[i].name = s[j].name => i = j

LEMMA SchemasDeclarable ==
  ASSUME NEW s \in Schemas
  PROVE  Declarable(s)
<1>1. /\ s \in Seq(Column)
      /\ Cardinality({i \in DOMAIN s : IsKey(s[i])}) = 1
      /\ \A i \in DOMAIN s : \A m \in Range(s[i].modifiers) : PrimaryKey \notin Range(m.text.parts)
      /\ \A i, j \in DOMAIN s : s[i].name = s[j].name => i = j
  BY StatementAssumption
<1>2. PICK D : D = 1..Len(s)
  OBVIOUS
<1>3. DOMAIN s = D /\ Len(s) \in Nat
  BY <1>1, <1>2, LenProperties
<1>4. \E k \in D : \A i \in D : IsKey(s[i]) <=> i = k
  <2>1. PICK K : K = {i \in D : IsKey(s[i])}
    OBVIOUS
  <2>2. IsFiniteSet(D)
    BY <1>2, <1>3, FS_Interval
  <2>3. IsFiniteSet(K) /\ Cardinality(K) = 1
    <3>1. K \subseteq D
      BY <2>1
    <3>2. K = {i \in DOMAIN s : IsKey(s[i])}
      BY <1>3, <2>1
    <3> QED
      BY <1>1, <2>2, <3>1, <3>2, FS_Subset
  <2>4. PICK k : K = {k}
    BY <2>3, FS_Singleton
  <2> QED
    BY <2>1, <2>4
<1> QED
  BY <1>1, <1>2, <1>3, <1>4, Zenon DEF Declarable

(* The columns a restart leaves are the declared ones, as KeptColumn says. *)
SchemaInv ==
  /\ declared \in Schemas
  /\ Len(schema) = Len(declared)
  /\ DOMAIN schema = DOMAIN declared
  /\ \A c \in DOMAIN declared : KeptColumn(declared[c], schema[c])

LEMMA ColumnTyped ==
  ASSUME NEW s \in Seq(Column), NEW i \in 1..Len(s)
  PROVE  s[i] \in [name: STRING, modifiers: Seq(AModifier)]
<1>1. s[i] \in Column
  BY ElementOfSeq
<1>2. Seq([kind: STRING, text: Text(STRING)]) \subseteq Seq(AModifier)
  <2>1. STRING \subseteq Words
    BY Zenon DEF Words
  <2>2. PICK S : S = STRING
    OBVIOUS
  <2>3. Seq([kind: S, text: Text(S)]) \subseteq Seq(AModifier)
    BY <2>1, <2>2, ColumnsTyped
  <2> QED
    BY <2>2, <2>3
<1>3. PICK N, M, A : N = STRING /\ M = Seq([kind: STRING, text: Text(STRING)]) /\ A = Seq(AModifier)
  OBVIOUS
<1>4. M \subseteq A
  BY <1>2, <1>3, Zenon
<1>5. s[i] \in [name: N, modifiers: M]
  BY <1>1, <1>3, Zenon DEF Column
<1>6. s[i] \in [name: N, modifiers: A]
  BY <1>4, <1>5
<1> QED
  BY <1>3, <1>6, Zenon

(* A column that is as it was declared is kept. *)
LEMMA DeclaredKept ==
  ASSUME NEW col, col.modifiers \in Seq(AModifier)
  PROVE  KeptColumn(col, col)
<1>1. ASSUME DefaultThrows(col)
      PROVE  Default(Nothing) \in Range(col.modifiers)
  <2>1. HasModifier(col, "DEFAULT") /\ DefaultText(col) = Nothing
    BY <1>1 DEF DefaultThrows
  <2>2. PICK f \in 1..Len(col.modifiers) :
               col.modifiers[f].kind = "DEFAULT" /\ col.modifiers[f].text = Nothing
    BY <2>1, FirstDefault
  <2>3. PICK m : m = col.modifiers[f]
    OBVIOUS
  <2>4. m \in AModifier /\ m \in Range(col.modifiers)
    BY <2>3, ElementOfSeq, LenProperties DEF Range
  <2>5. m = [kind |-> m.kind, text |-> m.text]
    BY <2>4 DEF AModifier
  <2>6. m = Default(Nothing)
    BY <2>2, <2>3, <2>5 DEF Default
  <2> QED
    BY <2>4, <2>6
<1> QED
  BY <1>1 DEF KeptColumn

LEMMA InitSchema == StatementInit => SchemaInv
<1> SUFFICES ASSUME StatementInit
             PROVE  SchemaInv
  OBVIOUS
<1>1. declared \in Schemas /\ schema = declared
  BY DEF StatementInit
<1>2. declared \in Seq(Column)
  BY <1>1, SchemasDeclarable DEF Declarable
<1>3. DOMAIN declared = 1..Len(declared)
  BY <1>2, LenProperties
<1>4. \A c \in 1..Len(declared) : declared[c].modifiers \in Seq(AModifier)
  BY <1>2, ColumnTyped
<1>5. \A c \in 1..Len(declared) : KeptColumn(declared[c], schema[c])
  BY <1>1, <1>4, DeclaredKept
<1> QED
  BY <1>1, <1>3, <1>5 DEF SchemaInv

LEMMA RestartKeepsColumns ==
  ASSUME SchemaInv, Restart
  PROVE  SchemaInv'
<1>1. declared \in Schemas /\ declared' = declared /\ schema' = ReadBack(declared)
  BY DEF SchemaInv, Restart
<1>2. /\ declared \in Seq(Column)
      /\ \A i \in 1..Len(declared) : \A m \in Range(declared[i].modifiers) :
           PrimaryKey \notin Range(m.text.parts)
  BY <1>1, SchemasDeclarable DEF Declarable
<1>3. PICK n : n = Len(declared)
  OBVIOUS
<1>4. n \in Nat /\ DOMAIN declared = 1..n
  BY <1>2, <1>3, LenProperties
<1>5. PICK back : back = ReadBack(declared)
  OBVIOUS
<1>6. back = [i \in 1..n |-> [declared[i] EXCEPT !.modifiers = ReadModifiers(@)]]
  BY <1>4, <1>5, Zenon DEF ReadBack
<1>7. \A i \in 1..n : back[i] = [declared[i] EXCEPT !.modifiers = ReadModifiers(@)]
  BY <1>6
<1>8. Len(back) = n /\ DOMAIN back = 1..n
  <2>1. DOMAIN back = 1..n /\ back = [i \in 1..n |-> back[i]]
    BY <1>6
  <2> QED
    BY <1>4, <2>1, FunctionIsSeq
<1>9. \A i \in 1..n : KeptColumn(declared[i], back[i])
  <2> SUFFICES ASSUME NEW i \in 1..n
               PROVE  KeptColumn(declared[i], back[i])
    OBVIOUS
  <2>1. PICK N : N = STRING
    OBVIOUS
  <2>2. declared[i] \in [name: N, modifiers: Seq(AModifier)]
    BY <1>2, <1>3, <2>1, ColumnTyped
  <2>3. \A m \in Range(declared[i].modifiers) : PrimaryKey \notin Range(m.text.parts)
    BY <1>2, <1>3, Zenon
  <2> QED
    BY <1>7, <2>2, <2>3, ReadBackKeeps
<1>10. schema' = back
  BY <1>1, <1>5
<1> QED
  BY <1>1, <1>3, <1>4, <1>8, <1>9, <1>10, Zenon DEF SchemaInv

(* Where the columns are found, n of them with the key at place k, by position and by name. *)
Found(n, k) ==
  /\ n \in Nat /\ k \in 1..n
  /\ Len(declared) = n /\ DOMAIN declared = 1..n
  /\ Len(schema) = n /\ DOMAIN schema = 1..n
  /\ KeyIndex = k
  /\ \A c \in 1..n : IsKey(declared[c]) <=> c = k
  /\ DOMAIN ColumnNames = 1..n
  /\ \A c \in 1..n : ColumnNames[c] = declared[c].name /\ schema[c].name = declared[c].name
  /\ DeclaredNames = {declared[c].name : c \in 1..n}
  /\ \A name : SchemaIndex(name) \in 0..n /\ (SchemaIndex(name) = 0 <=> name \notin DeclaredNames)
  /\ \A name : \A c \in 1..n : SchemaIndex(name) = c <=> name = declared[c].name
  /\ \A c \in 1..n : Place(declared[c].name) = c

LEMMA ColumnsFound ==
  ASSUME SchemaInv
  PROVE  \E n, k : Found(n, k)
<1>1. /\ declared \in Seq(Column)
      /\ \E k \in 1..Len(declared) : \A i \in 1..Len(declared) : IsKey(declared[i]) <=> i = k
      /\ \A i, j \in 1..Len(declared) : declared[i].name = declared[j].name => i = j
  BY SchemasDeclarable DEF Declarable, SchemaInv
<1>2. PICK n : n = Len(declared)
  OBVIOUS
<1>3. /\ n \in Nat /\ DOMAIN declared = 1..n /\ Len(schema) = n /\ DOMAIN schema = 1..n
      /\ \A c \in 1..n : KeptColumn(declared[c], schema[c])
  <2>1. n \in Nat /\ DOMAIN declared = 1..n
    BY <1>1, <1>2, LenProperties
  <2> QED
    BY <1>2, <2>1, Zenon DEF SchemaInv
<1>4. PICK k \in 1..n : \A i \in 1..n : IsKey(declared[i]) <=> i = k
  BY <1>1, <1>2, Zenon
<1>5. \A c \in 1..n : /\ schema[c].name = declared[c].name
                      /\ IsKey(schema[c]) <=> IsKey(declared[c])
  BY <1>3, Zenon DEF KeptColumn
<1>6. KeyIndex = k
  <2>1. PICK I, r : I = {i \in 1..n : IsKey(schema[i])} /\ r = (IF I # {} THEN Min(I) ELSE 0)
    OBVIOUS
  <2>2. KeyIndex = r
    BY <1>3, <2>1, Zenon DEF KeyIndex, SelectInSeq
  <2>3. I \in SUBSET (1..n) /\ k \in I /\ \A i \in I : i = k
    BY <1>4, <1>5, <2>1
  <2>4. r \in I
    <3>1. r = (IF I # {} THEN Min(I) ELSE 0)
      BY <2>1
    <3> QED
      BY <1>3, <2>3, <3>1, FirstPlace
  <2> QED
    BY <2>2, <2>3, <2>4
<1>7. PICK names : names = ColumnNames
  OBVIOUS
<1>8. names = [i \in 1..n |-> schema[i].name]
  BY <1>3, <1>7, Zenon DEF ColumnNames
<1>9. DOMAIN names = 1..n /\ \A i \in 1..n : names[i] = declared[i].name
  BY <1>5, <1>8
<1>10. Len(names) = n
  <2>1. names = [i \in 1..n |-> names[i]]
    BY <1>8
  <2> QED
    BY <1>3, <2>1, FunctionIsSeq
<1>11. \A i, j \in 1..n : names[i] = names[j] => i = j
  <2>1. \A i, j \in 1..n : declared[i].name = declared[j].name => i = j
    BY <1>1, <1>2, Zenon
  <2> QED
    BY <1>9, <2>1
<1>12. DeclaredNames = {declared[c].name : c \in 1..n}
  BY <1>3, Zenon DEF DeclaredNames
<1>13. \A name : name \in DeclaredNames <=> \E c \in 1..n : names[c] = name
  BY <1>9, <1>12
<1>14. ASSUME NEW name
       PROVE  \/ name \notin DeclaredNames /\ SchemaIndex(name) = 0
              \/ SchemaIndex(name) \in 1..n /\ names[SchemaIndex(name)] = name
  <2>1. PICK I, r : I = {i \in 1..n : names[i] = name} /\ r = (IF I # {} THEN Min(I) ELSE 0)
    OBVIOUS
  <2>2. SchemaIndex(name) = r
    BY <1>7, <1>10, <2>1, Zenon DEF SchemaIndex, SelectInSeq
  <2>3. I \in SUBSET (1..n)
    BY <2>1
  <2>4. (I = {} /\ r = 0) \/ r \in I
    <3>1. r = (IF I # {} THEN Min(I) ELSE 0)
      BY <2>1
    <3> QED
      BY <1>3, <2>3, <3>1, FirstPlace
  <2>5. I = {} => name \notin DeclaredNames
    BY <1>13, <2>1
  <2> QED
    BY <2>1, <2>2, <2>4, <2>5
<1>15. 0 \notin 1..n /\ 0 \in 0..n /\ \A c \in 1..n : c \in 0..n
  BY <1>3
<1>16. \A name : /\ SchemaIndex(name) \in 0..n
                 /\ SchemaIndex(name) = 0 <=> name \notin DeclaredNames
  BY <1>13, <1>14, <1>15, Zenon
<1>17. \A name : \A c \in 1..n : SchemaIndex(name) = c <=> name = names[c]
  BY <1>11, <1>13, <1>14, <1>15, Zenon
<1>18. \A c \in 1..n : Place(declared[c].name) = c
  <2> SUFFICES ASSUME NEW c \in 1..n
               PROVE  Place(declared[c].name) = c
    OBVIOUS
  <2>1. \A i : (i \in 1..n /\ declared[i].name = declared[c].name) <=> i = c
    BY <1>9, <1>11
  <2>2. (CHOOSE i : i \in 1..n /\ declared[i].name = declared[c].name) = (CHOOSE i : i = c)
    BY <2>1
  <2>3. Place(declared[c].name) = CHOOSE i \in 1..n : declared[i].name = declared[c].name
    BY <1>3, Zenon DEF Place
  <2> QED
    BY <2>2, <2>3
<1>19. /\ \A c \in 1..n : ColumnNames[c] = declared[c].name
       /\ \A name : \A c \in 1..n : SchemaIndex(name) = c <=> name = declared[c].name
       /\ DOMAIN ColumnNames = 1..n
  BY <1>7, <1>9, <1>17, Zenon
<1>20. Found(n, k)
  BY <1>2, <1>3, <1>4, <1>5, <1>6, <1>12, <1>16, <1>18, <1>19, Zenon DEF Found
<1> QED
  BY <1>20, Zenon

(* The rules of a column survive, and so does its DEFAULT, except one with a comma in it. *)
RulesKept(n) ==
  \A c \in 1..n :
    /\ HasEmptyLiteralRuleViolations(schema[c]) <=> HasEmptyLiteralRuleViolations(declared[c])
    /\ DefaultThrows(schema[c]) => Default(Nothing) \in Range(declared[c].modifiers)
    /\ ~CommaDefault(declared[c]) => schema[c] = declared[c]

LEMMA ColumnsKeepRules ==
  ASSUME SchemaInv, NEW n, NEW k, Found(n, k)
  PROVE  RulesKept(n)
<1>1. /\ declared \in Seq(Column) /\ Len(declared) = n
      /\ \A c \in 1..n : KeptColumn(declared[c], schema[c])
  <2>1. declared \in Seq(Column)
    BY SchemasDeclarable DEF Declarable, SchemaInv
  <2> QED
    BY <2>1, Zenon DEF SchemaInv, Found
<1> SUFFICES ASSUME NEW c \in 1..n
             PROVE  /\ HasEmptyLiteralRuleViolations(schema[c])
                         <=> HasEmptyLiteralRuleViolations(declared[c])
                    /\ DefaultThrows(schema[c]) => Default(Nothing) \in Range(declared[c].modifiers)
                    /\ ~CommaDefault(declared[c]) => schema[c] = declared[c]
  BY Zenon DEF RulesKept
<1>2. KeptColumn(declared[c], schema[c])
  BY <1>1, Zenon
<1>3. HasEmptyLiteralRuleViolations(schema[c]) <=> HasEmptyLiteralRuleViolations(declared[c])
  BY <1>2, Zenon DEF KeptColumn, HasEmptyLiteralRuleViolations
<1> QED
  BY <1>2, <1>3, Zenon DEF KeptColumn

-----------------------------------------------------------------------------
(* Rows: the stored record has the values of the denoted row *)

KeyOf(columns) == CHOOSE c \in DOMAIN columns : IsKey(columns[c])
DeclaredKey == KeyOf(declared)

(* The place of column c in a record whose key is column k. *)
PlaceIn(k, c) == IF c = k THEN 1 ELSE IF c < k THEN c + 1 ELSE c

IsRecord(row) == row.type \in RecordTypes /\ DOMAIN row.values = DOMAIN declared

IsMeaning(meant) == DOMAIN meant = DeclaredNames

(* The value of column c is the one that is meant, or an UPDATE may have spoilt it. *)
MayBeSpoilt(row, x) == row.type = "UPDATE" /\ (DeclaredKey # 1 \/ ~IsUnmarked(x))

ValueAgrees(row, meant, c) ==
  \/ row.values[PlaceIn(DeclaredKey, c)] = meant[declared[c].name]
  \/ MayBeSpoilt(row, meant[declared[c].name])

(* The four invariants of the rows: the shape of the records, that of the meanings, and how they *)
(* agree on the key and on all columns.                                                           *)
Related(kind, row, meant) ==
  /\ kind = "record" => IsRecord(row)
  /\ kind = "meaning" => IsMeaning(meant)
  /\ kind = "key" => ValueAgrees(row, meant, DeclaredKey)
  /\ kind = "all" =>
       \A c \in DOMAIN declared : CommaDefault(declared[c]) \/ ValueAgrees(row, meant, c)

RowsAgree(kind, rows, meanings) ==
  /\ IsSequence(rows) /\ IsSequence(meanings)
  /\ Len(rows) = Len(meanings)
  /\ \A i \in 1..Len(rows) : Related(kind, rows[i], meanings[i])

LEMMA RowsJoin ==
  ASSUME NEW kind, NEW s, NEW d, NEW t, NEW e, RowsAgree(kind, s, d), RowsAgree(kind, t, e)
  PROVE  RowsAgree(kind, s \o t, d \o e)
<1>1. PICK m, n : m = Len(s) /\ n = Len(t)
  OBVIOUS
<1>2. /\ IsSequence(s) /\ IsSequence(d) /\ IsSequence(t) /\ IsSequence(e)
      /\ Len(s) = m /\ Len(d) = m /\ Len(t) = n /\ Len(e) = n
      /\ \A i \in 1..m : Related(kind, s[i], d[i])
      /\ \A i \in 1..n : Related(kind, t[i], e[i])
  BY <1>1, Zenon DEF RowsAgree
<1>3. m \in Nat /\ n \in Nat
  BY <1>2, Zenon DEF IsSequence
<1>4. PICK u, v : u = s \o t /\ v = d \o e
  OBVIOUS
<1>5. /\ IsSequence(u) /\ Len(u) = m + n
      /\ \A i \in 1..m : u[i] = s[i]
      /\ \A i \in 1..n : u[m + i] = t[i]
  <2>1. /\ IsSequence(s \o t) /\ Len(s \o t) = Len(s) + Len(t)
        /\ \A i \in 1..Len(s) : (s \o t)[i] = s[i]
        /\ \A i \in 1..Len(t) : (s \o t)[Len(s) + i] = t[i]
    <3>1. IsSequence(s) /\ IsSequence(t)
      BY <1>2
    <3> QED
      BY <3>1, SequencesJoin
  <2> QED
    BY <1>2, <1>4, <2>1, Zenon
<1>6. /\ IsSequence(v) /\ Len(v) = m + n
      /\ \A i \in 1..m : v[i] = d[i]
      /\ \A i \in 1..n : v[m + i] = e[i]
  <2>1. /\ IsSequence(d \o e) /\ Len(d \o e) = Len(d) + Len(e)
        /\ \A i \in 1..Len(d) : (d \o e)[i] = d[i]
        /\ \A i \in 1..Len(e) : (d \o e)[Len(d) + i] = e[i]
    <3>1. IsSequence(d) /\ IsSequence(e)
      BY <1>2
    <3> QED
      BY <3>1, SequencesJoin
  <2> QED
    BY <1>2, <1>4, <2>1, Zenon
<1>7. \A i \in 1..(m + n) : i \in 1..m \/ \E j \in 1..n : i = m + j
  <2>1. \A i \in 1..(m + n) : ~(i \in 1..m) => (i - m) \in 1..n /\ i = m + (i - m)
    BY <1>3
  <2> QED
    BY <2>1
<1>8. \A i \in 1..(m + n) : Related(kind, u[i], v[i])
  <2> SUFFICES ASSUME NEW i \in 1..(m + n)
               PROVE  Related(kind, u[i], v[i])
    OBVIOUS
  <2>1. CASE i \in 1..m
    BY <1>2, <1>5, <1>6, <2>1, Zenon
  <2>2. CASE \E j \in 1..n : i = m + j
    <3>1. PICK j \in 1..n : i = m + j
      BY <2>2
    <3>2. u[i] = t[j] /\ v[i] = e[j]
      BY <1>5, <1>6, <3>1, Zenon
    <3> QED
      BY <1>2, <3>2, Zenon
  <2> QED
    BY <1>7, <2>1, <2>2
<1> QED
  BY <1>4, <1>5, <1>6, <1>8, Zenon DEF RowsAgree

(* Rows that are built one for one with their meanings. *)
LEMMA RowsBuilt ==
  ASSUME NEW kind, NEW n \in Nat, NEW t, NEW e, t = [k \in 1..n |-> t[k]], e = [k \in 1..n |-> e[k]],
         \A k \in 1..n : Related(kind, t[k], e[k])
  PROVE  RowsAgree(kind, t, e)
<1>1. Len(t) = n /\ DOMAIN t = 1..n
  BY FunctionIsSeq
<1>2. Len(e) = n /\ DOMAIN e = 1..n
  BY FunctionIsSeq
<1> QED
  BY <1>1, <1>2, Zenon DEF RowsAgree, IsSequence

LEMMA RowAppended ==
  ASSUME NEW kind, NEW s, NEW d, RowsAgree(kind, s, d), NEW x, NEW y, Related(kind, x, y)
  PROVE  RowsAgree(kind, Append(s, x), Append(d, y))
<1>1. PICK t, e : t = [k \in 1..1 |-> x] /\ e = [k \in 1..1 |-> y]
  OBVIOUS
<1>2. RowsAgree(kind, t, e)
  <2>1. /\ t = [k \in 1..1 |-> t[k]] /\ e = [k \in 1..1 |-> e[k]]
        /\ \A k \in 1..1 : t[k] = x /\ e[k] = y
    BY <1>1
  <2>2. 1 \in Nat
    OBVIOUS
  <2> QED
    BY <2>1, <2>2, RowsBuilt
<1>3. RowsAgree(kind, s \o t, d \o e)
  BY <1>2, RowsJoin
<1>4. ASSUME NEW f, IsSequence(f), NEW z, NEW g, g = [k \in 1..1 |-> z]
      PROVE  Append(f, z) = f \o g
  <2>1. f \in Seq({f[i] : i \in 1..Len(f)})
    BY <1>4, FunctionIsSeq DEF IsSequence
  <2>2. PICK S : S = {f[i] : i \in 1..Len(f)} \cup {z}
    OBVIOUS
  <2>3. f \in Seq(S) /\ z \in S
    BY <2>1, <2>2, SeqMonotonic
  <2>4. g = <<z>>
    BY <1>4
  <2> QED
    BY <2>3, <2>4
<1>5. IsSequence(s) /\ IsSequence(d)
  BY DEF RowsAgree
<1> QED
  BY <1>1, <1>3, <1>4, <1>5

-----------------------------------------------------------------------------
(* The normalizer: where a column's value is in the list of a statement *)

LEMMA ColumnsListed ==
  ASSUME NEW n, NEW k, Found(n, k), NEW stmt \in Inserts
  PROVE  /\ IsSequence(UserColumns(stmt))
         /\ stmt.columns = NoList =>
              /\ UserColumns(stmt) = ColumnNames /\ Len(ColumnNames) = n
              /\ \A i \in 1..n : UserColumns(stmt)[i] = declared[i].name
         /\ stmt.columns # NoList => UserColumns(stmt) = stmt.columns
<1>1. PICK names : names = ColumnNames
  OBVIOUS
<1>2. /\ n \in Nat /\ DOMAIN names = 1..n
      /\ \A c \in 1..n : names[c] = declared[c].name
  BY <1>1, Zenon DEF Found
<1>3. names = [c \in 1..n |-> names[c]]
  <2>1. names = [c \in DOMAIN schema |-> schema[c].name]
    BY <1>1, Zenon DEF ColumnNames
  <2>2. names = [c \in DOMAIN names |-> names[c]]
    BY <2>1
  <2> QED
    BY <1>2, <2>2, Zenon
<1>4. Len(names) = n
  BY <1>2, <1>3, FunctionIsSeq
<1>5. IsSequence(names)
  BY <1>2, <1>3, <1>4, Zenon DEF IsSequence
<1>6. CASE stmt.columns = NoList
  <2>1. UserColumns(stmt) = names
    BY <1>1, <1>6, Zenon DEF UserColumns
  <2> QED
    BY <1>1, <1>2, <1>4, <1>5, <1>6, <2>1, Zenon
<1>7. CASE stmt.columns # NoList
  <2>1. stmt.columns = NoList \/ stmt.columns \in Seq(STRING)
    BY StatementAssumption, Zenon
  <2>2. PICK s, N : s = stmt.columns /\ N = STRING
    OBVIOUS
  <2>3. s \in Seq(N)
    BY <1>7, <2>1, <2>2, Zenon
  <2>4. DOMAIN s = 1..Len(s) /\ Len(s) \in Nat
    BY <2>3, LenProperties
  <2>5. s = [i \in 1..Len(s) |-> s[i]]
    BY <2>3
  <2>6. IsSequence(s)
    BY <2>4, <2>5, Zenon DEF IsSequence
  <2>7. UserColumns(stmt) = s
    BY <1>7, <2>2, Zenon DEF UserColumns
  <2> QED
    BY <1>7, <2>2, <2>6, <2>7, Zenon
<1> QED
  BY <1>6, <1>7

(* All columns of a list are known if they are CREATE's, and then the first of them are. *)
LEMMA KnownColumns ==
  ASSUME NEW n, NEW k, Found(n, k), NEW columns, IsSequence(columns)
  PROVE  /\ AllKnown(columns) <=> \A i \in 1..Len(columns) : columns[i] \in DeclaredNames
         /\ AllKnown(columns) => \A j \in 1..Len(columns) : AllKnown(SubSeq(columns, 1, j))
<1>1. \A name : SchemaIndex(name) = 0 <=> name \notin DeclaredNames
  BY Zenon DEF Found
<1>2. DOMAIN columns = 1..Len(columns) /\ Len(columns) \in Nat
  BY DEF IsSequence
<1>3. AllKnown(columns) <=> \A i \in 1..Len(columns) : columns[i] \in DeclaredNames
  <2>1. AllKnown(columns) <=> \A i \in 1..Len(columns) : SchemaIndex(columns[i]) # 0
    BY <1>2 DEF AllKnown
  <2> QED
    BY <1>1, <2>1
<1>4. ASSUME AllKnown(columns), NEW j \in 1..Len(columns)
      PROVE  AllKnown(SubSeq(columns, 1, j))
  <2>1. PICK S : S = DeclaredNames
    OBVIOUS
  <2>2. 1 \in Int /\ j \in Int /\ 1 <= j /\ j - 1 + 1 = j
    BY <1>2
  <2>3. \A i \in 1..j : i \in 1..Len(columns) /\ 1 + i - 1 = i
    BY <1>2
  <2>4. \A i \in 1..j : columns[i] \in S
    BY <1>3, <1>4, <2>1, <2>3, Zenon
  <2>5. PICK s : s = SubSeq(columns, 1, j)
    OBVIOUS
  <2>6. s \in Seq(S)
    BY <2>2, <2>4, <2>5, SubSeqProperties
  <2>7. \A i \in DOMAIN s : s[i] \in S
    BY <2>6
  <2> QED
    BY <1>1, <2>1, <2>5, <2>7, Zenon DEF AllKnown
<1> QED
  BY <1>3, <1>4

(* The last place of a column in a list of columns; 0 if it is not in it. *)
IsLastPlace(columns, name, j) ==
  \/ j = 0 /\ \A i \in 1..Len(columns) : columns[i] # name
  \/ /\ j \in 1..Len(columns) /\ columns[j] = name
     /\ \A i \in 1..Len(columns) : columns[i] = name => i <= j

LastIndex(columns, c) == SelectLastInSeq(columns, LAMBDA name : SchemaIndex(name) = c)

LEMMA LastListed ==
  ASSUME NEW n, NEW k, Found(n, k), NEW columns, IsSequence(columns), NEW c \in 1..n
  PROVE  IsLastPlace(columns, declared[c].name, LastIndex(columns, c))
<1>1. PICK w, x : w = Len(columns) /\ x = declared[c].name
  OBVIOUS
<1>2. w \in Nat /\ \A name : SchemaIndex(name) = c <=> name = x
  BY <1>1, Zenon DEF IsSequence, Found
<1>3. PICK I, r : I = {i \in 1..w : SchemaIndex(columns[i]) = c} /\ r = (IF I # {} THEN Max(I) ELSE 0)
  OBVIOUS
<1>4. r = LastIndex(columns, c)
  BY <1>1, <1>3, Zenon DEF LastIndex, SelectLastInSeq
<1>5. I \in SUBSET (1..w) /\ \A i \in 1..w : i \in I <=> columns[i] = x
  BY <1>2, <1>3
<1>6. \/ I = {} /\ r = 0
      \/ r \in I /\ r \in 1..w /\ \A i \in I : i <= r
  <2>1. r = (IF I # {} THEN Max(I) ELSE 0)
    BY <1>3
  <2> QED
    BY <1>2, <1>5, <2>1, LastPlace
<1>7. IsLastPlace(columns, x, r)
  <2>1. CASE I = {} /\ r = 0
    BY <1>1, <1>5, <2>1 DEF IsLastPlace
  <2>2. CASE r \in I /\ r \in 1..w /\ \A i \in I : i <= r
    BY <1>1, <1>5, <2>2 DEF IsLastPlace
  <2> QED
    BY <1>6, <2>1, <2>2
<1> QED
  BY <1>1, <1>4, <1>7

LEMMA ListedLast ==
  ASSUME NEW n, NEW k, Found(n, k), NEW stmt \in Inserts, NEW c \in 1..n
  PROVE  ListedAt(stmt, declared[c].name) = LastIndex(UserColumns(stmt), c)
<1>1. PICK columns, w, x, r :
        /\ columns = UserColumns(stmt) /\ w = Len(columns) /\ x = declared[c].name
        /\ r = LastIndex(columns, c)
  OBVIOUS
<1>2. IsSequence(columns) /\ w \in Nat
  <2>1. IsSequence(columns)
    BY <1>1, ColumnsListed
  <2> QED
    BY <1>1, <2>1, Zenon DEF IsSequence
<1>3. IsLastPlace(columns, x, r)
  <2>1. IsLastPlace(columns, declared[c].name, LastIndex(columns, c))
    BY <1>2, LastListed
  <2> QED
    BY <1>1, <2>1, Zenon
<1>4. CASE stmt.columns = NoList
  <2>1. w = n /\ \A i \in 1..n : columns[i] = declared[i].name
    BY <1>1, <1>4, ColumnsListed
  <2>2. Place(x) = c /\ \A i \in 1..n : declared[i].name = x <=> i = c
    <3>1. /\ \A name : \A d \in 1..n : SchemaIndex(name) = d <=> name = declared[d].name
          /\ Place(x) = c
      BY <1>1, Zenon DEF Found
    <3>2. SchemaIndex(x) = c
      BY <1>1, <3>1, Zenon
    <3> QED
      BY <3>1, <3>2, Zenon
  <2>3. r = c
    BY <1>1, <1>3, <2>1, <2>2, Zenon DEF IsLastPlace
  <2>4. ListedAt(stmt, x) = Place(x)
    BY <1>4, Zenon DEF ListedAt
  <2> QED
    BY <1>1, <2>2, <2>3, <2>4
<1>5. CASE stmt.columns # NoList
  <2>1. columns = stmt.columns /\ DOMAIN columns = 1..w
    <3>1. columns = stmt.columns
      BY <1>1, <1>5, ColumnsListed
    <3> QED
      BY <1>1, <1>2, <3>1, Zenon DEF IsSequence
  <2>2. PICK J : J = {0} \cup {j \in 1..w : columns[j] = x}
    OBVIOUS
  <2>3. ListedAt(stmt, x) = Max(J)
    BY <1>5, <2>1, <2>2, Zenon DEF ListedAt
  <2>4. /\ J \in SUBSET (0..w) /\ J # {} /\ 0 \in J
        /\ \A j \in J : j = 0 \/ (j \in 1..w /\ columns[j] = x)
        /\ \A j \in 1..w : columns[j] = x => j \in J
    BY <1>2, <2>2
  <2>5. Max(J) \in J /\ \A j \in J : j <= Max(J)
    BY <1>2, <2>4, MaxIsGreatest
  <2>6. PICK m : m = Max(J)
    OBVIOUS
  <2>7. m = r
    <3>1. CASE r = 0 /\ \A i \in 1..w : columns[i] # x
      BY <2>4, <2>5, <2>6, <3>1
    <3>2. CASE r \in 1..w /\ columns[r] = x /\ \A i \in 1..w : columns[i] = x => i <= r
      <4>1. r \in J /\ r <= m
        BY <2>4, <2>5, <2>6, <3>2
      <4>2. m \in 1..w /\ columns[m] = x
        <5>1. ~(r <= 0)
          BY <3>2
        <5> QED
          BY <2>4, <2>5, <2>6, <4>1, <5>1
      <4>3. m <= r
        BY <3>2, <4>2
      <4> QED
        BY <1>2, <3>2, <4>1, <4>2, <4>3
    <3> QED
      BY <1>1, <1>3, <3>1, <3>2 DEF IsLastPlace
  <2> QED
    BY <1>1, <2>3, <2>6, <2>7
<1> QED
  BY <1>4, <1>5

LEMMA MaskedColumns ==
  ASSUME NEW n, NEW k, Found(n, k), NEW stmt \in Inserts, AllKnown(UserColumns(stmt)),
         NEW c \in 1..n
  PROVE  c \in ProjectionMask(stmt) <=> LastIndex(UserColumns(stmt), c) # 0
<1>1. PICK columns, w, x : /\ columns = UserColumns(stmt) /\ w = Len(columns)
                           /\ x = declared[c].name
  OBVIOUS
<1>2. IsSequence(columns) /\ w \in Nat /\ DOMAIN columns = 1..w
  <2>1. IsSequence(columns)
    BY <1>1, ColumnsListed
  <2> QED
    BY <1>1, <2>1, Zenon DEF IsSequence
<1>3. \A j \in 1..w : AllKnown(SubSeq(columns, 1, j))
  BY <1>1, <1>2, KnownColumns
<1>4. \A name : SchemaIndex(name) = c <=> name = x
  BY <1>1, Zenon DEF Found
<1>5. c \in ProjectionMask(stmt) <=> \E i \in 1..w : columns[i] = x
  <2>1. ProjectionMask(stmt) =
          {SchemaIndex(columns[i]) : i \in {j \in 1..w : AllKnown(SubSeq(columns, 1, j))}}
    BY <1>1, <1>2, Zenon DEF ProjectionMask
  <2>2. {j \in 1..w : AllKnown(SubSeq(columns, 1, j))} = 1..w
    BY <1>3
  <2>3. ProjectionMask(stmt) = {SchemaIndex(columns[i]) : i \in 1..w}
    BY <2>1, <2>2, Zenon
  <2>4. c \in ProjectionMask(stmt) <=> \E i \in 1..w : SchemaIndex(columns[i]) = c
    BY <2>3
  <2> QED
    BY <1>4, <2>4
<1>6. IsLastPlace(columns, x, LastIndex(columns, c))
  BY <1>1, <1>2, LastListed
<1>7. 0 \notin 1..w
  BY <1>2
<1>8. LastIndex(columns, c) # 0 <=> \E i \in 1..w : columns[i] = x
  BY <1>1, <1>6, <1>7 DEF IsLastPlace
<1> QED
  BY <1>1, <1>5, <1>8

(* An EMPTY literal and a column without a value are one to the engine. *)
LEMMA Emptiness ==
  /\ IsEmpty(Nullptr) /\ IsEmpty(Empty)
  /\ \A lit \in Literal : IsEmpty(lit) => lit = Empty
<1>1. IsEmpty(Nullptr) /\ IsEmpty(Empty)
  BY DEF IsEmpty, Nullptr, Empty
<1>2. ASSUME NEW lit \in Literal, IsEmpty(lit)
      PROVE  lit = Empty
  <2>1. lit.type # "nullptr" /\ (lit.type = "EMPTY" => lit = Empty)
    BY DEF Literal
  <2> QED
    BY <1>2, <2>1 DEF IsEmpty
<1> QED
  BY <1>1, <1>2

LEMMA RecordTyped ==
  ASSUME NEW stmt \in Inserts
  PROVE  /\ Len(stmt.records) \in Nat /\ DOMAIN stmt.records = 1..Len(stmt.records)
         /\ \A i \in 1..Len(stmt.records) :
              LET values == stmt.records[i]
              IN  /\ Len(values) \in Nat /\ DOMAIN values = 1..Len(values)
                  /\ \A j \in 1..Len(values) : values[j] \in Literal
<1>1. PICK r, L : r = stmt.records /\ L = Literal
  OBVIOUS
<1>2. r \in Seq(Seq(L))
  BY <1>1, StatementAssumption, Zenon
<1>3. Len(r) \in Nat /\ DOMAIN r = 1..Len(r) /\ \A i \in 1..Len(r) : r[i] \in Seq(L)
  BY <1>2, LenProperties, ElementOfSeq
<1>4. \A s \in Seq(L) : Len(s) \in Nat /\ DOMAIN s = 1..Len(s) /\ \A j \in 1..Len(s) : s[j] \in L
  BY LenProperties, ElementOfSeq
<1> QED
  BY <1>1, <1>3, <1>4, Zenon

(* A literal of the normalized record is empty where the statement gives no value, and the given *)
(* value where there is one.                                                                       *)
ValueFound(stmt, values, c) ==
  LET name == declared[c].name
      lit == NormalizedRow(stmt, values)[c]
  IN  /\ IsEmpty(lit) <=> ~Given(stmt, values, name)
      /\ Given(stmt, values, name) =>
           /\ c \in ProjectionMask(stmt)
           /\ lit = values[ListedAt(stmt, name)]

LEMMA ValuesFound ==
  ASSUME NEW n, NEW k, Found(n, k), NEW stmt \in Inserts, AllKnown(UserColumns(stmt)),
         NEW i \in 1..Len(stmt.records), NEW c \in 1..n
  PROVE  ValueFound(stmt, stmt.records[i], c)
<1>1. PICK values, columns, x, j, lit :
        /\ values = stmt.records[i] /\ columns = UserColumns(stmt) /\ x = declared[c].name
        /\ j = LastIndex(columns, c)
        /\ lit = NormalizedRow(stmt, values)[c]
  OBVIOUS
<1>2. /\ Len(values) \in Nat /\ DOMAIN values = 1..Len(values)
      /\ \A h \in 1..Len(values) : values[h] \in Literal
  BY <1>1, RecordTyped, Zenon
<1>3. /\ ListedAt(stmt, x) = j
      /\ c \in ProjectionMask(stmt) <=> j # 0
  BY <1>1, ListedLast, MaskedColumns
<1>4. lit = IF j = 0 THEN Nullptr ELSE IF j <= Len(values) THEN values[j] ELSE Empty
  <2>1. DOMAIN schema = 1..n
    BY Zenon DEF Found
  <2>2. \A d \in 1..n : NormalizedRow(stmt, values)[d] =
          LET h == LastIndex(columns, d)
          IN  IF h = 0 THEN Nullptr ELSE IF h <= Len(values) THEN values[h] ELSE Empty
    BY <1>1, <2>1 DEF NormalizedRow, LastIndex
  <2> QED
    BY <1>1, <2>2, Zenon
<1>5. j = 0 \/ (j \in Nat /\ j >= 1)
  <2>1. IsSequence(columns)
    BY <1>1, ColumnsListed
  <2>2. IsLastPlace(columns, x, j)
    BY <1>1, <2>1, LastListed
  <2>3. Len(columns) \in Nat
    BY <2>1 DEF IsSequence
  <2> QED
    BY <2>2, <2>3 DEF IsLastPlace
<1>6. Given(stmt, values, x) <=> j \in 1..Len(values) /\ values[j] # Empty
  BY <1>2, <1>3, Zenon DEF Given
<1>7. CASE j \in 1..Len(values)
  <2>1. lit = values[j] /\ lit \in Literal /\ j # 0
    BY <1>2, <1>4, <1>5, <1>7
  <2>2. lit = Empty <=> IsEmpty(lit)
    BY <2>1, Emptiness, Zenon
  <2>3. Given(stmt, values, x) <=> ~IsEmpty(lit)
    BY <1>6, <1>7, <2>1, <2>2, Zenon
  <2> QED
    BY <1>1, <1>3, <2>1, <2>3, Zenon DEF ValueFound
<1>8. CASE j \notin 1..Len(values)
  <2>1. lit = Nullptr \/ lit = Empty
    BY <1>2, <1>4, <1>5, <1>8
  <2>2. IsEmpty(lit) /\ ~Given(stmt, values, x)
    BY <1>6, <1>8, <2>1, Emptiness, Zenon
  <2> QED
    BY <1>1, <2>2, Zenon DEF ValueFound
<1> QED
  BY <1>7, <1>8

-----------------------------------------------------------------------------
(* The validator: it gives the verdict of the first column that is not accepted *)

LEMMA FirstOfTable ==
  ASSUME NEW m \in Nat, NEW n \in Nat, NEW S \in SUBSET ((1..m) \X (1..n)), S # {}
  PROVE  \E at \in S : \A later \in S : NotBehind(at, later)
<1>1. \A at \in S : at[1] \in 1..m /\ at[2] \in 1..n
  OBVIOUS
<1>2. PICK R : R = {at[1] : at \in S}
  OBVIOUS
<1>3. R \in SUBSET Nat /\ R # {}
  BY <1>1, <1>2
<1>4. PICK i \in R : \A h \in R : i <= h
  BY <1>3, LeastElement
<1>5. PICK C : C = {at[2] : at \in {p \in S : p[1] = i}}
  OBVIOUS
<1>6. C \in SUBSET Nat /\ C # {}
  <2>1. PICK p \in S : p[1] = i
    BY <1>2, <1>4
  <2> QED
    BY <1>1, <1>5, <2>1
<1>7. PICK c \in C : \A h \in C : c <= h
  BY <1>6, LeastElement
<1>8. PICK at \in S : at[1] = i /\ at[2] = c
  BY <1>5
<1>9. \A later \in S : NotBehind(at, later)
  <2> SUFFICES ASSUME NEW later \in S
               PROVE  NotBehind(at, later)
    OBVIOUS
  <2>1. i <= later[1] /\ i \in Nat /\ later[1] \in Nat
    BY <1>1, <1>2, <1>3, <1>4
  <2>2. later[1] = i => c <= later[2]
    BY <1>5, <1>7
  <2> QED
    BY <1>8, <2>1, <2>2 DEF NotBehind
<1> QED
  BY <1>9

Looks == {"accepted", "rejected", "undefined"}

LEMMA LookIs ==
  ASSUME NEW stmt, NEW records, NEW k, NEW c
  PROVE  /\ Look(stmt, records, k, c) \in Looks
         /\ TooLong(records[k]) => Look(stmt, records, k, c) = "rejected"
         /\ Look(stmt, records, k, c) = "undefined" =>
              ~TooLong(records[k]) /\ c > Len(records[k])
         /\ Look(stmt, records, k, c) = "accepted" <=>
              /\ ~TooLong(records[k]) /\ ~(c > Len(records[k]))
              /\ ~Violates(stmt, records, k, c)
<1>1. PICK long, behind, bad :
        /\ long = TooLong(records[k]) /\ behind = (c > Len(records[k]))
        /\ bad = Violates(stmt, records, k, c)
  OBVIOUS
<1>2. Look(stmt, records, k, c) = IF long THEN "rejected" ELSE IF behind THEN "undefined"
                                  ELSE IF bad THEN "rejected" ELSE "accepted"
  BY <1>1, Zenon DEF Look
<1>3. /\ Look(stmt, records, k, c) \in Looks
      /\ long => Look(stmt, records, k, c) = "rejected"
      /\ Look(stmt, records, k, c) = "undefined" => ~long /\ behind
      /\ Look(stmt, records, k, c) = "accepted" <=> ~long /\ ~behind /\ ~bad
  BY <1>2 DEF Looks
<1> QED
  BY <1>1, <1>3, Zenon

FirstFault(stmt, records, m, n, i, c) ==
  /\ Look(stmt, records, i, c) # "accepted"
  /\ Verdict(stmt, records) = Look(stmt, records, i, c)
  /\ \A j \in 1..m : \A d \in 1..n :
       Look(stmt, records, j, d) # "accepted" => i < j \/ (i = j /\ c <= d)

LEMMA VerdictIs ==
  ASSUME NEW n, NEW k, Found(n, k), NEW m \in Nat, NEW stmt, NEW records, DOMAIN records = 1..m
  PROVE  \/ /\ Verdict(stmt, records) = "accepted"
            /\ \A i \in 1..m : \A c \in 1..n : Look(stmt, records, i, c) = "accepted"
         \/ \E i \in 1..m : \E c \in 1..n : FirstFault(stmt, records, m, n, i, c)
<1>1. DOMAIN schema = 1..n /\ n \in Nat
  BY Zenon DEF Found
<1> DEFINE L(at) == Look(stmt, records, at[1], at[2])
<1>2. PICK faults, first, v :
        /\ faults = Faults(stmt, records) /\ first = Foremost(faults)
        /\ v = Verdict(stmt, records)
  OBVIOUS
<1>3. v = IF faults = {} THEN "accepted" ELSE L(first)
  BY <1>2, Zenon DEF Verdict
<1>3a. faults = {at \in (1..m) \X (1..n) : L(at) # "accepted"}
  BY <1>1, <1>2 DEF Faults
<1>4. \A i \in 1..m : \A c \in 1..n : <<i, c>> \in faults <=> Look(stmt, records, i, c) # "accepted"
  <2> SUFFICES ASSUME NEW i \in 1..m, NEW c \in 1..n
               PROVE  <<i, c>> \in faults <=> Look(stmt, records, i, c) # "accepted"
    OBVIOUS
  <2>1. PICK at : at = <<i, c>>
    OBVIOUS
  <2>2. at \in (1..m) \X (1..n) /\ at[1] = i /\ at[2] = c
    BY <2>1
  <2>3. L(at) = Look(stmt, records, i, c)
    BY <2>2
  <2>4. at \in faults <=> L(at) # "accepted"
    BY <1>3a, <2>2, Zenon
  <2> QED
    BY <2>1, <2>3, <2>4
<1>5. CASE faults = {}
  BY <1>2, <1>3, <1>4, <1>5, Zenon
<1>6. CASE faults # {}
  <2>1. faults \in SUBSET ((1..m) \X (1..n)) /\ \A at \in faults : L(at) # "accepted"
    BY <1>3a
  <2>2. first \in faults /\ \A later \in faults : NotBehind(first, later)
    <3>1. \E at \in faults : \A later \in faults : NotBehind(at, later)
      BY <1>1, <1>6, <2>1, FirstOfTable
    <3> QED
      BY <1>2, <3>1, Zenon DEF Foremost
  <2>3. PICK i \in 1..m, c \in 1..n : i = first[1] /\ c = first[2]
    BY <2>1, <2>2
  <2>4. Look(stmt, records, i, c) # "accepted" /\ v = Look(stmt, records, i, c)
    BY <1>3, <1>6, <2>1, <2>2, <2>3, Zenon
  <2>5. ASSUME NEW j \in 1..m, NEW d \in 1..n, Look(stmt, records, j, d) # "accepted"
        PROVE  i < j \/ (i = j /\ c <= d)
    <3>1. PICK later : later = <<j, d>>
      OBVIOUS
    <3>2. later \in faults /\ later[1] = j /\ later[2] = d
      BY <1>4, <2>5, <3>1
    <3>3. NotBehind(first, later)
      BY <2>2, <3>2
    <3> QED
      BY <2>3, <3>2, <3>3, Zenon DEF NotBehind
  <2> QED
    BY <1>2, <2>4, <2>5, Zenon DEF FirstFault
<1> QED
  BY <1>5, <1>6

(* The records as the normalizer leaves them. *)
LEMMA RecordsNormalized ==
  ASSUME NEW n, NEW k, Found(n, k), NEW stmt \in Inserts,
         NEW m, m = Len(stmt.records), NEW recs, recs = NormalizedRecords(stmt)
  PROVE  /\ m \in Nat /\ DOMAIN recs = 1..m /\ Len(recs) = m
         /\ recs = [i \in 1..m |-> recs[i]]
         /\ \A i \in 1..m :
              recs[i] = IF /\ AllKnown(UserColumns(stmt))
                           /\ \A l \in 1..i : ~TooLong(stmt.records[l])
                        THEN NormalizedRow(stmt, stmt.records[i])
                        ELSE stmt.records[i]
         /\ \A values : /\ Len(NormalizedRow(stmt, values)) = n
                        /\ DOMAIN NormalizedRow(stmt, values) = 1..n
<1>1. m \in Nat /\ DOMAIN stmt.records = 1..m
  BY RecordTyped
<1>2. recs = [i \in 1..m |->
                IF /\ AllKnown(UserColumns(stmt))
                   /\ \A l \in 1..i : ~TooLong(stmt.records[l])
                THEN NormalizedRow(stmt, stmt.records[i])
                ELSE stmt.records[i]]
  BY <1>1 DEF NormalizedRecords
<1>3. DOMAIN recs = 1..m /\ recs = [i \in 1..m |-> recs[i]]
  BY <1>2
<1>4. Len(recs) = m
  BY <1>1, <1>3, FunctionIsSeq
<1>5. ASSUME NEW values
      PROVE  /\ Len(NormalizedRow(stmt, values)) = n
             /\ DOMAIN NormalizedRow(stmt, values) = 1..n
  <2>1. PICK row : row = NormalizedRow(stmt, values)
    OBVIOUS
  <2>2. n \in Nat /\ DOMAIN schema = 1..n
    BY Zenon DEF Found
  <2>3. DOMAIN row = 1..n /\ row = [c \in 1..n |-> row[c]]
    BY <2>1, <2>2 DEF NormalizedRow
  <2>4. Len(row) = n
    BY <2>2, <2>3, FunctionIsSeq
  <2> QED
    BY <2>1, <2>3, <2>4, Zenon
<1>6. \A i \in 1..m :
        recs[i] = IF /\ AllKnown(UserColumns(stmt))
                     /\ \A l \in 1..i : ~TooLong(stmt.records[l])
                  THEN NormalizedRow(stmt, stmt.records[i])
                  ELSE stmt.records[i]
  BY <1>2
<1> QED
  BY <1>1, <1>3, <1>4, <1>5, <1>6, Zenon

(* The validator reads within the records, unless the normalizer has not rewritten them because *)
(* a column is unknown: before it comes to a short one it has rejected one that is too long.     *)
LEMMA ReadsWithin == SchemaInv => ReadsWithinRecords
<1> SUFFICES ASSUME SchemaInv, NEW stmt \in Inserts, InsertVerdict(stmt) = "undefined",
                    AllKnown(UserColumns(stmt))
             PROVE  FALSE
  BY Zenon DEF ReadsWithinRecords
<1>1. PICK n, k : Found(n, k)
  BY ColumnsFound
<1>2. PICK m, recs : m = Len(stmt.records) /\ recs = NormalizedRecords(stmt)
  OBVIOUS
<1>3. /\ m \in Nat /\ DOMAIN recs = 1..m
      /\ \A i \in 1..m :
           recs[i] = IF /\ AllKnown(UserColumns(stmt))
                        /\ \A l \in 1..i : ~TooLong(stmt.records[l])
                     THEN NormalizedRow(stmt, stmt.records[i])
                     ELSE stmt.records[i]
      /\ \A values : Len(NormalizedRow(stmt, values)) = n
  BY <1>1, <1>2, RecordsNormalized
<1>4. Verdict(stmt, recs) = "undefined"
  BY <1>2 DEF InsertVerdict
<1>5. PICK i \in 1..m, c \in 1..n :
        /\ Look(stmt, recs, i, c) = "undefined"
        /\ \A j \in 1..m : \A d \in 1..n :
             Look(stmt, recs, j, d) # "accepted" => i < j \/ (i = j /\ c <= d)
  BY <1>1, <1>3, <1>4, VerdictIs DEF FirstFault
<1>6. ~TooLong(recs[i]) /\ c > Len(recs[i])
  BY <1>5, LookIs
<1>7. n \in Nat /\ 1 \in 1..n
  <2>1. n \in Nat /\ k \in 1..n
    BY <1>1, Zenon DEF Found
  <2> QED
    BY <2>1
<1>8. PICK l \in 1..i : TooLong(stmt.records[l])
  <2>1. ~(c > n)
    BY <1>7
  <2>2. recs[i] # NormalizedRow(stmt, stmt.records[i])
    BY <1>3, <1>6, <2>1, Zenon
  <2> QED
    BY <1>3, <2>2, Zenon
<1>9. l \in 1..m /\ l \in 1..l /\ ~(i < l)
  BY <1>3
<1>10. recs[l] = stmt.records[l]
  BY <1>3, <1>8, <1>9, Zenon
<1>11. recs[i] = stmt.records[i]
  BY <1>3, <1>8, Zenon
<1>12. l # i
  BY <1>6, <1>8, <1>11
<1>13. Look(stmt, recs, l, 1) = "rejected"
  BY <1>8, <1>10, LookIs
<1> QED
  BY <1>5, <1>7, <1>9, <1>12, <1>13

-----------------------------------------------------------------------------
(* INSERT *)

(* An accepted INSERT is normalized, and no column of it violates a rule. *)
LEMMA AcceptedInsert ==
  ASSUME NEW n, NEW k, Found(n, k), NEW stmt \in Inserts,
         NEW m, m = Len(stmt.records), NEW recs, recs = NormalizedRecords(stmt)
  PROVE  InsertVerdict(stmt) = "accepted" <=>
           /\ AllKnown(UserColumns(stmt))
           /\ \A i \in 1..m : /\ ~TooLong(stmt.records[i])
                              /\ recs[i] = NormalizedRow(stmt, stmt.records[i])
                              /\ \A c \in 1..n : ~Violates(stmt, recs, i, c)
<1>1. /\ m \in Nat /\ DOMAIN recs = 1..m
      /\ \A i \in 1..m :
           recs[i] = IF /\ AllKnown(UserColumns(stmt))
                        /\ \A l \in 1..i : ~TooLong(stmt.records[l])
                     THEN NormalizedRow(stmt, stmt.records[i])
                     ELSE stmt.records[i]
      /\ \A values : Len(NormalizedRow(stmt, values)) = n
  BY RecordsNormalized
<1>2. n \in Nat /\ k \in 1..n /\ Len(schema) = n
  BY Zenon DEF Found
<1>3. IsNormalized(stmt) <=>
        AllKnown(UserColumns(stmt)) /\ \A i \in 1..m : ~TooLong(stmt.records[i])
  <2>1. DOMAIN stmt.records = 1..m
    BY RecordTyped
  <2> QED
    BY <2>1 DEF IsNormalized
<1>4. InsertVerdict(stmt) = "accepted" <=> Verdict(stmt, recs) = "accepted" /\ IsNormalized(stmt)
  <2>1. PICK v, ok : v = Verdict(stmt, recs) /\ ok = IsNormalized(stmt)
    OBVIOUS
  <2>2. InsertVerdict(stmt) = IF v = "accepted" /\ ~ok THEN "rejected" ELSE v
    BY <2>1, Zenon DEF InsertVerdict
  <2>3. InsertVerdict(stmt) = "accepted" <=> v = "accepted" /\ ok
    BY <2>2
  <2> QED
    BY <2>1, <2>3, Zenon
<1>5. Verdict(stmt, recs) = "accepted" <=>
        \A i \in 1..m : \A c \in 1..n : Look(stmt, recs, i, c) = "accepted"
  <2>1. \/ /\ Verdict(stmt, recs) = "accepted"
           /\ \A i \in 1..m : \A c \in 1..n : Look(stmt, recs, i, c) = "accepted"
        \/ \E i \in 1..m : \E c \in 1..n : FirstFault(stmt, recs, m, n, i, c)
    BY <1>1, VerdictIs
  <2> QED
    BY <2>1, Zenon DEF FirstFault
<1>6. ASSUME AllKnown(UserColumns(stmt)), \A i \in 1..m : ~TooLong(stmt.records[i])
      PROVE  \A i \in 1..m :
               /\ recs[i] = NormalizedRow(stmt, stmt.records[i])
               /\ \A c \in 1..n : Look(stmt, recs, i, c) = "accepted" <=> ~Violates(stmt, recs, i, c)
  <2> SUFFICES ASSUME NEW i \in 1..m
               PROVE  /\ recs[i] = NormalizedRow(stmt, stmt.records[i])
                      /\ \A c \in 1..n :
                           Look(stmt, recs, i, c) = "accepted" <=> ~Violates(stmt, recs, i, c)
    OBVIOUS
  <2>1. \A l \in 1..i : l \in 1..m
    BY <1>1
  <2>2. recs[i] = NormalizedRow(stmt, stmt.records[i])
    BY <1>1, <1>6, <2>1, Zenon
  <2>3. Len(recs[i]) = n
    BY <1>1, <2>2, Zenon
  <2>4. ~TooLong(recs[i]) /\ \A c \in 1..n : ~(c > Len(recs[i]))
    <3>1. \A a \in Nat : ~(a > a) /\ \A c \in 1..a : ~(c > a)
      OBVIOUS
    <3>2. ~(n > n) /\ \A c \in 1..n : ~(c > n)
      BY <1>2, <3>1, Zenon
    <3> QED
      BY <1>2, <2>3, <3>2 DEF TooLong
  <2> QED
    BY <2>2, <2>4, LookIs, Zenon
<1> QED
  BY <1>3, <1>4, <1>5, <1>6, Zenon

(* The key column may not be left empty. *)
LEMMA KeyMustBeGiven ==
  ASSUME SchemaInv, NEW n, NEW k, Found(n, k)
  PROVE  /\ HasEmptyLiteralRuleViolations(schema[k])
         /\ HasEmptyLiteralRuleViolations(declared[k])
<1>1. IsKey(declared[k]) /\ k \in 1..n
  BY Zenon DEF Found
<1>2. HasEmptyLiteralRuleViolations(declared[k])
  BY <1>1, Zenon DEF HasEmptyLiteralRuleViolations
<1> QED
  BY <1>1, <1>2, ColumnsKeepRules, Zenon DEF RulesKept

(* The places of a record and the columns undo each other. *)
ColumnIn(k, p) == IF p = 1 THEN k ELSE IF p <= k THEN p - 1 ELSE p

LEMMA PlacesUndone ==
  ASSUME NEW n \in Nat, NEW k \in 1..n, NEW c \in 1..n
  PROVE  /\ PlaceIn(k, c) \in 1..n /\ ColumnIn(k, PlaceIn(k, c)) = c
         /\ k = 1 => PlaceIn(k, c) = c
<1>1. CASE c = k
  BY <1>1 DEF PlaceIn, ColumnIn
<1>2. CASE c < k
  BY <1>2 DEF PlaceIn, ColumnIn
<1>3. CASE c > k
  BY <1>3 DEF PlaceIn, ColumnIn
<1> QED
  BY <1>1, <1>2, <1>3

LEMMA KeyDeclared ==
  ASSUME NEW n, NEW k, Found(n, k)
  PROVE  DeclaredKey = k /\ FilePlace(k) = 1 /\ PlaceIn(k, k) = 1
<1>1. /\ DOMAIN declared = 1..n /\ k \in 1..n /\ KeyIndex = k
      /\ \A c \in 1..n : IsKey(declared[c]) <=> c = k
  BY Zenon DEF Found
<1>2. \E c \in DOMAIN declared : IsKey(declared[c])
  BY <1>1, Zenon
<1>3. DeclaredKey \in DOMAIN declared /\ IsKey(declared[DeclaredKey])
  BY <1>2, Zenon DEF DeclaredKey, KeyOf
<1>4. DeclaredKey = k
  BY <1>1, <1>3, Zenon
<1>5. FilePlace(k) = 1 /\ PlaceIn(k, k) = 1
  BY <1>1 DEF FilePlace, PlaceIn
<1> QED
  BY <1>4, <1>5

(* Where the values of a serialised record are. *)
LEMMA RecordSerialized ==
  ASSUME NEW n, NEW k, Found(n, k), NEW type \in RecordTypes, NEW mask, NEW rec,
         NEW row, row = SerializedRecord(type, mask, rec)
  PROVE  /\ IsRecord(row) /\ row.type = type
         /\ \A c \in 1..n : row.values[PlaceIn(k, c)] = SerializedValue(mask, rec, c)
<1>1. /\ n \in Nat /\ k \in 1..n /\ KeyIndex = k
      /\ DOMAIN schema = 1..n /\ DOMAIN declared = 1..n
  BY Zenon DEF Found
<1>2. /\ row.type = type
      /\ row.values = [p \in 1..n |-> SerializedValue(mask, rec, ColumnAt(p))]
  BY <1>1 DEF SerializedRecord
<1>3. IsRecord(row)
  BY <1>1, <1>2 DEF IsRecord
<1>4. \A p : ColumnAt(p) = ColumnIn(k, p)
  BY <1>1, Zenon DEF ColumnAt, ColumnIn
<1>5. \A p \in 1..n : row.values[p] = SerializedValue(mask, rec, ColumnAt(p))
  BY <1>2
<1>6. ASSUME NEW c \in 1..n
      PROVE  row.values[PlaceIn(k, c)] = SerializedValue(mask, rec, c)
  <2>1. PICK p : p = PlaceIn(k, c)
    OBVIOUS
  <2>2. p \in 1..n /\ ColumnIn(k, p) = c
    BY <1>1, <2>1, PlacesUndone
  <2>3. ColumnAt(p) = c
    BY <1>4, <2>2, Zenon
  <2> QED
    BY <1>5, <2>1, <2>2, <2>3, Zenon
<1> QED
  BY <1>2, <1>3, <1>6

(* A value that is STRING is written as it is, but for its quotation marks. *)
LEMMA StringsFilled ==
  ASSUME NEW mask, NEW c \in mask, NEW rec, NEW text, rec[c] = String(text)
  PROVE  SerializedValue(mask, rec, c) = RemoveOuterQuotes(text)
<1>1. ~IsEmpty(rec[c]) /\ rec[c].text = text
  BY DEF String, IsEmpty
<1> QED
  BY <1>1, Zenon DEF SerializedValue, Filled

LEMMA InsertedRecordAgrees ==
  ASSUME SchemaInv, NEW n, NEW k, Found(n, k), NEW stmt \in Inserts,
         AllKnown(UserColumns(stmt)), NEW i \in 1..Len(stmt.records),
         NEW rec, rec = NormalizedRow(stmt, stmt.records[i]),
         NEW recs, recs[i] = rec, \A c \in 1..n : ~Violates(stmt, recs, i, c),
         NEW kind
  PROVE  Related(kind, SerializedRecord("INSERT", ProjectionMask(stmt), rec),
                 Meaning(stmt, stmt.records[i]))
<1>1. PICK values, mask, row, meant :
        /\ values = stmt.records[i] /\ mask = ProjectionMask(stmt)
        /\ row = SerializedRecord("INSERT", mask, rec) /\ meant = Meaning(stmt, values)
  OBVIOUS
<1>2. /\ DOMAIN declared = 1..n /\ k \in 1..n /\ KeyIndex = k
      /\ DeclaredNames = {declared[c].name : c \in 1..n}
      /\ \A c \in 1..n : IsKey(declared[c]) <=> c = k
      /\ \A c \in 1..n : Place(declared[c].name) = c
  BY Zenon DEF Found
<1>3. /\ IsRecord(row)
      /\ \A c \in 1..n : row.values[PlaceIn(k, c)] = SerializedValue(mask, rec, c)
  BY <1>1, RecordSerialized DEF RecordTypes
<1>4. \A c \in 1..n :
        row.values[PlaceIn(k, c)] = IF Filled(mask, rec, c) THEN RemoveOuterQuotes(rec[c].text)
                                    ELSE GetDefaultValue(schema[c])
  BY <1>3, Zenon DEF SerializedValue
<1>5. \A name \in DeclaredNames :
        meant[name] = IF Given(stmt, values, name)
                      THEN RemoveOuterQuotes(values[ListedAt(stmt, name)].text)
                      ELSE GetDefaultValue(declared[Place(name)])
  BY <1>1 DEF Meaning
<1>6. IsMeaning(meant)
  BY <1>1 DEF Meaning, IsMeaning
<1>7. \A c \in 1..n : ValueFound(stmt, values, c)
  BY <1>1, ValuesFound
<1>8. RulesKept(n)
  BY ColumnsKeepRules
<1>9. HasEmptyLiteralRuleViolations(schema[k])
  BY KeyMustBeGiven
<1>10. ASSUME NEW c \in 1..n, ~CommaDefault(declared[c]) \/ c = k
       PROVE  row.values[PlaceIn(k, c)] = meant[declared[c].name]
  <2>1. PICK name, given : name = declared[c].name /\ given = Given(stmt, values, name)
    OBVIOUS
  <2>2. name \in DeclaredNames /\ Place(name) = c
    BY <1>2, <2>1
  <2>3. /\ IsEmpty(rec[c]) <=> ~given
        /\ given => c \in mask /\ rec[c] = values[ListedAt(stmt, name)]
    BY <1>1, <1>7, <2>1, Zenon DEF ValueFound
  <2>4. c = k => given
    <3>1. ~Violates(stmt, recs, i, c)
      OBVIOUS
    <3>2. c = k => ~IsEmpty(rec[c])
      BY <1>9, <3>1, Zenon DEF Violates
    <3> QED
      BY <2>3, <3>2
  <2>5. Filled(mask, rec, c) <=> given
    BY <1>2, <2>3, <2>4, Zenon DEF Filled
  <2>6. CASE given
    <3>1. row.values[PlaceIn(k, c)] = RemoveOuterQuotes(rec[c].text)
      BY <1>4, <2>5, <2>6, Zenon
    <3>2. meant[name] = RemoveOuterQuotes(values[ListedAt(stmt, name)].text)
      BY <1>5, <2>1, <2>2, <2>6, Zenon
    <3> QED
      BY <2>1, <2>3, <2>6, <3>1, <3>2, Zenon
  <2>7. CASE ~given
    <3>1. row.values[PlaceIn(k, c)] = GetDefaultValue(schema[c])
      BY <1>4, <2>5, <2>7, Zenon
    <3>2. meant[name] = GetDefaultValue(declared[c])
      BY <1>5, <2>1, <2>2, <2>7, Zenon
    <3>3. schema[c] = declared[c]
      BY <1>8, <1>10, <2>4, <2>7, Zenon DEF RulesKept
    <3> QED
      BY <2>1, <3>1, <3>2, <3>3, Zenon
  <2> QED
    BY <2>6, <2>7
<1>11. DeclaredKey = k
  BY KeyDeclared
<1>12. \A c \in 1..n : ~CommaDefault(declared[c]) \/ c = k => ValueAgrees(row, meant, c)
  BY <1>10, <1>11, Zenon DEF ValueAgrees
<1>13. Related(kind, row, meant)
  BY <1>2, <1>3, <1>6, <1>11, <1>12, Zenon DEF Related
<1> QED
  BY <1>1, <1>13, Zenon

(* What is written of an INSERT ends before the first record whose serialisation throws. *)
LEMMA RecordsWritten ==
  ASSUME NEW n, NEW k, Found(n, k), NEW m \in Nat, NEW recs, Len(recs) = m, NEW mask,
         NEW w, w = WrittenRecords(mask, recs)
  PROVE  /\ w \in Nat /\ \A i \in 1..w : i \in 1..m
         /\ w < Len(recs) => \E c \in 1..n : DefaultThrows(schema[c])
<1>1. PICK I, r : /\ I = {i \in 1..m : SerializeThrows(mask, recs[i])}
                  /\ r = (IF I # {} THEN Min(I) ELSE 0)
  OBVIOUS
<1>2. w = IF r = 0 THEN m ELSE r - 1
  BY <1>1, Zenon DEF WrittenRecords, SelectInSeq
<1>3. \/ I = {} /\ r = 0
      \/ r \in I /\ r \in 1..m
  <2>1. I \in SUBSET (1..m) /\ r = (IF I # {} THEN Min(I) ELSE 0)
    BY <1>1
  <2> QED
    BY <2>1, FirstPlace
<1>4. DOMAIN schema = 1..n
  BY Zenon DEF Found
<1>5. CASE I = {} /\ r = 0
  <2>1. w = m
    BY <1>2, <1>5
  <2>2. \A a \in Nat : ~(a < a)
    OBVIOUS
  <2> QED
    BY <2>1, <2>2, Zenon
<1>6. CASE r \in I /\ r \in 1..m
  <2>1. w = r - 1 /\ SerializeThrows(mask, recs[r])
    BY <1>1, <1>2, <1>6
  <2>2. \E c \in 1..n : DefaultThrows(schema[c])
    BY <1>4, <2>1, Zenon DEF SerializeThrows
  <2>3. \A a \in Nat : \A b \in 1..a : b - 1 \in Nat /\ \A i \in 1..(b - 1) : i \in 1..a
    OBVIOUS
  <2> QED
    BY <1>6, <2>1, <2>2, <2>3, Zenon
<1> QED
  BY <1>3, <1>5, <1>6

(* How a step treats the four invariants of the rows. *)
RecordsKept == RowsAgree("record", stored, stored) => RowsAgree("record", stored', stored')
MeaningsKept == RowsAgree("meaning", denoted, denoted) => RowsAgree("meaning", denoted', denoted')
AgreementKept(kind) ==
  RowsAgree(kind, stored, denoted) => RowsAgree(kind, stored', denoted')

(* The shape of a record does not depend on its meaning, nor the other way round. *)
LEMMA ShapesApart ==
  ASSUME NEW t, NEW e
  PROVE  /\ RowsAgree("record", t, e) => RowsAgree("record", t, t)
         /\ RowsAgree("meaning", t, e) => RowsAgree("meaning", e, e)
<1>1. \A row, meant : /\ Related("record", row, meant) => Related("record", row, row)
                      /\ Related("meaning", row, meant) => Related("meaning", meant, meant)
  BY DEF Related
<1> QED
  BY <1>1, Zenon DEF RowsAgree

LEMMA InsertKeepsRows ==
  ASSUME SchemaInv, NEW stmt \in Inserts, Insert(stmt)
  PROVE  /\ RecordsKept /\ MeaningsKept /\ \A kind : AgreementKept(kind)
         /\ outcome' \in Outcomes
         /\ outcome' = "threw" =>
              \E c \in DOMAIN declared : Default(Nothing) \in Range(declared[c].modifiers)
         /\ declared' = declared /\ schema' = schema
<1>1. PICK n, k : Found(n, k)
  BY ColumnsFound
<1>2. PICK m, recs, mask, w, verdict :
        /\ m = Len(stmt.records) /\ recs = NormalizedRecords(stmt) /\ mask = ProjectionMask(stmt)
        /\ w = WrittenRecords(mask, recs) /\ verdict = InsertVerdict(stmt)
  OBVIOUS
<1>3. declared' = declared /\ schema' = schema
  BY DEF Insert
<1>4. CASE verdict # "accepted"
  <2>1. outcome' = verdict /\ stored' = stored /\ denoted' = denoted
    BY <1>2, <1>4 DEF Insert
  <2>2. verdict \in {"accepted", "rejected", "undefined"}
    <3>1. m \in Nat /\ DOMAIN recs = 1..m
      BY <1>1, <1>2, RecordsNormalized
    <3>2. Verdict(stmt, recs) \in Looks
      <4>1. \/ Verdict(stmt, recs) = "accepted"
            \/ \E i \in 1..m : \E c \in 1..n : FirstFault(stmt, recs, m, n, i, c)
        BY <1>1, <3>1, VerdictIs
      <4>2. CASE Verdict(stmt, recs) = "accepted"
        BY <4>2 DEF Looks
      <4>3. CASE \E i \in 1..m : \E c \in 1..n : FirstFault(stmt, recs, m, n, i, c)
        BY <4>3, LookIs, Zenon DEF FirstFault
      <4> QED
        BY <4>1, <4>2, <4>3
    <3>3. PICK v, ok : v = Verdict(stmt, recs) /\ ok = IsNormalized(stmt)
      OBVIOUS
    <3>4. verdict = IF v = "accepted" /\ ~ok THEN "rejected" ELSE v
      BY <1>2, <3>3, Zenon DEF InsertVerdict
    <3> QED
      BY <3>2, <3>3, <3>4 DEF Looks
  <2>3. outcome' \in Outcomes /\ outcome' # "threw"
    BY <1>4, <2>1, <2>2 DEF Outcomes
  <2> QED
    BY <1>3, <2>1, <2>3 DEF RecordsKept, MeaningsKept, AgreementKept
<1>5. CASE verdict = "accepted"
  <2>1. PICK t, e : /\ t = [i \in 1..w |-> SerializedRecord("INSERT", mask, recs[i])]
                    /\ e = [i \in 1..w |-> Meaning(stmt, stmt.records[i])]
    OBVIOUS
  <2>2. /\ stored' = stored \o t /\ denoted' = denoted \o e
        /\ outcome' = IF w < Len(recs) THEN "threw" ELSE "accepted"
    BY <1>2, <1>5, <2>1, Zenon DEF Insert
  <2>3. m \in Nat /\ Len(recs) = m
    BY <1>1, <1>2, RecordsNormalized
  <2>4. /\ w \in Nat /\ \A i \in 1..w : i \in 1..m
        /\ w < Len(recs) => \E c \in 1..n : DefaultThrows(schema[c])
    BY <1>1, <1>2, <2>3, RecordsWritten
  <2>5. /\ AllKnown(UserColumns(stmt))
        /\ \A i \in 1..m : /\ recs[i] = NormalizedRow(stmt, stmt.records[i])
                           /\ \A c \in 1..n : ~Violates(stmt, recs, i, c)
    <3>1. InsertVerdict(stmt) = "accepted" <=>
            /\ AllKnown(UserColumns(stmt))
            /\ \A i \in 1..m : /\ ~TooLong(stmt.records[i])
                               /\ recs[i] = NormalizedRow(stmt, stmt.records[i])
                               /\ \A c \in 1..n : ~Violates(stmt, recs, i, c)
      BY <1>1, <1>2, AcceptedInsert
    <3> QED
      BY <1>2, <1>5, <3>1, Zenon
  <2>6. \A kind : \A i \in 1..w : Related(kind, t[i], e[i])
    <3> SUFFICES ASSUME NEW kind, NEW i \in 1..w
                 PROVE  Related(kind, t[i], e[i])
      OBVIOUS
    <3>1. i \in 1..Len(stmt.records)
      BY <1>2, <2>4
    <3>2. Related(kind, SerializedRecord("INSERT", mask, recs[i]), Meaning(stmt, stmt.records[i]))
      <4>1. PICK rec : rec = recs[i]
        OBVIOUS
      <4>2. rec = NormalizedRow(stmt, stmt.records[i]) /\ \A c \in 1..n : ~Violates(stmt, recs, i, c)
        BY <1>2, <2>4, <2>5, <4>1, Zenon
      <4>3. Related(kind, SerializedRecord("INSERT", ProjectionMask(stmt), rec), Meaning(stmt, stmt.records[i]))
        BY <1>1, <2>5, <3>1, <4>1, <4>2, InsertedRecordAgrees
      <4> QED
        BY <1>2, <4>1, <4>3
    <3>3. t[i] = SerializedRecord("INSERT", mask, recs[i]) /\ e[i] = Meaning(stmt, stmt.records[i])
      BY <2>1
    <3> QED
      BY <3>2, <3>3
  <2>7. \A kind : RowsAgree(kind, t, e)
    <3>1. t = [i \in 1..w |-> t[i]] /\ e = [i \in 1..w |-> e[i]]
      BY <2>1
    <3> QED
      BY <2>4, <2>6, <3>1, RowsBuilt
  <2>8. RecordsKept /\ MeaningsKept /\ \A kind : AgreementKept(kind)
    <3>1. RowsAgree("record", t, t) /\ RowsAgree("meaning", e, e)
      BY <2>7, ShapesApart
    <3>2. RecordsKept /\ MeaningsKept
      BY <2>2, <3>1, RowsJoin DEF RecordsKept, MeaningsKept
    <3>3. \A kind : AgreementKept(kind)
      BY <2>2, <2>7, RowsJoin DEF AgreementKept
    <3> QED
      BY <3>2, <3>3
  <2>9. outcome' \in Outcomes
    BY <2>2 DEF Outcomes
  <2>10. outcome' = "threw" =>
           \E c \in DOMAIN declared : Default(Nothing) \in Range(declared[c].modifiers)
    <3>1. \A c \in 1..n : DefaultThrows(schema[c]) => Default(Nothing) \in Range(declared[c].modifiers)
      BY <1>1, ColumnsKeepRules, Zenon DEF RulesKept
    <3>2. DOMAIN declared = 1..n
      BY <1>1, Zenon DEF Found
    <3>3. outcome' = "threw" => w < Len(recs)
      BY <2>2
    <3> QED
      BY <2>4, <3>1, <3>2, <3>3, Zenon
  <2> QED
    BY <1>3, <2>8, <2>9, <2>10
<1> QED
  BY <1>4, <1>5

-----------------------------------------------------------------------------
(* IMPORT and UPDATE *)

(* No line has more fields than a table has columns, and no UPDATE assigns the EMPTY literal: the *)
(* engine takes such a line for a row, and such a literal for a value.                             *)
LinesFit == \A line \in CsvLines : \A s \in Schemas : ~(Len(ParseCsvRow(line)) > Len(s))
NoEmptyAssigned ==
  \A assignments \in Updates : \A i \in DOMAIN assignments : assignments[i].literal # Empty

LEMMA FieldsCounted ==
  ASSUME NEW line \in CsvLines
  PROVE  ParseCsvRow(line) = CsvMeaning(line) /\ Len(ParseCsvRow(line)) \in Nat
<1>1. line \in Seq(STRING)
  BY StatementAssumption
<1>2. PICK fields, N : fields = CsvMeaning(line) /\ N = Cardinality(Cuts(line)) + 1
  OBVIOUS
<1>3. N \in Nat
  <2>1. PICK D : D = DOMAIN line
    OBVIOUS
  <2>2. IsFiniteSet(D)
    <3>1. D = 1..Len(line) /\ Len(line) \in Nat
      BY <1>1, <2>1, LenProperties
    <3> QED
      BY <3>1, FS_Interval
  <2>3. Cuts(line) \subseteq D
    BY <2>1 DEF Cuts
  <2>4. IsFiniteSet(Cuts(line))
    BY <2>2, <2>3, FS_Subset
  <2> QED
    BY <1>2, <2>4, FS_CardinalityType
<1>4. DOMAIN fields = 1..N /\ fields = [c \in 1..N |-> fields[c]]
  BY <1>2 DEF CsvMeaning
<1>5. Len(fields) = N
  BY <1>3, <1>4, FunctionIsSeq
<1>6. ParseCsvRow(line) = fields
  BY <1>1, <1>2, FieldsAreMeant
<1> QED
  BY <1>2, <1>3, <1>5, <1>6, Zenon

LEMMA ImportedRecordAgrees ==
  ASSUME NEW n, NEW k, Found(n, k), NEW fields,
         NEW row, row = SerializedRecord("INSERT", DOMAIN schema, FieldValues(fields)),
         NEW meant, meant = [name \in DeclaredNames |-> RemoveOuterQuotes(fields[Place(name)])]
  PROVE  IsRecord(row) /\ IsMeaning(meant) /\ \A kind : Related(kind, row, meant)
<1>1. /\ DOMAIN schema = 1..n /\ DOMAIN declared = 1..n /\ k \in 1..n
      /\ DeclaredNames = {declared[c].name : c \in 1..n}
      /\ \A c \in 1..n : Place(declared[c].name) = c
  BY Zenon DEF Found
<1>2. /\ IsRecord(row)
      /\ \A c \in 1..n : row.values[PlaceIn(k, c)]
                           = SerializedValue(DOMAIN schema, FieldValues(fields), c)
  BY RecordSerialized DEF RecordTypes
<1>3. IsMeaning(meant) /\ \A name \in DeclaredNames : meant[name] = RemoveOuterQuotes(fields[Place(name)])
  BY DEF IsMeaning
<1>4. \A c \in 1..n : SerializedValue(DOMAIN schema, FieldValues(fields), c) = RemoveOuterQuotes(fields[c])
  <2> SUFFICES ASSUME NEW c \in 1..n
               PROVE  SerializedValue(DOMAIN schema, FieldValues(fields), c) = RemoveOuterQuotes(fields[c])
    OBVIOUS
  <2>1. PICK mask, rec, text : mask = DOMAIN schema /\ rec = FieldValues(fields) /\ text = fields[c]
    OBVIOUS
  <2>2. c \in mask /\ rec[c] = String(text)
    BY <1>1, <2>1 DEF FieldValues
  <2>3. SerializedValue(mask, rec, c) = RemoveOuterQuotes(text)
    BY <2>2, StringsFilled
  <2> QED
    BY <2>1, <2>3
<1>5. \A c \in 1..n : row.values[PlaceIn(k, c)] = meant[declared[c].name]
  <2> SUFFICES ASSUME NEW c \in 1..n
               PROVE  row.values[PlaceIn(k, c)] = meant[declared[c].name]
    OBVIOUS
  <2>1. declared[c].name \in DeclaredNames /\ Place(declared[c].name) = c
    BY <1>1
  <2> QED
    BY <1>2, <1>3, <1>4, <2>1, Zenon
<1>6. DeclaredKey = k
  BY KeyDeclared
<1>7. \A c \in 1..n : ValueAgrees(row, meant, c)
  BY <1>5, <1>6, Zenon DEF ValueAgrees
<1>8. \A kind : Related(kind, row, meant)
  BY <1>1, <1>2, <1>3, <1>6, <1>7, Zenon DEF Related
<1> QED
  BY <1>2, <1>3, <1>8

LEMMA ImportKeepsRows ==
  ASSUME SchemaInv, NEW line \in CsvLines, ImportRow(line)
  PROVE  /\ RecordsKept /\ MeaningsKept /\ (LinesFit => \A kind : AgreementKept(kind))
         /\ outcome' \in Outcomes /\ outcome' # "threw"
         /\ declared' = declared /\ schema' = schema
<1>1. PICK n, k : Found(n, k)
  BY ColumnsFound
<1>2. PICK fields, row, meant :
        /\ fields = ParseCsvRow(line)
        /\ row = SerializedRecord("INSERT", DOMAIN schema, FieldValues(fields))
        /\ meant = [name \in DeclaredNames |-> RemoveOuterQuotes(fields[Place(name)])]
  OBVIOUS
<1>3. declared' = declared /\ schema' = schema
  BY DEF ImportRow
<1>4. CsvMeaning(line) = fields /\ Len(fields) \in Nat
  BY <1>2, FieldsCounted
<1>5. n \in Nat /\ Len(schema) = n /\ Len(declared) = n
  BY <1>1, Zenon DEF Found
<1>6. IsRecord(row) /\ IsMeaning(meant) /\ \A kind : Related(kind, row, meant)
  BY <1>1, <1>2, ImportedRecordAgrees
<1>7. /\ Related("record", row, row) /\ Related("meaning", meant, meant)
  BY <1>6 DEF Related
<1>8. denoted' = IF Len(fields) = n THEN Append(denoted, meant) ELSE denoted
  BY <1>2, <1>4, <1>5 DEF ImportRow
<1>9. MeaningsKept
  <2>1. CASE Len(fields) = n
    <3>1. denoted' = Append(denoted, meant)
      BY <1>8, <2>1
    <3> QED
      BY <1>7, <3>1, RowAppended DEF MeaningsKept
  <2>2. CASE Len(fields) # n
    BY <1>8, <2>2 DEF MeaningsKept
  <2> QED
    BY <2>1, <2>2
<1>10. CASE Len(fields) < n
  <2>1. outcome' = "undefined" /\ stored' = stored
    BY <1>2, <1>5, <1>10 DEF ImportRow
  <2>2. denoted' = denoted
    <3>1. Len(fields) # n
      BY <1>4, <1>5, <1>10
    <3> QED
      BY <1>8, <3>1
  <2> QED
    BY <1>3, <1>9, <2>1, <2>2 DEF RecordsKept, AgreementKept, Outcomes
<1>11. CASE ~(Len(fields) < n)
  <2>1. outcome' = "accepted" /\ stored' = Append(stored, row)
    BY <1>2, <1>5, <1>11, Zenon DEF ImportRow
  <2>2. RecordsKept
    BY <1>7, <2>1, RowAppended DEF RecordsKept
  <2>3. ASSUME LinesFit
        PROVE  \A kind : AgreementKept(kind)
    <3>1. ~(Len(fields) > n)
      BY <1>2, <1>5, <2>3, Zenon DEF LinesFit, SchemaInv
    <3>2. Len(fields) = n
      BY <1>4, <1>5, <1>11, <3>1
    <3>3. denoted' = Append(denoted, meant)
      BY <1>8, <3>2
    <3> QED
      BY <1>6, <2>1, <3>3, RowAppended DEF AgreementKept
  <2>4. outcome' \in Outcomes /\ outcome' # "threw"
    BY <2>1 DEF Outcomes
  <2> QED
    BY <1>3, <1>9, <2>2, <2>3, <2>4
<1> QED
  BY <1>10, <1>11

(* The assignment of a column, if there is one. *)
FirstAssignment(assignments, c) ==
  SelectInSeq(assignments, LAMBDA a : SchemaIndex(a.name) = c)

IsAssignment(assignments, name, i) ==
  \/ i = 0 /\ ~(\E a \in Range(assignments) : a.name = name)
  \/ /\ i # 0 /\ i \in DOMAIN assignments /\ SchemaIndex(name) # KeyIndex
     /\ \E a \in Range(assignments) : a.name = name
     /\ (CHOOSE a \in Range(assignments) : a.name = name) = assignments[i]

LEMMA AssignmentFound ==
  ASSUME NEW n, NEW k, Found(n, k), NEW assignments \in Updates, UpdateNormalized(assignments),
         NEW c \in 1..n
  PROVE  IsAssignment(assignments, declared[c].name, FirstAssignment(assignments, c))
<1>1. PICK w, A, I, name, i :
        /\ w = Len(assignments) /\ A = Range(assignments)
        /\ I = {j \in 1..w : SchemaIndex(assignments[j].name) = c}
        /\ name = declared[c].name /\ i = FirstAssignment(assignments, c)
  OBVIOUS
<1>2. /\ w \in Nat /\ DOMAIN assignments = 1..w
      /\ \A j \in 1..w : /\ SchemaIndex(assignments[j].name) # KeyIndex
                         /\ \A h \in 1..w : assignments[j].name = assignments[h].name => j = h
      /\ \A a : a \in A <=> \E j \in 1..w : a = assignments[j]
  <2>1. assignments \in Seq([name: STRING, literal: Literal])
    BY StatementAssumption
  <2>2. PICK R, s : R = [name: STRING, literal: Literal] /\ s = assignments
    OBVIOUS
  <2>3. s \in Seq(R)
    BY <2>1, <2>2, Zenon
  <2>4. Len(s) \in Nat /\ DOMAIN s = 1..Len(s)
    BY <2>3, LenProperties
  <2>5. w \in Nat /\ DOMAIN assignments = 1..w
    BY <1>1, <2>2, <2>4, Zenon
  <2>6. \A j \in 1..w : /\ SchemaIndex(assignments[j].name) # KeyIndex
                        /\ \A h \in 1..w : assignments[j].name = assignments[h].name => j = h
    BY <2>5 DEF UpdateNormalized
  <2>7. \A a : a \in A <=> \E j \in 1..w : a = assignments[j]
    BY <1>1, <2>5 DEF Range
  <2> QED
    BY <2>5, <2>6, <2>7
<1>3. \A x : SchemaIndex(x) = c <=> x = name
  BY <1>1, Zenon DEF Found
<1>4. i = IF I # {} THEN Min(I) ELSE 0
  BY <1>1, Zenon DEF SelectInSeq, FirstAssignment
<1>5. I \in SUBSET (1..w) /\ \A j \in 1..w : j \in I <=> assignments[j].name = name
  BY <1>1, <1>3
<1>6. \/ I = {} /\ i = 0
      \/ i \in I /\ i \in 1..w
  BY <1>2, <1>4, <1>5, FirstPlace
<1>7. CASE I = {} /\ i = 0
  <2>1. ~(\E a \in A : a.name = name)
    BY <1>2, <1>5, <1>7
  <2> QED
    BY <1>1, <1>7, <2>1, Zenon DEF IsAssignment
<1>8. CASE i \in I /\ i \in 1..w
  <2>1. assignments[i] \in A /\ assignments[i].name = name
    BY <1>2, <1>5, <1>8, Zenon
  <2>2. \A a \in A : a.name = name => a = assignments[i]
    BY <1>2, <1>8, <2>1
  <2>3. (CHOOSE a \in A : a.name = name) = assignments[i]
    BY <2>1, <2>2
  <2>4. i # 0
    BY <1>2, <1>8
  <2>5. SchemaIndex(name) # KeyIndex
    BY <1>2, <1>8, <2>1, Zenon
  <2>6. i \in DOMAIN assignments /\ \E a \in A : a.name = name
    BY <1>2, <1>8, <2>1
  <2>7. IsAssignment(assignments, name, i)
    BY <1>1, <2>3, <2>4, <2>5, <2>6, Zenon DEF IsAssignment
  <2> QED
    BY <1>1, <2>7, Zenon
<1> QED
  BY <1>6, <1>7, <1>8

(* What a row means after an UPDATE. *)
Assigned(assignments, meant) ==
  [name \in DeclaredNames |->
     IF \E a \in Range(assignments) : a.name = name
     THEN AssignedMeaning((CHOOSE a \in Range(assignments) : a.name = name).literal, name)
     ELSE meant[name]]

LEMMA UpdatedRecordAgrees ==
  ASSUME NEW n, NEW k, Found(n, k), NEW assignments \in Updates, UpdateNormalized(assignments),
         NEW old, NEW meant, NEW row, row = UpdatedRecord(assignments, old),
         NEW after, after = Assigned(assignments, meant)
  PROVE  /\ IsRecord(row) /\ IsMeaning(after)
         /\ \A c \in 1..n : c = k \/ NoEmptyAssigned =>
              (ValueAgrees(old, meant, c) => ValueAgrees(row, after, c))
<1>1. /\ n \in Nat /\ k \in 1..n /\ DOMAIN schema = 1..n
      /\ DeclaredNames = {declared[c].name : c \in 1..n}
  BY Zenon DEF Found
<1>2. DeclaredKey = k
  BY KeyDeclared
<1>3. PICK fresh : fresh = NewValues(assignments, old)
  OBVIOUS
<1>4. /\ IsRecord(row) /\ row.type = "UPDATE"
      /\ \A c \in 1..n : row.values[PlaceIn(k, c)] = SerializedValue(DOMAIN schema, fresh, c)
  <2>1. row = SerializedRecord("UPDATE", DOMAIN schema, fresh)
    BY <1>3 DEF UpdatedRecord
  <2>2. PICK type \in RecordTypes : type = "UPDATE"
    BY DEF RecordTypes
  <2>3. row = SerializedRecord(type, DOMAIN schema, fresh)
    BY <2>1, <2>2
  <2>4. /\ IsRecord(row) /\ row.type = type
        /\ \A c \in 1..n : row.values[PlaceIn(k, c)] = SerializedValue(DOMAIN schema, fresh, c)
    BY <2>3, RecordSerialized
  <2> QED
    BY <2>2, <2>4
<1>5. /\ IsMeaning(after)
      /\ \A name \in DeclaredNames :
           after[name] = IF \E a \in Range(assignments) : a.name = name
                         THEN AssignedMeaning(
                                (CHOOSE a \in Range(assignments) : a.name = name).literal, name)
                         ELSE meant[name]
  BY DEF Assigned, IsMeaning
<1>6. ASSUME NEW c \in 1..n, c = k \/ NoEmptyAssigned, ValueAgrees(old, meant, c)
      PROVE  ValueAgrees(row, after, c)
  <2>1. PICK name, x : name = declared[c].name /\ x = after[name]
    OBVIOUS
  <2>2. CASE k # 1 \/ ~IsUnmarked(x)
    BY <1>2, <1>4, <2>1, <2>2, Zenon DEF ValueAgrees, MayBeSpoilt
  <2>3. CASE k = 1 /\ IsUnmarked(x)
    <3>1. PICK i : i = FirstAssignment(assignments, c)
      OBVIOUS
    <3>2. fresh[c] = String(IF i = 0 THEN old.values[c]
                            ELSE RemoveOuterQuotes(assignments[i].literal.text))
      BY <1>1, <1>3, <3>1 DEF NewValues, FirstAssignment
    <3>3. PlaceIn(k, c) = c
      BY <1>1, <2>3, PlacesUndone
    <3>4. row.values[c] = RemoveOuterQuotes(IF i = 0 THEN old.values[c]
                                            ELSE RemoveOuterQuotes(assignments[i].literal.text))
      <4>1. PICK v : v = IF i = 0 THEN old.values[c]
                         ELSE RemoveOuterQuotes(assignments[i].literal.text)
        OBVIOUS
      <4>2. fresh[c] = String(v) /\ c \in DOMAIN schema
        BY <1>1, <3>2, <4>1
      <4>3. SerializedValue(DOMAIN schema, fresh, c) = RemoveOuterQuotes(v)
        BY <4>2, StringsFilled
      <4> QED
        BY <1>4, <3>3, <4>1, <4>3
    <3>5. RemoveOuterQuotes(x) = x
      BY <2>3 DEF RemoveOuterQuotes
    <3>6. name \in DeclaredNames
      BY <1>1, <2>1
    <3>7. row.values[c] = x
      <4>1. CASE i = 0 /\ ~(\E a \in Range(assignments) : a.name = name)
        <5>1. x = meant[name]
          BY <1>5, <2>1, <3>6, <4>1, Zenon
        <5>2. old.values[c] = x
          BY <1>2, <1>6, <2>1, <2>3, <3>3, <5>1, Zenon DEF ValueAgrees, MayBeSpoilt
        <5> QED
          BY <3>4, <3>5, <4>1, <5>2
      <4>2. CASE /\ i # 0 /\ i \in DOMAIN assignments /\ SchemaIndex(name) # KeyIndex
                 /\ \E a \in Range(assignments) : a.name = name
                 /\ (CHOOSE a \in Range(assignments) : a.name = name) = assignments[i]
        <5>1. assignments[i].literal # Empty
          <6>1. c # k
            BY <2>1, <4>2, Zenon DEF Found
          <6> QED
            BY <1>6, <4>2, <6>1, Zenon DEF NoEmptyAssigned
        <5>2. x = AssignedMeaning(assignments[i].literal, name)
          BY <1>5, <2>1, <3>6, <4>2, Zenon
        <5>3. x = RemoveOuterQuotes(assignments[i].literal.text)
          BY <5>1, <5>2, Zenon DEF AssignedMeaning
        <5> QED
          BY <3>4, <3>5, <4>2, <5>3
      <4>3. IsAssignment(assignments, name, i)
        BY <2>1, <3>1, AssignmentFound
      <4> QED
        BY <4>1, <4>2, <4>3, Zenon DEF IsAssignment
    <3> QED
      BY <1>2, <2>1, <3>3, <3>7, Zenon DEF ValueAgrees
  <2> QED
    BY <2>2, <2>3
<1> QED
  BY <1>4, <1>5, <1>6

LEMMA UpdateKeepsRows ==
  ASSUME SchemaInv, NEW assignments \in Updates, Update(assignments)
  PROVE  /\ RecordsKept /\ MeaningsKept /\ AgreementKept("key")
         /\ NoEmptyAssigned => AgreementKept("all")
         /\ outcome' \in Outcomes /\ outcome' # "threw"
         /\ declared' = declared /\ schema' = schema
<1>1. PICK n, k : Found(n, k)
  BY ColumnsFound
<1>2. declared' = declared /\ schema' = schema
  BY DEF Update
<1>3. CASE ~UpdateNormalized(assignments)
  <2>1. outcome' = "rejected" /\ stored' = stored /\ denoted' = denoted
    BY <1>3 DEF Update
  <2> QED
    BY <1>2, <2>1 DEF Outcomes, RecordsKept, MeaningsKept, AgreementKept
<1>4. CASE UpdateNormalized(assignments)
  <2>1. PICK t, e : t = stored' /\ e = denoted'
    OBVIOUS
  <2>2. /\ t = [i \in DOMAIN stored |-> UpdatedRecord(assignments, stored[i])]
        /\ e = [i \in DOMAIN denoted |-> Assigned(assignments, denoted[i])]
        /\ outcome' = "accepted"
    BY <1>4, <2>1, Zenon DEF Update, Assigned
  <2>3. /\ \A i \in DOMAIN stored : t[i] = UpdatedRecord(assignments, stored[i])
        /\ \A i \in DOMAIN denoted : e[i] = Assigned(assignments, denoted[i])
        /\ t = [i \in DOMAIN stored |-> t[i]] /\ e = [i \in DOMAIN denoted |-> e[i]]
    BY <2>2
  <2>4. /\ DeclaredKey = k /\ k \in 1..n /\ DOMAIN declared = 1..n
    BY <1>1, KeyDeclared, Zenon DEF Found
  <2>5. \A old, meant :
          LET row == UpdatedRecord(assignments, old)
              after == Assigned(assignments, meant)
          IN  /\ IsRecord(row) /\ IsMeaning(after)
              /\ \A c \in 1..n : c = k \/ NoEmptyAssigned =>
                   (ValueAgrees(old, meant, c) => ValueAgrees(row, after, c))
    BY <1>1, <1>4, UpdatedRecordAgrees
  <2>6. RecordsKept
    <3> SUFFICES ASSUME RowsAgree("record", stored, stored)
                 PROVE  RowsAgree("record", t, t)
      BY <2>1 DEF RecordsKept
    <3>1. PICK m \in Nat : DOMAIN stored = 1..m
      BY Zenon DEF RowsAgree, IsSequence
    <3>2. \A i \in 1..m : Related("record", t[i], t[i])
      BY <2>3, <2>5, <3>1 DEF Related
    <3> QED
      BY <2>3, <3>1, <3>2, RowsBuilt
  <2>7. MeaningsKept
    <3> SUFFICES ASSUME RowsAgree("meaning", denoted, denoted)
                 PROVE  RowsAgree("meaning", e, e)
      BY <2>1 DEF MeaningsKept
    <3>1. PICK m \in Nat : DOMAIN denoted = 1..m
      BY Zenon DEF RowsAgree, IsSequence
    <3>2. \A i \in 1..m : Related("meaning", e[i], e[i])
      BY <2>3, <2>5, <3>1 DEF Related
    <3> QED
      BY <2>3, <3>1, <3>2, RowsBuilt
  <2>8. ASSUME NEW kind, kind = "key" \/ (kind = "all" /\ NoEmptyAssigned)
        PROVE  AgreementKept(kind)
    <3> SUFFICES ASSUME RowsAgree(kind, stored, denoted)
                 PROVE  RowsAgree(kind, t, e)
      BY <2>1 DEF AgreementKept
    <3>1. PICK m \in Nat : /\ DOMAIN stored = 1..m /\ DOMAIN denoted = 1..m
                           /\ \A i \in 1..m : Related(kind, stored[i], denoted[i])
      BY Zenon DEF RowsAgree, IsSequence
    <3>2. ASSUME NEW i \in 1..m
          PROVE  Related(kind, t[i], e[i])
      <4>1. Related(kind, stored[i], denoted[i])
        BY <3>1
      <4>2. \A c \in 1..n : c = k \/ NoEmptyAssigned =>
              (ValueAgrees(stored[i], denoted[i], c) => ValueAgrees(t[i], e[i], c))
        BY <2>3, <2>5, <3>1
      <4>3. CASE kind = "key"
        BY <2>4, <4>1, <4>2, <4>3 DEF Related
      <4>4. CASE kind = "all" /\ NoEmptyAssigned
        BY <2>4, <4>1, <4>2, <4>4 DEF Related
      <4> QED
        BY <2>8, <4>3, <4>4
    <3> QED
      BY <2>3, <3>1, <3>2, RowsBuilt
  <2> QED
    BY <1>2, <2>2, <2>6, <2>7, <2>8 DEF Outcomes
<1> QED
  BY <1>3, <1>4

-----------------------------------------------------------------------------
(* The inductive invariants *)

StatementInv ==
  /\ SchemaInv
  /\ RowsAgree("record", stored, stored)
  /\ RowsAgree("meaning", denoted, denoted)
  /\ outcome \in Outcomes

(* The rows agree on the key, or on all columns. *)
AgreeInv(kind) == RowsAgree(kind, stored, denoted)

(* When a step keeps the rows in agreement. *)
Keeping(kind) == LinesFit /\ (kind = "key" \/ (kind = "all" /\ NoEmptyAssigned))

LEMMA NoRowsYet ==
  ASSUME StatementInit, NEW kind
  PROVE  RowsAgree(kind, stored, denoted)
<1>1. stored = <<>> /\ denoted = <<>>
  BY DEF StatementInit
<1>2. PICK rows : rows = <<>>
  OBVIOUS
<1>3. IsSequence(rows) /\ Len(rows) = 0
  BY <1>2 DEF IsSequence
<1>4. RowsAgree(kind, rows, rows)
  BY <1>3 DEF RowsAgree
<1> QED
  BY <1>1, <1>2, <1>4

LEMMA InvInit == StatementInit => StatementInv
<1> SUFFICES ASSUME StatementInit
             PROVE  StatementInv
  OBVIOUS
<1>1. outcome \in Outcomes
  BY DEF StatementInit, Outcomes
<1>2. RowsAgree("record", stored, stored) /\ RowsAgree("meaning", denoted, denoted)
  BY NoRowsYet, ShapesApart
<1> QED
  BY <1>1, <1>2, InitSchema, Zenon DEF StatementInv

(* The rows are looked at by CREATE's columns only. *)
LEMMA SameColumns ==
  ASSUME NEW kind, declared' = declared
  PROVE  /\ RowsAgree(kind, stored', stored') => RowsAgree(kind, stored, stored)'
         /\ RowsAgree(kind, denoted', denoted') => RowsAgree(kind, denoted, denoted)'
         /\ RowsAgree(kind, stored', denoted') => RowsAgree(kind, stored, denoted)'
<1>1. DeclaredNames' = DeclaredNames
  BY DEF DeclaredNames
<1>2. DeclaredKey' = DeclaredKey
  BY Zenon DEF DeclaredKey
<1> QED
  BY <1>1, <1>2 DEF RowsAgree, Related, IsRecord, IsMeaning, ValueAgrees, MayBeSpoilt, IsSequence

LEMMA SameSchema ==
  ASSUME SchemaInv, declared' = declared, schema' = schema
  PROVE  SchemaInv'
  BY DEF SchemaInv

(* What every step does to the rows. *)
StepKeeps ==
  /\ RecordsKept /\ MeaningsKept /\ \A kind : Keeping(kind) => AgreementKept(kind)
  /\ outcome' \in Outcomes /\ declared' = declared
  /\ SchemaInv'

LEMMA EveryStepKeeps ==
  ASSUME SchemaInv, outcome \in Outcomes, [StatementNext]_statementVars
  PROVE  StepKeeps
<1>1. ASSUME NEW stmt \in Inserts, Insert(stmt)
      PROVE  StepKeeps
  BY <1>1, InsertKeepsRows, SameSchema, Zenon DEF StepKeeps
<1>2. ASSUME NEW line \in CsvLines, ImportRow(line)
      PROVE  StepKeeps
  BY <1>2, ImportKeepsRows, SameSchema, Zenon DEF StepKeeps, Keeping
<1>3. ASSUME NEW assignments \in Updates, Update(assignments)
      PROVE  StepKeeps
  BY <1>3, UpdateKeepsRows, SameSchema, Zenon DEF StepKeeps, Keeping
<1>4. CASE Restart
  <2>1. /\ declared' = declared /\ stored' = stored /\ denoted' = denoted
        /\ outcome' \in Outcomes
    BY <1>4 DEF Restart, Outcomes
  <2>2. SchemaInv'
    BY <1>4, RestartKeepsColumns
  <2> QED
    BY <2>1, <2>2 DEF StepKeeps, RecordsKept, MeaningsKept, AgreementKept
<1>5. CASE UNCHANGED statementVars
  <2>1. /\ declared' = declared /\ schema' = schema /\ stored' = stored /\ denoted' = denoted
        /\ outcome' = outcome
    BY <1>5 DEF statementVars
  <2>2. SchemaInv'
    BY <2>1, SameSchema
  <2>3. outcome' \in Outcomes
    BY <2>1
  <2> QED
    BY <2>1, <2>2, <2>3 DEF StepKeeps, RecordsKept, MeaningsKept, AgreementKept
<1> QED
  BY <1>1, <1>2, <1>3, <1>4, <1>5 DEF StatementNext

LEMMA InvNext == StatementInv /\ [StatementNext]_statementVars => StatementInv'
<1> SUFFICES ASSUME StatementInv, [StatementNext]_statementVars
             PROVE  StatementInv'
  OBVIOUS
<1>1. StepKeeps
  BY EveryStepKeeps DEF StatementInv
<1>2. /\ RowsAgree("record", stored', stored') /\ RowsAgree("meaning", denoted', denoted')
      /\ declared' = declared
  BY <1>1 DEF StatementInv, StepKeeps, RecordsKept, MeaningsKept
<1>3. RowsAgree("record", stored, stored)' /\ RowsAgree("meaning", denoted, denoted)'
  BY <1>2, SameColumns
<1>4. (outcome \in Outcomes)' /\ SchemaInv'
  BY <1>1 DEF StepKeeps, Outcomes
<1> QED
  BY <1>3, <1>4, Zenon DEF StatementInv

LEMMA StatementInvariant == StatementSpec => []StatementInv
<1> QED
  BY InvInit, InvNext, PTL DEF StatementSpec

LEMMA AgreementStep ==
  ASSUME NEW kind, Keeping(kind)
  PROVE  StatementInv /\ AgreeInv(kind) /\ [StatementNext]_statementVars => AgreeInv(kind)'
<1> SUFFICES ASSUME StatementInv, AgreeInv(kind), [StatementNext]_statementVars
             PROVE  AgreeInv(kind)'
  OBVIOUS
<1>1. StepKeeps
  BY EveryStepKeeps DEF StatementInv
<1>2. RowsAgree(kind, stored', denoted') /\ declared' = declared
  BY <1>1 DEF StepKeeps, AgreementKept, AgreeInv
<1>3. RowsAgree(kind, stored, denoted)'
  BY <1>2, SameColumns
<1> QED
  BY <1>3, Zenon DEF AgreeInv

(* Every row is as wide as CREATE's column list, before and after a restart. *)
THEOREM RowsHaveTheirWidth == StatementSpec => []StatementTypeOK
<1>1. StatementInv => StatementTypeOK
  <2> SUFFICES ASSUME StatementInv
               PROVE  StatementTypeOK
    OBVIOUS
  <2>1. /\ SchemaInv /\ outcome \in Outcomes
        /\ RowsAgree("record", stored, stored) /\ RowsAgree("meaning", denoted, denoted)
    BY DEF StatementInv
  <2>2. PICK n, k : Found(n, k)
    BY <2>1, ColumnsFound
  <2>3. /\ declared \in Schemas /\ DOMAIN schema = 1..n /\ DOMAIN declared = 1..n
        /\ \A c \in 1..n : schema[c].name = declared[c].name
    BY <2>1, <2>2, Zenon DEF Found, SchemaInv
  <2>4. [i \in DOMAIN schema |-> schema[i].name] = [i \in DOMAIN declared |-> declared[i].name]
    BY <2>3
  <2>5. \A i \in DOMAIN stored :
          stored[i].type \in RecordTypes /\ DOMAIN stored[i].values = DOMAIN declared
    BY <2>1 DEF RowsAgree, Related, IsRecord, IsSequence
  <2>6. \A i \in DOMAIN denoted : DOMAIN denoted[i] = DeclaredNames
    BY <2>1 DEF RowsAgree, Related, IsMeaning, IsSequence
  <2> QED
    BY <2>1, <2>3, <2>4, <2>5, <2>6, Zenon DEF StatementTypeOK
<1> QED
  BY <1>1, StatementInvariant, PTL

(* The file has the rows that the statements mean, column for column, but for what an UPDATE may *)
(* have spoilt and for a DEFAULT with a comma, if no line has too many fields and no UPDATE      *)
(* assigns the EMPTY literal.                                                                    *)
THEOREM RowsAreDenoted ==
  ASSUME LinesFit, NoEmptyAssigned
  PROVE  StatementSpec => []StoredAsDenoted
<1>1. StatementInv /\ AgreeInv("all") => StoredAsDenoted
  <2> SUFFICES ASSUME StatementInv, AgreeInv("all")
               PROVE  StoredAsDenoted
    OBVIOUS
  <2>1. PICK n, k : Found(n, k)
    BY ColumnsFound DEF StatementInv
  <2>2. DeclaredKey = k /\ KeyIndex = k /\ DOMAIN declared = 1..n
    BY <2>1, KeyDeclared, Zenon DEF Found
  <2>3. /\ Len(stored) = Len(denoted)
        /\ \A i \in DOMAIN stored : Related("all", stored[i], denoted[i])
    BY Zenon DEF AgreeInv, RowsAgree, IsSequence
  <2>4. \A i \in DOMAIN stored : \A c \in DOMAIN declared :
          CommaDefault(declared[c]) \/ ValueAgrees(stored[i], denoted[i], c)
    BY <2>3 DEF Related
  <2>5. \A c : PlaceIn(DeclaredKey, c) = FilePlace(c)
    BY <2>2, Zenon DEF PlaceIn, FilePlace
  <2>6. \A i \in DOMAIN stored : \A c \in DOMAIN declared :
          \/ CommaDefault(declared[c]) \/ SpoiltByUpdate(i, c)
          \/ stored[i].values[FilePlace(c)] = denoted[i][declared[c].name]
    BY <2>2, <2>4, <2>5, Zenon DEF ValueAgrees, MayBeSpoilt, SpoiltByUpdate
  <2> QED
    BY <2>3, <2>6, Zenon DEF StoredAsDenoted
<1>2. StatementInit => AgreeInv("all")
  BY NoRowsYet DEF AgreeInv
<1>3. StatementInv /\ AgreeInv("all") /\ [StatementNext]_statementVars => AgreeInv("all")'
  <2>1. Keeping("all")
    BY DEF Keeping
  <2> QED
    BY <2>1, AgreementStep
<1> QED
  BY <1>1, <1>2, <1>3, StatementInvariant, PTL DEF StatementSpec

(* A restart loses no constraint, and changes no column without a comma in its DEFAULT. *)
THEOREM SchemaSurvives == StatementSpec => []RestartKeepsSchema
<1>1. StatementInv => RestartKeepsSchema
  <2> SUFFICES ASSUME StatementInv, NEW c \in DOMAIN declared
               PROVE  /\ schema[c].name = declared[c].name
                      /\ \A kind \in {PrimaryKey, NotNull, "DEFAULT"} :
                           HasModifier(declared[c], kind) => HasModifier(schema[c], kind)
                      /\ ~CommaDefault(declared[c]) => schema[c] = declared[c]
    BY Zenon DEF RestartKeepsSchema
  <2>1. KeptColumn(declared[c], schema[c])
    BY Zenon DEF StatementInv, SchemaInv
  <2> QED
    BY <2>1, Zenon DEF KeptColumn, IsKey
<1> QED
  BY <1>1, StatementInvariant, PTL

(* The validator reads behind the end of a record only if a column is unknown. *)
THEOREM RecordsAreLongEnough == StatementSpec => []ReadsWithinRecords
<1>1. StatementInv => ReadsWithinRecords
  BY ReadsWithin DEF StatementInv
<1> QED
  BY <1>1, StatementInvariant, PTL

(* Only a DEFAULT that is the EMPTY literal can cut an INSERT short. *)
THEOREM OnlyDefaultsCut == StatementSpec => InsertsCutOnlyByDefault
<1>1. StatementInv /\ [StatementNext]_statementVars =>
        [outcome' = "threw" =>
           \E c \in DOMAIN declared :
             Default(Nothing) \in Range(declared[c].modifiers)]_statementVars
  <2> SUFFICES ASSUME StatementInv, StatementNext, outcome' = "threw"
               PROVE  \E c \in DOMAIN declared : Default(Nothing) \in Range(declared[c].modifiers)
    OBVIOUS
  <2>1. SchemaInv
    BY DEF StatementInv
  <2>2. ASSUME NEW stmt \in Inserts, Insert(stmt)
        PROVE  \E c \in DOMAIN declared : Default(Nothing) \in Range(declared[c].modifiers)
    BY <2>1, <2>2, InsertKeepsRows
  <2>3. ASSUME NEW line \in CsvLines, ImportRow(line)
        PROVE  FALSE
    BY <2>1, <2>3, ImportKeepsRows
  <2>4. ASSUME NEW assignments \in Updates, Update(assignments)
        PROVE  FALSE
    BY <2>1, <2>4, UpdateKeepsRows
  <2>5. ~Restart
    BY DEF Restart
  <2> QED
    BY <2>2, <2>3, <2>4, <2>5 DEF StatementNext
<1> QED
  BY <1>1, StatementInvariant, PTL DEF StatementSpec, InsertsCutOnlyByDefault

-----------------------------------------------------------------------------
(* The verdict on an INSERT *)

(* A list that names no column twice is no longer than the schema. *)
LEMMA ListFits ==
  ASSUME NEW n, NEW k, Found(n, k), NEW columns, IsSequence(columns), AllKnown(columns),
         \A i, j \in DOMAIN columns : columns[i] = columns[j] => i = j
  PROVE  Len(columns) <= n
<1>1. PICK w : w = Len(columns)
  OBVIOUS
<1>2. w \in Nat /\ DOMAIN columns = 1..w
  BY <1>1 DEF IsSequence
<1>3. /\ n \in Nat
      /\ DeclaredNames = {declared[c].name : c \in 1..n}
      /\ \A name : \A c \in 1..n : SchemaIndex(name) = c <=> name = declared[c].name
  BY Zenon DEF Found
<1>4. \A i \in 1..w : columns[i] \in DeclaredNames
  BY <1>1, KnownColumns
<1>5. PICK f : f = [i \in 1..w |-> SchemaIndex(columns[i])]
  OBVIOUS
<1>6. \A i \in 1..w : f[i] \in 1..n /\ columns[i] = declared[f[i]].name
  <2> SUFFICES ASSUME NEW i \in 1..w
               PROVE  f[i] \in 1..n /\ columns[i] = declared[f[i]].name
    OBVIOUS
  <2>1. PICK c \in 1..n : columns[i] = declared[c].name
    BY <1>3, <1>4
  <2>2. f[i] = SchemaIndex(columns[i])
    BY <1>5
  <2> QED
    BY <1>3, <2>1, <2>2, Zenon
<1>7. f \in [1..w -> 1..n]
  BY <1>5, <1>6
<1>8. \A i, j \in 1..w : f[i] = f[j] => i = j
  BY <1>2, <1>6
<1>9. /\ IsFiniteSet(1..w) /\ Cardinality(1..w) = w
      /\ IsFiniteSet(1..n) /\ Cardinality(1..n) = n
  <2>1. \A m \in Nat : IsFiniteSet(1..m) /\ Cardinality(1..m) = m
    BY FS_Interval
  <2> QED
    BY <1>2, <1>3, <2>1
<1>10. ~(n < w)
  <2>1. PICK S, T : S = 1..w /\ T = 1..n
    OBVIOUS
  <2>2. /\ IsFiniteSet(S) /\ Cardinality(S) = w /\ IsFiniteSet(T) /\ Cardinality(T) = n
        /\ f \in [S -> T] /\ ~(\E i, j \in S : i # j /\ f[i] = f[j])
    BY <1>7, <1>8, <1>9, <2>1
  <2>3. Cardinality(T) < Cardinality(S) => \E i, j \in S : i # j /\ f[i] = f[j]
    BY <2>2, FS_PigeonHole
  <2> QED
    BY <2>2, <2>3, Zenon
<1>11. \A a, b \in Nat : ~(a < b) => b <= a
  OBVIOUS
<1> QED
  BY <1>1, <1>2, <1>3, <1>10, <1>11, Zenon

LEMMA KnownAgrees ==
  ASSUME NEW n, NEW k, Found(n, k), NEW stmt \in Inserts
  PROVE  AllKnown(UserColumns(stmt)) <=>
           (stmt.columns # NoList => Range(stmt.columns) \subseteq DeclaredNames)
<1>1. PICK columns : columns = UserColumns(stmt)
  OBVIOUS
<1>2. IsSequence(columns)
  BY <1>1, ColumnsListed
<1>3. AllKnown(columns) <=> \A i \in 1..Len(columns) : columns[i] \in DeclaredNames
  BY <1>2, KnownColumns
<1>4. CASE stmt.columns = NoList
  <2>1. Len(columns) = n /\ \A i \in 1..n : columns[i] = declared[i].name
    BY <1>1, <1>4, ColumnsListed
  <2>2. DeclaredNames = {declared[c].name : c \in 1..n}
    BY Zenon DEF Found
  <2>3. \A i \in 1..n : columns[i] \in DeclaredNames
    BY <2>1, <2>2
  <2> QED
    BY <1>1, <1>3, <1>4, <2>1, <2>3, Zenon
<1>5. CASE stmt.columns # NoList
  <2>1. columns = stmt.columns /\ DOMAIN columns = 1..Len(columns)
    BY <1>1, <1>2, <1>5, ColumnsListed DEF IsSequence
  <2>2. Range(columns) \subseteq DeclaredNames
          <=> \A i \in 1..Len(columns) : columns[i] \in DeclaredNames
    BY <2>1 DEF Range
  <2> QED
    BY <1>1, <1>3, <1>5, <2>1, <2>2, Zenon
<1> QED
  BY <1>4, <1>5

(* The rows' keys, by position and by name, as long as no UPDATE has changed one. *)
LEMMA KeysAgree ==
  ASSUME NEW n, NEW k, Found(n, k), AgreeInv("key"), KeysIntact, NEW key
  PROVE  key \in Keys <=> \E i \in DOMAIN denoted : denoted[i][declared[k].name] = key
<1>1. DeclaredKey = k /\ PlaceIn(k, k) = 1 /\ KeyIndex = k
  BY KeyDeclared, Zenon DEF Found
<1>2. /\ DOMAIN stored = DOMAIN denoted
      /\ \A i \in DOMAIN stored : Related("key", stored[i], denoted[i])
  BY Zenon DEF AgreeInv, RowsAgree, IsSequence
<1>3. \A i \in DOMAIN stored : ValueAgrees(stored[i], denoted[i], k)
  BY <1>1, <1>2 DEF Related
<1>4. \A i \in DOMAIN stored : ~MayBeSpoilt(stored[i], denoted[i][declared[k].name])
  BY <1>1, Zenon DEF KeysIntact, SpoiltByUpdate, MayBeSpoilt
<1>5. \A i \in DOMAIN stored : stored[i].values[1] = denoted[i][declared[k].name]
  BY <1>1, <1>3, <1>4, Zenon DEF ValueAgrees
<1>6. Keys = {stored[i].values[1] : i \in DOMAIN stored}
  BY DEF Keys
<1> QED
  BY <1>2, <1>5, <1>6

(* The key of a normalized record is the key that is meant: the statement has no quotes around it. *)
LEMMA KeyOfRecord ==
  ASSUME SchemaInv, NEW n, NEW k, Found(n, k), NEW stmt \in Inserts, Proper(stmt),
         AllKnown(UserColumns(stmt)), NEW i \in 1..Len(stmt.records),
         Given(stmt, stmt.records[i], declared[k].name)
  PROVE  /\ NormalizedRow(stmt, stmt.records[i])[k].text = Meaning(stmt, stmt.records[i])[declared[k].name]
         /\ ~IsEmpty(NormalizedRow(stmt, stmt.records[i])[k])
<1>1. PICK columns, values, name, j, lit :
        /\ columns = UserColumns(stmt) /\ values = stmt.records[i] /\ name = declared[k].name
        /\ j = ListedAt(stmt, name) /\ lit = NormalizedRow(stmt, values)[k]
  OBVIOUS
<1>2. k \in 1..n /\ KeyIndex = k /\ DeclaredNames = {declared[c].name : c \in 1..n}
      /\ SchemaIndex(name) = k
  BY <1>1, Zenon DEF Found
<1>3. ValueFound(stmt, values, k)
  BY <1>1, <1>2, ValuesFound
<1>4. ~IsEmpty(lit) /\ lit = values[j]
  BY <1>1, <1>3, Zenon DEF ValueFound
<1>5. j \in DOMAIN values
  BY <1>1, Zenon DEF Given
<1>6. columns[j] = name
  <2>1. IsSequence(columns) /\ j = LastIndex(columns, k)
    BY <1>1, <1>2, ColumnsListed, ListedLast
  <2>2. IsLastPlace(columns, name, j)
    BY <1>1, <1>2, <2>1, LastListed
  <2>3. j # 0
    <3>1. DOMAIN values = 1..Len(values) /\ Len(values) \in Nat
      BY <1>1, RecordTyped, Zenon
    <3> QED
      BY <1>5, <3>1
  <2> QED
    BY <2>2, <2>3, Zenon DEF IsLastPlace
<1>7. IsUnmarked(lit.text)
  <2>1. DOMAIN stmt.records = 1..Len(stmt.records)
    BY RecordTyped
  <2>2. SchemaIndex(columns[j]) = KeyIndex => IsUnmarked(values[j].text)
    BY <1>1, <1>5, <2>1, Zenon DEF Proper
  <2> QED
    BY <1>2, <1>4, <1>6, <2>2, Zenon
<1>8. RemoveOuterQuotes(lit.text) = lit.text
  BY <1>7 DEF RemoveOuterQuotes
<1>9. Meaning(stmt, values)[name] = RemoveOuterQuotes(values[j].text)
  <2>1. name \in DeclaredNames
    BY <1>1, <1>2
  <2>2. \A x \in DeclaredNames : Given(stmt, values, x) =>
          Meaning(stmt, values)[x] = RemoveOuterQuotes(values[ListedAt(stmt, x)].text)
    BY DEF Meaning
  <2> QED
    BY <1>1, <2>1, <2>2, Zenon
<1> QED
  BY <1>1, <1>4, <1>8, <1>9, Zenon

(* What record i must satisfy: it gives what must be given, and its key is new. *)
GivenAt(stmt, i, c) == Given(stmt, stmt.records[i], declared[c].name)
Complete(stmt, n, i) ==
  \A c \in 1..n : HasEmptyLiteralRuleViolations(declared[c]) => GivenAt(stmt, i, c)
KeyMeant(stmt, k, i) == Meaning(stmt, stmt.records[i])[declared[k].name]
NewKey(stmt, k, i) ==
  /\ \A r \in DOMAIN denoted : denoted[r][declared[k].name] # KeyMeant(stmt, k, i)
  /\ \A l \in 1..(i - 1) : KeyMeant(stmt, k, l) # KeyMeant(stmt, k, i)

(* What CREATE has said of a column, by its name and by its modifiers. *)
LEMMA KindsDeclared ==
  ASSUME NEW n, NEW k, Found(n, k), NEW c \in 1..n
  PROVE  /\ PrimaryKey \in DeclaredKinds(declared[c].name) <=> c = k
         /\ MustBeGiven(declared[c].name) <=> HasEmptyLiteralRuleViolations(declared[c])
<1>1. Place(declared[c].name) = c /\ (IsKey(declared[c]) <=> c = k)
  BY Zenon DEF Found
<1>2. PICK mods : mods = declared[c].modifiers
  OBVIOUS
<1>3. DeclaredKinds(declared[c].name) = {m.kind : m \in Range(mods)}
  BY <1>1, <1>2, Zenon DEF DeclaredKinds
<1>4. \A kind : kind \in DeclaredKinds(declared[c].name) <=> \E i \in DOMAIN mods : mods[i].kind = kind
  BY <1>3 DEF Range
<1>5. \A kind : kind \in DeclaredKinds(declared[c].name) <=> HasModifier(declared[c], kind)
  BY <1>2, <1>4, Zenon DEF HasModifier
<1> QED
  BY <1>1, <1>5, Zenon DEF IsKey, MustBeGiven, HasEmptyLiteralRuleViolations

LEMMA LegitimateRecords ==
  ASSUME NEW n, NEW k, Found(n, k), NEW stmt \in Inserts, NEW m, m = Len(stmt.records)
  PROVE  Legitimate(stmt) <=>
           /\ stmt.columns # NoList => Range(stmt.columns) \subseteq DeclaredNames
           /\ \A i \in 1..m : Complete(stmt, n, i) /\ NewKey(stmt, k, i)
<1>1. DOMAIN stmt.records = 1..m
  BY RecordTyped
<1>2. k \in 1..n /\ DeclaredNames = {declared[c].name : c \in 1..n}
  BY Zenon DEF Found
<1> DEFINE Rules(i, name) ==
             /\ MustBeGiven(name) => Given(stmt, stmt.records[i], name)
             /\ PrimaryKey \in DeclaredKinds(name) =>
                  /\ \A r \in DOMAIN denoted : denoted[r][name] # Meaning(stmt, stmt.records[i])[name]
                  /\ \A l \in 1..(i - 1) :
                       Meaning(stmt, stmt.records[l])[name] # Meaning(stmt, stmt.records[i])[name]
<1>3. Legitimate(stmt) <=>
        /\ stmt.columns # NoList => Range(stmt.columns) \subseteq DeclaredNames
        /\ \A i \in 1..m : \A name \in DeclaredNames : Rules(i, name)
  BY <1>1 DEF Legitimate
<1>4. \A i \in 1..m : \A c \in 1..n :
        Rules(i, declared[c].name) <=>
          /\ HasEmptyLiteralRuleViolations(declared[c]) => GivenAt(stmt, i, c)
          /\ c = k => NewKey(stmt, k, i)
  <2> SUFFICES ASSUME NEW i \in 1..m, NEW c \in 1..n
               PROVE  Rules(i, declared[c].name) <=>
                        /\ HasEmptyLiteralRuleViolations(declared[c]) => GivenAt(stmt, i, c)
                        /\ c = k => NewKey(stmt, k, i)
    OBVIOUS
  <2>1. /\ PrimaryKey \in DeclaredKinds(declared[c].name) <=> c = k
        /\ MustBeGiven(declared[c].name) <=> HasEmptyLiteralRuleViolations(declared[c])
    BY KindsDeclared
  <2>2. CASE c = k
    BY <2>1, <2>2, Zenon DEF GivenAt, NewKey, KeyMeant
  <2>3. CASE c # k
    BY <2>1, <2>3, Zenon DEF GivenAt
  <2> QED
    BY <2>2, <2>3
<1> HIDE DEF Rules
<1>5. \A i \in 1..m : (\A name \in DeclaredNames : Rules(i, name))
                         <=> Complete(stmt, n, i) /\ NewKey(stmt, k, i)
  <2> SUFFICES ASSUME NEW i \in 1..m
               PROVE  (\A name \in DeclaredNames : Rules(i, name))
                        <=> Complete(stmt, n, i) /\ NewKey(stmt, k, i)
    OBVIOUS
  <2>1. (\A name \in DeclaredNames : Rules(i, name)) <=> \A c \in 1..n : Rules(i, declared[c].name)
    BY <1>2
  <2> QED
    BY <1>2, <1>4, <2>1, Zenon DEF Complete
<1> QED
  BY <1>3, <1>5, Zenon

(* The masks and the rewriting lose no violation and invent none. *)
LEMMA ViolationsAgree ==
  ASSUME SchemaInv, NEW n, NEW k, Found(n, k), NEW stmt \in Inserts,
         AllKnown(UserColumns(stmt)), NEW i \in 1..Len(stmt.records),
         NEW recs, recs[i] = NormalizedRow(stmt, stmt.records[i])
  PROVE  /\ (\A c \in 1..n : ~Violates(stmt, recs, i, c)) <=>
              Complete(stmt, n, i) /\ (GivenAt(stmt, i, k) => ~DuplicateKey(recs, i))
         /\ Complete(stmt, n, i) => GivenAt(stmt, i, k)
<1>1. KeyIndex = k /\ k \in 1..n
  BY Zenon DEF Found
<1>2. HasEmptyLiteralRuleViolations(declared[k])
  BY KeyMustBeGiven
<1>3. \A c \in 1..n : HasEmptyLiteralRuleViolations(schema[c])
                        <=> HasEmptyLiteralRuleViolations(declared[c])
  BY ColumnsKeepRules, Zenon DEF RulesKept
<1>4. \A c \in 1..n : ~Violates(stmt, recs, i, c) <=>
        /\ HasEmptyLiteralRuleViolations(declared[c]) => GivenAt(stmt, i, c)
        /\ c = k /\ GivenAt(stmt, i, c) => ~DuplicateKey(recs, i)
  <2> SUFFICES ASSUME NEW c \in 1..n
               PROVE  ~Violates(stmt, recs, i, c) <=>
                        /\ HasEmptyLiteralRuleViolations(declared[c]) => GivenAt(stmt, i, c)
                        /\ c = k /\ GivenAt(stmt, i, c) => ~DuplicateKey(recs, i)
    OBVIOUS
  <2>1. ValueFound(stmt, stmt.records[i], c)
    BY ValuesFound
  <2>2. /\ IsEmpty(recs[i][c]) <=> ~GivenAt(stmt, i, c)
        /\ GivenAt(stmt, i, c) => c \in ProjectionMask(stmt)
    BY <2>1, Zenon DEF ValueFound, GivenAt
  <2>3. Violates(stmt, recs, i, c) <=>
          \/ /\ IsEmpty(recs[i][c]) \/ c \notin ProjectionMask(stmt)
             /\ HasEmptyLiteralRuleViolations(schema[c])
          \/ ~IsEmpty(recs[i][c]) /\ c = KeyIndex /\ DuplicateKey(recs, i)
    BY Zenon DEF Violates
  <2>4. HasEmptyLiteralRuleViolations(schema[c]) <=> HasEmptyLiteralRuleViolations(declared[c])
    BY <1>3
  <2> QED
    BY <1>1, <2>2, <2>3, <2>4, Zenon
<1>5. Complete(stmt, n, i) => GivenAt(stmt, i, k)
  BY <1>1, <1>2, Zenon DEF Complete
<1> QED
  BY <1>1, <1>4, <1>5, Zenon DEF Complete

(* Where every record gives its key, the validator finds the keys that are not new. *)
LEMMA DuplicatesAgree ==
  ASSUME SchemaInv, AgreeInv("key"), KeysIntact, NEW n, NEW k, Found(n, k),
         NEW stmt \in Inserts, Proper(stmt), AllKnown(UserColumns(stmt)),
         NEW m, m = Len(stmt.records), NEW recs, recs = NormalizedRecords(stmt),
         \A i \in 1..m : /\ recs[i] = NormalizedRow(stmt, stmt.records[i])
                         /\ GivenAt(stmt, i, k),
         NEW i \in 1..m
  PROVE  DuplicateKey(recs, i) <=> ~NewKey(stmt, k, i)
<1>1. m \in Nat /\ \A l \in 1..(i - 1) : l \in 1..m
  <2>1. m \in Nat
    BY RecordTyped
  <2> QED
    BY <2>1
<1>2. KeyIndex = k /\ k \in 1..n
  BY Zenon DEF Found
<1>3. \A l \in 1..m : /\ recs[l][k].text = KeyMeant(stmt, k, l)
                      /\ ~IsEmpty(recs[l][k])
                      /\ k \in DOMAIN recs[l]
  <2> SUFFICES ASSUME NEW l \in 1..m
               PROVE  /\ recs[l][k].text = KeyMeant(stmt, k, l)
                      /\ ~IsEmpty(recs[l][k])
                      /\ k \in DOMAIN recs[l]
    OBVIOUS
  <2>1. l \in 1..Len(stmt.records) /\ Given(stmt, stmt.records[l], declared[k].name)
    BY Zenon DEF GivenAt
  <2>2. /\ NormalizedRow(stmt, stmt.records[l])[k].text =
             Meaning(stmt, stmt.records[l])[declared[k].name]
        /\ ~IsEmpty(NormalizedRow(stmt, stmt.records[l])[k])
    BY <2>1, KeyOfRecord
  <2>3. DOMAIN NormalizedRow(stmt, stmt.records[l]) = 1..n
    BY RecordsNormalized
  <2> QED
    BY <1>2, <2>2, <2>3, Zenon DEF KeyMeant
<1>4. recs[i][k].text \in Keys <=>
        \E r \in DOMAIN denoted : denoted[r][declared[k].name] = KeyMeant(stmt, k, i)
  <2>1. PICK key : key = recs[i][k].text
    OBVIOUS
  <2>2. key \in Keys <=> \E r \in DOMAIN denoted : denoted[r][declared[k].name] = key
    BY KeysAgree
  <2> QED
    BY <1>3, <2>1, <2>2, Zenon
<1>5. DuplicateKey(recs, i) <=>
        \/ recs[i][k].text \in Keys
        \/ \E l \in 1..(i - 1) : /\ k \in DOMAIN recs[l]
                                 /\ ~IsEmpty(recs[l][k])
                                 /\ recs[l][k].text = recs[i][k].text
  BY <1>2 DEF DuplicateKey
<1>6. (\E l \in 1..(i - 1) : /\ k \in DOMAIN recs[l]
                             /\ ~IsEmpty(recs[l][k])
                             /\ recs[l][k].text = recs[i][k].text)
        <=> \E l \in 1..(i - 1) : KeyMeant(stmt, k, l) = KeyMeant(stmt, k, i)
  BY <1>1, <1>3, Zenon
<1> QED
  BY <1>4, <1>5, <1>6, Zenon DEF NewKey

LEMMA VerdictsAgree == StatementInv /\ AgreeInv("key") => VerdictAgrees
<1> SUFFICES ASSUME StatementInv, AgreeInv("key"), KeysIntact, NEW stmt \in Inserts, Proper(stmt)
             PROVE  InsertVerdict(stmt) = "accepted" <=> Legitimate(stmt)
  BY Zenon DEF VerdictAgrees
<1>1. SchemaInv
  BY DEF StatementInv
<1>2. PICK n, k : Found(n, k)
  BY <1>1, ColumnsFound
<1>3. PICK m, recs, columns : /\ m = Len(stmt.records) /\ recs = NormalizedRecords(stmt)
                              /\ columns = UserColumns(stmt)
  OBVIOUS
<1>4. InsertVerdict(stmt) = "accepted" <=>
        /\ AllKnown(columns)
        /\ \A i \in 1..m : /\ ~TooLong(stmt.records[i])
                           /\ recs[i] = NormalizedRow(stmt, stmt.records[i])
                           /\ \A c \in 1..n : ~Violates(stmt, recs, i, c)
  <2>1. InsertVerdict(stmt) = "accepted" <=>
          /\ AllKnown(UserColumns(stmt))
          /\ \A i \in 1..m : /\ ~TooLong(stmt.records[i])
                             /\ recs[i] = NormalizedRow(stmt, stmt.records[i])
                             /\ \A c \in 1..n : ~Violates(stmt, recs, i, c)
    BY <1>2, <1>3, AcceptedInsert
  <2> QED
    BY <1>3, <2>1, Zenon
<1>5. Legitimate(stmt) <=>
        AllKnown(columns) /\ \A i \in 1..m : Complete(stmt, n, i) /\ NewKey(stmt, k, i)
  <2>1. Legitimate(stmt) <=>
          /\ stmt.columns # NoList => Range(stmt.columns) \subseteq DeclaredNames
          /\ \A i \in 1..m : Complete(stmt, n, i) /\ NewKey(stmt, k, i)
    BY <1>2, <1>3, LegitimateRecords
  <2>2. AllKnown(UserColumns(stmt)) <=>
          (stmt.columns # NoList => Range(stmt.columns) \subseteq DeclaredNames)
    BY <1>2, KnownAgrees
  <2> QED
    BY <1>3, <2>1, <2>2, Zenon
<1>6. CASE ~AllKnown(columns)
  BY <1>4, <1>5, <1>6, Zenon
<1>7. CASE AllKnown(columns)
  <2>1. \A i \in 1..m : ~TooLong(stmt.records[i])
    <3> SUFFICES ASSUME NEW i \in 1..m
                 PROVE  ~TooLong(stmt.records[i])
      OBVIOUS
    <3>1. PICK len, w : len = Len(stmt.records[i]) /\ w = Len(columns)
      OBVIOUS
    <3>2. DOMAIN stmt.records = 1..m
      BY <1>3, RecordTyped
    <3>3. len <= w /\ \A a, b \in DOMAIN columns : columns[a] = columns[b] => a = b
      BY <1>3, <3>1, <3>2, Zenon DEF Proper
    <3>4. IsSequence(columns)
      BY <1>2, <1>3, ColumnsListed
    <3>5. w <= n
      BY <1>2, <1>7, <3>1, <3>3, <3>4, ListFits
    <3>6. len \in Nat /\ w \in Nat /\ n \in Nat /\ Len(schema) = n
      <4>1. len \in Nat
        BY <1>3, <3>1, RecordTyped, Zenon
      <4>2. w \in Nat
        BY <3>1, <3>4, Zenon DEF IsSequence
      <4>3. n \in Nat /\ Len(schema) = n
        BY <1>2, Zenon DEF Found
      <4> QED
        BY <4>1, <4>2, <4>3
    <3>7. \A a, b, c \in Nat : a <= b /\ b <= c => ~(a > c)
      OBVIOUS
    <3>8. ~(len > n)
      BY <3>3, <3>5, <3>6, <3>7, Zenon
    <3> QED
      BY <3>1, <3>6, <3>8, Zenon DEF TooLong
  <2>2. \A i \in 1..m : recs[i] = NormalizedRow(stmt, stmt.records[i])
    <3>1. /\ m \in Nat
          /\ \A i \in 1..m :
               recs[i] = IF /\ AllKnown(UserColumns(stmt))
                            /\ \A l \in 1..i : ~TooLong(stmt.records[l])
                         THEN NormalizedRow(stmt, stmt.records[i])
                         ELSE stmt.records[i]
      BY <1>2, <1>3, RecordsNormalized
    <3>2. \A i \in 1..m : \A l \in 1..i : l \in 1..m
      BY <3>1
    <3> QED
      BY <1>3, <1>7, <2>1, <3>1, <3>2, Zenon
  <2>3. \A i \in 1..m :
          /\ (\A c \in 1..n : ~Violates(stmt, recs, i, c)) <=>
               Complete(stmt, n, i) /\ (GivenAt(stmt, i, k) => ~DuplicateKey(recs, i))
          /\ Complete(stmt, n, i) => GivenAt(stmt, i, k)
    BY <1>1, <1>2, <1>3, <1>7, <2>2, ViolationsAgree
  <2>4. CASE \A i \in 1..m : GivenAt(stmt, i, k)
    <3>1. \A i \in 1..m : DuplicateKey(recs, i) <=> ~NewKey(stmt, k, i)
      BY <1>1, <1>2, <1>3, <1>7, <2>2, <2>4, DuplicatesAgree
    <3> QED
      BY <1>4, <1>5, <1>7, <2>1, <2>2, <2>3, <2>4, <3>1, Zenon
  <2>5. CASE ~(\A i \in 1..m : GivenAt(stmt, i, k))
    BY <1>4, <1>5, <2>3, <2>5, Zenon
  <2> QED
    BY <2>4, <2>5
<1> QED
  BY <1>6, <1>7

(* As long as no UPDATE has changed a key, the engine accepts an INSERT exactly when the columns *)
(* of CREATE do, if no imported line has had too many fields.                                    *)
THEOREM VerdictsAreRight ==
  ASSUME LinesFit
  PROVE  StatementSpec => []VerdictAgrees
<1>1. StatementInv /\ AgreeInv("key") => VerdictAgrees
  BY VerdictsAgree
<1>2. StatementInit => AgreeInv("key")
  BY NoRowsYet DEF AgreeInv
<1>3. StatementInv /\ AgreeInv("key") /\ [StatementNext]_statementVars => AgreeInv("key")'
  <2>1. Keeping("key")
    BY DEF Keeping
  <2> QED
    BY <2>1, AgreementStep
<1> QED
  BY <1>1, <1>2, <1>3, StatementInvariant, PTL DEF StatementSpec
=============================================================================
