--------------------------- MODULE CliDriverProofs ----------------------------
(***************************************************************************)
(* For any limit and any lines: the buffer's bound, what a statement that  *)
(* fails takes with it, and that the statements visited are those typed.   *)
(***************************************************************************)
EXTENDS CliDriver, Counting, SequenceTheorems, TLAPS

BufferInv ==
  /\ buffer \in Seq(Tokens)
  /\ Len(buffer) <= 2 * MaxSize + 1

LEMMA GatheredBounded ==
  ASSUME buffer \in Seq(Tokens), NEW line \in Lines, ~TooLarge(line)
  PROVE  /\ Gathered(line) \in Seq(Tokens)
         /\ Len(Gathered(line)) <= 2 * MaxSize + 1
<1>1. line \in Seq(Tokens) /\ NewLine \in Tokens
  <2>1. line \in Seq(Tokens \ {NewLine})
    BY CliAssumption
  <2>2. Tokens \ {NewLine} \subseteq Tokens
    OBVIOUS
  <2>3. line \in Seq(Tokens)
    <3> DEFINE S == Tokens \ {NewLine}
               T == Tokens
    <3>1. line \in Seq(S) /\ S \subseteq T
      BY <2>1, <2>2
    <3> HIDE DEF S, T
    <3>2. line \in Seq(T)
      BY <3>1, SeqDef
    <3> QED
      BY <3>2 DEF T
  <2>4. NewLine \in Tokens
    BY DEF Tokens
  <2> QED
    BY <2>3, <2>4
<1>2. /\ buffer \o line \in Seq(Tokens)
      /\ Len(buffer \o line) = Len(buffer) + Len(line)
  BY <1>1, ConcatProperties
<1>3. /\ Gathered(line) \in Seq(Tokens)
      /\ Len(Gathered(line)) = Len(buffer) + Len(line) + 1
  <2> DEFINE joined == buffer \o line
  <2>1. joined \in Seq(Tokens) /\ Len(joined) = Len(buffer) + Len(line)
    BY <1>2
  <2>2. <<NewLine>> \in Seq(Tokens) /\ Len(<<NewLine>>) = 1
    BY <1>1
  <2>3. joined \o <<NewLine>> \in Seq(Tokens) /\ Len(joined \o <<NewLine>>) = Len(joined) + 1
    <3> HIDE DEF joined
    <3> QED
      BY <2>1, <2>2, ConcatProperties
  <2> QED
    BY <2>1, <2>3 DEF Gathered
<1>4. Len(buffer) <= MaxSize /\ Len(line) <= MaxSize
  BY <1>1, CliAssumption, LenProperties DEF TooLarge
<1> QED
  BY <1>1, <1>3, <1>4, CliAssumption, LenProperties

(* The buffer never exceeds twice its limit and a line's end, for any limit and any lines. *)
THEOREM BufferStaysBounded == CliSpec => []BufferBounded
<1>1. CliInit => BufferInv
  BY CliAssumption DEF CliInit, BufferInv
<1>2. BufferInv /\ [CliNext]_cliVars => BufferInv'
  <2> SUFFICES ASSUME BufferInv, [CliNext]_cliVars
               PROVE  BufferInv'
    OBVIOUS
  <2>1. CASE EnterQuit
    BY <2>1, CliAssumption DEF EnterQuit, Leave, BufferInv
  <2>2. CASE EnterInit
    BY <2>2 DEF EnterInit, BufferInv
  <2>3. ASSUME NEW line \in Lines, EnterLine(line)
        PROVE  BufferInv'
    <3>1. CASE EnterTooLarge(line)
      BY <3>1, CliAssumption DEF EnterTooLarge, Leave, BufferInv
    <3>2. CASE EnterPart(line)
      BY <3>2, GatheredBounded DEF EnterPart, BufferInv
    <3>3. CASE EnterTooEarly(line)
      BY <3>3, CliAssumption DEF EnterTooEarly, BufferInv
    <3>4. CASE EnterProgram(line)
      BY <3>4, CliAssumption DEF EnterProgram, BufferInv
    <3> QED
      BY <2>3, <3>1, <3>2, <3>3, <3>4 DEF EnterLine
  <2>4. CASE VisitStatement
    BY <2>4 DEF VisitStatement, BufferInv
  <2>5. CASE UNCHANGED cliVars
    BY <2>5 DEF cliVars, BufferInv
  <2> QED
    BY <2>1, <2>2, <2>3, <2>4, <2>5 DEF CliNext
<1>3. BufferInv => BufferBounded
  BY DEF BufferInv, BufferBounded
<1> QED
  BY <1>1, <1>2, <1>3, PTL DEF CliSpec

ExecutedIsSequence == \E S : executed \in Seq(S)

LEMMA ExecutedAlwaysSequence == CliSpec => []ExecutedIsSequence
<1>1. CliInit => ExecutedIsSequence
  BY EmptySeq DEF CliInit, ExecutedIsSequence
<1>2. ExecutedIsSequence /\ [CliNext]_cliVars => ExecutedIsSequence'
  <2>1. ASSUME ExecutedIsSequence, VisitStatement
        PROVE  ExecutedIsSequence'
    <3>1. PICK S : executed \in Seq(S)
      BY <2>1 DEF ExecutedIsSequence
    <3>2. executed' \in Seq(S \cup {Head(program)})
      BY <2>1, <3>1, AppendProperties DEF VisitStatement
    <3> QED
      BY <3>2 DEF ExecutedIsSequence
  <2>2. ASSUME ExecutedIsSequence, [CliNext]_cliVars, ~VisitStatement
        PROVE  executed' = executed
    BY <2>2 DEF CliNext, EnterQuit, EnterInit, EnterLine, EnterTooLarge, EnterPart,
                EnterTooEarly, EnterProgram, Leave, cliVars
  <2> QED
    BY <2>1, <2>2 DEF ExecutedIsSequence
<1> QED
  BY <1>1, <1>2, PTL DEF CliSpec

(* A statement that throws or ends the process is the last of its program that is visited. *)
THEOREM FailureAlwaysEndsProgram == CliSpec => FailureEndsProgram
<1>1. ASSUME ExecutedIsSequence, [CliNext]_cliVars,
             Len(executed') > Len(executed), Head(Last(executed')) # "runs"
      PROVE  program' = <<>>
  <2>1. PICK S : executed \in Seq(S)
    BY <1>1 DEF ExecutedIsSequence
  <2>2. CASE VisitStatement
    <3>1. executed' = Append(executed, Head(program))
      BY <2>2 DEF VisitStatement
    <3>2. executed \in Seq(S \cup {Head(program)}) /\ Head(program) \in S \cup {Head(program)}
      BY <2>1
    <3>3. Last(executed') = Head(program)
      BY <3>1, <3>2, AppendProperties DEF Last
    <3> QED
      BY <1>1, <2>2, <3>3 DEF VisitStatement
  <2>3. CASE ~VisitStatement
    <3>1. executed' = executed
      BY <1>1, <2>3 DEF CliNext, EnterQuit, EnterInit, EnterLine, EnterTooLarge, EnterPart,
                        EnterTooEarly, EnterProgram, Leave, cliVars
    <3> QED
      BY <1>1, <2>1, <3>1, LenProperties
  <2> QED
    BY <2>2, <2>3
<1>2. ASSUME ExecutedIsSequence, [CliNext]_cliVars
      PROVE  [Len(executed') > Len(executed) /\ Head(Last(executed')) # "runs"
                => program' = <<>>]_cliVars
  BY <1>1, <1>2
<1> QED
  BY <1>2, ExecutedAlwaysSequence, PTL DEF CliSpec, FailureEndsProgram
-----------------------------------------------------------------------------
(* What a token adds to a text *)

(* The tokens of a statement whose semicolon is missing, and whether they end inside a string. *)
Open(tokens) == TokensAt(tokens, StatementPlaces(tokens, Cardinality(Ends(tokens)) + 1))
Odd(tokens) == InString(tokens, Len(tokens) + 1)

Texts == Seq(Tokens)

LEMMA TokensAreElements ==
  ASSUME NEW tokens, NEW S
  PROVE  TokensAt(tokens, S) = ElementsAt(tokens, S)
  BY DEF TokensAt, ElementsAt

LEMMA TokenNames ==
  /\ Quote # ";" /\ Quote # NewLine /\ NewLine # ";"
  /\ Quote \in Tokens /\ NewLine \in Tokens /\ ";" \in Tokens
<1>1. Quote # ";"
  BY Zenon DEF Quote
<1>2. Quote # NewLine
  BY Zenon DEF Quote, NewLine
<1>3. NewLine # ";"
  BY Zenon DEF NewLine
<1>4. Quote \in Tokens /\ NewLine \in Tokens /\ ";" \in Tokens
  BY Zenon DEF Tokens
<1> QED
  BY <1>1, <1>2, <1>3, <1>4

(* The marks in front of a place. *)
MarksBefore(tokens, i) == {j \in 1..(i - 1) : tokens[j] = Quote}

LEMMA PlacesFinite ==
  ASSUME NEW x \in Texts
  PROVE  /\ \A k : /\ StatementPlaces(x, k) \in SUBSET (1..Len(x))
                   /\ StatementPlaces(x, k) \in SUBSET Nat /\ IsFiniteSet(StatementPlaces(x, k))
         /\ Ends(x) \in SUBSET (1..Len(x)) /\ Ends(x) \in SUBSET Nat /\ IsFiniteSet(Ends(x))
         /\ Cardinality(Ends(x)) \in Nat
         /\ \A i \in Nat : /\ IsFiniteSet(MarksBefore(x, i)) /\ MarksBefore(x, i) \in SUBSET Nat
                           /\ Cardinality(MarksBefore(x, i)) \in Nat
<1>1. DOMAIN x = 1..Len(x) /\ Len(x) \in Nat
  BY LenProperties DEF Texts
<1>2. IsFiniteSet(1..Len(x)) /\ 1..Len(x) \subseteq Nat
  BY <1>1, FS_Interval
<1>3. \A S : S \subseteq 1..Len(x) => S \in SUBSET Nat /\ IsFiniteSet(S) /\ Cardinality(S) \in Nat
  BY <1>2, FS_Subset, FS_CardinalityType
<1>4. Ends(x) \subseteq 1..Len(x)
  BY <1>1 DEF Ends
<1>5. \A k : StatementPlaces(x, k) \subseteq 1..Len(x)
  BY <1>1 DEF StatementPlaces
<1>6. ASSUME NEW i \in Nat
      PROVE  /\ IsFiniteSet(MarksBefore(x, i)) /\ MarksBefore(x, i) \in SUBSET Nat
             /\ Cardinality(MarksBefore(x, i)) \in Nat
  <2>1. IsFiniteSet(1..(i - 1)) /\ 1..(i - 1) \subseteq Nat
    BY FS_Interval
  <2>2. MarksBefore(x, i) \subseteq 1..(i - 1)
    BY DEF MarksBefore
  <2> QED
    BY <2>1, <2>2, FS_Subset, FS_CardinalityType
<1> QED
  BY <1>3, <1>4, <1>5, <1>6

(* The text y is x and one token more, at the place n. *)
OneLonger(x, c, y, n) ==
  /\ y \in Texts /\ n \in Nat /\ Len(y) = n /\ n = Len(x) + 1
  /\ \A i \in 1..Len(x) : i < n /\ y[i] = x[i]
  /\ y[n] = c

LEMMA AppendIsOneLonger ==
  ASSUME NEW x \in Texts, NEW c \in Tokens
  PROVE  OneLonger(x, c, Append(x, c), Len(x) + 1)
<1>1. PICK l : l = Len(x) /\ l \in Nat
  BY LenProperties DEF Texts
<1>2. /\ Append(x, c) \in Seq(Tokens) /\ Len(Append(x, c)) = Len(x) + 1
      /\ \A i \in 1..Len(x) : Append(x, c)[i] = x[i]
      /\ Append(x, c)[Len(x) + 1] = c
  BY AppendProperties DEF Texts
<1>3. l + 1 \in Nat /\ \A i \in 1..l : i < l + 1
  BY <1>1
<1> QED
  BY <1>1, <1>2, <1>3, Zenon DEF OneLonger, Texts

(* A token at n, behind the text x, adds n to the semicolons that end a statement or to the *)
(* places of the statement that is open, or to neither.                                    *)
PlacesGrown(x, c, y, n) ==
  /\ c = Quote => MarksBefore(y, n + 1) = MarksBefore(x, n) \cup {n}
  /\ c # Quote => MarksBefore(y, n + 1) = MarksBefore(x, n)
  /\ n \in Ends(y) <=> c = ";" /\ ~Odd(x)
  /\ n \in Ends(y) => Ends(y) = Ends(x) \cup {n}
  /\ n \notin Ends(y) => Ends(y) = Ends(x)
  /\ \A k : n \in StatementPlaces(y, k) <=>
              /\ n \notin Ends(y) /\ c # NewLine
              /\ Cardinality(Ends(y)) = k - 1
  /\ \A k : n \in StatementPlaces(y, k) =>
              StatementPlaces(y, k) = StatementPlaces(x, k) \cup {n}
  /\ \A k : n \notin StatementPlaces(y, k) => StatementPlaces(y, k) = StatementPlaces(x, k)

LEMMA PlacesGrow ==
  ASSUME NEW x \in Texts, NEW c \in Tokens, NEW y, NEW n, OneLonger(x, c, y, n)
  PROVE  PlacesGrown(x, c, y, n)
<1>1. /\ DOMAIN x = 1..Len(x) /\ Len(x) \in Nat
      /\ y \in Texts /\ Len(y) = n /\ DOMAIN y = 1..n
      /\ \A i \in 1..Len(x) : y[i] = x[i]
      /\ y[n] = c
  BY LenProperties DEF Texts, OneLonger
<1>2. /\ n \in Nat
      /\ \A i \in 1..Len(x) : i < n /\ i \in 1..n /\ i # n
      /\ \A i \in 1..n : i \in 1..Len(x) \/ i = n
      /\ n \in 1..n
  <2>1. PICK l : l = Len(x) /\ l \in Nat /\ n = l + 1
    BY <1>1 DEF OneLonger
  <2>2. /\ l + 1 \in Nat
        /\ \A i \in 1..l : i < l + 1 /\ i \in 1..(l + 1) /\ i # l + 1
        /\ \A i \in 1..(l + 1) : i \in 1..l \/ i = l + 1
        /\ l + 1 \in 1..(l + 1)
    BY <2>1
  <2> QED
    BY <2>1, <2>2, Zenon
<1>3. \A i \in 1..n : MarksBefore(y, i) = MarksBefore(x, i)
  <2> SUFFICES ASSUME NEW i \in 1..n
               PROVE  MarksBefore(y, i) = MarksBefore(x, i)
    OBVIOUS
  <2>0. PICK l : l = Len(x) /\ l \in Nat /\ n = l + 1
    BY <1>1 DEF OneLonger
  <2>1. \A j \in 1..(i - 1) : j \in 1..Len(x)
    BY <2>0
  <2>2. \A j \in 1..(i - 1) : y[j] = x[j]
    BY <1>1, <2>1
  <2> QED
    BY <2>2 DEF MarksBefore
<1>4. \A t, i : InString(t, i) <=> Cardinality(MarksBefore(t, i)) % 2 = 1
  BY DEF InString, MarksBefore
<1>5. \A i \in 1..n : InString(y, i) <=> InString(x, i)
  BY <1>3, <1>4, Zenon
<1>6. MarksBefore(y, n + 1) = MarksBefore(x, n) \cup (IF c = Quote THEN {n} ELSE {})
  <2>1. (n + 1) - 1 = n /\ n - 1 = Len(x)
    BY <1>1 DEF OneLonger
  <2>2. /\ MarksBefore(y, n + 1) = {j \in 1..n : y[j] = Quote}
        /\ MarksBefore(x, n) = {j \in 1..Len(x) : x[j] = Quote}
    BY <2>1 DEF MarksBefore
  <2>3. {j \in 1..n : y[j] = Quote}
          = {j \in 1..Len(x) : x[j] = Quote} \cup (IF c = Quote THEN {n} ELSE {})
    BY <1>1, <1>2, Zenon
  <2> QED
    BY <2>2, <2>3
<1>7. \A i \in 1..Len(x) : i \in Ends(y) <=> i \in Ends(x)
  BY <1>1, <1>2, <1>5, Zenon DEF Ends
<1>8. n \in Ends(y) <=> c = ";" /\ ~Odd(x)
  BY <1>1, <1>2, <1>5, Zenon DEF Ends, Odd, OneLonger
<1>9. /\ \A i \in Ends(y) : i \in 1..Len(x) \/ i = n
      /\ \A i \in Ends(x) : i \in 1..Len(x)
  BY <1>1, <1>2, Zenon DEF Ends
<1>10. Ends(y) = Ends(x) \cup (IF n \in Ends(y) THEN {n} ELSE {})
  BY <1>7, <1>9, Zenon
<1>11. \A i \in 1..Len(x) : {j \in Ends(y) : j <= i} = {j \in Ends(x) : j <= i}
  <2> SUFFICES ASSUME NEW i \in 1..Len(x)
               PROVE  {j \in Ends(y) : j <= i} = {j \in Ends(x) : j <= i}
    OBVIOUS
  <2>1. ~(n <= i)
    BY <1>1, <1>2
  <2> QED
    BY <1>7, <1>9, <2>1, Zenon
<1>12. \A k : \A i \in 1..Len(x) : i \in StatementPlaces(y, k) <=> i \in StatementPlaces(x, k)
  <2> SUFFICES ASSUME NEW k, NEW i \in 1..Len(x)
               PROVE  i \in StatementPlaces(y, k) <=> i \in StatementPlaces(x, k)
    OBVIOUS
  <2>1. Cardinality({j \in Ends(y) : j <= i}) = Cardinality({j \in Ends(x) : j <= i})
    BY <1>11, Zenon
  <2> QED
    BY <1>1, <1>2, <1>7, <2>1, Zenon DEF StatementPlaces
<1>13. \A k : /\ \A i \in StatementPlaces(y, k) : i \in 1..Len(x) \/ i = n
              /\ \A i \in StatementPlaces(x, k) : i \in 1..Len(x)
  BY <1>1, <1>2, Zenon DEF StatementPlaces
<1>14. \A k : StatementPlaces(y, k) = StatementPlaces(x, k)
                \cup (IF n \in StatementPlaces(y, k) THEN {n} ELSE {})
  BY <1>12, <1>13, Zenon
<1>15. {j \in Ends(y) : j <= n} = Ends(y)
  <2>1. \A j \in 1..n : j <= n
    BY <1>2
  <2>2. \A j \in Ends(y) : j \in 1..n
    BY <1>1, Zenon DEF Ends
  <2> QED
    BY <2>1, <2>2, Zenon
<1>16. \A k : n \in StatementPlaces(y, k) <=>
                /\ n \notin Ends(y) /\ c # NewLine
                /\ Cardinality(Ends(y)) = k - 1
  BY <1>1, <1>2, <1>15, Zenon DEF StatementPlaces
<1> QED
  BY <1>6, <1>8, <1>10, <1>14, <1>16 DEF PlacesGrown

(* The texts of the statements are sequences of tokens. *)
LEMMA TextsOfStatements ==
  ASSUME NEW x \in Texts
  PROVE  /\ \A k : TokensAt(x, StatementPlaces(x, k)) \in Texts
         /\ StatementsOf(x) \in Seq(Texts) /\ Len(StatementsOf(x)) = Cardinality(Ends(x))
         /\ Open(x) \in Texts
<1>1. Len(x) \in Nat /\ \A i \in 1..Len(x) : x[i] = x[i] /\ x[i] \in Tokens
  BY LenProperties, ElementOfSeq DEF Texts
<1>2. ASSUME NEW k
      PROVE  TokensAt(x, StatementPlaces(x, k)) \in Texts
  <2>1. PICK n, S : n \in Nat /\ S \in SUBSET (1..n) /\ n = Len(x) /\ S = StatementPlaces(x, k)
    BY <1>1, PlacesFinite
  <2>2. \A i \in S : x[i] = x[i] /\ x[i] \in Tokens
    BY <1>1, <2>1
  <2>3. ElementsAt(x, S) \in Seq(Tokens)
    BY <2>1, <2>2, ElementsAgree
  <2> QED
    BY <2>1, <2>3, TokensAreElements DEF Texts
<1>3. Cardinality(Ends(x)) \in Nat
  BY PlacesFinite
<1>4. StatementsOf(x) \in Seq(Texts) /\ Len(StatementsOf(x)) = Cardinality(Ends(x))
  <2> DEFINE text(k) == TokensAt(x, StatementPlaces(x, k))
  <2>1. \A k : text(k) \in Texts
    BY <1>2
  <2>2. PICK m : m = Cardinality(Ends(x)) /\ m \in Nat
    BY <1>3
  <2>3. StatementsOf(x) = [k \in 1..m |-> text(k)]
    BY <2>2 DEF StatementsOf
  <2> HIDE DEF text
  <2>4. [k \in 1..m |-> text(k)] \in Seq(Texts) /\ Len([k \in 1..m |-> text(k)]) = m
    BY <2>1, <2>2
  <2> QED
    BY <2>2, <2>3, <2>4
<1> QED
  BY <1>2, <1>4 DEF Open

(* What a token does to the statements, the text of the open one and the parity of the marks. *)
TokenRead(x, c, y) ==
  /\ c = Quote => (Odd(y) <=> ~Odd(x))
  /\ c # Quote => (Odd(y) <=> Odd(x))
  /\ c = ";" /\ ~Odd(x) =>
       StatementsOf(y) = Append(StatementsOf(x), Open(x)) /\ Open(y) = <<>>
  /\ ~(c = ";" /\ ~Odd(x)) =>
       /\ StatementsOf(y) = StatementsOf(x)
       /\ c = NewLine => Open(y) = Open(x)
       /\ c # NewLine => Open(y) = Append(Open(x), c)

LEMMA OneTokenRead ==
  ASSUME NEW x \in Texts, NEW c \in Tokens, NEW y, NEW n, OneLonger(x, c, y, n)
  PROVE  TokenRead(x, c, y)
<1>1. PlacesGrown(x, c, y, n)
  BY PlacesGrow
<1>2. /\ y \in Texts /\ n \in Nat /\ Len(y) = n /\ y[n] = c /\ n = Len(x) + 1
      /\ \A i \in 1..Len(x) : i < n /\ y[i] = x[i]
  BY DEF OneLonger
<1>3. /\ c = Quote => MarksBefore(y, n + 1) = MarksBefore(x, n) \cup {n}
      /\ c # Quote => MarksBefore(y, n + 1) = MarksBefore(x, n)
  BY <1>1 DEF PlacesGrown
<1>4. /\ n \in Ends(y) <=> c = ";" /\ ~Odd(x)
      /\ n \in Ends(y) => Ends(y) = Ends(x) \cup {n}
      /\ n \notin Ends(y) => Ends(y) = Ends(x)
  BY <1>1 DEF PlacesGrown
<1>5. \A k : n \in StatementPlaces(y, k) <=>
               /\ n \notin Ends(y) /\ c # NewLine
               /\ Cardinality(Ends(y)) = k - 1
  BY <1>1 DEF PlacesGrown
<1>6. /\ \A k : n \in StatementPlaces(y, k) =>
                  StatementPlaces(y, k) = StatementPlaces(x, k) \cup {n}
      /\ \A k : n \notin StatementPlaces(y, k) => StatementPlaces(y, k) = StatementPlaces(x, k)
  BY <1>1 DEF PlacesGrown
<1>7. PICK cuts \in Nat : cuts = Cardinality(Ends(x))
  BY PlacesFinite
<1>8. /\ Odd(x) <=> Cardinality(MarksBefore(x, n)) % 2 = 1
      /\ Odd(y) <=> Cardinality(MarksBefore(y, n + 1)) % 2 = 1
  BY <1>2 DEF Odd, InString, MarksBefore
<1>9. c = Quote => Odd(y) <=> ~Odd(x)
  <2> SUFFICES ASSUME c = Quote PROVE Odd(y) <=> ~Odd(x)
    OBVIOUS
  <2>1. PICK m \in Nat : m = Cardinality(MarksBefore(x, n))
    BY <1>2, PlacesFinite
  <2>2. \A i \in MarksBefore(x, n) : i < n
    <3>1. \A i \in 1..(n - 1) : i < n
      BY <1>2
    <3> QED
      BY <3>1 DEF MarksBefore
  <2>3. IsFiniteSet(MarksBefore(x, n)) /\ MarksBefore(x, n) \in SUBSET Nat
    BY <1>2, PlacesFinite
  <2>4. Cardinality(MarksBefore(x, n) \cup {n}) = m + 1
    BY <1>2, <2>1, <2>2, <2>3, RankGrows
  <2>5. Cardinality(MarksBefore(y, n + 1)) = m + 1
    BY <1>3, <2>4
  <2>6. (m + 1) % 2 = 1 <=> ~(m % 2 = 1)
    BY <2>1
  <2> QED
    BY <1>8, <2>1, <2>5, <2>6, Zenon
<1>10. c # Quote => Odd(y) <=> Odd(x)
  BY <1>3, <1>8
(* What the places of the statements of x hold is the same in y. *)
<1>11. \A k : TokensAt(y, StatementPlaces(x, k)) = TokensAt(x, StatementPlaces(x, k))
  <2> SUFFICES ASSUME NEW k
               PROVE  TokensAt(y, StatementPlaces(x, k)) = TokensAt(x, StatementPlaces(x, k))
    OBVIOUS
  <2>1. Len(x) \in Nat /\ \A i \in 1..Len(x) : x[i] \in Tokens
    BY LenProperties, ElementOfSeq DEF Texts
  <2>2. PICK l, S : l \in Nat /\ S \in SUBSET (1..l) /\ l = Len(x) /\ S = StatementPlaces(x, k)
    BY <2>1, PlacesFinite
  <2>3. \A i \in S : y[i] = x[i] /\ y[i] \in Tokens
    BY <1>2, <2>1, <2>2
  <2>4. ElementsAt(y, S) = ElementsAt(x, S)
    BY <2>2, <2>3, ElementsAgree, Zenon
  <2> QED
    BY <2>2, <2>4, TokensAreElements
<1>12. CASE c = ";" /\ ~Odd(x)
  <2>1. n \in Ends(y) /\ Ends(y) = Ends(x) \cup {n}
    BY <1>4, <1>12
  <2>2. Cardinality(Ends(y)) = cuts + 1
    <3>1. Ends(x) \in SUBSET Nat /\ IsFiniteSet(Ends(x)) /\ Ends(x) \in SUBSET (1..Len(x))
      BY PlacesFinite
    <3>2. \A i \in Ends(x) : i < n
      BY <1>2, <3>1
    <3>3. Cardinality(Ends(x) \cup {n}) = Cardinality(Ends(x)) + 1
      BY <1>2, <3>1, <3>2, RankGrows
    <3> QED
      BY <1>7, <2>1, <3>3
  <2>3. \A k : StatementPlaces(y, k) = StatementPlaces(x, k)
    BY <1>5, <1>6, <2>1, Zenon
  <2>4. StatementsOf(y) = Append(StatementsOf(x), Open(x))
    <3> DEFINE text(k) == TokensAt(x, StatementPlaces(x, k))
    <3>1. \A k : TokensAt(y, StatementPlaces(y, k)) = text(k)
      BY <1>11, <2>3, Zenon
    <3>2. StatementsOf(y) = [k \in 1..(cuts + 1) |-> text(k)]
      BY <2>2, <3>1 DEF StatementsOf
    <3>3. StatementsOf(x) = [k \in 1..cuts |-> text(k)] /\ Open(x) = text(cuts + 1)
      BY <1>7 DEF StatementsOf, Open
    <3> HIDE DEF text
    <3>4. [k \in 1..cuts |-> text(k)] \in Seq({text(k) : k \in 1..cuts})
          /\ Len([k \in 1..cuts |-> text(k)]) = cuts
      BY <1>7
    <3>5. Append([k \in 1..cuts |-> text(k)], text(cuts + 1)) = [k \in 1..(cuts + 1) |-> text(k)]
      BY <1>7, <3>4
    <3> QED
      BY <3>2, <3>3, <3>5
  <2>5. StatementPlaces(x, cuts + 1 + 1) = {}
    <3> SUFFICES ASSUME NEW i \in StatementPlaces(x, cuts + 1 + 1)
                 PROVE  FALSE
      OBVIOUS
    <3>1. PICK S : S = {j \in Ends(x) : j <= i}
      OBVIOUS
    <3>2. Cardinality(S) = cuts + 1 + 1 - 1
      BY <3>1 DEF StatementPlaces
    <3>3. S \subseteq Ends(x) /\ IsFiniteSet(Ends(x))
      BY <3>1, PlacesFinite
    <3>4. Cardinality(S) <= cuts
      BY <1>7, <3>3, FS_Subset
    <3> QED
      BY <1>7, <3>2, <3>4
  <2>6. Open(y) = <<>>
    <3>1. StatementPlaces(y, Cardinality(Ends(y)) + 1) = {}
      BY <2>2, <2>3, <2>5
    <3>2. TokensAt(y, {}) = <<>>
      BY NoElements, TokensAreElements
    <3> QED
      BY <3>1, <3>2 DEF Open
  <2> QED
    BY <1>9, <1>10, <1>12, <2>4, <2>6 DEF TokenRead
<1>13. CASE ~(c = ";" /\ ~Odd(x))
  <2>1. n \notin Ends(y) /\ Ends(y) = Ends(x)
    BY <1>4, <1>13
  <2>2. \A k \in 1..cuts : StatementPlaces(y, k) = StatementPlaces(x, k)
    <3> SUFFICES ASSUME NEW k \in 1..cuts
                 PROVE  StatementPlaces(y, k) = StatementPlaces(x, k)
      OBVIOUS
    <3>1. cuts # k - 1
      BY <1>7
    <3> QED
      BY <1>5, <1>6, <1>7, <2>1, <3>1, Zenon
  <2>3. StatementsOf(y) = StatementsOf(x)
    <3>1. \A k \in 1..cuts : TokensAt(y, StatementPlaces(y, k)) = TokensAt(x, StatementPlaces(x, k))
      BY <1>11, <2>2
    <3> QED
      BY <1>7, <2>1, <3>1 DEF StatementsOf
  <2>4. Open(y) = TokensAt(y, StatementPlaces(y, cuts + 1))
        /\ Open(x) = TokensAt(x, StatementPlaces(x, cuts + 1))
    BY <1>7, <2>1 DEF Open
  <2>5. cuts = (cuts + 1) - 1
    BY <1>7
  <2>6. CASE c = NewLine
    <3>1. StatementPlaces(y, cuts + 1) = StatementPlaces(x, cuts + 1)
      BY <1>5, <1>6, <2>6, Zenon
    <3>2. Open(y) = Open(x)
      BY <1>11, <2>4, <3>1
    <3> QED
      BY <1>9, <1>10, <1>13, <2>3, <2>6, <3>2 DEF TokenRead
  <2>7. CASE c # NewLine
    <3>1. PICK S : S = StatementPlaces(x, cuts + 1)
      OBVIOUS
    <3>2. StatementPlaces(y, cuts + 1) = S \cup {n}
      BY <1>5, <1>6, <1>7, <2>1, <2>5, <2>7, <3>1, Zenon
    <3>3. S \in SUBSET Nat /\ IsFiniteSet(S) /\ \A i \in S : i < n
      BY <1>2, <3>1, PlacesFinite
    <3>4. ElementsAt(y, S \cup {n}) = Append(ElementsAt(y, S), y[n])
      BY <1>2, <3>3, ElementsGrow
    <3>5. Open(y) = Append(Open(x), c)
      BY <1>2, <1>11, <2>4, <3>1, <3>2, <3>4, TokensAreElements, Zenon
    <3> QED
      BY <1>9, <1>10, <1>13, <2>3, <2>7, <3>5 DEF TokenRead
  <2> QED
    BY <2>6, <2>7
<1> QED
  BY <1>12, <1>13

LEMMA TokenAdded ==
  ASSUME NEW x \in Texts, NEW c \in Tokens
  PROVE  Append(x, c) \in Texts /\ TokenRead(x, c, Append(x, c))
<1>1. OneLonger(x, c, Append(x, c), Len(x) + 1)
  BY AppendIsOneLonger
<1> QED
  BY <1>1, OneTokenRead DEF OneLonger

(* The scan of x has read the statements S and is otherwise where the scan of y is. *)
Continues(x, y, S) ==
  /\ StatementsOf(x) = S \o StatementsOf(y)
  /\ Open(x) = Open(y)
  /\ Odd(x) <=> Odd(y)

LEMMA TokenContinues ==
  ASSUME NEW x \in Texts, NEW y \in Texts, NEW S \in Seq(Texts), NEW c \in Tokens,
         Continues(x, y, S)
  PROVE  Continues(Append(x, c), Append(y, c), S)
<1>1. TokenRead(x, c, Append(x, c)) /\ TokenRead(y, c, Append(y, c))
  BY TokenAdded
<1>2. PICK p, q : p = Append(x, c) /\ q = Append(y, c)
  OBVIOUS
<1>3. TokenRead(x, c, p) /\ TokenRead(y, c, q)
  BY <1>1, <1>2
<1>4. StatementsOf(x) = S \o StatementsOf(y) /\ Open(x) = Open(y) /\ (Odd(x) <=> Odd(y))
  BY DEF Continues
<1>5. Odd(p) <=> Odd(q)
  BY <1>3, <1>4, Zenon DEF TokenRead
<1>6. Open(p) = Open(q)
  BY <1>3, <1>4, Zenon DEF TokenRead
<1>7. StatementsOf(p) = S \o StatementsOf(q)
  <2>1. CASE c = ";" /\ ~Odd(x)
    <3>1. /\ StatementsOf(p) = Append(StatementsOf(x), Open(x))
          /\ StatementsOf(q) = Append(StatementsOf(y), Open(y))
      BY <1>3, <1>4, <2>1, Zenon DEF TokenRead
    <3>2. StatementsOf(y) \in Seq(Texts) /\ Open(y) \in Texts
      BY TextsOfStatements
    <3>3. \A t, o : t \in Seq(Texts) /\ o \in Texts => Append(S \o t, o) = S \o Append(t, o)
      OBVIOUS
    <3> QED
      BY <1>4, <3>1, <3>2, <3>3, Zenon
  <2>2. CASE ~(c = ";" /\ ~Odd(x))
    BY <1>3, <1>4, <2>2, Zenon DEF TokenRead
  <2> QED
    BY <2>1, <2>2
<1> QED
  BY <1>2, <1>5, <1>6, <1>7, Zenon DEF Continues

LEMMA LineContinues ==
  ASSUME NEW x \in Texts, NEW y \in Texts, NEW S \in Seq(Texts), NEW line \in Texts,
         Continues(x, y, S)
  PROVE  Continues(x \o line, y \o line, S)
<1> DEFINE Read(k) == /\ Continues(x \o SubSeq(line, 1, k), y \o SubSeq(line, 1, k), S)
                      /\ x \o SubSeq(line, 1, k) \in Texts
                      /\ y \o SubSeq(line, 1, k) \in Texts
           Reads == {k \in 0..Len(line) : Read(k)}
<1>1. Len(line) \in Nat /\ 0 \in 0..Len(line)
  BY LenProperties DEF Texts
<1>2. 0 \in Reads
  <2>1. SubSeq(line, 1, 0) = <<>>
    BY DEF Texts
  <2>2. \A t \in Texts : t \o <<>> = t
    BY ConcatEmptySeq DEF Texts
  <2> QED
    BY <1>1, <2>1, <2>2, Zenon
<1>3. ASSUME NEW k \in 0..Len(line), k \in Reads, k < Len(line)
      PROVE  k + 1 \in Reads
  <2>1. PICK part, c : part = SubSeq(line, 1, k) /\ c = line[k + 1]
    OBVIOUS
  <2>2. k + 1 \in 1..Len(line) /\ k + 1 \in 0..Len(line)
    BY <1>1, <1>3
  <2>3. part \in Seq(Tokens) /\ c \in Tokens
    BY <1>1, <1>3, <2>1, <2>2, ElementOfSeq DEF Texts
  <2>4. SubSeq(line, 1, k + 1) = Append(part, c)
    BY <1>1, <1>3, <2>1 DEF Texts
  <2>5. \A t \in Texts : t \o Append(part, c) = Append(t \o part, c)
    BY <2>3 DEF Texts
  <2>6. Continues(x \o part, y \o part, S) /\ x \o part \in Texts /\ y \o part \in Texts
    BY <1>3, <2>1, Zenon
  <2>7. Continues(Append(x \o part, c), Append(y \o part, c), S)
    BY <2>3, <2>6, TokenContinues
  <2>8. Append(x \o part, c) \in Texts /\ Append(y \o part, c) \in Texts
    BY <2>3, <2>6, TokenAdded
  <2>9. Read(k + 1)
    BY <2>4, <2>5, <2>7, <2>8, Zenon
  <2> QED
    BY <2>2, <2>9
<1>4. Len(line) \in Reads
  <2> HIDE DEF Reads
  <2>1. 0..Len(line) \subseteq Reads
    BY <1>1, <1>2, <1>3, InductionUpTo
  <2> QED
    BY <1>1, <2>1
<1>5. SubSeq(line, 1, Len(line)) = line
  BY DEF Texts
<1> QED
  BY <1>4, <1>5, Zenon

LEMMA LineEndContinues ==
  ASSUME NEW x, NEW y \in Texts, NEW S, Continues(x, y, S)
  PROVE  Continues(x, Append(y, NewLine), S)
<1>1. PICK q : q = Append(y, NewLine)
  OBVIOUS
<1>2. TokenRead(y, NewLine, q)
  BY <1>1, TokenAdded, TokenNames
<1>3. StatementsOf(q) = StatementsOf(y) /\ Open(q) = Open(y) /\ (Odd(q) <=> Odd(y))
  BY <1>2, TokenNames, Zenon DEF TokenRead
<1> QED
  BY <1>1, <1>3, Zenon DEF Continues

(* Nothing has been read at the start. *)
LEMMA NothingRead ==
  /\ <<>> \in Texts /\ StatementsOf(<<>>) = <<>> /\ Open(<<>>) = <<>> /\ ~Odd(<<>>)
<1>1. <<>> \in Texts /\ Len(<<>>) = 0
  BY EmptySeq DEF Texts
<1>2. \A S \in SUBSET (1..0) : S = {} /\ Cardinality(S) = 0
  <2>1. 1..0 = {}
    OBVIOUS
  <2> QED
    BY <2>1, FS_EmptySet
<1>3. Ends(<<>>) = {} /\ Cardinality(Ends(<<>>)) = 0 /\ \A k : StatementPlaces(<<>>, k) = {}
  BY <1>1, <1>2, PlacesFinite
<1>4. Open(<<>>) = <<>>
  BY <1>3, TokensAreElements, NoElements, Zenon DEF Open
<1>5. StatementsOf(<<>>) = <<>>
  <2>1. \A f : [k \in 1..0 |-> f[k]] = <<>>
    OBVIOUS
  <2> QED
    BY <1>3 DEF StatementsOf
<1>6. ~Odd(<<>>)
  <2>1. MarksBefore(<<>>, 1) \in SUBSET (1..0)
    BY DEF MarksBefore
  <2>2. Cardinality(MarksBefore(<<>>, 1)) = 0
    BY <1>2, <2>1
  <2>3. Odd(<<>>) <=> Cardinality(MarksBefore(<<>>, 1)) % 2 = 1
    BY <1>1 DEF Odd, InString, MarksBefore
  <2> QED
    BY <2>2, <2>3
<1> QED
  BY <1>1, <1>4, <1>5, <1>6

(* A buffer that is taken for a program has read all of its statements. *)
LEMMA ProgramEnds ==
  ASSUME NEW g \in Texts, EndsWithSemicolonOutsideQuotes(g)
  PROVE  Open(g) = <<>> /\ ~Odd(g)
<1>1. ~Odd(g) /\ LastIsSemicolon(g)
  BY DEF EndsWithSemicolonOutsideQuotes, Odd
<1>2. PICK n \in Nat : n = Len(g) /\ DOMAIN g = 1..n
  BY LenProperties DEF Texts
<1> DEFINE text == {i \in DOMAIN g : g[i] # NewLine}
<1>3. text # {} /\ g[Max(text)] = ";"
  BY <1>1 DEF LastIsSemicolon
<1>4. text \in SUBSET (0..n)
  BY <1>2
<1>5. PICK m : m = Max(text)
  OBVIOUS
<1>6. m \in text /\ \A i \in text : i <= m
  <2> HIDE DEF text
  <2> QED
    BY <1>3, <1>4, <1>5, MaxIsGreatest
<1>7. m \in 1..n /\ g[m] = ";" /\ \A i \in 1..n : g[i] # NewLine => i <= m
  BY <1>2, <1>3, <1>5, <1>6
<1> HIDE DEF text
<1>7a. m \in 1..n
  BY <1>7
<1>7b. /\ \A i \in 1..n : i <= m /\ i # m => i \in 1..(m - 1) /\ ~(m <= i)
       /\ \A i \in 1..(m - 1) : i \in 1..((n + 1) - 1)
       /\ \A i \in 1..((n + 1) - 1) : i \in 1..n
  BY <1>7a
<1>8. MarksBefore(g, m) = MarksBefore(g, n + 1)
  <2>1. \A j \in 1..((n + 1) - 1) : g[j] = Quote => j \in 1..(m - 1)
    <3> SUFFICES ASSUME NEW j \in 1..((n + 1) - 1), g[j] = Quote
                 PROVE  j \in 1..(m - 1)
      OBVIOUS
    <3>1. g[j] # NewLine /\ j # m
      BY <1>7, TokenNames
    <3>2. j \in 1..n
      BY <1>7b, Zenon
    <3>3. j <= m
      BY <1>7, <3>1, <3>2, Zenon
    <3> QED
      BY <1>7b, <3>1, <3>2, <3>3, Zenon
  <2>2. \A j \in 1..(m - 1) : j \in 1..((n + 1) - 1)
    BY <1>7b, Zenon
  <2> QED
    BY <2>1, <2>2, Zenon DEF MarksBefore
<1>9. m \in Ends(g)
  <2>1. InString(g, m) <=> InString(g, n + 1)
    BY <1>8 DEF InString, MarksBefore
  <2> QED
    BY <1>1, <1>2, <1>7, <2>1 DEF Ends, Odd
<1>10. PICK cuts \in Nat : cuts = Cardinality(Ends(g))
  BY PlacesFinite
<1>11. StatementPlaces(g, cuts + 1) = {}
  <2> SUFFICES ASSUME NEW i \in StatementPlaces(g, cuts + 1)
               PROVE  FALSE
    OBVIOUS
  <2>1. PICK S : S = {j \in Ends(g) : j <= i}
    OBVIOUS
  <2>2. i \in 1..n /\ i \notin Ends(g) /\ g[i] # NewLine /\ Cardinality(S) = (cuts + 1) - 1
    BY <1>2, <2>1 DEF StatementPlaces
  <2>3. i <= m /\ i # m
    BY <1>7, <1>9, <2>2
  <2>4. ~(m <= i)
    BY <1>7b, <2>2, <2>3, Zenon
  <2>5. S \subseteq Ends(g) \ {m}
    BY <2>1, <2>4, Zenon
  <2>6. IsFiniteSet(Ends(g))
    BY PlacesFinite
  <2>7. IsFiniteSet(Ends(g) \ {m}) /\ Cardinality(Ends(g) \ {m}) = Cardinality(Ends(g)) - 1
    BY <1>9, <2>6, FS_RemoveElement
  <2>8. Cardinality(S) <= Cardinality(Ends(g) \ {m})
    BY <2>5, <2>7, FS_Subset
  <2> QED
    BY <1>10, <2>2, <2>7, <2>8
<1>12. Open(g) = <<>>
  BY <1>10, <1>11, TokensAreElements, NoElements, Zenon DEF Open
<1> QED
  BY <1>1, <1>12
-----------------------------------------------------------------------------
(* The statements visited *)

LEMMA InOrderNothing ==
  ASSUME NEW all
  PROVE  InOrder(<<>>, all)
<1>1. {} \in SUBSET DOMAIN all /\ Cardinality({}) = Len(<<>>)
  BY FS_EmptySet
<1>2. \A i \in {} : all[i] = <<>>[Cardinality({j \in {} : j <= i})]
  OBVIOUS
<1> QED
  BY <1>1, <1>2, Zenon DEF InOrder

LEMMA InOrderExtends ==
  ASSUME NEW part, NEW a \in Seq(Texts), NEW b \in Seq(Texts), InOrder(part, a)
  PROVE  InOrder(part, a \o b)
<1>1. PICK places \in SUBSET DOMAIN a :
        /\ Cardinality(places) = Len(part)
        /\ \A i \in places : a[i] = part[Cardinality({j \in places : j <= i})]
  BY DEF InOrder
<1>2. \A i \in DOMAIN a : i \in DOMAIN (a \o b) /\ (a \o b)[i] = a[i]
  BY ConcatProperties, LenProperties
<1>3. places \in SUBSET DOMAIN (a \o b)
  BY <1>2, Zenon
<1>4. \A i \in places : (a \o b)[i] = part[Cardinality({j \in places : j <= i})]
  BY <1>1, <1>2, Zenon
<1> QED
  BY <1>1, <1>3, <1>4, Zenon DEF InOrder

LEMMA InOrderAppends ==
  ASSUME NEW part \in Seq(Texts), NEW a \in Seq(Texts), NEW e \in Texts, InOrder(part, a)
  PROVE  InOrder(Append(part, e), Append(a, e))
<1>1. PICK P \in SUBSET DOMAIN a :
        /\ Cardinality(P) = Len(part)
        /\ \A i \in P : a[i] = part[Cardinality({j \in P : j <= i})]
  BY DEF InOrder
<1>2. PICK l \in Nat, n \in Nat, m \in Nat :
        l = Len(a) /\ DOMAIN a = 1..l /\ n = l + 1 /\ m = Len(part)
  BY LenProperties
<1>3. P \in SUBSET Nat /\ IsFiniteSet(P) /\ \A i \in P : i < n
  <2>0. IsFiniteSet(1..l)
    BY FS_Interval
  <2>1. IsFiniteSet(1..l) /\ P \subseteq 1..l
    BY <1>2, <2>0
  <2>2. IsFiniteSet(P)
    BY <2>1, FS_Subset, Zenon
  <2>3. \A i \in 1..l : i < n /\ i \in Nat
    BY <1>2
  <2> QED
    BY <2>1, <2>2, <2>3, Zenon
<1>4. PICK T : T = P \cup {n}
  OBVIOUS
<1>5. /\ Cardinality(T) = m + 1 /\ RankIn(T, n) = m + 1
      /\ \A i \in P : RankIn(T, i) = RankIn(P, i)
  BY <1>1, <1>2, <1>3, <1>4, RankGrows
<1>6. \A i \in P : RankIn(P, i) \in 1..m
  BY <1>1, <1>2, <1>3, RankBounds
<1>7. PICK q, b : q = Append(part, e) /\ b = Append(a, e)
  OBVIOUS
<1>8. /\ Len(q) = m + 1 /\ q[m + 1] = e /\ \A i \in 1..m : q[i] = part[i]
      /\ DOMAIN b = 1..n /\ b[n] = e /\ \A i \in 1..l : b[i] = a[i]
  <2>1. /\ Len(q) = Len(part) + 1 /\ q[Len(part) + 1] = e
        /\ \A i \in 1..Len(part) : q[i] = part[i]
    BY <1>7, AppendProperties
  <2>2. /\ b \in Seq(Texts) /\ Len(b) = Len(a) + 1 /\ b[Len(a) + 1] = e
        /\ \A i \in 1..Len(a) : b[i] = a[i]
    BY <1>7, AppendProperties
  <2>3. DOMAIN b = 1..Len(b)
    BY <2>2, LenProperties
  <2> QED
    BY <1>2, <2>1, <2>2, <2>3, Zenon
<1>9. \A i \in 1..l : i \in 1..n
  BY <1>2
<1>10. n \in 1..n
  BY <1>2
<1>11. T \in SUBSET DOMAIN b
  BY <1>2, <1>4, <1>8, <1>9, <1>10, Zenon
<1>12. \A i \in T : b[i] = q[RankIn(T, i)]
  <2>1. b[n] = q[RankIn(T, n)]
    BY <1>5, <1>8, Zenon
  <2>2. ASSUME NEW i \in P
        PROVE  b[i] = q[RankIn(T, i)]
    <3>1. i \in 1..l
      BY <1>2
    <3>2. b[i] = part[RankIn(P, i)]
      BY <1>1, <1>8, <3>1, Zenon DEF RankIn
    <3>3. q[RankIn(P, i)] = part[RankIn(P, i)]
      BY <1>6, <1>8, Zenon
    <3>4. RankIn(T, i) = RankIn(P, i)
      BY <1>5
    <3> QED
      BY <3>2, <3>3, <3>4, Zenon
  <2> QED
    BY <1>4, <2>1, <2>2, Zenon
<1>13. Cardinality(T) = Len(q)
  BY <1>5, <1>8
<1> QED
  BY <1>7, <1>11, <1>12, <1>13, Zenon DEF InOrder, RankIn

(* All of some statements run, and what has been visited of those the driver is done with. *)
RunsAll(statements) ==
  \A k \in DOMAIN statements : IsStatement(statements[k]) /\ Head(statements[k]) = "runs"

Visited(past) == InOrder(executed, past) /\ (RunsAll(past) => executed = past)

(* The statements typed are those the driver is done with, the program and those of the buffer. *)
Typed(past, rest) ==
  /\ StatementsOf(typed) = (past \o program) \o rest
  /\ Visited(past)
  /\ running => Continues(typed, buffer, past \o program)
  /\ running /\ ~initialized => past = <<>> /\ executed = <<>> /\ program = <<>>

VisitInv ==
  /\ typed \in Texts /\ buffer \in Texts
  /\ program \in Seq(Texts) /\ executed \in Seq(Texts)
  /\ \E past \in Seq(Texts), rest \in Seq(Texts) : Typed(past, rest)

LEMMA RunsAllParts ==
  ASSUME NEW a \in Seq(Texts), NEW b \in Seq(Texts), RunsAll(a \o b)
  PROVE  RunsAll(a) /\ RunsAll(b)
<1>1. IsSequence(a) /\ IsSequence(b)
  BY LenProperties DEF IsSequence
<1>2. /\ IsSequence(a \o b) /\ Len(a \o b) = Len(a) + Len(b)
      /\ \A i \in 1..Len(a) : (a \o b)[i] = a[i]
      /\ \A i \in 1..Len(b) : (a \o b)[Len(a) + i] = b[i]
  BY <1>1, SequencesJoin
<1>3. PICK m \in Nat, n \in Nat : m = Len(a) /\ n = Len(b)
  BY LenProperties
<1>4. DOMAIN (a \o b) = 1..(m + n) /\ DOMAIN a = 1..m /\ DOMAIN b = 1..n
  BY <1>1, <1>2, <1>3 DEF IsSequence
<1>5. \A i \in 1..m : i \in 1..(m + n)
  BY <1>3
<1>6. \A i \in 1..n : m + i \in 1..(m + n)
  BY <1>3
<1>7. RunsAll(a)
  BY <1>2, <1>3, <1>4, <1>5, Zenon DEF RunsAll
<1>8. RunsAll(b)
  <2> SUFFICES ASSUME NEW k \in 1..n
               PROVE  IsStatement(b[k]) /\ Head(b[k]) = "runs"
    BY <1>4, Zenon DEF RunsAll
  <2>1. (a \o b)[m + k] = b[k] /\ m + k \in 1..(m + n)
    BY <1>2, <1>3, <1>6, Zenon
  <2>2. IsStatement((a \o b)[m + k]) /\ Head((a \o b)[m + k]) = "runs"
    BY <1>4, <2>1, Zenon DEF RunsAll
  <2> QED
    BY <2>1, <2>2
<1> QED
  BY <1>7, <1>8

LEMMA TextJoins ==
  ASSUME NEW a \in Seq(Texts)
  PROVE  /\ a \o <<>> = a /\ <<>> \o a = a /\ <<>> \in Seq(Texts)
         /\ \A b \in Seq(Texts) : a \o b \in Seq(Texts)
  OBVIOUS

(* What the buffer and the session have of a line that is gathered. *)
LEMMA LineGathered ==
  ASSUME VisitInv, NEW line \in Lines, program = <<>>, running,
         NEW past \in Seq(Texts), NEW rest \in Seq(Texts), Typed(past, rest)
  PROVE  /\ typed \o line \in Texts /\ Gathered(line) \in Texts
         /\ Continues(typed \o line, Gathered(line), past)
<1>1. line \in Texts
  <2>1. line \in Seq(Tokens \ {NewLine})
    BY CliAssumption
  <2>2. \A S, T : S \subseteq T => \A t \in Seq(S) : t \in Seq(T)
    BY SeqMonotonic
  <2>3. Tokens \ {NewLine} \subseteq Tokens
    BY Zenon
  <2> QED
    BY <2>1, <2>2, <2>3, Zenon DEF Texts
<1>2. typed \in Texts /\ buffer \in Texts
  BY DEF VisitInv
<1>3. \A t, u : t \in Texts /\ u \in Texts => t \o u \in Texts
  BY ConcatProperties DEF Texts
<1>4. Continues(typed, buffer, past)
  <2>1. Continues(typed, buffer, past \o program)
    BY DEF Typed
  <2>2. past \o program = past
    BY TextJoins
  <2> QED
    BY <2>1, <2>2
<1>5. Continues(typed \o line, buffer \o line, past)
  BY <1>1, <1>2, <1>4, LineContinues
<1>6. buffer \o line \in Texts
  BY <1>1, <1>2, <1>3
<1>7. Gathered(line) = Append(buffer \o line, NewLine)
  <2>1. \A t, c : t \in Seq(Tokens) /\ c \in Tokens => t \o <<c>> = Append(t, c)
    OBVIOUS
  <2> QED
    BY <1>6, <2>1, TokenNames, Zenon DEF Gathered, Texts
<1>8. Gathered(line) \in Texts
  BY <1>6, <1>7, TokenAdded, TokenNames
<1>9. Continues(typed \o line, Gathered(line), past)
  BY <1>5, <1>6, <1>7, LineEndContinues
<1> QED
  BY <1>1, <1>2, <1>3, <1>8, <1>9

LEMMA PartKeepsVisits ==
  ASSUME VisitInv, NEW line \in Lines, EnterPart(line)
  PROVE  VisitInv'
<1>1. PICK past \in Seq(Texts), rest \in Seq(Texts) : Typed(past, rest)
  BY DEF VisitInv
<1>2. program = <<>> /\ running
  BY DEF EnterPart, Waiting
<1>3. /\ typed' = typed \o line /\ buffer' = Gathered(line)
      /\ running' = running /\ initialized' = initialized
      /\ program' = program /\ executed' = executed
  BY DEF EnterPart
<1>4. typed' \in Texts /\ buffer' \in Texts /\ Continues(typed', buffer', past)
  BY <1>1, <1>2, <1>3, LineGathered
<1>5. PICK left \in Seq(Texts) : left = StatementsOf(buffer')
  BY <1>4, TextsOfStatements
<1>6. past \o program = past
  BY <1>2, TextJoins
<1>7. Typed(past, left)'
  <2>1. StatementsOf(typed') = past \o left /\ past \o program' = past
    BY <1>3, <1>4, <1>5, <1>6, Zenon DEF Continues
  <2>2. Visited(past)'
    BY <1>1, <1>3 DEF Typed, Visited
  <2>3. running' /\ ~initialized' => past = <<>> /\ executed' = <<>> /\ program' = <<>>
    BY <1>1, <1>3 DEF Typed
  <2> QED
    BY <1>4, <2>1, <2>2, <2>3, Zenon DEF Typed
<1>8. program' \in Seq(Texts) /\ executed' \in Seq(Texts)
  BY <1>3 DEF VisitInv
<1>9. \E p \in Seq(Texts), r \in Seq(Texts) : Typed(p, r)'
  BY <1>5, <1>7, Zenon
<1> QED
  BY <1>4, <1>8, <1>9 DEF VisitInv

LEMMA EarlyKeepsVisits ==
  ASSUME VisitInv, NEW line \in Lines, EnterTooEarly(line)
  PROVE  VisitInv'
<1>1. PICK past \in Seq(Texts), rest \in Seq(Texts) : Typed(past, rest)
  BY DEF VisitInv
<1>2. /\ program = <<>> /\ running /\ ~initialized
      /\ typed' = <<>> /\ buffer' = <<>>
      /\ program' = program /\ executed' = executed
  BY DEF EnterTooEarly, Waiting
<1>3. executed = <<>> /\ <<>> \in Seq(Texts)
  BY <1>1, <1>2, TextJoins DEF Typed
<1>4. (<<>> \o <<>>) \o <<>> = <<>>
  BY <1>3, TextJoins
<1>5. Typed(<<>>, <<>>)'
  <2>1. Visited(<<>>)'
    BY <1>2, <1>3, InOrderNothing DEF Visited
  <2>2. Continues(<<>>, <<>>, <<>> \o <<>>)
    BY <1>3, TextJoins, NothingRead DEF Continues
  <2> QED
    BY <1>2, <1>3, <1>4, <2>1, <2>2, NothingRead DEF Typed
<1>6. typed' \in Texts /\ buffer' \in Texts /\ program' \in Seq(Texts) /\ executed' \in Seq(Texts)
  BY <1>2, <1>3, NothingRead
<1>7. \E p \in Seq(Texts), r \in Seq(Texts) : Typed(p, r)'
  BY <1>3, <1>5, Zenon
<1> QED
  BY <1>6, <1>7 DEF VisitInv

LEMMA ProgramKeepsVisits ==
  ASSUME VisitInv, NEW line \in Lines, EnterProgram(line)
  PROVE  VisitInv'
<1>1. PICK past \in Seq(Texts), rest \in Seq(Texts) : Typed(past, rest)
  BY DEF VisitInv
<1>2. PICK g : g = Gathered(line)
  OBVIOUS
<1>3. /\ program = <<>> /\ running /\ initialized
      /\ typed' = typed \o line /\ buffer' = <<>> /\ program' = Parsed(g)
      /\ running' = running /\ initialized' = initialized /\ executed' = executed
      /\ EndsWithSemicolonOutsideQuotes(g)
  BY <1>2 DEF EnterProgram, Waiting
<1>4. typed' \in Texts /\ g \in Texts /\ Continues(typed', g, past)
  BY <1>1, <1>2, <1>3, LineGathered
<1>5. Open(g) = <<>> /\ ~Odd(g)
  BY <1>3, <1>4, ProgramEnds
<1>6. PICK statements \in Seq(Texts) : statements = StatementsOf(g)
  BY <1>4, TextsOfStatements
<1>7. past \o statements \in Seq(Texts) /\ <<>> \in Seq(Texts)
  BY TextJoins
<1>8. Continues(typed', <<>>, past \o statements)
  <2>1. /\ StatementsOf(typed') = past \o statements
        /\ Open(typed') = <<>> /\ ~Odd(typed')
    BY <1>4, <1>5, <1>6, Zenon DEF Continues
  <2>2. (past \o statements) \o <<>> = past \o statements
    BY <1>7, TextJoins
  <2> QED
    BY <2>1, <2>2, NothingRead DEF Continues
<1>9. StatementsOf(typed') = (past \o statements) \o <<>>
  BY <1>8, NothingRead DEF Continues
<1>10. program' \in Seq(Texts) /\ \E p \in Seq(Texts) : Typed(p, <<>>)'
  <2>1. CASE \A k \in DOMAIN statements : IsStatement(statements[k])
    <3>1. program' = statements
      BY <1>3, <1>6, <2>1 DEF Parsed
    <3>2. Visited(past)'
      BY <1>1, <1>3 DEF Typed, Visited
    <3>3. Typed(past, <<>>)'
      BY <1>3, <1>8, <1>9, <3>1, <3>2, Zenon DEF Typed
    <3> QED
      BY <3>1, <3>3
  <2>2. CASE \E k \in DOMAIN statements : ~IsStatement(statements[k])
    <3>1. program' = <<>>
      BY <1>3, <1>6, <2>2 DEF Parsed
    <3>2. ~RunsAll(past \o statements)
      <4>1. ~RunsAll(statements)
        BY <2>2, Zenon DEF RunsAll
      <4> QED
        BY <4>1, RunsAllParts
    <3>3. InOrder(executed, past)
      BY <1>1 DEF Typed, Visited
    <3>4. InOrder(executed, past \o statements)
      BY <3>3, InOrderExtends
    <3>5. Visited(past \o statements)'
      BY <1>3, <3>2, <3>4 DEF Visited
    <3>6. (past \o statements) \o program' = past \o statements
      BY <1>7, <3>1, TextJoins
    <3>7. Typed(past \o statements, <<>>)'
      BY <1>3, <1>8, <1>9, <3>5, <3>6, Zenon DEF Typed
    <3> QED
      BY <1>7, <3>1, <3>7
  <2> QED
    BY <2>1, <2>2, Zenon
<1>11. buffer' \in Texts /\ executed' \in Seq(Texts)
  BY <1>3, NothingRead DEF VisitInv
<1>12. \E p \in Seq(Texts), r \in Seq(Texts) : Typed(p, r)'
  BY <1>7, <1>10, Zenon
<1> QED
  BY <1>4, <1>10, <1>11, <1>12 DEF VisitInv

LEMMA VisitKeepsVisits ==
  ASSUME VisitInv, VisitStatement
  PROVE  VisitInv'
<1>1. PICK past \in Seq(Texts), rest \in Seq(Texts) : Typed(past, rest)
  BY DEF VisitInv
<1>2. program \in Seq(Texts) /\ executed \in Seq(Texts) /\ program # <<>>
  BY DEF VisitInv, VisitStatement
<1>3. PICK h, t : h = Head(program) /\ t = Tail(program)
  OBVIOUS
<1>4. h \in Texts /\ t \in Seq(Texts) /\ program[1] = h /\ 1 \in DOMAIN program
  BY <1>2, <1>3
<1>5. past \o program = Append(past, h) \o t
  BY <1>2, <1>3
<1>6. Append(past, h) \in Seq(Texts) /\ Append(past, h) = past \o <<h>> /\ <<h>> \in Seq(Texts)
  BY <1>4
<1>7. /\ executed' = Append(executed, h)
      /\ program' = IF Head(h) = "runs" THEN t ELSE <<>>
      /\ initialized' = initialized /\ buffer' = buffer /\ typed' = typed
      /\ running
  BY <1>3, Zenon DEF VisitStatement
<1>8. InOrder(executed, past) /\ (RunsAll(past) => executed = past)
  BY <1>1 DEF Typed, Visited
<1>9. InOrder(executed', Append(past, h))
  BY <1>2, <1>4, <1>7, <1>8, InOrderAppends
<1>10. initialized
  BY <1>1, <1>2, <1>7 DEF Typed
<1>11. /\ StatementsOf(typed) = (past \o program) \o rest
       /\ Continues(typed, buffer, past \o program)
  BY <1>1, <1>7 DEF Typed
<1>12. program' \in Seq(Texts) /\ \E p \in Seq(Texts) : Typed(p, rest)'
  <2>1. CASE Head(h) = "runs"
    <3>1. program' = t
      BY <1>7, <2>1
    <3>2. RunsAll(Append(past, h)) => executed' = Append(past, h)
      BY <1>6, <1>7, <1>8, RunsAllParts
    <3>3. Visited(Append(past, h))'
      BY <1>9, <3>2 DEF Visited
    <3>4. Typed(Append(past, h), rest)'
      BY <1>5, <1>7, <1>10, <1>11, <3>1, <3>3, Zenon DEF Typed
    <3> QED
      BY <1>4, <1>6, <3>1, <3>4
  <2>2. CASE Head(h) # "runs"
    <3>1. program' = <<>> /\ <<>> \in Seq(Texts)
      BY <1>7, <2>2, TextJoins
    <3>2. past \o program \in Seq(Texts)
      BY <1>2, TextJoins
    <3>3. ~RunsAll(past \o program)
      <4>1. ~RunsAll(program)
        BY <1>4, <2>2, Zenon DEF RunsAll
      <4> QED
        BY <1>2, <4>1, RunsAllParts
    <3>4. InOrder(executed', past \o program)
      BY <1>4, <1>5, <1>6, <1>9, InOrderExtends
    <3>5. PICK p : p = past \o program
      OBVIOUS
    <3>6. Visited(p)'
      BY <3>3, <3>4, <3>5, Zenon DEF Visited
    <3>7. p \o program' = p
      BY <3>1, <3>2, <3>5, TextJoins
    <3>8. Typed(p, rest)'
      BY <1>7, <1>10, <1>11, <3>5, <3>6, <3>7, Zenon DEF Typed
    <3> QED
      BY <3>1, <3>2, <3>5, <3>8
  <2> QED
    BY <2>1, <2>2
<1>13. executed' \in Seq(Texts)
  BY <1>2, <1>4, <1>7, AppendProperties
<1>14. typed' \in Texts /\ buffer' \in Texts
  BY <1>7 DEF VisitInv
<1>15. \E p \in Seq(Texts), r \in Seq(Texts) : Typed(p, r)'
  BY <1>12, Zenon
<1> QED
  BY <1>12, <1>13, <1>14, <1>15 DEF VisitInv

LEMMA LeaveKeepsVisits ==
  ASSUME VisitInv, Leave
  PROVE  VisitInv'
<1>1. PICK past \in Seq(Texts), rest \in Seq(Texts) : Typed(past, rest)
  BY DEF VisitInv
<1>2. Typed(past, rest)'
  BY <1>1 DEF Leave, Typed, Visited
<1>3. typed' \in Texts /\ buffer' \in Texts /\ program' \in Seq(Texts) /\ executed' \in Seq(Texts)
  BY NothingRead DEF Leave, VisitInv
<1>4. \E p \in Seq(Texts), r \in Seq(Texts) : Typed(p, r)'
  BY <1>2, Zenon
<1> QED
  BY <1>3, <1>4 DEF VisitInv

LEMMA InitKeepsVisits ==
  ASSUME VisitInv, EnterInit
  PROVE  VisitInv'
<1>1. PICK past \in Seq(Texts), rest \in Seq(Texts) : Typed(past, rest)
  BY DEF VisitInv
<1>2. Typed(past, rest)'
  BY <1>1 DEF EnterInit, Typed, Visited
<1>3. typed' \in Texts /\ buffer' \in Texts /\ program' \in Seq(Texts) /\ executed' \in Seq(Texts)
  BY DEF EnterInit, VisitInv
<1>4. \E p \in Seq(Texts), r \in Seq(Texts) : Typed(p, r)'
  BY <1>2, Zenon
<1> QED
  BY <1>3, <1>4 DEF VisitInv

LEMMA VisitsAtStart == CliInit => VisitInv
<1> SUFFICES ASSUME CliInit PROVE VisitInv
  OBVIOUS
<1>1. /\ running = TRUE /\ initialized = FALSE /\ buffer = <<>> /\ program = <<>>
      /\ executed = <<>> /\ typed = <<>>
  BY DEF CliInit
<1>2. <<>> \in Seq(Texts) /\ <<>> \o <<>> = <<>> /\ (<<>> \o <<>>) \o <<>> = <<>>
  BY EmptySeq, TextJoins
<1>3. Visited(<<>>)
  BY <1>1, InOrderNothing DEF Visited
<1>4. Typed(<<>>, <<>>)
  BY <1>1, <1>2, <1>3, NothingRead DEF Typed, Continues
<1> QED
  BY <1>1, <1>2, <1>4, NothingRead DEF VisitInv

LEMMA NextKeepsVisits == VisitInv /\ [CliNext]_cliVars => VisitInv'
<1> SUFFICES ASSUME VisitInv, [CliNext]_cliVars
             PROVE  VisitInv'
  OBVIOUS
<1>1. CASE EnterQuit
  BY <1>1, LeaveKeepsVisits DEF EnterQuit
<1>2. CASE EnterInit
  BY <1>2, InitKeepsVisits
<1>3. ASSUME NEW line \in Lines, EnterLine(line)
      PROVE  VisitInv'
  <2>1. CASE EnterTooLarge(line)
    BY <2>1, LeaveKeepsVisits DEF EnterTooLarge
  <2>2. CASE EnterPart(line)
    BY <2>2, PartKeepsVisits
  <2>3. CASE EnterTooEarly(line)
    BY <2>3, EarlyKeepsVisits
  <2>4. CASE EnterProgram(line)
    BY <2>4, ProgramKeepsVisits
  <2> QED
    BY <1>3, <2>1, <2>2, <2>3, <2>4 DEF EnterLine
<1>4. CASE VisitStatement
  BY <1>4, VisitKeepsVisits
<1>5. CASE UNCHANGED cliVars
  BY <1>5 DEF cliVars, VisitInv, Typed, Visited
<1> QED
  BY <1>1, <1>2, <1>3, <1>4, <1>5 DEF CliNext

LEMMA VisitsMean == VisitInv => VisitsWhatIsTyped
<1> SUFFICES ASSUME VisitInv PROVE VisitsWhatIsTyped
  OBVIOUS
<1>1. PICK past \in Seq(Texts), rest \in Seq(Texts) : Typed(past, rest)
  BY DEF VisitInv
<1>2. program \in Seq(Texts)
  BY DEF VisitInv
<1>3. InOrder(executed, StatementsOf(typed))
  <2>1. InOrder(executed, past) /\ StatementsOf(typed) = (past \o program) \o rest
    BY <1>1 DEF Typed, Visited
  <2>2. past \o program \in Seq(Texts)
    BY <1>2, TextJoins
  <2>3. InOrder(executed, past \o program)
    BY <1>2, <2>1, InOrderExtends
  <2>4. InOrder(executed, (past \o program) \o rest)
    BY <2>2, <2>3, InOrderExtends
  <2> QED
    BY <2>1, <2>4
<1>4. ASSUME Waiting, buffer = <<>>, RunsAll(StatementsOf(typed))
      PROVE  executed = IF initialized THEN StatementsOf(typed) ELSE <<>>
  <2>1. running /\ program = <<>>
    BY <1>4 DEF Waiting
  <2>2. past \o program = past /\ past \o <<>> = past
    BY <2>1, TextJoins
  <2>3. StatementsOf(typed) = past
    BY <1>1, <1>4, <2>1, <2>2, NothingRead DEF Typed, Continues
  <2>4. executed = past
    BY <1>1, <1>4, <2>3 DEF Typed, Visited
  <2>5. ~initialized => past = <<>>
    BY <1>1, <2>1 DEF Typed
  <2> QED
    BY <2>3, <2>4, <2>5
<1> QED
  BY <1>3, <1>4, Zenon DEF VisitsWhatIsTyped, RunsAll

(* For any limit and any lines, the statements visited are those the whole session has for the *)
(* grammar, in their order and, unless one fails, without a gap: the cut the driver makes at a *)
(* semicolon is the one the parser makes, quotation marks and line ends included.              *)
THEOREM VisitsAlwaysWhatIsTyped == CliSpec => []VisitsWhatIsTyped
  BY VisitsAtStart, NextKeepsVisits, VisitsMean, PTL DEF CliSpec
=============================================================================
