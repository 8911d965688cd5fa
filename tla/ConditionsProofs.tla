--------------------------- MODULE ConditionsProofs ---------------------------
(***************************************************************************)
(* What evaluateComparator answers, for every text, literal and reading of *)
(* the numerals, and what the recursion of LikeMatch computes.             *)
(***************************************************************************)
EXTENDS Conditions, Counting, TLAPS

(* The answer is the evaluator's for this record and this condition. *)
AnswerInv ==
  /\ text \in Stored /\ condition \in Where
  /\ verdict = "admitted" => Admitted(condition)
  /\ answer # "none" => /\ verdict = "admitted"
                        /\ answer = Evaluate(text, condition.cmp, condition.text)

LEMMA AnswerInvariant == ConditionSpec => []AnswerInv
<1>1. ConditionInit => AnswerInv
  BY DEF ConditionInit, AnswerInv
<1>2. AnswerInv /\ [ConditionNext]_conditionVars => AnswerInv'
  BY DEF AnswerInv, ConditionNext, Validate, EvaluateRecord, conditionVars
<1> QED
  BY <1>1, <1>2, PTL DEF ConditionSpec

(* Every text is of exactly one type, and a numeral is one symbol. *)
LEMMA ClassifyType ==
  ASSUME NEW t
  PROVE  /\ Classify(t) \in {"NULLTYPE", "BOOLEAN", "NUMBER", "STRING"}
         /\ Classify(t) = "NUMBER" => Len(t) = 1 /\ t[1] \in Numerals
BY DEF Classify

(* Equality needs no types: the index, a map of texts, and a scan find the same record. *)
THEOREM EqualityAlwaysOfTexts == ConditionSpec => []EqualityIsOfTexts
<1>1. AnswerInv => EqualityIsOfTexts
  BY DEF AnswerInv, EqualityIsOfTexts, Evaluate, EqualTexts, YesIf
<1> QED
  BY <1>1, AnswerInvariant, PTL

(* Each comparator but those of order answers without an exception. *)
LEMMA OnlyOrderThrows ==
  ASSUME NEW lhs, NEW rhs, NEW cmp \in Comparators, Evaluate(lhs, cmp, rhs) = "throws"
  PROVE  cmp \in MathComparators /\ CompareNumbers(cmp, lhs, rhs) = "throws"
BY DEF Evaluate, Comparators, MathComparators, YesIf

(* Only a numeral that no double holds makes a comparison throw. *)
THEOREM ThrowsAlwaysOutOfRange == ConditionSpec => []ThrowsOnlyOutOfRange
<1>1. AnswerInv => ThrowsOnlyOutOfRange
  <2> SUFFICES ASSUME AnswerInv, answer = "throws"
               PROVE  /\ condition.cmp \in MathComparators
                      /\ \E t \in {text, condition.text} : Len(t) = 1 /\ t[1] \in Unheld
    BY DEF ThrowsOnlyOutOfRange
  <2>1. condition.cmp \in Comparators
    BY ConditionAssumption DEF AnswerInv
  <2>2. /\ condition.cmp \in MathComparators
        /\ CompareNumbers(condition.cmp, text, condition.text) = "throws"
    BY <2>1, OnlyOrderThrows DEF AnswerInv
  <2>3. /\ {Classify(text), Classify(condition.text)} = {"NUMBER"}
        /\ Unheld \cap {text[1], condition.text[1]} # {}
    BY <2>2 DEF CompareNumbers, YesIf
  <2>4. Len(text) = 1 /\ Len(condition.text) = 1
    BY <2>3, ClassifyType
  <2> QED
    BY <2>2, <2>3, <2>4
<1> QED
  BY <1>1, AnswerInvariant, PTL

(* Of two numbers that compare, exactly one of a comparison and its negation holds. *)
LEMMA OrderNegation ==
  ASSUME NEW l \in Numerals \ (Unheld \cup NaNs), NEW r \in Numerals \ (Unheld \cup NaNs)
  PROVE  /\ Ordered("LT", l, r) <=> ~Ordered("GE", l, r)
         /\ Ordered("GT", l, r) <=> ~Ordered("LE", l, r)
BY ConditionAssumption DEF Ordered

LEMMA OrderPartition ==
  ASSUME NEW lhs, NEW rhs, NEW cmp \in {"LT", "GT"},
         CompareNumbers(cmp, lhs, rhs) # "throws"
  PROVE  LET negated == CompareNumbers(Negation[cmp], lhs, rhs)
         IN  /\ ~(CompareNumbers(cmp, lhs, rhs) = "yes" /\ negated = "yes")
             /\ CompareNumbers(cmp, lhs, rhs) = "no" /\ negated = "no" =>
                  \/ {Classify(lhs), Classify(rhs)} # {"NUMBER"}
                  \/ NaNs \cap {lhs[1], rhs[1]} # {}
<1>1. CASE {Classify(lhs), Classify(rhs)} # {"NUMBER"}
  BY <1>1 DEF CompareNumbers
<1>2. CASE {Classify(lhs), Classify(rhs)} = {"NUMBER"}
  <2>1. lhs[1] \in Numerals /\ rhs[1] \in Numerals
    BY <1>2, ClassifyType
  <2>2. Unheld \cap {lhs[1], rhs[1]} = {}
    BY <1>2 DEF CompareNumbers
  <2>3. CASE NaNs \cap {lhs[1], rhs[1]} # {}
    BY <1>2, <2>2, <2>3 DEF CompareNumbers, Ordered, YesIf
  <2>4. CASE NaNs \cap {lhs[1], rhs[1]} = {}
    <3>1. /\ Ordered("LT", lhs[1], rhs[1]) <=> ~Ordered("GE", lhs[1], rhs[1])
          /\ Ordered("GT", lhs[1], rhs[1]) <=> ~Ordered("LE", lhs[1], rhs[1])
      BY <2>1, <2>2, <2>4, OrderNegation
    <3>2. \A c : CompareNumbers(c, lhs, rhs) = YesIf(Ordered(c, lhs[1], rhs[1]))
      BY <1>2, <2>2 DEF CompareNumbers
    <3>3. Negation["LT"] = "GE" /\ Negation["GT"] = "LE"
      BY DEF Negation
    <3> QED
      BY <3>1, <3>2, <3>3 DEF YesIf
  <2> QED
    BY <2>3, <2>4
<1> QED
  BY <1>1, <1>2

LEMMA AdmittedIsDocumented ==
  ASSUME NEW c, c.cmp \in Comparators, c.type \in LiteralTypes
  PROVE  Admitted(c) <=> c.known /\ Documented(c)
BY DEF Admitted, Documented, Comparators, MathComparators, LiteralTypes

(* The validator admits the documented pairs of comparator and literal, and no other. *)
THEOREM AlwaysAdmitsTheDocumented == ConditionSpec => []AdmitsTheDocumented
<1> DEFINE Judged == /\ condition \in Where
                     /\ verdict # "none" => (verdict = "admitted" <=> Admitted(condition))
<1>1. ConditionInit => Judged
  BY DEF ConditionInit
<1>2. Judged /\ [ConditionNext]_conditionVars => Judged'
  BY DEF ConditionNext, Validate, EvaluateRecord, conditionVars
<1>3. Judged => AdmitsTheDocumented
  BY ConditionAssumption, AdmittedIsDocumented DEF AdmitsTheDocumented
<1> QED
  BY <1>1, <1>2, <1>3, PTL DEF ConditionSpec

LEMMA NumeralIsNumber ==
  ASSUME NEW n \in Numerals
  PROVE  Classify(<<n>>) = "NUMBER"
BY ConditionAssumption DEF Classify, Words

(* A comparator and its negation share no record, for all texts and all literals admitted. *)
THEOREM NegationsAlwaysPartition == ConditionSpec => []NegationsPartition
<1>1. AnswerInv => NegationsPartition
  <2> SUFFICES ASSUME AnswerInv, answer \in {"yes", "no"}, condition.cmp \in DOMAIN Negation
               PROVE  LET negated == Evaluate(text, Negation[condition.cmp], condition.text)
                      IN  /\ ~(answer = "yes" /\ negated = "yes")
                          /\ answer = "no" /\ negated = "no" =>
                               \/ condition.cmp = "LIKE" /\ Classify(text) # "STRING"
                               \/ /\ condition.cmp \in MathComparators
                                  /\ \/ Classify(text) # "NUMBER"
                                     \/ NaNs \cap {text[1], condition.text[1]} # {}
    BY DEF NegationsPartition
  <2> DEFINE negated == Evaluate(text, Negation[condition.cmp], condition.text)
  <2>1. /\ condition.cmp \in {"IS", "LIKE", "EQ", "LT", "GT"}
        /\ Negation["IS"] = "IS_NOT" /\ Negation["LIKE"] = "NOT_LIKE" /\ Negation["EQ"] = "NE"
        /\ Negation["LT"] = "GE" /\ Negation["GT"] = "LE"
    BY DEF Negation
  <2>2. answer = Evaluate(text, condition.cmp, condition.text) /\ Admitted(condition)
    BY DEF AnswerInv
  <2>3. CASE condition.cmp = "IS"
    <3>1. answer = YesIf(Is(text, condition.text))
      BY <2>2, <2>3 DEF Evaluate
    <3>2. negated = YesIf(IsNot(text, condition.text))
      BY <2>1, <2>3 DEF Evaluate
    <3>3. Is(text, condition.text) <=> ~IsNot(text, condition.text)
      BY DEF Is, IsNot
    <3> QED
      BY <3>1, <3>2, <3>3 DEF YesIf
  <2>4. CASE condition.cmp = "LIKE"
    <3>1. answer = YesIf(Classify(text) = "STRING" /\ LikeMatch(text, condition.text))
      BY <2>2, <2>4 DEF Evaluate
    <3>2. negated = YesIf(Classify(text) = "STRING" /\ ~LikeMatch(text, condition.text))
      BY <2>1, <2>4 DEF Evaluate
    <3> QED
      BY <2>4, <3>1, <3>2 DEF YesIf
  <2>5. CASE condition.cmp = "EQ"
    <3>1. answer = YesIf(EqualTexts(text, condition.text))
      BY <2>2, <2>5 DEF Evaluate
    <3>2. negated = YesIf(~EqualTexts(text, condition.text))
      BY <2>1, <2>5 DEF Evaluate
    <3> QED
      BY <3>1, <3>2 DEF YesIf
  <2>6. CASE condition.cmp \in {"LT", "GT"}
    <3>1. /\ answer = CompareNumbers(condition.cmp, text, condition.text)
          /\ negated = CompareNumbers(Negation[condition.cmp], text, condition.text)
      BY <2>1, <2>2, <2>6 DEF Evaluate
    <3>2. Classify(condition.text) = "NUMBER"
      <4>1. condition \in Where /\ condition.type = "NUMBER"
        BY <2>2, <2>6 DEF AnswerInv, Admitted
      <4> QED
        BY <4>1, ConditionAssumption, NumeralIsNumber
    <3>3. /\ ~(answer = "yes" /\ negated = "yes")
          /\ answer = "no" /\ negated = "no" =>
               \/ {Classify(text), Classify(condition.text)} # {"NUMBER"}
               \/ NaNs \cap {text[1], condition.text[1]} # {}
      BY <2>6, <3>1, OrderPartition
    <3>4. condition.cmp \in MathComparators
      BY <2>6 DEF MathComparators
    <3> QED
      BY <3>2, <3>3, <3>4
  <2> QED
    BY <2>1, <2>3, <2>4, <2>5, <2>6
<1> QED
  BY <1>1, AnswerInvariant, PTL
-----------------------------------------------------------------------------
(* LIKE: what is left of the text behind its first a symbols fits what is left of the pattern *)
(* behind its first b.                                                                        *)

(* The symbols of a text from one cut to the next are what a symbol of the pattern stands for. *)
PartFits(t, symbol, from, to) ==
  LET part == SubSeq(t, from + 1, to)
  IN  /\ from <= to
      /\ symbol = "_" => Len(part) = 1
      /\ symbol \notin {"%", "_"} => part = <<symbol>>

CutsFit(t, pattern, a, b, cut) ==
  /\ cut \in [b..Len(pattern) -> 0..Len(t)]
  /\ cut[b] = a /\ cut[Len(pattern)] = Len(t)
  /\ \A j \in (b + 1)..Len(pattern) : PartFits(t, pattern[j], cut[j - 1], cut[j])

RestFits(t, pattern, a, b) == \E cut : CutsFit(t, pattern, a, b, cut)

(* One symbol of the text for one symbol of the pattern. *)
SymbolFits(symbol, found) == symbol = "_" \/ found = symbol

LEMMA FitsIsRest ==
  ASSUME NEW t, NEW pattern \in Seq(Symbols)
  PROVE  Fits(t, pattern) <=> RestFits(t, pattern, 0, 0)
<1>1. 0 + 1 = 1
  OBVIOUS
<1> QED
  BY <1>1, Zenon DEF Fits, RestFits, CutsFit, PartFits

LEMMA OneElement ==
  ASSUME NEW s \in Seq(Symbols), NEW x
  PROVE  s = <<x>> <=> Len(s) = 1 /\ s[1] = x
<1>1. ASSUME Len(s) = 1, s[1] = x PROVE s = <<x>>
  BY <1>1
<1> QED
  BY <1>1

LEMMA PartIs ==
  ASSUME NEW t \in Seq(Symbols), NEW symbol, NEW from \in 0..Len(t), NEW to \in 0..Len(t)
  PROVE  PartFits(t, symbol, from, to) <=>
           \/ symbol = "%" /\ from <= to
           \/ symbol # "%" /\ to = from + 1 /\ SymbolFits(symbol, t[to])
<1> DEFINE part == SubSeq(t, from + 1, to)
<1>1. Len(t) \in Nat /\ from \in Nat /\ to \in Nat /\ to <= Len(t)
  OBVIOUS
<1>2. CASE ~(from <= to)
  <2>1. to # from + 1
    BY <1>1, <1>2
  <2> QED
    BY <1>2, <2>1 DEF PartFits
<1>3. CASE from <= to
  <2>1. /\ part \in Seq(Symbols) /\ Len(part) = to - from
        /\ 1 <= to - from => part[1] = t[from + 1]
    BY <1>1, <1>3
  <2>2. PartFits(t, symbol, from, to) <=> /\ symbol = "_" => Len(part) = 1
                                          /\ symbol \notin {"%", "_"} => part = <<symbol>>
    BY <1>1, <1>3, Zenon DEF PartFits
  <2> HIDE DEF part
  <2>3. part = <<symbol>> <=> Len(part) = 1 /\ part[1] = symbol
    BY <2>1, OneElement
  <2>4. CASE to = from + 1
    <3>1. Len(part) = 1 /\ part[1] = t[to]
      BY <1>1, <2>1, <2>4
    <3> QED
      BY <1>3, <2>2, <2>3, <2>4, <3>1 DEF SymbolFits
  <2>5. CASE to # from + 1
    <3>1. Len(part) # 1
      BY <1>1, <2>1, <2>5
    <3> QED
      BY <1>3, <2>2, <2>3, <2>5, <3>1
  <2> QED
    BY <2>4, <2>5
<1> QED
  BY <1>2, <1>3

(* The end of the pattern is reached at the end of the text. *)
LEMMA RestAtEnd ==
  ASSUME NEW t \in Seq(Symbols), NEW pattern \in Seq(Symbols), NEW a \in 0..Len(t)
  PROVE  RestFits(t, pattern, a, Len(pattern)) <=> a = Len(t)
<1>1. ASSUME a = Len(t) PROVE RestFits(t, pattern, a, Len(pattern))
  <2> DEFINE cut == [k \in Len(pattern)..Len(pattern) |-> a]
  <2>1. CutsFit(t, pattern, a, Len(pattern), cut)
    BY <1>1 DEF CutsFit
  <2> QED
    BY <2>1 DEF RestFits
<1> QED
  BY <1>1 DEF RestFits, CutsFit

(* The first of several cuts, and what the others are. *)
LEMMA CutsBehind ==
  ASSUME NEW t \in Seq(Symbols), NEW pattern \in Seq(Symbols),
         NEW a \in 0..Len(t), NEW b \in Nat, b < Len(pattern), NEW cut
  PROVE  CutsFit(t, pattern, a, b, cut) =>
           /\ cut[b + 1] \in 0..Len(t)
           /\ PartFits(t, pattern[b + 1], a, cut[b + 1])
           /\ RestFits(t, pattern, cut[b + 1], b + 1)
<1> SUFFICES ASSUME CutsFit(t, pattern, a, b, cut)
             PROVE  /\ cut[b + 1] \in 0..Len(t)
                    /\ PartFits(t, pattern[b + 1], a, cut[b + 1])
                    /\ RestFits(t, pattern, cut[b + 1], b + 1)
  OBVIOUS
<1>1. PICK m, c : m = Len(pattern) /\ m \in Nat /\ c = b + 1 /\ c \in b..m /\ c \in (b + 1)..m
                  /\ c - 1 = b
  OBVIOUS
<1>2. /\ cut \in [b..m -> 0..Len(t)] /\ cut[b] = a /\ cut[m] = Len(t)
      /\ \A j \in (b + 1)..m : PartFits(t, pattern[j], cut[j - 1], cut[j])
  BY <1>1 DEF CutsFit
<1>3. cut[c] \in 0..Len(t) /\ PartFits(t, pattern[c], a, cut[c])
  BY <1>1, <1>2
<1> DEFINE rest == [k \in c..m |-> cut[k]]
<1>4. rest \in [c..m -> 0..Len(t)] /\ rest[c] = cut[c] /\ rest[m] = Len(t)
  BY <1>1, <1>2
<1>5. \A j \in (c + 1)..m : j \in (b + 1)..m /\ rest[j] = cut[j] /\ rest[j - 1] = cut[j - 1]
  BY <1>1
<1>6. CutsFit(t, pattern, cut[c], c, rest)
  BY <1>1, <1>2, <1>4, <1>5 DEF CutsFit
<1> QED
  BY <1>1, <1>3, <1>6 DEF RestFits

LEMMA CutsInFront ==
  ASSUME NEW t \in Seq(Symbols), NEW pattern \in Seq(Symbols),
         NEW a \in 0..Len(t), NEW b \in Nat, b < Len(pattern),
         NEW to \in 0..Len(t), PartFits(t, pattern[b + 1], a, to), RestFits(t, pattern, to, b + 1)
  PROVE  RestFits(t, pattern, a, b)
<1>1. PICK m, c : m = Len(pattern) /\ m \in Nat /\ c = b + 1 /\ c \in b..m /\ c \in Nat /\ b # c
                  /\ c - 1 = b
  OBVIOUS
<1>2. PICK rest : /\ rest \in [c..m -> 0..Len(t)] /\ rest[c] = to /\ rest[m] = Len(t)
                  /\ \A j \in (c + 1)..m : PartFits(t, pattern[j], rest[j - 1], rest[j])
  BY <1>1 DEF RestFits, CutsFit
<1> DEFINE cut == [k \in b..m |-> IF k = b THEN a ELSE rest[k]]
<1>3. \A k \in c..m : cut[k] = rest[k]
  BY <1>1
<1>4. cut \in [b..m -> 0..Len(t)] /\ cut[b] = a /\ cut[m] = Len(t)
  BY <1>1, <1>2
<1>5. cut[c] = to
  BY <1>1, <1>2, <1>3
<1> HIDE DEF cut
<1>6. \A j \in (b + 1)..m : PartFits(t, pattern[j], cut[j - 1], cut[j])
  <2> SUFFICES ASSUME NEW j \in (b + 1)..m PROVE PartFits(t, pattern[j], cut[j - 1], cut[j])
    OBVIOUS
  <2>1. CASE j = c
    BY <1>1, <1>4, <1>5, <2>1
  <2>2. CASE j # c
    <3>1. j \in (c + 1)..m /\ j \in c..m /\ j - 1 \in c..m
      BY <1>1, <2>2
    <3> QED
      BY <1>2, <1>3, <3>1
  <2> QED
    BY <2>1, <2>2
<1> QED
  BY <1>1, <1>4, <1>6 DEF RestFits, CutsFit

(* % takes nothing more, or one symbol more. *)
LEMMA RestAtPercent ==
  ASSUME NEW t \in Seq(Symbols), NEW pattern \in Seq(Symbols),
         NEW a \in 0..Len(t), NEW b \in Nat, b < Len(pattern), pattern[b + 1] = "%"
  PROVE  RestFits(t, pattern, a, b) <=>
           \/ RestFits(t, pattern, a, b + 1)
           \/ a < Len(t) /\ RestFits(t, pattern, a + 1, b)
<1>1. \A from, to \in 0..Len(t) : PartFits(t, pattern[b + 1], from, to) <=> from <= to
  BY PartIs
<1>2. ASSUME NEW from \in 0..Len(t)
      PROVE  RestFits(t, pattern, from, b) <=>
               \E to \in 0..Len(t) : from <= to /\ RestFits(t, pattern, to, b + 1)
  <2>1. ASSUME RestFits(t, pattern, from, b)
        PROVE  \E to \in 0..Len(t) : from <= to /\ RestFits(t, pattern, to, b + 1)
    <3>1. PICK cut : CutsFit(t, pattern, from, b, cut)
      BY <2>1 DEF RestFits
    <3>2. /\ cut[b + 1] \in 0..Len(t) /\ PartFits(t, pattern[b + 1], from, cut[b + 1])
          /\ RestFits(t, pattern, cut[b + 1], b + 1)
      BY <3>1, CutsBehind
    <3> QED
      BY <1>1, <3>2
  <2>2. ASSUME NEW to \in 0..Len(t), from <= to, RestFits(t, pattern, to, b + 1)
        PROVE  RestFits(t, pattern, from, b)
    BY <1>1, <2>2, CutsInFront
  <2> QED
    BY <2>1, <2>2
<1>3. a < Len(t) => a + 1 \in 0..Len(t)
  OBVIOUS
<1>4. \A to \in 0..Len(t) : a <= to <=> (to = a \/ (a < Len(t) /\ a + 1 <= to))
  OBVIOUS
<1> QED
  BY <1>2, <1>3, <1>4

(* Every other symbol takes one. *)
LEMMA RestAtSymbol ==
  ASSUME NEW t \in Seq(Symbols), NEW pattern \in Seq(Symbols),
         NEW a \in 0..Len(t), NEW b \in Nat, b < Len(pattern), pattern[b + 1] # "%"
  PROVE  RestFits(t, pattern, a, b) <=>
           /\ a < Len(t) /\ SymbolFits(pattern[b + 1], t[a + 1])
           /\ RestFits(t, pattern, a + 1, b + 1)
<1>1. \A to \in 0..Len(t) :
        PartFits(t, pattern[b + 1], a, to) <=> to = a + 1 /\ SymbolFits(pattern[b + 1], t[to])
  BY PartIs
<1>2. ASSUME RestFits(t, pattern, a, b)
      PROVE  /\ a < Len(t) /\ SymbolFits(pattern[b + 1], t[a + 1])
             /\ RestFits(t, pattern, a + 1, b + 1)
  <2>1. PICK cut : CutsFit(t, pattern, a, b, cut)
    BY <1>2 DEF RestFits
  <2>2. /\ cut[b + 1] \in 0..Len(t) /\ PartFits(t, pattern[b + 1], a, cut[b + 1])
        /\ RestFits(t, pattern, cut[b + 1], b + 1)
    BY <2>1, CutsBehind
  <2>3. cut[b + 1] = a + 1 /\ SymbolFits(pattern[b + 1], t[a + 1])
    BY <1>1, <2>2
  <2> QED
    BY <2>2, <2>3
<1>3. ASSUME a < Len(t), SymbolFits(pattern[b + 1], t[a + 1]), RestFits(t, pattern, a + 1, b + 1)
      PROVE  RestFits(t, pattern, a, b)
  <2>1. a + 1 \in 0..Len(t)
    BY <1>3
  <2> QED
    BY <1>1, <1>3, <2>1, CutsInFront
<1> QED
  BY <1>2, <1>3

(* What LikeMatch puts at a place of its table, and the table. *)
MatchStep(t, pattern, matches, i, j) ==
  IF j > Len(pattern) THEN i > Len(t)
  ELSE IF pattern[j] = "%"
       THEN matches[<<i, j + 1>>] \/ (i <= Len(t) /\ t[i] # NewLine /\ matches[<<i + 1, j>>])
       ELSE /\ i <= Len(t)
            /\ IF pattern[j] = "_" THEN t[i] # NewLine ELSE t[i] = pattern[j]
            /\ matches[<<i + 1, j + 1>>]

Places(t, pattern) == (1..(Len(t) + 1)) \X (1..(Len(pattern) + 1))

IsTable(t, pattern, matches) ==
  matches = [place \in Places(t, pattern) |-> MatchStep(t, pattern, matches, place[1], place[2])]

LEMMA LikeMatchIs ==
  ASSUME NEW t, NEW pattern
  PROVE  LikeMatch(t, pattern) = (CHOOSE matches : IsTable(t, pattern, matches))[<<1, 1>>]
BY Zenon DEF LikeMatch, IsTable, MatchStep, Places

LEMMA SameTruth ==
  ASSUME NEW x \in BOOLEAN, NEW y \in BOOLEAN, x <=> y
  PROVE  x = y
OBVIOUS

LEMMA StepIsBoolean ==
  ASSUME NEW t, NEW pattern, NEW matches, NEW i \in Int, NEW j, Len(t) \in Nat
  PROVE  MatchStep(t, pattern, matches, i, j) \in BOOLEAN
<1>1. CASE j > Len(pattern)
  <2>1. MatchStep(t, pattern, matches, i, j) = (i > Len(t))
    BY <1>1, Zenon DEF MatchStep
  <2>2. PICK n : n = Len(t) /\ n \in Nat
    BY Zenon
  <2>3. (i > n) \in BOOLEAN
    BY <2>2
  <2> QED
    BY <2>1, <2>2, <2>3, Zenon
<1>2. CASE ~(j > Len(pattern)) /\ pattern[j] = "%"
  <2>1. MatchStep(t, pattern, matches, i, j) =
          (matches[<<i, j + 1>>] \/ (i <= Len(t) /\ t[i] # NewLine /\ matches[<<i + 1, j>>]))
    BY <1>2, Zenon DEF MatchStep
  <2> QED
    BY <2>1, Zenon
<1>3. CASE ~(j > Len(pattern)) /\ pattern[j] # "%"
  <2>1. MatchStep(t, pattern, matches, i, j) =
          (/\ i <= Len(t)
           /\ IF pattern[j] = "_" THEN t[i] # NewLine ELSE t[i] = pattern[j]
           /\ matches[<<i + 1, j + 1>>])
    BY <1>3, Zenon DEF MatchStep
  <2> QED
    BY <2>1, Zenon
<1> QED
  BY <1>1, <1>2, <1>3

(* The table is right at (i, j) where it is at the places its step looks at. *)
LEMMA StepIsRest ==
  ASSUME NEW t \in Seq(Symbols), NEW pattern \in Seq(Symbols), OneLine(t), NEW matches,
         NEW a \in 0..Len(t), NEW b \in 0..Len(pattern),
         b < Len(pattern) => (matches[<<a + 1, b + 2>>] <=> RestFits(t, pattern, a, b + 1)),
         a < Len(t) => (matches[<<a + 2, b + 1>>] <=> RestFits(t, pattern, a + 1, b)),
         a < Len(t) /\ b < Len(pattern) =>
           (matches[<<a + 2, b + 2>>] <=> RestFits(t, pattern, a + 1, b + 1))
  PROVE  MatchStep(t, pattern, matches, a + 1, b + 1) <=> RestFits(t, pattern, a, b)
<1>0. Len(t) \in Nat /\ Len(pattern) \in Nat
  OBVIOUS
<1>1. PICK n, m, i, j : /\ n = Len(t) /\ n \in Nat /\ m = Len(pattern) /\ m \in Nat
                        /\ i = a + 1 /\ j = b + 1
  BY <1>0, Zenon
<1>2. /\ a \in Nat /\ a <= n /\ b \in Nat /\ b <= m /\ i + 1 = a + 2 /\ j + 1 = b + 2
      /\ i \in Nat /\ j \in Nat
  BY <1>1
<1>3. a < n => i \in DOMAIN t /\ t[i] # NewLine
  BY <1>1, <1>2 DEF OneLine
<1>4. (i <= n <=> a < n) /\ (i > n <=> a = n) /\ (j > m <=> b = m)
  BY <1>1, <1>2
<1>5. CASE b = m
  BY <1>1, <1>4, <1>5, RestAtEnd DEF MatchStep
<1>6. CASE b # m /\ pattern[j] = "%"
  <2>1. b < m
    BY <1>1, <1>2, <1>6
  <2>2. RestFits(t, pattern, a, b) <=>
          RestFits(t, pattern, a, j) \/ (a < n /\ RestFits(t, pattern, i, b))
    BY <1>1, <1>2, <1>6, <2>1, RestAtPercent
  <2>3. MatchStep(t, pattern, matches, i, j) <=>
          matches[<<i, j + 1>>] \/ (i <= n /\ t[i] # NewLine /\ matches[<<i + 1, j>>])
    BY <1>1, <1>4, <1>6, Zenon DEF MatchStep
  <2> QED
    BY <1>1, <1>2, <1>3, <1>4, <2>1, <2>2, <2>3
<1>7. CASE b # m /\ pattern[j] # "%"
  <2>1. b < m
    BY <1>1, <1>2, <1>7
  <2>2. RestFits(t, pattern, a, b) <=>
          a < n /\ SymbolFits(pattern[j], t[i]) /\ RestFits(t, pattern, i, j)
    BY <1>1, <1>2, <1>7, <2>1, RestAtSymbol
  <2>3. MatchStep(t, pattern, matches, i, j) <=>
          /\ i <= n /\ (IF pattern[j] = "_" THEN t[i] # NewLine ELSE t[i] = pattern[j])
          /\ matches[<<i + 1, j + 1>>]
    BY <1>1, <1>4, <1>7, Zenon DEF MatchStep
  <2> QED
    BY <1>1, <1>2, <1>3, <1>4, <2>1, <2>2, <2>3 DEF SymbolFits
<1> QED
  BY <1>5, <1>6, <1>7

(* The table LikeMatch chooses exists: the meaning is one, *)
LEMMA TableExists ==
  ASSUME NEW t \in Seq(Symbols), NEW pattern \in Seq(Symbols), OneLine(t)
  PROVE  \E matches : IsTable(t, pattern, matches)
<1>0. Len(t) \in Nat /\ Len(pattern) \in Nat
  OBVIOUS
<1>1. PICK n, m : n = Len(t) /\ n \in Nat /\ m = Len(pattern) /\ m \in Nat
  BY <1>0, Zenon
<1> DEFINE meaning == [place \in Places(t, pattern) |->
                         RestFits(t, pattern, place[1] - 1, place[2] - 1)]
<1>2. ASSUME NEW a \in 0..n, NEW b \in 0..m
      PROVE  meaning[<<a + 1, b + 1>>] <=> RestFits(t, pattern, a, b)
  <2>1. /\ <<a + 1, b + 1>> \in Places(t, pattern)
        /\ <<a + 1, b + 1>>[1] - 1 = a /\ <<a + 1, b + 1>>[2] - 1 = b
    BY <1>1 DEF Places
  <2> QED
    BY <2>1
<1> HIDE DEF meaning
<1>3. ASSUME NEW a \in 0..n, NEW b \in 0..m
      PROVE  MatchStep(t, pattern, meaning, a + 1, b + 1) <=> RestFits(t, pattern, a, b)
  <2>1. b < m => (meaning[<<a + 1, b + 2>>] <=> RestFits(t, pattern, a, b + 1))
    <3>1. b < m => b + 1 \in 0..m /\ (b + 1) + 1 = b + 2
      BY <1>1
    <3> QED
      BY <1>2, <3>1
  <2>2. a < n => (meaning[<<a + 2, b + 1>>] <=> RestFits(t, pattern, a + 1, b))
    <3>1. a < n => a + 1 \in 0..n /\ (a + 1) + 1 = a + 2
      BY <1>1
    <3> QED
      BY <1>2, <3>1
  <2>3. a < n /\ b < m => (meaning[<<a + 2, b + 2>>] <=> RestFits(t, pattern, a + 1, b + 1))
    <3>1. a < n /\ b < m => /\ a + 1 \in 0..n /\ (a + 1) + 1 = a + 2
                            /\ b + 1 \in 0..m /\ (b + 1) + 1 = b + 2
      BY <1>1
    <3> QED
      BY <1>2, <3>1
  <2> QED
    BY <1>1, <2>1, <2>2, <2>3, StepIsRest
<1>4. ASSUME NEW place \in Places(t, pattern)
      PROVE  RestFits(t, pattern, place[1] - 1, place[2] - 1) =
               MatchStep(t, pattern, meaning, place[1], place[2])
  <2>1. PICK a, b : /\ a \in 0..n /\ b \in 0..m /\ a = place[1] - 1 /\ b = place[2] - 1
                    /\ place[1] = a + 1 /\ place[2] = b + 1
    BY <1>1 DEF Places
  <2>2. MatchStep(t, pattern, meaning, a + 1, b + 1) <=> RestFits(t, pattern, a, b)
    BY <1>3, <2>1
  <2>3. RestFits(t, pattern, a, b) \in BOOLEAN
    BY Zenon DEF RestFits
  <2>4. MatchStep(t, pattern, meaning, a + 1, b + 1) \in BOOLEAN
    <3>1. a + 1 \in Int /\ Len(t) \in Nat
      BY <1>0, <1>1, <2>1
    <3> QED
      BY <3>1, StepIsBoolean, Zenon
  <2>5. RestFits(t, pattern, a, b) = MatchStep(t, pattern, meaning, a + 1, b + 1)
    BY <2>2, <2>3, <2>4, SameTruth
  <2> QED
    BY <2>1, <2>5
<1>5. IsTable(t, pattern, meaning)
  BY <1>4 DEF IsTable, meaning
<1> QED
  BY <1>5

(* and there is no other. *)
LEMMA TableIsMeaning ==
  ASSUME NEW t \in Seq(Symbols), NEW pattern \in Seq(Symbols), OneLine(t),
         NEW matches, IsTable(t, pattern, matches)
  PROVE  matches[<<1, 1>>] <=> RestFits(t, pattern, 0, 0)
<1>0. Len(t) \in Nat /\ Len(pattern) \in Nat
  OBVIOUS
<1>1. PICK n, m : n = Len(t) /\ n \in Nat /\ m = Len(pattern) /\ m \in Nat
  BY <1>0, Zenon
<1> DEFINE Right(a, b) == matches[<<a + 1, b + 1>>] <=> RestFits(t, pattern, a, b)
           S == {k \in 0..(n + m) : \A a \in 0..n, b \in 0..m : (n - a) + (m - b) <= k => Right(a, b)}
<1>2. ASSUME NEW a \in 0..n, NEW b \in 0..m
      PROVE  matches[<<a + 1, b + 1>>] = MatchStep(t, pattern, matches, a + 1, b + 1)
  <2>1. /\ <<a + 1, b + 1>> \in Places(t, pattern)
        /\ <<a + 1, b + 1>>[1] = a + 1 /\ <<a + 1, b + 1>>[2] = b + 1
    BY <1>1 DEF Places
  <2> QED
    BY <2>1 DEF IsTable
<1>3. ASSUME NEW a \in 0..n, NEW b \in 0..m,
             b < m => Right(a, b + 1), a < n => Right(a + 1, b),
             a < n /\ b < m => Right(a + 1, b + 1)
      PROVE  Right(a, b)
  <2>1. (a + 1) + 1 = a + 2 /\ (b + 1) + 1 = b + 2
    BY <1>1
  <2>2. MatchStep(t, pattern, matches, a + 1, b + 1) <=> RestFits(t, pattern, a, b)
    BY <1>1, <1>3, <2>1, StepIsRest
  <2> QED
    BY <1>2, <2>2
<1> HIDE DEF Right
<1>4. 0 \in S
  <2>1. ASSUME NEW a \in 0..n, NEW b \in 0..m, (n - a) + (m - b) <= 0 PROVE Right(a, b)
    <3>1. ~(a < n) /\ ~(b < m)
      BY <1>1, <2>1
    <3> QED
      BY <1>3, <3>1
  <2> QED
    BY <1>1, <2>1
<1>5. ASSUME NEW k \in 0..(n + m), k \in S, k < n + m PROVE k + 1 \in S
  <2>1. ASSUME NEW a \in 0..n, NEW b \in 0..m, (n - a) + (m - b) <= k + 1 PROVE Right(a, b)
    <3>1. b < m => b + 1 \in 0..m /\ (n - a) + (m - (b + 1)) <= k
      BY <1>1, <2>1
    <3>2. a < n => a + 1 \in 0..n /\ (n - (a + 1)) + (m - b) <= k
      BY <1>1, <2>1
    <3>3. a < n /\ b < m => (n - (a + 1)) + (m - (b + 1)) <= k
      BY <1>1, <2>1
    <3>4. \A c \in 0..n, d \in 0..m : (n - c) + (m - d) <= k => Right(c, d)
      BY <1>5
    <3> QED
      BY <1>3, <3>1, <3>2, <3>3, <3>4
  <2>2. k + 1 \in 0..(n + m)
    BY <1>1, <1>5
  <2> QED
    BY <2>1, <2>2
<1> HIDE DEF S
<1>6. 0..(n + m) \subseteq S
  <2>1. PICK l : l = n + m /\ l \in Nat
    BY <1>1
  <2>2. 0 \in S /\ \A k \in 0..l : k \in S /\ k < l => k + 1 \in S
    BY <1>4, <1>5, <2>1
  <2>3. 0..l \subseteq S
    BY <2>1, <2>2, InductionUpTo
  <2> QED
    BY <2>1, <2>3
<1>7. Right(0, 0)
  <2>1. n + m \in S /\ 0 \in 0..n /\ 0 \in 0..m /\ (n - 0) + (m - 0) <= n + m
    BY <1>1, <1>6
  <2> QED
    BY <2>1 DEF S
<1>8. 0 + 1 = 1
  OBVIOUS
<1> QED
  BY <1>7, <1>8 DEF Right

LEMMA LikeMatchFits ==
  ASSUME NEW t \in Seq(Symbols), NEW pattern \in Seq(Symbols), OneLine(t)
  PROVE  LikeMatch(t, pattern) <=> Fits(t, pattern)
<1>1. PICK matches : matches = (CHOOSE table : IsTable(t, pattern, table))
  OBVIOUS
<1>2. IsTable(t, pattern, matches)
  BY <1>1, TableExists, Zenon
<1>3. LikeMatch(t, pattern) = matches[<<1, 1>>]
  BY <1>1, LikeMatchIs, Zenon
<1> QED
  BY <1>2, <1>3, TableIsMeaning, FitsIsRest

(* LIKE finds exactly the strings the pattern describes: % any part, _ one character, every    *)
(* other symbol itself, with nothing of regular expressions in it; for texts of a single line. *)
THEOREM LikeAlwaysMeansPattern == ConditionSpec => []LikeMeansPattern
<1>1. AnswerInv => LikeMeansPattern
  <2> SUFFICES ASSUME AnswerInv, answer # "none", condition.cmp = "LIKE", OneLine(text)
               PROVE  answer = "yes" <=> Classify(text) = "STRING" /\ Fits(text, condition.text)
    BY DEF LikeMeansPattern
  <2>1. answer = YesIf(Classify(text) = "STRING" /\ LikeMatch(text, condition.text))
    BY DEF AnswerInv, Evaluate
  <2>2. text \in Seq(Symbols) /\ condition.text \in Seq(Symbols)
    BY ConditionAssumption DEF AnswerInv
  <2>3. LikeMatch(text, condition.text) <=> Fits(text, condition.text)
    BY <2>2, LikeMatchFits
  <2> QED
    BY <2>1, <2>3 DEF YesIf
<1> QED
  BY <1>1, AnswerInvariant, PTL
=============================================================================
