----------------------------- MODULE Conditions -----------------------------
(***************************************************************************)
(* A WHERE clause on one record: normalizeWhereClause looks the column up, *)
(* validateWhereClauseSemantics admits the comparator for the literal, and *)
(* evaluateComparator compares the stored text with it, by the type it     *)
(* finds in each of the two texts.                                         *)
(*                                                                         *)
(* A text is a sequence of symbols: single characters, or one of the words *)
(* and numerals alone. TableStore has what an answer leads to: a hit, a    *)
(* miss, or an exception in the middle of a scan.                          *)
(***************************************************************************)
EXTENDS Integers, Sequences

CONSTANTS
  Numerals,   \* symbols that strtod takes as a whole
  Unheld,     \* those of them that std::stod throws std::out_of_range for
  NaNs,       \* those that are no number, and compare with nothing
  ValueOf,    \* the value of each of the others
  Characters, \* the other symbols
  Stored,     \* the texts a record may have in the column
  Where       \* the conditions

NewLine == "newline"

Words == {"NULL", "TRUE", "FALSE"}

Symbols == Words \cup Numerals \cup Characters

MathComparators == {"LT", "LE", "GT", "GE"}
Comparators == MathComparators \cup {"IS", "IS_NOT", "LIKE", "NOT_LIKE", "EQ", "NE"}

LiteralTypes == {"NUMBER", "STRING", "NULLVAL", "TRUEVAL", "FALSEVAL", "EMPTY"}

ASSUME ConditionAssumption ==
  /\ Unheld \subseteq Numerals /\ NaNs \subseteq Numerals /\ Numerals \cap Words = {}
  /\ ValueOf \in [Numerals \ (Unheld \cup NaNs) -> Int]
  /\ Stored \subseteq Seq(Symbols)
  /\ \A c \in Where : /\ c.cmp \in Comparators /\ c.type \in LiteralTypes
                      /\ c.text \in Seq(Symbols) /\ c.known \in BOOLEAN
                      /\ c.type = "NUMBER" => c.text \in {<<n>> : n \in Numerals}

VARIABLES
  text,       \* what the record has in the column
  condition,  \* comparator, type and text of the literal, and whether the column is known
  verdict,    \* of the validator
  answer      \* of the evaluator

conditionVars == <<text, condition, verdict, answer>>

ConditionInit ==
  /\ text \in Stored
  /\ condition \in Where
  /\ verdict = "none"
  /\ answer = "none"
-----------------------------------------------------------------------------
(* Mutant: EMPTY is not looked at by itself, so a comparator that asks for nothing takes it. *)
AdmitsEmpty(c) ==
  /\ c.known
  /\ CASE c.cmp \in {"IS", "IS_NOT"} -> c.type \notin {"NUMBER", "STRING"}
       [] c.cmp \in {"LIKE", "NOT_LIKE"} -> c.type = "STRING"
       [] c.cmp \in {"EQ", "NE"} -> c.type \in {"NUMBER", "STRING"}
       [] OTHER -> c.type = "NUMBER"

(* The normalizer finds the column, and the comparator takes a literal of the type. *)
Admitted(c) ==
  /\ c.known
  /\ c.type # "EMPTY"
  /\ CASE c.cmp \in {"IS", "IS_NOT"} -> c.type \notin {"NUMBER", "STRING"}
       [] c.cmp \in {"LIKE", "NOT_LIKE"} -> c.type = "STRING"
       [] c.cmp \in {"EQ", "NE"} -> c.type \in {"NUMBER", "STRING"}
       [] OTHER -> c.type = "NUMBER"

Classify(t) ==
  CASE t \in {<<>>, <<"NULL">>} -> "NULLTYPE"
    [] t \in {<<"TRUE">>, <<"FALSE">>} -> "BOOLEAN"
    [] Len(t) = 1 /\ t[1] \in Numerals -> "NUMBER"
    [] OTHER -> "STRING"

(* Mutant: the characters that std::regex knows are not escaped. *)
UnescapedMatch(t, pattern) ==
  LET n == Len(t)
      m == Len(pattern)
      matches[place \in (1..(n + 1)) \X (1..(m + 1))] ==
        LET i == place[1]
            j == place[2]
        IN  IF j > m THEN i > n
            ELSE IF pattern[j] = "%"
                 THEN matches[<<i, j + 1>>] \/ (i <= n /\ t[i] # NewLine /\ matches[<<i + 1, j>>])
                 ELSE /\ i <= n
                      /\ IF pattern[j] \in {"_", "."} THEN t[i] # NewLine ELSE t[i] = pattern[j]
                      /\ matches[<<i + 1, j + 1>>]
  IN  matches[<<1, 1>>]

(* likeMatch: % is .* and _ is . of an ECMAScript expression that must match all of the text; *)
(* neither of them matches the end of a line.                                                 *)
LikeMatch(t, pattern) ==
  LET n == Len(t)
      m == Len(pattern)
      matches[place \in (1..(n + 1)) \X (1..(m + 1))] ==
        LET i == place[1]
            j == place[2]
        IN  IF j > m THEN i > n
            ELSE IF pattern[j] = "%"
                 THEN matches[<<i, j + 1>>] \/ (i <= n /\ t[i] # NewLine /\ matches[<<i + 1, j>>])
                 ELSE /\ i <= n
                      /\ IF pattern[j] = "_" THEN t[i] # NewLine ELSE t[i] = pattern[j]
                      /\ matches[<<i + 1, j + 1>>]
  IN  matches[<<1, 1>>]

YesIf(holds) == IF holds THEN "yes" ELSE "no"

(* Comparisons with a NaN are false. *)
Ordered(cmp, l, r) ==
  /\ NaNs \cap {l, r} = {}
  /\ CASE cmp = "LT" -> ValueOf[l] < ValueOf[r]
       [] cmp = "LE" -> ValueOf[l] <= ValueOf[r]
       [] cmp = "GT" -> ValueOf[l] > ValueOf[r]
       [] OTHER -> ValueOf[l] >= ValueOf[r]

(* Mutant: only the literal must be a number before std::stod is called. *)
CompareAny(cmp, lhs, rhs) ==
  IF Classify(rhs) # "NUMBER" THEN "no"
  ELSE IF Classify(lhs) # "NUMBER" \/ Unheld \cap {lhs[1], rhs[1]} # {} THEN "throws"
  ELSE YesIf(Ordered(cmp, lhs[1], rhs[1]))

(* std::stod on both sides once both are numbers. *)
CompareNumbers(cmp, lhs, rhs) ==
  IF {Classify(lhs), Classify(rhs)} # {"NUMBER"} THEN "no"
  ELSE IF Unheld \cap {lhs[1], rhs[1]} # {} THEN "throws"
  ELSE YesIf(Ordered(cmp, lhs[1], rhs[1]))

(* Mutant: numbers are equal when their values are. *)
EqualByValue(lhs, rhs) ==
  IF {Classify(lhs), Classify(rhs)} = {"NUMBER"} /\ {lhs[1], rhs[1]} \subseteq DOMAIN ValueOf
  THEN ValueOf[lhs[1]] = ValueOf[rhs[1]]
  ELSE lhs = rhs

EqualTexts(lhs, rhs) == Classify(lhs) = Classify(rhs) /\ lhs = rhs

BothBoolean(lhs, rhs) == {Classify(lhs), Classify(rhs)} = {"BOOLEAN"}

(* Mutant: IS NOT of a null is asked of the literal. *)
NotNullLiteral(lhs, rhs) ==
  IF BothBoolean(lhs, rhs) THEN lhs # rhs ELSE Classify(rhs) # "NULLTYPE"

IsNot(lhs, rhs) ==
  IF BothBoolean(lhs, rhs) THEN lhs # rhs ELSE Classify(lhs) # "NULLTYPE"

Is(lhs, rhs) ==
  IF BothBoolean(lhs, rhs) THEN lhs = rhs ELSE Classify(lhs) = "NULLTYPE"

(* evaluateComparator *)
Evaluate(lhs, cmp, rhs) ==
  CASE cmp = "IS" -> YesIf(Is(lhs, rhs))
    [] cmp = "IS_NOT" -> YesIf(IsNot(lhs, rhs))
    [] cmp = "LIKE" -> YesIf(Classify(lhs) = "STRING" /\ LikeMatch(lhs, rhs))
    [] cmp = "NOT_LIKE" -> YesIf(Classify(lhs) = "STRING" /\ ~LikeMatch(lhs, rhs))
    [] cmp = "EQ" -> YesIf(EqualTexts(lhs, rhs))
    [] cmp = "NE" -> YesIf(~EqualTexts(lhs, rhs))
    [] OTHER -> CompareNumbers(cmp, lhs, rhs)
-----------------------------------------------------------------------------
Validate ==
  /\ verdict = "none"
  /\ verdict' = IF Admitted(condition) THEN "admitted" ELSE "rejected"
  /\ UNCHANGED <<text, condition, answer>>

EvaluateRecord ==
  /\ verdict = "admitted"
  /\ answer = "none"
  /\ answer' = Evaluate(text, condition.cmp, condition.text)
  /\ UNCHANGED <<text, condition, verdict>>

ConditionNext == Validate \/ EvaluateRecord

ConditionSpec == ConditionInit /\ [][ConditionNext]_conditionVars
-----------------------------------------------------------------------------
(* The types the README lists, with the comparators of each; != is not in the list. *)
Documented(c) ==
  \/ c.type = "STRING" /\ c.cmp \in {"LIKE", "NOT_LIKE", "EQ"}
  \/ c.type \in {"TRUEVAL", "FALSEVAL", "NULLVAL"} /\ c.cmp \in {"IS", "IS_NOT"}
  \/ c.type = "NUMBER" /\ c.cmp \in MathComparators \cup {"EQ"}
  \/ c.type \in {"STRING", "NUMBER"} /\ c.cmp = "NE"

(* The validator admits what the README lists and nothing else, so that every literal that gets *)
(* to the evaluator is one its comparator is made for.                                          *)
AdmitsTheDocumented ==
  verdict # "none" => (verdict = "admitted" <=> condition.known /\ Documented(condition))

(* The text can be cut into one part for each symbol of the pattern: any part for %, a single *)
(* character for _, and the symbol itself otherwise.                                          *)
Fits(t, pattern) ==
  LET m == Len(pattern)
  IN  \E cut \in [0..m -> 0..Len(t)] :
        /\ cut[0] = 0 /\ cut[m] = Len(t)
        /\ \A j \in 1..m :
             LET part == SubSeq(t, cut[j - 1] + 1, cut[j])
             IN  /\ cut[j - 1] <= cut[j]
                 /\ pattern[j] = "_" => Len(part) = 1
                 /\ pattern[j] \notin {"%", "_"} => part = <<pattern[j]>>

OneLine(t) == \A i \in DOMAIN t : t[i] # NewLine

(* LIKE finds the strings that the pattern describes, and no character of it has the meaning it *)
(* has in a regular expression. Texts of several lines are another matter.                      *)
LikeMeansPattern ==
  answer # "none" /\ condition.cmp = "LIKE" /\ OneLine(text) =>
    (answer = "yes" <=> Classify(text) = "STRING" /\ Fits(text, condition.text))

(* A comparison for equality answers yes exactly for the text of the literal: so it does not  *)
(* matter to the answer whether the strategy decider sends WHERE key = literal to the index,  *)
(* which is a map of texts, or to the scan.                                                   *)
EqualityIsOfTexts ==
  answer # "none" /\ condition.cmp = "EQ" => (answer = "yes" <=> text = condition.text)

Negation == [IS |-> "IS_NOT", LIKE |-> "NOT_LIKE", EQ |-> "NE", LT |-> "GE", GT |-> "LE"]

(* A comparator and its negation share no record, and only these fall between the two: texts  *)
(* that are no strings for LIKE, and what is no number or no comparable one for the order.    *)
NegationsPartition ==
  answer \in {"yes", "no"} /\ condition.cmp \in DOMAIN Negation =>
    LET negated == Evaluate(text, Negation[condition.cmp], condition.text)
    IN  /\ ~(answer = "yes" /\ negated = "yes")
        /\ answer = "no" /\ negated = "no" =>
             \/ condition.cmp = "LIKE" /\ Classify(text) # "STRING"
             \/ /\ condition.cmp \in MathComparators
                /\ \/ Classify(text) # "NUMBER"
                   \/ NaNs \cap {text[1], condition.text[1]} # {}

(* An exception, which cuts a statement in the middle of its scan, comes only from comparing the *)
(* order of two numbers one of which no double can hold.                                         *)
ThrowsOnlyOutOfRange ==
  answer = "throws" =>
    /\ condition.cmp \in MathComparators
    /\ \E t \in {text, condition.text} : Len(t) = 1 /\ t[1] \in Unheld

(* "IS / IS NOT --> used for NULL and TRUE / FALSE checks" (README.md:36): IS TRUE finds TRUE. *)
IsTestsItsLiteral ==
  answer = "yes" /\ condition.cmp = "IS" => Classify(text) = Classify(condition.text)

(* "% (to match any number of characters)" (README.md:37), the end of a line included. *)
LikeMatchesAnyCharacter ==
  answer # "none" /\ condition.cmp = "LIKE" =>
    (answer = "yes" <=> Classify(text) = "STRING" /\ Fits(text, condition.text))
=============================================================================
