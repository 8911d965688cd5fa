---------------------------- MODULE MCConditions ----------------------------
(* Small instances of the conditions for TLC. *)
EXTENDS Conditions, TLC

(* Two spellings of one value, and one that is greater. *)
MCValueOf == ("1" :> 1) @@ ("1.0" :> 1) @@ ("2" :> 2)

Strings(alphabet, n) == UNION {[1..k -> alphabet] : k \in 0..n}

Alone == {<<s>> : s \in Words \cup Numerals}

MCStored == Alone \cup Strings({"a", ".", "%", NewLine}, 3)

Literal(type, texts) == [type: {type}, text: texts]

MCLiterals ==
  Literal("NUMBER", {<<n>> : n \in Numerals \ {"nan"}})
    \cup Literal("STRING", Alone \cup {<<>>, <<"a">>, <<"a", ".">>})
    \cup Literal("NULLVAL", {<<"NULL">>}) \cup Literal("TRUEVAL", {<<"TRUE">>})
    \cup Literal("FALSEVAL", {<<"FALSE">>}) \cup Literal("EMPTY", {<<>>})

On(known, cmps, literals) ==
  {[known |-> known, cmp |-> c, type |-> l.type, text |-> l.text] : c \in cmps, l \in literals}

MCWhere ==
  On(TRUE, Comparators, MCLiterals)
    \cup On(FALSE, {"EQ"}, Literal("NUMBER", {<<"1">>}))
    \cup On(TRUE, {"LIKE", "NOT_LIKE"}, Literal("STRING", Strings({"a", ".", "%", "_"}, 3)))
=============================================================================
