------------------------------ MODULE CliDriver -----------------------------
(***************************************************************************)
(* The loop of runCLI: lines are read, trimmed and gathered in a buffer    *)
(* until it ends in a semicolon outside quotation marks; then the buffer   *)
(* is parsed as a program and its statements run one after the other. An   *)
(* exception ends the program, handleFatalError the process; INIT and QUIT *)
(* count wherever they stand on a line of their own.                       *)
(*                                                                         *)
(* A line is a sequence of tokens: words that stand for a statement and    *)
(* for what becomes of it, semicolons, quotation marks and escaped ones.   *)
(***************************************************************************)
EXTENDS Naturals, Sequences, FiniteSets, SequencesExt

CONSTANTS
  Lines,    \* the lines that may be entered, but for QUIT and INIT
  MaxSize,  \* MAX_SQL_BUFFER_SIZE
  MaxTyped  \* bound on the tokens of a session

VARIABLES
  running,      \* whether the process runs
  initialized,  \* whether INIT has been entered
  buffer,       \* sqlBuffer
  program,      \* the statements that are still to be visited
  executed,     \* the statements that have been visited
  typed         \* the tokens entered, without those that came to an end before INIT

cliVars == <<running, initialized, buffer, program, executed, typed>>

Quote == "'"
Escaped == "\\'"
NewLine == "\n"

(* Words for a statement that runs, that throws, that calls handleFatalError, and that no rule *)
(* of the grammar has.                                                                          *)
Words == {"runs", "throws", "exits", "bad"}

Tokens == Words \cup {";", Quote, Escaped, NewLine}

ASSUME CliAssumption ==
  /\ Lines \subseteq Seq(Tokens \ {NewLine})
  /\ MaxSize \in Nat /\ MaxTyped \in Nat

CliInit ==
  /\ running = TRUE
  /\ initialized = FALSE
  /\ buffer = <<>>
  /\ program = <<>>
  /\ executed = <<>>
  /\ typed = <<>>

Waiting == running /\ program = <<>>
-----------------------------------------------------------------------------
(* The grammar *)

(* The token at i is inside a string: STRING skips an escaped mark. *)
InString(tokens, i) == Cardinality({j \in 1..(i - 1) : tokens[j] = Quote}) % 2 = 1

Ends(tokens) == {i \in DOMAIN tokens : tokens[i] = ";" /\ ~InString(tokens, i)}

(* The places of the k-th statement: those behind the semicolon before it. Line ends are left out. *)
StatementPlaces(tokens, k) ==
  {i \in DOMAIN tokens \ Ends(tokens) :
     tokens[i] # NewLine /\ Cardinality({j \in Ends(tokens) : j <= i}) = k - 1}

TokensAt(tokens, places) ==
  [r \in 1..Cardinality(places) |->
     tokens[CHOOSE i \in places : Cardinality({j \in places : j <= i}) = r]]

(* The statements that a semicolon ends, in their order. *)
StatementsOf(tokens) ==
  [k \in 1..Cardinality(Ends(tokens)) |-> TokensAt(tokens, StatementPlaces(tokens, k))]

(* A statement begins with the word that stands for it; a backslash outside a string is no token. *)
IsStatement(s) ==
  /\ s # <<>> /\ Head(s) \in Words \ {"bad"}
  /\ \A i \in DOMAIN s : s[i] = Escaped => InString(s, i)

(* program: yyparse accepts all of the buffer or nothing. *)
Parsed(tokens) ==
  LET statements == StatementsOf(tokens)
  IN  IF \A k \in DOMAIN statements : IsStatement(statements[k]) THEN statements ELSE <<>>
-----------------------------------------------------------------------------
LastIsSemicolon(tokens) ==
  LET text == {i \in DOMAIN tokens : tokens[i] # NewLine}
  IN  text # {} /\ tokens[Max(text)] = ";"

(* Mutant: quotation marks are not looked at. *)
EndsWithSemicolon(tokens) == LastIsSemicolon(tokens)

EndsWithSemicolonOutsideQuotes(tokens) ==
  ~InString(tokens, Len(tokens) + 1) /\ LastIsSemicolon(tokens)

(* Mutant: only the line is measured. *)
LineTooLarge(line) == Len(line) > MaxSize

(* The buffer is measured before the line is appended. *)
TooLarge(line) == Len(buffer) > MaxSize \/ Len(line) > MaxSize

Gathered(line) == buffer \o line \o <<NewLine>>

(* performTotalCleanup, after QUIT, the end of the input or a line that is too large: what is in *)
(* the buffer is not executed.                                                                   *)
Leave ==
  /\ running' = FALSE
  /\ initialized' = FALSE
  /\ buffer' = <<>>
  /\ UNCHANGED <<program, executed, typed>>

EnterQuit == Waiting /\ Leave

EnterInit ==
  /\ Waiting
  /\ ~initialized
  /\ initialized' = TRUE
  /\ UNCHANGED <<running, buffer, program, executed, typed>>

EnterTooLarge(line) == Waiting /\ TooLarge(line) /\ Leave

(* A line after which the buffer is no program yet. *)
EnterPart(line) ==
  /\ Waiting
  /\ ~TooLarge(line)
  /\ ~EndsWithSemicolonOutsideQuotes(Gathered(line))
  /\ buffer' = Gathered(line)
  /\ typed' = typed \o line
  /\ UNCHANGED <<running, initialized, program, executed>>

(* "Error: INIT must be called first." *)
EnterTooEarly(line) ==
  /\ Waiting
  /\ ~TooLarge(line)
  /\ EndsWithSemicolonOutsideQuotes(Gathered(line))
  /\ ~initialized
  /\ buffer' = <<>>
  /\ typed' = <<>>
  /\ UNCHANGED <<running, initialized, program, executed>>

(* parseAndExecute; the buffer is cleared after it, which nobody sees. *)
EnterProgram(line) ==
  /\ Waiting
  /\ ~TooLarge(line)
  /\ EndsWithSemicolonOutsideQuotes(Gathered(line))
  /\ initialized
  /\ program' = Parsed(Gathered(line))
  /\ buffer' = <<>>
  /\ typed' = typed \o line
  /\ UNCHANGED <<running, initialized, executed>>

(* Mutant: the exception is caught around the one statement. *)
VisitAll ==
  /\ running
  /\ program # <<>>
  /\ executed' = Append(executed, Head(program))
  /\ program' = Tail(program)
  /\ UNCHANGED <<running, initialized, buffer, typed>>

(* visit(ProgramNode&), one statement: an exception is caught around the whole program. *)
VisitStatement ==
  /\ running
  /\ program # <<>>
  /\ executed' = Append(executed, Head(program))
  /\ program' = IF Head(Head(program)) = "runs" THEN Tail(program) ELSE <<>>
  /\ running' = (Head(Head(program)) # "exits")
  /\ UNCHANGED <<initialized, buffer, typed>>

EnterLine(line) ==
  /\ Len(typed) + Len(line) <= MaxTyped
  /\ \/ EnterTooLarge(line) \/ EnterPart(line)
     \/ EnterTooEarly(line) \/ EnterProgram(line)

CliNext ==
  \/ EnterQuit
  \/ EnterInit
  \/ \E line \in Lines : EnterLine(line)
  \/ VisitStatement

CliSpec == CliInit /\ [][CliNext]_cliVars
-----------------------------------------------------------------------------
(* The buffer is measured before a line is appended to it, so it may grow to twice its limit and *)
(* the line's end, and no further.                                                               *)
BufferBounded == Len(buffer) <= 2 * MaxSize + 1

(* The order in which statements were visited is the order in which they were typed. *)
InOrder(part, all) ==
  \E places \in SUBSET DOMAIN all :
    /\ Cardinality(places) = Len(part)
    /\ \A i \in places : all[i] = part[Cardinality({j \in places : j <= i})]

(* However the text is cut into lines, the statements visited are those that the whole text has *)
(* for the grammar: none is cut at a semicolon inside a string, none is visited twice, late or  *)
(* before INIT; and none is left out, once nothing is waiting for its semicolon, unless one of  *)
(* the session's statements fails.                                                              *)
VisitsWhatIsTyped ==
  LET statements == StatementsOf(typed)
      Runs(s) == IsStatement(s) /\ Head(s) = "runs"
  IN  /\ InOrder(executed, statements)
      /\ Waiting /\ buffer = <<>> /\ (\A k \in DOMAIN statements : Runs(statements[k])) =>
           executed = IF initialized THEN statements ELSE <<>>

(* A statement that fails takes no more than its own program with it: the program ends or the  *)
(* process, and the statements behind it in that program are not visited later.                *)
FailureEndsProgram ==
  [][Len(executed') > Len(executed) /\ Head(Last(executed')) # "runs" => program' = <<>>]_cliVars
=============================================================================
