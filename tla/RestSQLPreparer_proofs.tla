----------------------- MODULE RestSQLPreparer_proofs -----------------------
(* Proofs about the preparer, for every set of lexemes and lexical errors,   *)
(* every width of `long int' and every bound on texts, names and the stack:  *)
(* the parser's stack fits the calls of the API, errors are located, columns *)
(* have one index and aliases none, print() finds every aggregate that it    *)
(* asks for, and what is parsed has the structure MySQL gives to its text.   *)
EXTENDS RestSQLPreparer, AggExprs_proofs

-----------------------------------------------------------------------------
(* The inductive invariant                                                   *)

Places ==
  {"start", "output", "open", "operand", "star", "operator", "alias", "aliasname", "list",
   "table", "tail", "where", "filtered", "group", "groupcol", "grouped", "order", "ordercol",
   "ordered", "directed", "end"}

\* The places where the argument of an aggregate is read, and those behind an output.
Within == {"open", "operand", "star", "operator"}
Behind == {"alias", "aliasname"}

Statuses == {"INITIALIZED", "PARSING", "PARSED", "LOADING", "LOADED", "COMPILED",
             "PRINTING", "PRINTED", "FAILED"}
Early == {"INITIALIZED", "PARSING", "PARSED", "LOADING", "LOADED"}

Locations == [begin : Int, end : Int]

\* The lookahead, and where it is.  An error of the lexer can be located.
LookOK ==
  /\ pos \in Nat
  /\ yylloc \in Locations /\ yytext \in Locations
  /\ yylloc.end <= pos
  /\ \/ look = None
     \/ /\ look \in Lexemes
        /\ yylloc.end = pos /\ yytext.end = pos /\ yylloc.begin \in Nat /\ yylloc.begin < pos
     \/ look.token = "END" /\ yytext = Location(pos, pos + 1)
     \/ look.token = "ERR" /\ Locatable

\* The error: none while the parser runs unless the lexer has found one.
ErrOK ==
  /\ parse_result \in {-1, 0, 1, 2}
  /\ err.state # "NONE" =>
       err.pos \in Nat /\ err.len \in Int /\ err.pos <= pos /\ err.pos + err.len <= pos + 1
  /\ parse_result = -1 => (err.state # "NONE" <=> look.token = "ERR")
  /\ parse_result = 0 => err.state = "NONE"
  /\ parse_result = 1 => err.state # "NONE" \/ failed # "none"
  /\ err.state = "PARSER_ERROR" =>
       /\ parse_result # -1
       /\ IF look.token = "END" THEN err.pos = pos /\ err.len = 1
                                ELSE err.len > 0 /\ err.pos + err.len = pos
  /\ failed \notin {"rsqlp_error", "parse", "new_agg"}

\* How many of the symbols are operators between two operands.
Binary(symbols) == Cardinality({i \in DOMAIN symbols : symbols[i] \in ArithOps})

\* The operators and operands of the expression on the stack.  A call that the
\* process does not survive leaves the handle the one before it returned.
StackOK ==
  /\ at \in Places
  /\ ops \in Seq(Ops \cup {"neg", "("})
  /\ \A i \in DOMAIN ops : ops[i] = "neg" => "Minus" \in Ops
  /\ args \in Seq(Handles)
  /\ m_exprs # <<>> => ret \in Handles
  /\ at \notin {"operand", "operator"} => ops = <<>> /\ args = <<>>
  /\ at = "operand" /\ out.text = <<>> => ops = <<>> /\ args = <<>>
  /\ at = "operand" => Len(args) = Binary(ops)
  /\ at = "operator" => Len(args) = Binary(ops) + 1

\* The functions of SQL that the API's aggregates make up.
Function(fun) == (IF fun = "Avg" THEN {"Sum", "Count"} ELSE {fun}) \subseteq AggTypes

\* The text of an expression, as the parser records it.
Words == Lexemes \cup {Tok("neg", "none"), Tok("(", "none"), Tok("INT", 1)}

FunctionNames == {lexeme.val : lexeme \in {l \in Lexemes : l.token = "FUNCTION"}}
Outputs == [is_agg : BOOLEAN, fun : FunctionNames \cup {"none"}, arg : Nat,
            col_name : ColumnNames \cup {"none"}, output_name : ColumnNames \cup {"none"},
            loc : Locations, text : Seq(Words)]

\* An output is a column without argument, or an aggregate with one.
OutputFits(output, handles) ==
  IF output.is_agg THEN Function(output.fun) /\ output.arg \in handles
                   ELSE output.col_name \in ColumnNames /\ output.arg = NULL

OutputOK(output) == OutputFits(output, Handles)

\* What has been parsed of the outputs and lists of columns.
TreeOK ==
  /\ outputs \in Seq(Outputs) /\ \A i \in DOMAIN outputs : OutputOK(outputs[i])
  /\ groupby \in Seq(ColumnNames) /\ orderby \in Seq(ColumnNames)
  /\ out \in Outputs
  /\ at \in Within => out.is_agg /\ Function(out.fun)
  /\ at \in Behind => OutputOK(out) /\ out.loc.end <= pos
  /\ at \in Within \cup Behind => out.loc.begin \in Nat /\ out.loc.begin <= pos

Injective(names) == \A i, j \in DOMAIN names : names[i] = names[j] => i = j

\* The columns that expressions load are among those of S.
LoadsIn(exprs, S) == \A k \in 1 .. Len(exprs) : exprs[k].op = "Load" => exprs[k].idx \in S

\* The columns have an index each, and expressions load no other.
ColumnsOK ==
  /\ m_identifiers \in Seq(ColumnNames) /\ Injective(m_identifiers)
  /\ LoadsIn(m_exprs, DOMAIN m_identifiers)

\* A call that load() or print() still has to make.
Calls == [agg : AggTypes \cup {"none"}, arg : Nat, column : ColumnNames \cup {"none"}]
CallFits(call, handles) ==
  IF call.agg = "none" THEN call.column \in ColumnNames ELSE call.arg \in handles
CallOK(call) == CallFits(call, Handles)

\* An aggregate that is in the API's table.
LoadedIn(aggs, call) ==
  \E i \in DOMAIN aggs : aggs[i].agg_type = call.agg /\ aggs[i].expr = call.arg
Loaded(call) == LoadedIn(m_aggs, call)

\* A call that is one of those in a sequence.
Among(call, calls) == \E n \in DOMAIN calls : calls[n] = call

\* The aggregates of the outputs are in the API's table, but for those that
\* load() is still to ask for.
CallsOK ==
  /\ status \in Statuses
  /\ status \in Early => m_status = "PROGRAMMING"
  /\ todo \in Seq(Calls) /\ \A i \in DOMAIN todo : CallOK(todo[i])
  /\ status \notin {"LOADING", "PRINTING"} => todo = <<>>
  /\ status = "LOADING" => \A i \in DOMAIN todo : todo[i].agg # "none"
  /\ status \in {"LOADING", "LOADED", "COMPILED"} =>
       \A i \in DOMAIN outputs : \A k \in DOMAIN Loads(outputs[i]) :
         Loaded(Loads(outputs[i])[k]) \/ Among(Loads(outputs[i])[k], todo)
  /\ status = "PRINTING" => \A i \in DOMAIN todo : todo[i].agg # "none" => Loaded(todo[i])

Inv == TypeOK /\ LookOK /\ ErrOK /\ StackOK /\ TreeOK /\ ColumnsOK /\ CallsOK

-----------------------------------------------------------------------------
(* What a step does to the lexer and to the error                            *)

LexFrame == UNCHANGED <<pos, yytext, yylloc, err, failed, parse_result>>

\* The kinds of steps, as far as places and errors go.
Shifts == LexFrame /\ Parsing /\ look.token \notin {"NONE", "ERR"} /\ look' = None
Stays == LexFrame /\ look' = look

LexerStep ==
  \/ Stays \/ Shifts
  \/ \E lexeme \in Lexemes : ReadToken(lexeme)
  \/ \E error \in LexErrors : ReadError(error)
  \/ ReadEnd \/ ReduceOutput \/ Accept \/ SyntaxError \/ Exhausted
  \/ ParseReturns \/ PrintAggregate

\* The tokens that an action shifts are neither an error nor the end.
LEMMA ShiftsToken ==
  ASSUME NEW place, NEW tokens, NEW next, Sees(place, tokens), Shift(next),
         "NONE" \notin tokens, "ERR" \notin tokens
  PROVE  Shifts
  BY DEF Sees, Shift, Shifts, LexFrame, lexVars

\* The tokens shifted without an action, and the places behind them.
LEMMA MovesShiftTokens ==
  \A m \in Moves :
    /\ m[2] \in Tokens
    /\ m[1] \in Places \ {"operand", "operator", "star"}
    /\ m[3] \in Places \ {"operator", "star", "alias", "open"}
    /\ m[3] = "operand" <=> m[1] = "open"
    /\ m[3] = "aliasname" => m[1] = "alias"
<1>1. \A m \in Moves : m[2] \in Tokens
  BY SMTT(30) DEF Moves, Tokens
<1>2. \A m \in Moves :
        /\ m[1] \in Places \ {"operand", "operator", "star"}
        /\ m[3] \in Places \ {"operator", "star", "alias", "open"}
  BY SMTT(30) DEF Moves, Places
<1>3. \A m \in Moves : (m[3] = "operand" <=> m[1] = "open") /\ (m[3] = "aliasname" => m[1] = "alias")
  BY SMTT(30) DEF Moves
<1> QED
  BY <1>1, <1>2, <1>3

\* Such a token neither begins an output nor ends one.
LEMMA MovesKeepText ==
  \A m \in Moves :
    /\ m[3] \in {"open", "operand", "star", "operator", "alias", "aliasname"}
         <=> m[1] \in {"open", "operand", "star", "operator", "alias", "aliasname"}
    /\ m[3] \in {"alias", "aliasname"} => m[1] \in {"alias", "aliasname"}
    /\ m[3] # "star"
  BY SMTT(30) DEF Moves

\* Every step is of one of these kinds.
LEMMA StepIsLexerStep == [PreparerNext]_vars => LexerStep
<1> SUFFICES ASSUME [PreparerNext]_vars PROVE LexerStep
  OBVIOUS
<1> USE DEF LexerStep
<1>1. CASE UNCHANGED vars
  BY <1>1 DEF vars, parserVars, Stays, LexFrame
<1>2. CASE BeginParse \/ BeginLoad \/ LoadAggregate \/ LoadReturns \/ Compile \/ BeginPrint
           \/ PrintColumn \/ PrintReturns
  BY <1>2 DEF BeginParse, BeginLoad, LoadAggregate, LoadReturns, Compile, BeginPrint,
              PrintColumn, PrintReturns, parserVars, Stays, LexFrame, lexVars
<1>3. CASE Move
  <2>1. PICK m \in Moves : Sees(m[1], {m[2]}) /\ Shift(m[3])
    BY <1>3 DEF Move
  <2>2. m[2] \notin {"NONE", "ERR"}
    BY MovesShiftTokens DEF Tokens, ArithOps
  <2> QED BY <2>1, <2>2, ShiftsToken
<1>4. CASE OutputColumn \/ OutputAggregate \/ Star \/ CountStar
  BY <1>4, ShiftsToken DEF OutputColumn, OutputAggregate, Star, CountStar
<1>5. CASE OperandColumn \/ OperandInteger
  BY <1>5, ShiftsToken DEF OperandColumn, OperandInteger, Operand
<1>6. CASE Prefix \/ Operator \/ Close
  BY <1>6, ShiftsToken DEF Prefix, Operator, Close, ArithOps
<1>7. CASE ReduceBinary \/ ReduceNegation
  BY <1>7 DEF ReduceBinary, ReduceNegation, Stays, LexFrame, lexVars
<1>8. CASE Alias \/ GroupColumn \/ OrderColumn
  BY <1>8, ShiftsToken DEF Alias, GroupColumn, OrderColumn
<1>9. CASE ParserStep
  BY <1>3, <1>4, <1>5, <1>6, <1>7, <1>8, <1>9 DEF ParserStep, ParserNext, ReadNext
<1> QED
  BY <1>1, <1>2, <1>9 DEF PreparerNext

\* What distinguishes the lookaheads.
LEMMA Lookaheads ==
  /\ None.token = "NONE" /\ \A val : Tok("END", val).token = "END" /\ Tok("ERR", val).token = "ERR"
  /\ \A lexeme \in Lexemes :
       lexeme.token \notin {"NONE", "END", "ERR"} /\ lexeme.width \in Nat \ {0}
  BY LexemesAssumption DEF None, Tok, Tokens, ArithOps

\* set_err_state with the first error; while there is none it cannot fail.
LEMMA FirstError ==
  ASSUME NEW state, NEW loc, set_err_state(state, loc), err.state = "NONE"
  PROVE  /\ err' = [state |-> state, pos |-> loc.begin, len |-> loc.end - loc.begin]
         /\ failed' = failed
  BY DEF set_err_state

\* A later error is dropped, and may only fail the assert of set_err_state itself.
LEMMA LaterError ==
  ASSUME NEW state, NEW loc, set_err_state(state, loc), err.state # "NONE"
  PROVE  err' = err /\ failed' \in {"none", "set_err_state"}
  BY DEF set_err_state

\* The lookahead's place stays what the grammar's actions and rsqlp_error expect.
LEMMA LookKept == LookOK /\ LexerStep => LookOK'
<1> SUFFICES ASSUME LookOK, LexerStep PROVE LookOK'
  OBVIOUS
<1> USE DEF LookOK, Locations
<1>1. CASE Stays
  BY <1>1, Lookaheads DEF Stays, LexFrame, Locatable
<1>2. CASE Shifts
  BY <1>2, Lookaheads DEF Shifts, LexFrame
<1>3. ASSUME NEW lexeme \in Lexemes, ReadToken(lexeme) PROVE LookOK'
  <2>1. lexeme.width \in Nat \ {0} /\ pos \in Nat
    BY Lookaheads
  <2>2. /\ pos' = pos + lexeme.width /\ look' = lexeme
        /\ yylloc' = Location(pos, pos + lexeme.width)
        /\ yytext'.end = pos + lexeme.width /\ yytext' \in Locations
    BY <1>3, <2>1 DEF ReadToken, Location
  <2> QED BY <2>1, <2>2 DEF Location
<1>4. ASSUME NEW error \in LexErrors, ReadError(error) PROVE LookOK'
  <2>1. look'.token = "ERR"
    BY <1>4, Lookaheads DEF ReadError
  <2>2. yylloc' = MatchedAs(error).loc /\ yytext' = MatchedAs(error).text
        /\ pos' = IF error = "LEX_UNEXPECTED_EOI" THEN yytext'.begin ELSE yytext'.end
    BY <1>4 DEF ReadError
  <2>3. \/ error \in {"LEX_HERE", "LEX_ILLEGAL_TOKEN", "LEX_TOO_LONG_IDENTIFIER"}
        \/ error = "LEX_UNEXPECTED_EOI"
    BY LexemesAssumption
  <2>4. yytext' = Location(yytext'.begin, yytext'.end) /\ yytext'.begin \in {pos, pos + 1}
        /\ yytext'.end = yytext'.begin + 1
        /\ (yylloc'.end = yytext'.end \/ yylloc'.end <= yytext'.begin)
        /\ yylloc' \in Locations
    BY <2>2, <2>3 DEF MatchedAs, Location
  <2>5. pos' \in Nat /\ yylloc'.end <= pos'
    BY <2>2, <2>3, <2>4 DEF MatchedAs, Location
  <2> QED BY <2>1, <2>4, <2>5 DEF Location, Locatable
<1>5. CASE ReadEnd
  BY <1>5, Lookaheads DEF ReadEnd, Location
<1>6. CASE ReduceOutput \/ Accept \/ SyntaxError \/ Exhausted \/ ParseReturns \/ PrintAggregate
  <2>1. UNCHANGED <<pos, yytext, yylloc, look>>
    BY <1>6 DEF ReduceOutput, Accept, SyntaxError, Exhausted, ParseReturns, PrintAggregate,
                lexVars
  <2> QED BY <2>1 DEF Locatable
<1> QED
  BY <1>1, <1>2, <1>3, <1>4, <1>5, <1>6 DEF LexerStep

\* Where rsqlp_error finds the error: the last token, or the byte behind the text.
LEMMA LocatedError ==
  ASSUME LookOK, ErrOK, Parsing, look.token # "NONE", rsqlp_error
  PROVE  \/ /\ look.token = "ERR" /\ err' = err /\ failed' \in {"none", "set_err_state"}
         \/ /\ look.token # "ERR" /\ failed' = failed /\ err'.state = "PARSER_ERROR"
            /\ err'.pos \in Nat /\ err'.len \in Int
            /\ IF look.token = "END" THEN err'.pos = pos /\ err'.len = 1
                                     ELSE err'.len > 0 /\ err'.pos + err'.len = pos
<1>1. CASE look.token = "ERR"
  <2>1. Locatable /\ err.state # "NONE"
    BY <1>1, Lookaheads DEF LookOK, ErrOK, Parsing
  <2> QED BY <1>1, <2>1, LaterError DEF rsqlp_error
<1>2. CASE look.token # "ERR"
  <2>1. err.state = "NONE"
    BY <1>2 DEF ErrOK, Parsing
  <2>2. CASE look.token = "END"
    <3>1. yytext = Location(pos, pos + 1) /\ yylloc.end <= pos /\ pos \in Nat
          /\ yylloc.end \in Int
      BY <2>2, Lookaheads DEF LookOK, Locations
    <3>2. Locatable /\ ErrorLocation = yytext
      BY <3>1 DEF Locatable, ErrorLocation, Location
    <3> QED BY <1>2, <2>1, <2>2, <3>1, <3>2, FirstError DEF rsqlp_error, Location
  <2>3. CASE look.token # "END"
    <3>1. yylloc.end = pos /\ yytext.end = pos /\ yylloc.begin \in Nat /\ yylloc.begin < pos
          /\ pos \in Nat
      BY <1>2, <2>3, Lookaheads DEF LookOK
    <3>2. Locatable /\ ErrorLocation = yylloc
      BY <3>1 DEF Locatable, ErrorLocation
    <3> QED BY <1>2, <2>1, <2>3, <3>1, <3>2, FirstError DEF rsqlp_error
  <2> QED BY <2>2, <2>3
<1> QED
  BY <1>1, <1>2

\* The aggregates that print() asks for are there, so that no call of it fails.
LEMMA PrintFinds ==
  ASSUME CallsOK, PrintAggregate
  PROVE  failed' = "none"
<1>1. /\ status = "PRINTING" /\ todo # <<>> /\ todo[1].agg # "none"
      /\ todo \in Seq(Calls)
  BY DEF PrintAggregate, CallsOK
<1>2. 1 \in DOMAIN todo
  BY <1>1
<1>3. Loaded(todo[1])
  BY <1>1, <1>2 DEF CallsOK
<1>4. PICK i \in DOMAIN m_aggs :
        m_aggs[i].agg_type = todo[1].agg /\ m_aggs[i].expr = todo[1].arg
  BY <1>3 DEF Loaded, LoadedIn
<1> QED
  BY <1>1, <1>4 DEF PrintAggregate, SameAgg

\* An output that is too long is reported where it is.
LEMMA ReportedOutput ==
  ASSUME LookOK, ErrOK, TreeOK, ReduceOutput
  PROVE  \/ UNCHANGED <<err, failed, parse_result>>
         \/ /\ parse_result' = 1 /\ err'.state # "NONE" /\ err'.state # "PARSER_ERROR"
            /\ err'.pos \in Nat /\ err'.len \in Int
            /\ err'.pos <= pos /\ err'.pos + err'.len <= pos + 1
            /\ failed' \in {failed, "none", "set_err_state"}
<1>1. /\ at = "alias" /\ pos \in Nat /\ out.loc.begin \in Nat /\ out.loc.end \in Int
      /\ out.loc.begin <= pos /\ out.loc.end <= pos /\ Parsing
  <2>1. at = "alias" /\ at \in Behind /\ Parsing
    BY DEF ReduceOutput, Behind
  <2>2. out.loc \in Locations
    BY DEF TreeOK, Outputs
  <2> QED BY <2>1, <2>2 DEF TreeOK, LookOK, Locations
<1>2. CASE TooLong
  <2>1. set_err_state("TOO_LONG_UNALIASED_OUTPUT", out.loc) /\ parse_result' = 1
    BY <1>2 DEF ReduceOutput
  <2>2. CASE err.state = "NONE"
    BY <2>1, <2>2, <1>1, FirstError
  <2>3. CASE err.state # "NONE"
    BY <2>1, <2>3, <1>1, LaterError DEF ErrOK, Parsing
  <2> QED BY <2>2, <2>3
<1>3. CASE ~TooLong
  BY <1>3 DEF ReduceOutput
<1> QED
  BY <1>2, <1>3

\* The asserts of parse() hold.
LEMMA ParseAssertsHold ==
  ASSUME ErrOK, LookOK, ParseReturns
  PROVE  failed' = "none"
<1>1. ParseAsserts
  BY DEF ErrOK, LookOK, ParseReturns, Running, ParseAsserts
<1> QED
  BY <1>1 DEF ParseReturns

\* Errors stay within the text, the first one is kept, and parse() returns with one.
LEMMA ErrKept ==
  ASSUME LookOK, LookOK', ErrOK, TreeOK, CallsOK, LexerStep
  PROVE  ErrOK'
<1>0. pos \in Nat
  BY DEF LookOK
<1>1. CASE Stays
  BY <1>1 DEF Stays, LexFrame, ErrOK
<1>2. CASE Shifts
  BY <1>2, Lookaheads DEF Shifts, LexFrame, ErrOK, Parsing
<1>3. ASSUME NEW lexeme \in Lexemes, ReadToken(lexeme) PROVE ErrOK'
  <2>1. look'.token # "ERR" /\ look.token # "ERR"
    BY <1>3, Lookaheads DEF ReadToken, Lexing
  <2>2. UNCHANGED <<err, failed, parse_result>> /\ parse_result = -1 /\ err.state = "NONE"
    BY <1>3, <2>1 DEF ReadToken, Lexing, Parsing, ErrOK
  <2> QED BY <2>1, <2>2 DEF ErrOK
<1>4. ASSUME NEW error \in LexErrors, ReadError(error) PROVE ErrOK'
  <2> DEFINE loc == IF error = "LEX_ILLEGAL_TOKEN" THEN MatchedAs(error).text ELSE MatchedAs(error).loc
  <2>1. look'.token = "ERR" /\ look.token # "ERR"
    BY <1>4, Lookaheads DEF ReadError, Lexing
  <2>2. parse_result' = -1 /\ err.state = "NONE"
    BY <1>4, <2>1 DEF ReadError, Lexing, Parsing, ErrOK
  <2>3. \/ error \in {"LEX_HERE", "LEX_ILLEGAL_TOKEN", "LEX_TOO_LONG_IDENTIFIER"}
        \/ error = "LEX_UNEXPECTED_EOI"
    BY LexemesAssumption
  <2>4. loc.begin = pos /\ loc.end \in {pos + 1, pos + 2} /\ pos' \in {pos + 1, pos + 2}
        /\ loc.end <= pos' + 1 /\ pos <= pos'
    BY <1>4, <2>3, <1>0 DEF ReadError, MatchedAs, Location
  <2>5. set_err_state(error, loc)
    BY <1>4 DEF ReadError
  <2>6. err' = [state |-> error, pos |-> loc.begin, len |-> loc.end - loc.begin] /\ failed' = failed
    BY <2>2, <2>5, FirstError
  <2>7. error \notin {"NONE", "PARSER_ERROR"}
    BY LexemesAssumption
  <2> HIDE DEF loc
  <2>8. err'.pos = pos /\ err'.len = loc.end - pos /\ err'.state = error
    BY <2>4, <2>6
  <2> QED BY <2>1, <2>2, <2>4, <2>6, <2>7, <2>8, <1>0 DEF ErrOK
<1>5. CASE ReadEnd
  <2>1. look'.token # "ERR" /\ look.token # "ERR"
    BY <1>5, Lookaheads DEF ReadEnd
  <2>2. UNCHANGED <<pos, err, failed, parse_result>> /\ parse_result = -1 /\ err.state = "NONE"
    BY <1>5, <2>1 DEF ReadEnd, Parsing, ErrOK
  <2> QED BY <2>1, <2>2 DEF ErrOK
<1>6. CASE ReduceOutput
  <2>1. UNCHANGED <<pos, look>>
    BY <1>6 DEF ReduceOutput, lexVars
  <2> QED BY <1>0, <1>6, <2>1, ReportedOutput DEF ErrOK
<1>7. CASE Accept
  BY <1>7, Lookaheads DEF Accept, Sees, Parsing, ErrOK, lexVars
<1>8. CASE SyntaxError \/ Exhausted
  <2>1. /\ Parsing /\ look.token # "NONE" /\ rsqlp_error /\ parse_result' \in {1, 2}
        /\ UNCHANGED <<pos, look>>
    <3>1. /\ Parsing /\ look # None /\ rsqlp_error /\ parse_result' \in {1, 2}
          /\ UNCHANGED <<pos, look>>
      BY <1>8 DEF SyntaxError, Exhausted, lexVars
    <3> QED BY <3>1, Lookaheads DEF LookOK
  <2> QED BY <1>0, <2>1, LocatedError DEF ErrOK, Parsing, Running
<1>9. CASE ParseReturns
  <2>1. UNCHANGED <<pos, look, err, parse_result>> /\ parse_result # -1
    BY <1>9 DEF ParseReturns, lexVars
  <2>2. failed = "none" /\ failed' = "none"
    BY <1>9, ParseAssertsHold DEF ParseReturns, Running
  <2> QED BY <2>1, <2>2 DEF ErrOK
<1>10. CASE PrintAggregate
  <2>1. UNCHANGED <<pos, look, err, parse_result>>
    BY <1>10 DEF PrintAggregate, lexVars
  <2>2. failed = "none" /\ failed' = "none"
    BY <1>10, PrintFinds DEF PrintAggregate, Running
  <2> QED BY <2>1, <2>2 DEF ErrOK
<1> QED
  BY <1>1, <1>2, <1>3, <1>4, <1>5, <1>6, <1>7, <1>8, <1>9, <1>10 DEF LexerStep

-----------------------------------------------------------------------------
(* The columns                                                               *)

\* A column that is searched for has an index the API knows, its own place, and
\* the places of the others do not change.
LEMMA ColumnIndex ==
  ASSUME m_identifiers \in Seq(ColumnNames), Injective(m_identifiers), NEW name \in ColumnNames
  PROVE  /\ column_name_to_idx(name) \in Columns
         /\ column_name_to_idx(name) \in DOMAIN Seen(name)
         /\ Seen(name)[column_name_to_idx(name)] = name
         /\ Seen(name) \in Seq(ColumnNames) /\ Injective(Seen(name))
         /\ DOMAIN m_identifiers \subseteq DOMAIN Seen(name)
         /\ \A i \in DOMAIN m_identifiers : Seen(name)[i] = m_identifiers[i]
<1> DEFINE known == {i \in DOMAIN m_identifiers : m_identifiers[i] = name}
           n == Len(m_identifiers)
<1>0. n \in Nat /\ DOMAIN m_identifiers = 1 .. n
  OBVIOUS
<1>1. IsFiniteSet(ColumnNames) /\ 1 .. Cardinality(ColumnNames) \subseteq Columns
      /\ Cardinality(ColumnNames) \in Nat
  BY CallsAssumption, FS_CardinalityType
<1>2. n <= Cardinality(ColumnNames) /\ (known = {} => n < Cardinality(ColumnNames))
  <2> DEFINE T == IF known = {} THEN ColumnNames \ {name} ELSE ColumnNames
  <2>1. m_identifiers \in [1 .. n -> T] /\ \A i, j \in 1 .. n : m_identifiers[i] = m_identifiers[j] => i = j
    BY <1>0 DEF Injective
  <2>2. m_identifiers \in Injection(1 .. n, T)
    BY <2>1, Zenon DEF Injection, IsInjective
  <2>3. IsFiniteSet(T) /\ Cardinality(T) = IF known = {} THEN Cardinality(ColumnNames) - 1
                                                        ELSE Cardinality(ColumnNames)
    BY <1>1, FS_RemoveElement
  <2>4. Cardinality(1 .. n) = n
    BY <1>0, FS_Interval
  <2> HIDE DEF T
  <2>5. Cardinality(1 .. n) <= Cardinality(T)
    BY <2>2, <2>3, FS_Injection
  <2> HIDE DEF known
  <2> QED BY <1>0, <1>1, <2>3, <2>4, <2>5
<1>3. CASE known # {}
  <2>1. known \subseteq Nat
    BY <1>0
  <2> HIDE DEF known
  <2>2. First(known) \in known
    BY <1>3, <2>1, FirstIsMember
  <2>3. column_name_to_idx(name) = First(known)
    BY <1>3 DEF column_name_to_idx, known
  <2>4. First(known) \in 1 .. n /\ m_identifiers[First(known)] = name
    BY <2>2, <1>0 DEF known
  <2>5. Seen(name) = m_identifiers
    <3>1. ~(column_name_to_idx(name) > n)
      BY <1>0, <2>3, <2>4
    <3> QED BY <3>1 DEF Seen
  <2> QED BY <1>0, <1>1, <1>2, <2>3, <2>4, <2>5
<1>4. CASE known = {}
  <2>1. column_name_to_idx(name) = n + 1
    BY <1>4 DEF column_name_to_idx
  <2>2. Seen(name) = Append(m_identifiers, name)
    <3>1. column_name_to_idx(name) > n
      BY <1>0, <2>1
    <3> QED BY <3>1 DEF Seen
  <2>3. \A i \in 1 .. n : m_identifiers[i] # name
    BY <1>0, <1>4
  <2> HIDE DEF known
  <2>4. /\ Append(m_identifiers, name) \in Seq(ColumnNames)
        /\ DOMAIN Append(m_identifiers, name) = 1 .. (n + 1)
        /\ \A i \in 1 .. n : Append(m_identifiers, name)[i] = m_identifiers[i]
        /\ Append(m_identifiers, name)[n + 1] = name
    BY <1>0
  <2>5. Injective(Append(m_identifiers, name))
    BY <1>0, <2>3, <2>4 DEF Injective
  <2>6. n + 1 \in Columns
    BY <1>0, <1>1, <1>2, <1>4
  <2> QED BY <1>0, <2>1, <2>2, <2>4, <2>5, <2>6
<1> QED
  BY <1>3, <1>4

-----------------------------------------------------------------------------
(* What a step does to the API                                               *)

\* A token that is neither the end nor an error is a lexeme of the statement.
LEMMA LookIsLexeme ==
  ASSUME LookOK, NEW place, NEW tokens, Sees(place, tokens), tokens \subseteq Tokens
  PROVE  look \in Lexemes /\ look.token \in tokens
<1>1. look.token \in tokens /\ \A token \in {"NONE", "END", "ERR"} : token \notin Tokens
  BY DEF Sees, Tokens, ArithOps
<1> QED
  BY <1>1, Lookaheads DEF LookOK

\* The number of binary operators after an operator is pushed, popped or changed.
LEMMA BinaryCounts ==
  ASSUME NEW S, NEW symbols \in Seq(S)
  PROVE  /\ Binary(symbols) \in Nat
         /\ \A s \in S : Binary(Append(symbols, s)) = Binary(symbols) + (IF s \in ArithOps THEN 1 ELSE 0)
         /\ symbols # <<>> =>
              LET n == Len(symbols)
              IN  /\ Popped(symbols, 1) \in Seq(S)
                  /\ Binary(symbols) = Binary(Popped(symbols, 1))
                                         + (IF symbols[n] \in ArithOps THEN 1 ELSE 0)
<1> DEFINE n == Len(symbols)
           P(s) == {i \in DOMAIN s : s[i] \in ArithOps}
<1>0. n \in Nat /\ DOMAIN symbols = 1 .. n
  OBVIOUS
<1>1. Binary(symbols) \in Nat
  BY <1>0, CountIsNat DEF Binary
<1>2. ASSUME NEW s \in S
      PROVE  Binary(Append(symbols, s)) = Binary(symbols) + (IF s \in ArithOps THEN 1 ELSE 0)
  <2> DEFINE t == Append(symbols, s)
  <2>1. DOMAIN t = 1 .. (n + 1) /\ (\A i \in 1 .. n : t[i] = symbols[i]) /\ t[n + 1] = s
    BY <1>0
  <2>2. P(symbols) \subseteq 1 .. n /\ P(t) \subseteq 1 .. (n + 1)
        /\ \A i \in 1 .. n : i \in P(t) <=> i \in P(symbols)
    BY <1>0, <2>1
  <2>3. n + 1 \in P(t) <=> s \in ArithOps
    BY <1>0, <2>1
  <2>4. Cardinality(P(t)) = Cardinality(P(symbols)) + (IF n + 1 \in P(t) THEN 1 ELSE 0)
    <3> HIDE DEF P, t, n
    <3> QED BY <1>0, <2>2, CountOneMore
  <2> QED BY <2>3, <2>4 DEF Binary
<1>3. ASSUME symbols # <<>>
      PROVE  /\ Popped(symbols, 1) \in Seq(S)
             /\ Binary(symbols) = Binary(Popped(symbols, 1))
                                    + (IF symbols[n] \in ArithOps THEN 1 ELSE 0)
  <2> DEFINE t == Popped(symbols, 1)
  <2>1. n >= 1 /\ n - 1 \in Nat
    BY <1>0, <1>3
  <2>2. t \in Seq(S) /\ DOMAIN t = 1 .. (n - 1) /\ \A i \in 1 .. (n - 1) : t[i] = symbols[i]
    BY <1>0, <2>1 DEF Popped
  <2>3. P(t) \subseteq 1 .. (n - 1) /\ P(symbols) \subseteq 1 .. ((n - 1) + 1)
        /\ \A i \in 1 .. (n - 1) : i \in P(symbols) <=> i \in P(t)
    BY <1>0, <2>1, <2>2
  <2>4. (n - 1) + 1 \in P(symbols) <=> symbols[n] \in ArithOps
    BY <1>0, <2>1
  <2>5. Cardinality(P(symbols)) = Cardinality(P(t)) + (IF (n - 1) + 1 \in P(symbols) THEN 1 ELSE 0)
    <3>1. PICK m \in Nat : m = n - 1
      BY <2>1
    <3>2. P(t) \subseteq 1 .. m /\ P(symbols) \subseteq 1 .. (m + 1)
          /\ \A i \in 1 .. m : i \in P(symbols) <=> i \in P(t)
      BY <2>3, <3>1
    <3> HIDE DEF P, t, n
    <3>3. Cardinality(P(symbols)) = Cardinality(P(t)) + (IF m + 1 \in P(symbols) THEN 1 ELSE 0)
      BY <3>2, CountOneMore
    <3> QED BY <3>1, <3>3
  <2> QED BY <2>2, <2>4, <2>5 DEF Binary
<1> QED
  BY <1>1, <1>2, <1>3

\* A reduction finds its operands on the stack.
LEMMA ReductionFindsOperands ==
  ASSUME StackOK, Reducing
  PROVE  /\ ops \in Seq(Ops \cup {"neg", "("}) /\ ops # <<>> /\ Len(ops) \in Nat \ {0}
         /\ args \in Seq(Handles) /\ Len(args) = Binary(ops) + 1
         /\ Top \in Ops \cup {"neg"}
         /\ Len(args) \in Nat \ {0} /\ Arg(0) \in Handles
         /\ Top \in ArithOps => Top \in Ops /\ Len(args) >= 2 /\ Arg(1) \in Handles
         /\ Top = "neg" => "Minus" \in Ops
<1>1. /\ at = "operator" /\ ops \in Seq(Ops \cup {"neg", "("}) /\ ops # <<>>
      /\ args \in Seq(Handles) /\ Len(args) = Binary(ops) + 1
      /\ Top # "(" /\ \A i \in DOMAIN ops : ops[i] = "neg" => "Minus" \in Ops
  BY DEF Reducing, Reducible, StackOK
<1>2. /\ Len(ops) \in Nat \ {0} /\ Len(ops) \in DOMAIN ops
      /\ ops[Len(ops)] \in Ops \cup {"neg", "("}
  BY <1>1
<1>3. Top \in Ops \cup {"neg"} /\ "neg" \notin ArithOps
  BY <1>1, <1>2 DEF Top, ArithOps
<1>4. Binary(Popped(ops, 1)) \in Nat
      /\ Binary(ops) = Binary(Popped(ops, 1)) + (IF Top \in ArithOps THEN 1 ELSE 0)
  BY <1>1, BinaryCounts DEF Top
<1>5. Len(args) \in Nat \ {0} /\ (Top \in ArithOps => Len(args) >= 2)
  BY <1>1, <1>4
<1> QED
  BY <1>1, <1>2, <1>3, <1>5 DEF Top, Arg

\* The next call of load().
LEMMA NextLoad ==
  ASSUME CallsOK, status = "LOADING", todo # <<>>
  PROVE  /\ Head(todo).agg \in AggTypes /\ Head(todo).arg \in Handles
         /\ Head(todo) = todo[1] /\ 1 \in DOMAIN todo
<1>1. todo \in Seq(Calls) /\ 1 \in DOMAIN todo /\ Head(todo) = todo[1] /\ todo[1] \in Calls
  BY DEF CallsOK
<1>2. CallOK(todo[1]) /\ todo[1].agg # "none"
  BY <1>1 DEF CallsOK
<1> QED
  BY <1>1, <1>2 DEF CallOK, CallFits, Calls

\* What the parser passes to the API for an operand.
LEMMA OperandFits ==
  ASSUME LookOK, ColumnsOK
  PROVE  /\ OperandColumn => /\ look \in Lexemes /\ look.val \in ColumnNames
                             /\ column_name_to_idx(look.val) \in Columns
         /\ OperandInteger => look \in Lexemes /\ look.val \in Literals
<1>1. CASE OperandColumn
  <2>1. look \in Lexemes /\ look.token = "IDENTIFIER"
    BY <1>1, LookIsLexeme DEF OperandColumn, Tokens
  <2> QED BY <2>1, ColumnIndex DEF ColumnNames, ColumnsOK, OperandInteger, Sees
<1>2. CASE OperandInteger
  <2>1. look \in Lexemes /\ look.token = "INT"
    BY <1>2, LookIsLexeme DEF OperandInteger, Tokens
  <2> QED BY <2>1, CallsAssumption DEF OperandColumn, Sees
<1> QED
  BY <1>1, <1>2

\* Every step but compile() makes one call of the API, or none.
LEMMA StepCallsApi ==
  ASSUME LookOK, StackOK, ColumnsOK, CallsOK, PreparerNext
  PROVE  \/ UNCHANGED exprVars
         \/ m_status = "PROGRAMMING" /\ m_status' = m_status /\ Next
         \/ Compile
<1> USE DEF exprVars
<1>0. status \in {"PARSING", "LOADING"} => m_status = "PROGRAMMING"
  BY DEF CallsOK, Early
<1>1. CASE BeginParse \/ ParseReturns \/ BeginLoad \/ LoadReturns \/ BeginPrint \/ PrintAggregate
           \/ PrintColumn \/ PrintReturns
  BY <1>1 DEF BeginParse, ParseReturns, BeginLoad, LoadReturns, BeginPrint, PrintAggregate,
              PrintColumn, PrintReturns
<1>2. CASE ReadNext \/ Move \/ OutputColumn \/ OutputAggregate \/ Star \/ Prefix \/ Operator \/ Close
  BY <1>2 DEF ReadNext, ReadToken, ReadError, ReadEnd, Move, OutputColumn, OutputAggregate, Star,
              Prefix, Operator, Close
<1>3. CASE Alias \/ ReduceOutput \/ GroupColumn \/ OrderColumn \/ Accept \/ SyntaxError \/ Exhausted
  BY <1>3 DEF Alias, ReduceOutput, GroupColumn, OrderColumn, Accept, SyntaxError, Exhausted
<1>4. CASE status = "PARSING" /\ OperandColumn
  <2>2. column_name_to_idx(look.val) \in Columns
    BY <1>4, OperandFits
  <2> QED BY <1>0, <1>4, <2>2 DEF OperandColumn, Next, Load
<1>5. CASE status = "PARSING" /\ OperandInteger
  <2>2. look.val \in Literals
    BY <1>5, OperandFits
  <2> QED BY <1>0, <1>5, <2>2 DEF OperandInteger, Next, ConstantInteger
<1>6. CASE status = "PARSING" /\ CountStar
  BY <1>0, <1>6, CallsAssumption DEF CountStar, Next, ConstantInteger
<1>7. CASE status = "PARSING" /\ ReduceBinary
  <2>1. Top \in Ops /\ Arg(1) \in Handles /\ Arg(0) \in Handles
    BY <1>7, ReductionFindsOperands DEF ReduceBinary
  <2> QED BY <1>0, <1>7, <2>1 DEF ReduceBinary, Next, Arith
<1>8. CASE status = "PARSING" /\ ReduceNegation
  BY <1>0, <1>8, CallsAssumption DEF ReduceNegation, Next, ConstantInteger
<1>9. CASE LoadAggregate
  <2>1. Head(todo).agg \in AggTypes /\ Head(todo).arg \in Handles
    BY <1>9, NextLoad DEF LoadAggregate
  <2> QED BY <1>0, <1>9, <2>1 DEF LoadAggregate, Next, Aggregate
<1> QED
  BY <1>1, <1>2, <1>3, <1>4, <1>5, <1>6, <1>7, <1>8, <1>9
  DEF PreparerNext, ParserStep, ParserNext

\* The tables of the API keep what they have.
LEMMA TablesGrow ==
  ASSUME TypeOK, [Next]_exprVars \/ Compile
  PROVE  /\ Handles \subseteq Handles'
         /\ \A k \in Handles : m_exprs'[k] = m_exprs[k]
         /\ \A i \in DOMAIN m_aggs : i \in DOMAIN m_aggs' /\ m_aggs'[i] = m_aggs[i]
<1>0. m_aggs \in Seq([agg_type : AggTypes, expr : Handles])
  BY DEF TypeOK
<1>1. CASE Compile
  BY <1>1 DEF Compile, Handles
<1>2. CASE m_exprs' = m_exprs /\ usage' = usage /\ m_aggs' = m_aggs
  BY <1>2 DEF Handles
<1>3. ASSUME NEW e, Requested(e), Intern(e), m_aggs' = m_aggs
      PROVE  /\ Handles \subseteq Handles'
             /\ \A k \in Handles : m_exprs'[k] = m_exprs[k]
             /\ \A i \in DOMAIN m_aggs : i \in DOMAIN m_aggs' /\ m_aggs'[i] = m_aggs[i]
  BY <1>3, InternRows DEF Requested
<1>4. ASSUME NEW type \in AggTypes, NEW k \in Handles, Aggregate(type, k)
      PROVE  /\ Handles \subseteq Handles'
             /\ \A j \in Handles : m_exprs'[j] = m_exprs[j]
             /\ \A i \in DOMAIN m_aggs : i \in DOMAIN m_aggs' /\ m_aggs'[i] = m_aggs[i]
  <2>1. m_exprs' = m_exprs
        /\ (m_aggs' = m_aggs \/ m_aggs' = Append(m_aggs, [agg_type |-> type, expr |-> k]))
    BY <1>4 DEF Aggregate
  <2>2. Len(m_aggs) \in Nat /\ DOMAIN m_aggs = 1 .. Len(m_aggs)
    BY <1>0
  <2>3. ASSUME NEW agg, m_aggs' = Append(m_aggs, agg), NEW i \in DOMAIN m_aggs
        PROVE  i \in DOMAIN m_aggs' /\ m_aggs'[i] = m_aggs[i]
    BY <2>2, <2>3
  <2> QED BY <2>1, <2>3 DEF Handles
<1> QED
  BY <1>1, <1>2, <1>3, <1>4, StepsIntern

\* What a step does to the API's tables.
Grown ==
  /\ Handles \subseteq Handles'
  /\ \A k \in Handles : m_exprs'[k] = m_exprs[k]
  /\ \A i \in DOMAIN m_aggs : i \in DOMAIN m_aggs' /\ m_aggs'[i] = m_aggs[i]

\* A step keeps the types of the API's tables and what is in them.
LEMMA TypesKept ==
  ASSUME TypeOK, LookOK, StackOK, ColumnsOK, CallsOK, [PreparerNext]_vars
  PROVE  TypeOK' /\ Grown
<1>1. [Next]_exprVars \/ Compile
  BY StepCallsApi DEF vars
<1>2. CASE [Next]_exprVars
  BY <1>2, NextKeepsTypes, TablesGrow DEF Grown
<1>3. CASE Compile
  BY <1>3, TablesGrow DEF Compile, TypeOK, RowOK, IsConstant, Handles, Grown
<1> QED
  BY <1>1, <1>2, <1>3


\* A call that adds an expression or finds it returns its handle, unless the
\* process is stopped in it.
LEMMA CallReturnsHandle ==
  ASSUME TypeOK, m_status = "PROGRAMMING", m_exprs # <<>> => ret \in Handles
  PROVE  /\ \A col \in Columns : Load(col) => ret' \in Handles'
         /\ \A v \in Literals : ConstantInteger(v) => ret' \in Handles'
         /\ \A op \in Ops, left, right \in Handles : Arith(op, left, right) => ret' \in Handles'
<1>0. m_constants \in Seq(Long) /\ Len(m_constants) \in Nat /\ m_exprs \in Seq(Node)
  BY DEF TypeOK
<1>1. \A n \in Nat \ {0} : Leaf("LoadConstantInt", n) \in Node
  BY ConstantFits
<1>2. ASSUME NEW col \in Columns, Load(col) PROVE ret' \in Handles'
  BY <1>2, LoadFits, InternReturnsRequest DEF Load
<1>3. ASSUME NEW v \in Literals, ConstantInteger(v) PROVE ret' \in Handles'
  <2>1. PoolIndex(v) \in Nat \ {0}
    BY <1>0, PoolIndexFits
  <2>2. Intern(Leaf("LoadConstantInt", PoolIndex(v)))
    BY <1>3 DEF ConstantInteger
  <2> QED BY <1>1, <2>1, <2>2, InternReturnsRequest
<1>4. ASSUME NEW op \in Ops, NEW left \in Handles, NEW right \in Handles, Arith(op, left, right)
      PROVE  ret' \in Handles'
  <2>1. CASE Intern(Arithmetic(op, left, right)) /\ ~(IsConstant(left) /\ IsConstant(right))
    BY <2>1, ArithmeticFits, InternReturnsRequest
  <2>2. CASE Fold(op, left, right)
    <3>1. CASE UNCHANGED <<m_exprs, usage, m_constants, ret>>
      <4>1. m_exprs # <<>>
        BY <1>0 DEF Handles
      <4> QED BY <3>1, <4>1 DEF Handles
    <3>2. CASE Intern(Leaf("LoadConstantInt", Len(m_constants) + 1))
      BY <1>0, <1>1, <3>2, InternReturnsRequest
    <3> QED BY <2>2, <3>1, <3>2 DEF Fold
  <2> QED BY <1>4, <2>1, <2>2 DEF Arith
<1> QED
  BY <1>2, <1>3, <1>4

\* There is a handle as soon as there is an expression.
LEMMA HandleKept ==
  ASSUME TypeOK, LookOK, StackOK, ColumnsOK, CallsOK, PreparerNext
  PROVE  (m_exprs # <<>> => ret \in Handles)'
<1>0. m_exprs # <<>> => ret \in Handles
  BY DEF StackOK
<1>1. CASE UNCHANGED exprVars \/ Compile
  BY <1>0, <1>1 DEF Compile, exprVars, Handles
<1>2. CASE m_status = "PROGRAMMING" /\ m_status' = m_status /\ Next
  BY <1>0, <1>2, CallReturnsHandle DEF Next, LoadUnknown, Aggregate, Handles
<1> QED
  BY <1>1, <1>2, StepCallsApi

-----------------------------------------------------------------------------
(* The stack of an expression                                                *)

\* Operands stay handles as the API's table grows.
LEMMA OperandsStay ==
  ASSUME args \in Seq(Handles), Handles \subseteq Handles'
  PROVE  args \in Seq(Handles')
<1> DEFINE S == Handles
           T == Handles'
<1>1. S \subseteq T /\ args \in Seq(S)
  OBVIOUS
<1> HIDE DEF S, T
<1>2. args \in Seq(T)
  BY <1>1, SeqMonotonic
<1> QED
  BY <1>2 DEF T

\* A grammar action leaves the stack with one operand more than operators
\* between two, or as many when it has shifted an operator.
LEMMA StackKept ==
  ASSUME TypeOK, LookOK, StackOK, TreeOK, ColumnsOK, CallsOK, Grown, [PreparerNext]_vars
  PROVE  StackOK'
<1> DEFINE Symbols == Ops \cup {"neg", "("}
<1>0. /\ at \in Places /\ ops \in Seq(Symbols) /\ args \in Seq(Handles)
      /\ args \in Seq(Handles') /\ Binary(ops) \in Nat
      /\ \A i \in DOMAIN ops : ops[i] = "neg" => "Minus" \in Ops
      /\ m_exprs # <<>> => ret \in Handles
      /\ Binary(<<>>) = 0
  <2>1. Binary(<<>>) = 0
    <3>1. {i \in DOMAIN <<>> : <<>>[i] \in ArithOps} = {}
      OBVIOUS
    <3> QED BY <3>1, FS_EmptySet DEF Binary
  <2> QED BY <2>1, OperandsStay, BinaryCounts DEF StackOK, Grown
<1>b. \A s \in Seq(Symbols) :
        /\ Binary(s) \in Nat
        /\ \A e \in Symbols : /\ Append(s, e) \in Seq(Symbols)
                              /\ Binary(Append(s, e)) = Binary(s) + (IF e \in ArithOps THEN 1 ELSE 0)
        /\ s # <<>> =>
             /\ Popped(s, 1) \in Seq(Symbols)
             /\ Binary(s) = Binary(Popped(s, 1)) + (IF s[Len(s)] \in ArithOps THEN 1 ELSE 0)
  <2> HIDE DEF Symbols
  <2> QED BY BinaryCounts, AppendProperties
<1>1. CASE UNCHANGED <<at, ops, args, out, m_exprs, ret>>
  BY <1>0, <1>1 DEF StackOK, Handles, Binary
<1> SUFFICES ASSUME PreparerNext PROVE StackOK'
  BY <1>1 DEF vars, parserVars, exprVars
<1>2. (m_exprs # <<>> => ret \in Handles)'
  BY HandleKept
\* Steps that only move between places outside of an expression.
<1>3. ASSUME ops = <<>> /\ args = <<>>, at' \in Places \ {"operand", "operator"},
             UNCHANGED <<ops, args>>
      PROVE  StackOK'
  BY <1>0, <1>2, <1>3 DEF StackOK
<1>4. CASE BeginParse \/ ParseReturns \/ BeginLoad \/ LoadAggregate \/ LoadReturns \/ Compile
           \/ BeginPrint \/ PrintAggregate \/ PrintColumn \/ PrintReturns
  <2>1. UNCHANGED <<at, ops, args, out>>
    BY <1>4 DEF BeginParse, ParseReturns, BeginLoad, LoadAggregate, LoadReturns, Compile,
                BeginPrint, PrintAggregate, PrintColumn, PrintReturns, parserVars, treeVars
  <2> QED BY <1>0, <1>2, <2>1 DEF StackOK, Binary
<1>5. CASE ReadNext \/ Accept \/ SyntaxError \/ Exhausted
  <2>1. UNCHANGED <<at, ops, args, out>>
    BY <1>5 DEF ReadNext, ReadToken, ReadError, ReadEnd, Accept, SyntaxError, Exhausted, treeVars
  <2> QED BY <1>0, <1>2, <2>1 DEF StackOK, Binary
<1>6. CASE Move
  <2>1. PICK m \in Moves : at = m[1] /\ at' = m[3] /\ UNCHANGED <<ops, args>>
    BY <1>6 DEF Move, Sees, Shift, treeVars
  <2>2. at \notin {"operand", "operator"} /\ at' \in Places /\ at' # "operator"
    BY <2>1, MovesShiftTokens
  <2>3. ops = <<>> /\ args = <<>>
    BY <2>2 DEF StackOK
  <2> QED BY <1>0, <1>2, <2>1, <2>2, <2>3 DEF StackOK
<1>7. CASE OutputColumn \/ OutputAggregate \/ Alias \/ ReduceOutput \/ GroupColumn \/ OrderColumn
  <2>1. UNCHANGED <<ops, args>> /\ at \notin {"operand", "operator"}
        /\ at' \in {at, "alias", "open", "list", "grouped", "ordered"}
    BY <1>7 DEF OutputColumn, OutputAggregate, Alias, ReduceOutput, GroupColumn, OrderColumn,
                Sees, Shift
  <2>2. at' \in Places \ {"operand", "operator"}
    BY <1>0, <2>1 DEF Places
  <2>3. ops = <<>> /\ args = <<>>
    BY <2>1 DEF StackOK
  <2> QED BY <1>3, <2>1, <2>2, <2>3
<1>8. CASE Star \/ CountStar
  <2>1. UNCHANGED <<ops, args>> /\ at' \in {"star", "alias"}
        /\ ((at = "operand" /\ out.text = <<>>) \/ at = "star")
    BY <1>8 DEF Star, CountStar, Sees, Shift, treeVars
  <2>2. ops = <<>> /\ args = <<>>
    BY <2>1 DEF StackOK
  <2> QED BY <1>3, <2>1, <2>2 DEF Places
<1>9. CASE status = "PARSING" /\ (OperandColumn \/ OperandInteger)
  <2>1. at = "operand" /\ at' = "operator" /\ ops' = ops /\ args' = Append(args, ret')
    BY <1>9 DEF OperandColumn, OperandInteger, Operand, Sees, Shift
  <2>2. ret' \in Handles'
    BY <1>0, <1>9, CallReturnsHandle, OperandFits DEF OperandColumn, OperandInteger, CallsOK, Early
  <2>3. args' \in Seq(Handles') /\ Len(args') = Len(args) + 1
    BY <1>0, <2>1, <2>2, AppendProperties
  <2> QED BY <1>0, <1>2, <2>1, <2>3 DEF StackOK, Places
<1>10. CASE Prefix
  <2> DEFINE symbol == IF look.token = "(" THEN look.token ELSE "neg"
  <2>1. at = "operand" /\ at' = "operand" /\ ops' = Append(ops, symbol) /\ args' = args
        /\ out'.text # <<>>
    BY <1>10 DEF Prefix, Sees, Shift
  <2>2. look \in Lexemes /\ look.token \in {"Minus", "("}
    BY <1>10, LookIsLexeme DEF Prefix, Tokens, ArithOps
  <2>3. symbol \in {"(", "neg"} /\ (symbol = "neg" => "Minus" \in Ops)
    BY <2>2, CallsAssumption DEF ArithOps
  <2>4. symbol \in Symbols /\ symbol \notin ArithOps
    BY <2>3 DEF ArithOps
  <2> HIDE DEF symbol
  <2>5. ops' \in Seq(Symbols) /\ Binary(ops') = Binary(ops)
    BY <1>0, <1>b, <2>1, <2>4
  <2>6. \A i \in DOMAIN ops' : ops'[i] = "neg" => "Minus" \in Ops
    BY <1>0, <2>1, <2>3
  <2>7. Len(args) = Binary(ops)
    BY <2>1 DEF StackOK
  <2> QED BY <1>0, <1>2, <2>1, <2>5, <2>6, <2>7 DEF StackOK, Places
<1>11. CASE Operator
  <2>1. at = "operator" /\ at' = "operand" /\ ops' = Append(ops, look.token) /\ args' = args
        /\ out'.text # <<>> /\ look.token \in ArithOps
    BY <1>11 DEF Operator, Sees, Shift
  <2>2. look.token \in Symbols
    BY <1>11, <2>1, LookIsLexeme, CallsAssumption DEF Operator, Tokens
  <2>3. ops' \in Seq(Symbols) /\ Binary(ops') = Binary(ops) + 1
    BY <1>0, <1>b, <2>1, <2>2
  <2>4. \A i \in DOMAIN ops' : ops'[i] = "neg" => "Minus" \in Ops
    BY <1>0, <2>1 DEF ArithOps
  <2>5. Len(args) = Binary(ops) + 1
    BY <2>1 DEF StackOK
  <2> QED BY <1>0, <1>2, <2>1, <2>3, <2>4, <2>5 DEF StackOK, Places
<1>12. CASE Close
  <2>1. at = "operator" /\ Len(args) = Binary(ops) + 1
    BY <1>12 DEF Close, Sees, StackOK
  <2>2. CASE ops # <<>>
    <3>1. at' = "operator" /\ ops' = Popped(ops, 1) /\ args' = args
      BY <1>12, <2>2 DEF Close, Shift
    <3>2. Top = "(" /\ Top \notin ArithOps
      BY <1>12, <2>1, <2>2 DEF Close, Reducible, Sees, ArithOps
    <3>3. ops' \in Seq(Symbols) /\ Binary(ops') = Binary(ops)
      BY <1>0, <1>b, <2>2, <3>1, <3>2 DEF Top
    <3>4. \A i \in DOMAIN ops' : i \in DOMAIN ops /\ ops'[i] = ops[i]
      BY <1>0, <2>2, <3>1 DEF Popped
    <3> QED BY <1>0, <1>2, <2>1, <3>1, <3>3, <3>4 DEF StackOK, Places
  <2>3. CASE ops = <<>>
    <3>1. at' = "alias" /\ ops' = <<>> /\ args' = <<>>
      BY <1>12, <2>3 DEF Close, Shift
    <3> QED BY <1>0, <1>2, <3>1 DEF StackOK, Places
  <2> QED BY <2>2, <2>3
<1>13. CASE status = "PARSING" /\ ReduceBinary
  <2>1. at = "operator" /\ at' = at /\ ops' = Popped(ops, 1) /\ args' = Append(Popped(args, 2), ret')
        /\ Top \in ArithOps /\ Reducing
    BY <1>13 DEF ReduceBinary, Reducing, Reducible
  <2>2. /\ ops # <<>> /\ Len(args) = Binary(ops) + 1 /\ Len(args) >= 2
        /\ Top \in Ops /\ Arg(0) \in Handles /\ Arg(1) \in Handles
    BY <2>1, ReductionFindsOperands
  <2>3. ret' \in Handles'
    BY <1>0, <1>13, <2>2, CallReturnsHandle DEF ReduceBinary, CallsOK, Early
  <2>4. Popped(args, 2) \in Seq(Handles') /\ Len(Popped(args, 2)) = Len(args) - 2
    BY <1>0, <2>2 DEF Popped
  <2>5. args' \in Seq(Handles') /\ Len(args') = Len(args) - 1
    BY <2>1, <2>2, <2>3, <2>4, AppendProperties
  <2>6. ops' \in Seq(Symbols) /\ Binary(ops) = Binary(ops') + 1
    BY <1>0, <2>1, <2>2, BinaryCounts DEF Top
  <2>7. \A i \in DOMAIN ops' : i \in DOMAIN ops /\ ops'[i] = ops[i]
    BY <1>0, <2>1, <2>2 DEF Popped
  <2>8. Binary(ops') \in Nat
    BY <2>6, BinaryCounts
  <2> QED BY <1>0, <1>2, <2>1, <2>2, <2>5, <2>6, <2>7, <2>8 DEF StackOK
<1>14. CASE status = "PARSING" /\ ReduceNegation
  <2> DEFINE n == Len(ops)
  <2>1. /\ at = "operator" /\ at' = at /\ ops' = [ops EXCEPT ![n] = "Minus"]
        /\ args' = Popped(args, 1) \o <<ret', Arg(0)>> /\ Top = "neg" /\ Reducing
    BY <1>14 DEF ReduceNegation, Reducing, Reducible
  <2>2. /\ ops # <<>> /\ n \in Nat \ {0} /\ Len(args) = Binary(ops) + 1 /\ Len(args) \in Nat \ {0}
        /\ Arg(0) \in Handles /\ "Minus" \in Ops
    BY <2>1, ReductionFindsOperands
  <2>3. ret' \in Handles' /\ Arg(0) \in Handles'
    BY <1>0, <1>14, <2>2, CallReturnsHandle, CallsAssumption
    DEF ReduceNegation, CallsOK, Early, Grown
  <2>4. Popped(args, 1) \in Seq(Handles') /\ Len(Popped(args, 1)) = Len(args) - 1
    BY <1>0, <2>2 DEF Popped
  <2>5. <<ret', Arg(0)>> \in Seq(Handles') /\ Len(<<ret', Arg(0)>>) = 2
    BY <2>3
  <2>6. args' \in Seq(Handles') /\ Len(args') = Len(args) + 1
    BY <2>1, <2>2, <2>4, <2>5, ConcatProperties
  <2>7. ops' \in Seq(Symbols) /\ Len(ops') = n /\ ops'[n] = "Minus"
        /\ \A i \in 1 .. (n - 1) : ops'[i] = ops[i]
    BY <1>0, <2>1, <2>2, ExceptSeq
  <2>8. /\ Binary(ops) = Binary(Popped(ops, 1))
        /\ Binary(ops') = Binary(Popped(ops', 1)) + 1
    <3>1. "neg" \notin ArithOps /\ "Minus" \in ArithOps /\ ops' # <<>> /\ ops[n] = "neg"
      BY <2>1, <2>2, <2>7 DEF ArithOps, Top
    <3> HIDE DEF Symbols
    <3>2. Binary(ops) = Binary(Popped(ops, 1))
      BY <1>0, <1>b, <2>2, <3>1
    <3>3. Binary(ops') = Binary(Popped(ops', 1)) + 1
      BY <1>b, <2>7, <3>1
    <3> QED BY <3>2, <3>3
  <2>9. Popped(ops, 1) = Popped(ops', 1)
    BY <1>0, <2>2, <2>7 DEF Popped
  <2>10. \A i \in DOMAIN ops' : ops'[i] = "neg" => "Minus" \in Ops
    BY <2>2
  <2>11. Binary(ops') = Binary(ops) + 1
    BY <2>8, <2>9
  <2> QED BY <1>0, <1>2, <2>1, <2>2, <2>6, <2>7, <2>10, <2>11 DEF StackOK
<1> QED
  BY <1>4, <1>5, <1>6, <1>7, <1>8, <1>9, <1>10, <1>11, <1>12, <1>13, <1>14
  DEF PreparerNext, ParserStep, ParserNext

-----------------------------------------------------------------------------
(* The outputs and lists of columns                                          *)

\* The lexer never goes back.
LEMMA PosGrows ==
  ASSUME LookOK, [PreparerNext]_vars
  PROVE  pos \in Nat /\ pos' \in Nat /\ pos <= pos'
<1>0. pos \in Nat /\ LexerStep
  BY StepIsLexerStep DEF LookOK
<1>1. CASE Stays \/ Shifts \/ ReadEnd \/ ReduceOutput \/ Accept \/ SyntaxError \/ Exhausted
           \/ ParseReturns \/ PrintAggregate
  BY <1>0, <1>1 DEF Stays, Shifts, LexFrame, ReadEnd, ReduceOutput, Accept, SyntaxError, Exhausted,
                    ParseReturns, PrintAggregate, lexVars
<1>2. ASSUME NEW lexeme \in Lexemes, ReadToken(lexeme) PROVE pos' \in Nat /\ pos <= pos'
  <2>1. lexeme.width \in Nat
    BY Lookaheads
  <2> QED BY <1>0, <1>2, <2>1 DEF ReadToken
<1>3. ASSUME NEW error \in LexErrors, ReadError(error) PROVE pos' \in Nat /\ pos <= pos'
  <2>1. \/ error \in {"LEX_HERE", "LEX_ILLEGAL_TOKEN", "LEX_TOO_LONG_IDENTIFIER"}
        \/ error = "LEX_UNEXPECTED_EOI"
    BY LexemesAssumption
  <2> QED BY <1>0, <1>3, <2>1 DEF ReadError, MatchedAs, Location
<1> QED
  BY <1>0, <1>1, <1>2, <1>3 DEF LexerStep

\* The place of a lexeme that is shifted.
LEMMA LexemeIsPlaced ==
  ASSUME LookOK, look \in Lexemes
  PROVE  yylloc \in Locations /\ yylloc.begin \in Nat /\ yylloc.begin <= pos /\ yylloc.end <= pos
<1>1. look # None /\ look.token \notin {"END", "ERR"}
  BY Lookaheads
<1> QED
  BY <1>1 DEF LookOK, Locations

\* The output being parsed gets the next word of its argument's text.
LEMMA TextGrows ==
  ASSUME out \in Outputs, NEW word \in Words, out' = [out EXCEPT !.text = Append(@, word)]
  PROVE  /\ out' \in Outputs
         /\ \A field \in {"is_agg", "fun", "arg", "col_name", "output_name", "loc"} : out'[field] = out[field]
         /\ out'.text = Append(out.text, word)
<1>1. out.text \in Seq(Words)
  BY DEF Outputs
<1>2. Append(out.text, word) \in Seq(Words)
  BY <1>1, AppendProperties
<1> HIDE DEF Words
<1> QED
  BY <1>2 DEF Outputs

\* What has been parsed stays, and what is parsed now becomes an output.
LEMMA TreeKept ==
  ASSUME TypeOK, LookOK, StackOK, TreeOK, ColumnsOK, CallsOK, Grown, [PreparerNext]_vars
  PROVE  TreeOK'
<1>0. /\ pos \in Nat /\ pos' \in Nat /\ pos <= pos' /\ Handles \subseteq Handles'
      /\ outputs \in Seq(Outputs) /\ \A i \in DOMAIN outputs : OutputFits(outputs[i], Handles')
      /\ groupby \in Seq(ColumnNames) /\ orderby \in Seq(ColumnNames)
      /\ out \in Outputs /\ out.loc \in Locations
  BY PosGrows DEF TreeOK, Grown, Outputs, OutputOK, OutputFits
<1>1. ASSUME UNCHANGED <<at, out, outputs, groupby, orderby>> PROVE TreeOK'
  <2>1. at \in Behind => OutputFits(out, Handles')
    BY <1>0 DEF TreeOK, OutputOK, OutputFits
  <2>2. out.loc.end \in Int /\ out.loc.begin \in Int
    BY <1>0 DEF Locations
  <2> QED BY <1>0, <1>1, <2>1, <2>2 DEF TreeOK, OutputOK
<1> SUFFICES ASSUME PreparerNext PROVE TreeOK'
  BY <1>1 DEF vars, parserVars
<1>2. CASE BeginParse \/ ParseReturns \/ BeginLoad \/ LoadAggregate \/ LoadReturns \/ Compile
           \/ BeginPrint \/ PrintAggregate \/ PrintColumn \/ PrintReturns
  <2>1. UNCHANGED <<at, out, outputs, groupby, orderby>>
    BY <1>2 DEF BeginParse, ParseReturns, BeginLoad, LoadAggregate, LoadReturns, Compile,
                BeginPrint, PrintAggregate, PrintColumn, PrintReturns, parserVars, treeVars
  <2> QED BY <1>1, <2>1
<1>3. CASE ReadNext \/ Accept \/ SyntaxError \/ Exhausted \/ ReduceBinary \/ ReduceNegation
  <2>1. UNCHANGED <<at, out, outputs, groupby, orderby>>
    BY <1>3 DEF ReadNext, ReadToken, ReadError, ReadEnd, Accept, SyntaxError, Exhausted, treeVars,
                ReduceBinary, ReduceNegation
  <2> QED BY <1>1, <2>1
\* A new place, where the output is what it was.
<1>4. ASSUME UNCHANGED <<out, outputs, groupby, orderby>>,
             at' \in Within => at \in Within, at' \in Behind => at \in Behind
      PROVE  TreeOK'
  <2>1. at \in Behind => OutputFits(out, Handles')
    BY <1>0 DEF TreeOK, OutputOK, OutputFits
  <2>2. out.loc.end \in Int /\ out.loc.begin \in Int
    BY <1>0 DEF Locations
  <2> QED BY <1>0, <1>4, <2>1, <2>2 DEF TreeOK, OutputOK
<1>5. CASE Move
  <2>1. PICK m \in Moves : at = m[1] /\ at' = m[3] /\ UNCHANGED <<out, outputs, groupby, orderby>>
    BY <1>5 DEF Move, Sees, Shift, treeVars
  <2>2. /\ at' \notin {"operator", "star", "alias", "open"}
        /\ at' = "operand" => at = "open"
        /\ at' = "aliasname" => at = "alias"
    BY <2>1, MovesShiftTokens
  <2> QED BY <1>4, <2>1, <2>2 DEF Within, Behind
<1>6. CASE Star
  <2>1. UNCHANGED <<out, outputs, groupby, orderby>> /\ at = "operand" /\ at' = "star"
    BY <1>6 DEF Star, Sees, Shift, treeVars
  <2> QED BY <1>4, <2>1 DEF Within, Behind
\* Another word of an argument.
<1>7. ASSUME NEW word \in Words, out' = [out EXCEPT !.text = Append(@, word)],
             UNCHANGED <<outputs, groupby, orderby>>, at \in Within, at' \in Within
      PROVE  TreeOK'
  <2>1. out' \in Outputs /\ out'.is_agg = out.is_agg /\ out'.fun = out.fun /\ out'.loc = out.loc
    BY <1>0, <1>7, TextGrows
  <2>2. out.is_agg /\ Function(out.fun) /\ out.loc.begin \in Nat /\ out.loc.begin <= pos
    BY <1>7 DEF TreeOK
  <2>3. at' \notin Behind
    BY <1>7 DEF Within, Behind
  <2> QED BY <1>0, <1>7, <2>1, <2>2, <2>3 DEF TreeOK, OutputOK
<1>8. CASE OperandColumn \/ OperandInteger \/ Operator
  <2>1. /\ out' = [out EXCEPT !.text = Append(@, look)] /\ UNCHANGED <<outputs, groupby, orderby>>
        /\ at \in Within /\ at' \in Within
    BY <1>8 DEF OperandColumn, OperandInteger, Operand, Operator, Sees, Shift, Within
  <2>2. look \in Lexemes
    BY <1>8, OperandFits, LookIsLexeme DEF Operator, Tokens
  <2> QED BY <1>7, <2>1, <2>2 DEF Words
<1>9. CASE Prefix
  <2> DEFINE symbol == IF look.token = "(" THEN look.token ELSE "neg"
  <2>1. /\ out' = [out EXCEPT !.text = Append(@, Tok(symbol, "none"))]
        /\ UNCHANGED <<outputs, groupby, orderby>> /\ at \in Within /\ at' \in Within
    BY <1>9 DEF Prefix, Sees, Shift, Within
  <2>2. Tok(symbol, "none") \in Words
    BY DEF Words
  <2> QED BY <1>7, <2>1, <2>2
\* The end of an argument.
<1>10. ASSUME UNCHANGED <<outputs, groupby, orderby>>, at \in Within, at' = "alias",
              look \in Lexemes, yylloc' = yylloc, NEW arg \in Handles', NEW text \in Seq(Words),
              out' = [out EXCEPT !.arg = arg, !.loc.end = yylloc.end, !.text = text]
       PROVE  TreeOK'
  <2>1. out.is_agg /\ Function(out.fun) /\ out.loc.begin \in Nat /\ out.loc.begin <= pos
    BY <1>10 DEF TreeOK
  <2>2. yylloc.end \in Int /\ yylloc.end <= pos
    BY <1>10, LexemeIsPlaced DEF Locations
  <2>3. arg \in Nat
    BY <1>10 DEF Handles
  <2>4. out' \in Outputs /\ out'.is_agg = out.is_agg /\ out'.fun = out.fun /\ out'.arg = arg
        /\ out'.loc.begin = out.loc.begin /\ out'.loc.end = yylloc.end
    <3> HIDE DEF Words
    <3> QED BY <1>0, <1>10, <2>2, <2>3 DEF Outputs, Locations
  <2>5. at' \notin Within
    BY <1>10 DEF Within
  <2> QED BY <1>0, <1>10, <2>1, <2>2, <2>4, <2>5 DEF TreeOK, OutputOK, OutputFits
<1>11. CASE Close
  <2>1. at = "operator" /\ look \in Lexemes /\ look.token = ")"
    BY <1>11, LookIsLexeme DEF Close, Sees, Tokens
  <2>2. CASE ops # <<>>
    <3>1. /\ out' = [out EXCEPT !.text = Append(@, look)] /\ UNCHANGED <<outputs, groupby, orderby>>
          /\ at' = "operator"
      BY <1>11, <2>2 DEF Close, Shift
    <3> QED BY <1>7, <2>1, <3>1 DEF Words, Within
  <2>3. CASE ops = <<>>
    <3>1. /\ out' = [out EXCEPT !.arg = Arg(0), !.loc.end = yylloc.end]
          /\ UNCHANGED <<outputs, groupby, orderby, yylloc>> /\ at' = "alias"
      BY <1>11, <2>3 DEF Close, Shift, lexVars
    <3>2. out' = [out EXCEPT !.arg = Arg(0), !.loc.end = yylloc.end, !.text = out.text]
          /\ out.text \in Seq(Words)
      BY <1>0, <3>1 DEF Outputs
    <3>3. Arg(0) \in Handles'
      <4>1. args \in Seq(Handles) /\ Len(args) = Binary(ops) + 1 /\ Binary(ops) \in Nat
        BY <2>1, BinaryCounts DEF StackOK
      <4>2. Arg(0) \in Handles
        BY <4>1 DEF Arg
      <4> QED BY <1>0, <4>2
    <3> QED BY <1>10, <2>1, <3>1, <3>2, <3>3 DEF Within
  <2> QED BY <2>2, <2>3
<1>12. CASE status = "PARSING" /\ CountStar
  <2>1. /\ at = "star" /\ at' = "alias" /\ look \in Lexemes
        /\ UNCHANGED <<outputs, groupby, orderby, yylloc>>
        /\ out' = [out EXCEPT !.arg = ret', !.loc.end = yylloc.end, !.text = <<Tok("INT", 1)>>]
    BY <1>12, LookIsLexeme DEF CountStar, Sees, Shift, Tokens, lexVars
  <2>2. ret' \in Handles'
    BY <1>12, CallReturnsHandle, CallsAssumption DEF CountStar, CallsOK, Early, StackOK
  <2>3. <<Tok("INT", 1)>> \in Seq(Words)
    BY DEF Words
  <2> QED BY <1>10, <2>1, <2>2, <2>3 DEF Within
<1>13. CASE OutputColumn
  <2>1. /\ look \in Lexemes /\ look.token = "IDENTIFIER" /\ at' = "alias"
        /\ out' = [NoOutput EXCEPT !.col_name = look.val, !.output_name = look.val, !.loc = yylloc,
                                   !.text = <<look>>]
        /\ UNCHANGED <<outputs, groupby, orderby>>
    BY <1>13, LookIsLexeme DEF OutputColumn, Sees, Shift, Tokens
  <2>2. look.val \in ColumnNames
    BY <2>1 DEF ColumnNames
  <2>3. out' = [is_agg |-> FALSE, fun |-> "none", arg |-> NULL, col_name |-> look.val,
                output_name |-> look.val, loc |-> yylloc, text |-> <<look>>]
    BY <2>1 DEF NoOutput
  <2>4. <<look>> \in Seq(Words) /\ NULL \in Nat
    BY <2>1 DEF NULL, Words
  <2>5. out' \in Outputs /\ ~out'.is_agg /\ out'.col_name = look.val /\ out'.arg = NULL /\ out'.loc = yylloc
    <3>1. yylloc \in Locations
      BY <2>1, LexemeIsPlaced
    <3> HIDE DEF Words, Locations, ColumnNames, FunctionNames
    <3> QED BY <2>2, <2>3, <2>4, <3>1 DEF Outputs
  <2>6. at' \notin Within
    BY <2>1 DEF Within
  <2>7. yylloc.begin \in Nat /\ yylloc.begin <= pos /\ yylloc.end <= pos /\ yylloc.end \in Int
    BY <2>1, LexemeIsPlaced DEF Locations
  <2> QED BY <1>0, <2>1, <2>2, <2>5, <2>6, <2>7 DEF TreeOK, OutputOK, OutputFits
<1>14. CASE OutputAggregate
  <2>1. /\ look \in Lexemes /\ look.token = "FUNCTION" /\ at' = "open"
        /\ out' = [NoOutput EXCEPT !.is_agg = TRUE, !.fun = look.val, !.loc = yylloc]
        /\ UNCHANGED <<outputs, groupby, orderby>>
    BY <1>14, LookIsLexeme DEF OutputAggregate, Sees, Shift, Tokens
  <2>2. look.val \in FunctionNames /\ Function(look.val)
    BY <2>1, CallsAssumption DEF FunctionNames, Function
  <2>3. out' = [is_agg |-> TRUE, fun |-> look.val, arg |-> NULL, col_name |-> "none",
                output_name |-> "none", loc |-> yylloc, text |-> <<>>]
    BY <2>1 DEF NoOutput
  <2>4. <<>> \in Seq(Words) /\ NULL \in Nat
    BY DEF NULL
  <2>5. out' \in Outputs /\ out'.is_agg /\ out'.fun = look.val /\ out'.loc = yylloc
    <3>1. yylloc \in Locations
      BY <2>1, LexemeIsPlaced
    <3> HIDE DEF Words, Locations, ColumnNames, FunctionNames
    <3> QED BY <2>2, <2>3, <2>4, <3>1 DEF Outputs
  <2>6. at' \notin Behind
    BY <2>1 DEF Behind
  <2>7. yylloc.begin \in Nat /\ yylloc.begin <= pos
    BY <2>1, LexemeIsPlaced
  <2> QED BY <1>0, <2>1, <2>2, <2>5, <2>6, <2>7 DEF TreeOK, OutputOK
\* The output is complete.
<1>15. ASSUME NEW output \in Outputs, OutputFits(output, Handles'), outputs' = Append(outputs, output),
              at' = "list", UNCHANGED <<out, groupby, orderby>>
       PROVE  TreeOK'
  <2>1. outputs' \in Seq(Outputs) /\ \A i \in DOMAIN outputs' : OutputFits(outputs'[i], Handles')
    <3> HIDE DEF Outputs
    <3> QED BY <1>0, <1>15
  <2>2. at' \notin Within \cup Behind
    BY <1>15 DEF Within, Behind
  <2> QED BY <1>0, <1>15, <2>1, <2>2 DEF TreeOK, OutputOK
<1>16. CASE Alias
  <2> DEFINE output == [out EXCEPT !.output_name = look.val]
  <2>1. /\ look \in Lexemes /\ look.token = "IDENTIFIER" /\ at = "aliasname" /\ at' = "list"
        /\ outputs' = Append(outputs, output) /\ UNCHANGED <<out, groupby, orderby>>
    BY <1>16, LookIsLexeme DEF Alias, Sees, Shift, Tokens
  <2>2. look.val \in ColumnNames
    BY <2>1 DEF ColumnNames
  <2>3. output \in Outputs /\ output.is_agg = out.is_agg /\ output.fun = out.fun
        /\ output.arg = out.arg /\ output.col_name = out.col_name
    BY <1>0, <2>2 DEF Outputs
  <2>4. OutputFits(out, Handles)
    BY <2>1 DEF TreeOK, OutputOK, Behind
  <2>5. OutputFits(output, Handles')
    BY <1>0, <2>2, <2>3, <2>4 DEF OutputFits
  <2> QED BY <1>15, <2>1, <2>3, <2>5
<1>17. CASE ReduceOutput
  <2>1. at = "alias" /\ UNCHANGED <<out, groupby, orderby>>
        /\ (UNCHANGED <<at, outputs>> \/ (outputs' = Append(outputs, out) /\ at' = "list"))
    <3>1. at = "alias" /\ UNCHANGED <<out, groupby, orderby>>
      BY <1>17 DEF ReduceOutput
    <3>2. TooLong => UNCHANGED <<at, outputs>>
      BY <1>17 DEF ReduceOutput
    <3>3. ~TooLong => outputs' = Append(outputs, out) /\ at' = "list"
      BY <1>17 DEF ReduceOutput
    <3> QED BY <3>1, <3>2, <3>3
  <2>2. OutputFits(out, Handles')
    BY <1>0, <2>1 DEF TreeOK, OutputOK, OutputFits, Behind
  <2> QED BY <1>0, <1>1, <1>15, <2>1, <2>2
<1>18. CASE GroupColumn \/ OrderColumn
  <2>1. /\ look \in Lexemes /\ look.token = "IDENTIFIER" /\ at' \in {"grouped", "ordered"}
        /\ UNCHANGED <<out, outputs>>
        /\ groupby' = groupby \/ groupby' = Append(groupby, look.val)
        /\ orderby' = orderby \/ orderby' = Append(orderby, look.val)
    BY <1>18, LookIsLexeme DEF GroupColumn, OrderColumn, Sees, Shift, Tokens
  <2>2. look.val \in ColumnNames
    BY <2>1 DEF ColumnNames
  <2>3. groupby' \in Seq(ColumnNames) /\ orderby' \in Seq(ColumnNames)
    <3> HIDE DEF ColumnNames
    <3>1. Append(groupby, look.val) \in Seq(ColumnNames) /\ Append(orderby, look.val) \in Seq(ColumnNames)
      BY <1>0, <2>2, AppendProperties
    <3> QED BY <1>0, <2>1, <3>1
  <2>4. at' \notin Within \cup Behind
    BY <2>1 DEF Within, Behind
  <2> QED BY <1>0, <2>1, <2>3, <2>4 DEF TreeOK, OutputOK
<1> QED
  BY <1>2, <1>3, <1>5, <1>6, <1>8, <1>9, <1>11, <1>12, <1>13, <1>14, <1>16, <1>17, <1>18
  DEF PreparerNext, ParserStep, ParserNext

-----------------------------------------------------------------------------
(* One index per column                                                      *)

\* A row that is not a Load, or loads a column of S, adds no other.
LEMMA InternKeepsLoads ==
  ASSUME TypeOK, NEW S, LoadsIn(m_exprs, S), NEW e \in Node, Intern(e),
         e.op = "Load" => e.idx \in S
  PROVE  LoadsIn(m_exprs', S)
<1>1. CASE m_exprs' = m_exprs
  BY <1>1
<1>2. CASE /\ Len(m_exprs) \in Nat
           /\ Handles = 1 .. Len(m_exprs) /\ Handles' = 1 .. (Len(m_exprs) + 1)
           /\ m_exprs'[Len(m_exprs) + 1] = e
           /\ \A k \in Handles : m_exprs'[k] = m_exprs[k] /\ ~SameExpr(e, m_exprs[k])
  <2> SUFFICES ASSUME NEW k \in Handles', m_exprs'[k].op = "Load"
               PROVE  m_exprs'[k].idx \in S
    BY DEF LoadsIn, Handles
  <2>1. CASE k = Len(m_exprs) + 1
    BY <1>2, <2>1
  <2>2. CASE k \in Handles
    BY <1>2, <2>2 DEF LoadsIn, Handles
  <2> QED BY <1>2, <2>1, <2>2
<1> QED
  BY <1>1, <1>2, InternRows

\* The API's calls load no column but the one they are asked for.
LEMMA CallKeepsLoads ==
  ASSUME TypeOK, NEW S, LoadsIn(m_exprs, S)
  PROVE  /\ \A col \in Columns : Load(col) /\ col \in S => LoadsIn(m_exprs', S)
         /\ \A v \in Literals : ConstantInteger(v) => LoadsIn(m_exprs', S)
         /\ \A op \in Ops, left, right \in Handles : Arith(op, left, right) => LoadsIn(m_exprs', S)
<1>0. m_constants \in Seq(Long) /\ Len(m_constants) \in Nat
  BY DEF TypeOK
<1>1. \A n \in Nat \ {0} : Leaf("LoadConstantInt", n) \in Node /\ Leaf("LoadConstantInt", n).op # "Load"
  BY ConstantFits DEF Leaf
<1>2. ASSUME NEW col \in Columns, Load(col), col \in S PROVE LoadsIn(m_exprs', S)
  <2>1. Leaf("Load", col) \in Node /\ Leaf("Load", col).idx = col /\ Intern(Leaf("Load", col))
    BY <1>2, LoadFits DEF Load, Leaf
  <2> QED BY <1>2, <2>1, InternKeepsLoads
<1>3. ASSUME NEW v \in Literals, ConstantInteger(v) PROVE LoadsIn(m_exprs', S)
  <2>1. PoolIndex(v) \in Nat \ {0}
    BY <1>0, PoolIndexFits
  <2>2. Intern(Leaf("LoadConstantInt", PoolIndex(v))) \/ m_exprs' = m_exprs
    BY <1>3 DEF ConstantInteger
  <2> QED BY <1>1, <2>1, <2>2, InternKeepsLoads
<1>4. ASSUME NEW op \in Ops, NEW left \in Handles, NEW right \in Handles, Arith(op, left, right)
      PROVE  LoadsIn(m_exprs', S)
  <2>1. CASE Intern(Arithmetic(op, left, right)) /\ ~(IsConstant(left) /\ IsConstant(right))
    <3>1. Arithmetic(op, left, right).op = op /\ op # "Load"
      BY OpsAssumption DEF Arithmetic, ArithOps
    <3> QED BY <2>1, <3>1, ArithmeticFits, InternKeepsLoads
  <2>2. CASE Fold(op, left, right)
    <3>1. CASE UNCHANGED <<m_exprs, usage, m_constants, ret>>
      BY <3>1
    <3>2. CASE Intern(Leaf("LoadConstantInt", Len(m_constants) + 1))
      BY <1>0, <1>1, <3>2, InternKeepsLoads
    <3> QED BY <2>2, <3>1, <3>2 DEF Fold
  <2> QED BY <1>4, <2>1, <2>2 DEF Arith
<1> QED
  BY <1>2, <1>3, <1>4

\* A column is given the next index when it is seen first, and is loaded from it.
LEMMA ColumnsKept ==
  ASSUME TypeOK, LookOK, StackOK, ColumnsOK, CallsOK, [PreparerNext]_vars
  PROVE  ColumnsOK'
<1>0. /\ m_identifiers \in Seq(ColumnNames) /\ Injective(m_identifiers)
      /\ LoadsIn(m_exprs, DOMAIN m_identifiers)
  BY DEF ColumnsOK
<1>1. SUFFICES /\ m_identifiers' \in Seq(ColumnNames) /\ Injective(m_identifiers')
               /\ LoadsIn(m_exprs', DOMAIN m_identifiers')
  BY DEF ColumnsOK
<1>2. CASE UNCHANGED <<m_identifiers, m_exprs>>
  BY <1>0, <1>2
<1>3. CASE PrintColumn
  <2>1. /\ todo \in Seq(Calls) /\ todo # <<>> /\ Head(todo) = todo[1] /\ todo[1].agg = "none"
        /\ m_identifiers' = Seen(todo[1].column) /\ m_exprs' = m_exprs
    BY <1>3 DEF PrintColumn, CallsOK, exprVars
  <2>2. todo[1].column \in ColumnNames
    BY <2>1 DEF CallsOK, CallOK, CallFits
  <2> QED BY <1>0, <2>1, <2>2, ColumnIndex DEF LoadsIn
<1>4. CASE OperandColumn
  <2>1. /\ look.val \in ColumnNames /\ column_name_to_idx(look.val) \in Columns
        /\ Load(column_name_to_idx(look.val)) /\ m_identifiers' = Seen(look.val)
    BY <1>4, OperandFits DEF OperandColumn
  <2>2. LoadsIn(m_exprs, DOMAIN m_identifiers') /\ column_name_to_idx(look.val) \in DOMAIN m_identifiers'
    BY <1>0, <2>1, ColumnIndex DEF LoadsIn
  <2>3. LoadsIn(m_exprs', DOMAIN m_identifiers')
    BY <2>1, <2>2, CallKeepsLoads
  <2> QED BY <1>0, <2>1, <2>3, ColumnIndex
<1>5. CASE OperandInteger
  BY <1>0, <1>5, OperandFits, CallKeepsLoads DEF OperandInteger
<1>6. CASE CountStar
  BY <1>0, <1>6, CallsAssumption, CallKeepsLoads DEF CountStar
<1>7. CASE ReduceBinary
  <2>1. Top \in Ops /\ Arg(1) \in Handles /\ Arg(0) \in Handles
    BY <1>7, ReductionFindsOperands DEF ReduceBinary
  <2> QED BY <1>0, <1>7, <2>1, CallKeepsLoads DEF ReduceBinary
<1>8. CASE ReduceNegation
  BY <1>0, <1>8, CallsAssumption, CallKeepsLoads DEF ReduceNegation
<1>9. CASE UNCHANGED vars
  BY <1>2, <1>9 DEF vars, parserVars, exprVars
<1>10. CASE BeginParse \/ ParseReturns \/ BeginLoad \/ LoadAggregate \/ LoadReturns \/ Compile
            \/ BeginPrint \/ PrintAggregate \/ PrintReturns
  BY <1>2, <1>10 DEF BeginParse, ParseReturns, BeginLoad, LoadAggregate, Aggregate, LoadReturns,
                     Compile, BeginPrint, PrintAggregate, PrintReturns, parserVars, exprVars
<1>11. CASE ReadNext \/ Move \/ OutputColumn \/ OutputAggregate \/ Star \/ Prefix \/ Operator \/ Close
  BY <1>2, <1>11 DEF ReadNext, ReadToken, ReadError, ReadEnd, Move, OutputColumn, OutputAggregate,
                     Star, Prefix, Operator, Close, exprVars
<1>12. CASE Alias \/ ReduceOutput \/ GroupColumn \/ OrderColumn \/ Accept \/ SyntaxError \/ Exhausted
  BY <1>2, <1>12 DEF Alias, ReduceOutput, GroupColumn, OrderColumn, Accept, SyntaxError, Exhausted,
                     exprVars
<1> QED
  BY <1>3, <1>4, <1>5, <1>6, <1>7, <1>8, <1>9, <1>10, <1>11, <1>12
  DEF PreparerNext, ParserStep, ParserNext

-----------------------------------------------------------------------------
(* The calls of load() and print()                                           *)

\* A sequence of sequences, one after the other, has the members of all of them.
LEMMA Flattened ==
  ASSUME NEW S, NEW seqs \in Seq(Seq(S))
  PROVE  /\ Seqs!FlattenSeq(seqs) \in Seq(S)
         /\ \A i \in DOMAIN seqs : \A k \in DOMAIN seqs[i] : Among(seqs[i][k], Seqs!FlattenSeq(seqs))
         /\ \A n \in DOMAIN Seqs!FlattenSeq(seqs) :
              \E i \in DOMAIN seqs : Among(Seqs!FlattenSeq(seqs)[n], seqs[i])
<1> DEFINE n == Len(seqs)
           V == Seq(S)
           flatten == CHOOSE f : f = [i \in 1 .. n |-> IF i = 1 THEN seqs[i] ELSE f[i - 1] \o seqs[i]]
<1>0. n \in Nat /\ DOMAIN seqs = 1 .. n /\ \A i \in 1 .. n : seqs[i] \in V
  OBVIOUS
<1>1. CASE n = 0
  <2>1. Seqs!FlattenSeq(seqs) = seqs /\ seqs = <<>>
    BY <1>1 DEF Seqs!FlattenSeq
  <2> QED BY <2>1, <1>0, <1>1
<1>2. CASE n # 0
  <2> DEFINE step == [i \in 1 .. n |-> [s \in V |-> s \o seqs[i]]]
  <2>1. Seqs!FlattenSeq(seqs) = flatten[n]
    BY <1>2 DEF Seqs!FlattenSeq
  <2>2. <<>> \in V /\ \A s, t \in V : s \o t \in V
    BY ConcatProperties
  <2>3. step \in [1 .. n -> [V -> V]]
    <3> HIDE DEF V, n
    <3> QED BY <1>0, <2>2
  <2>4. \E f \in [0 .. n -> V] : Iterates(f, n, <<>>, step)
    <3> HIDE DEF V, n, step
    <3> QED BY <1>0, <2>2, <2>3, IterationExists
  <2>5. PICK f \in [0 .. n -> V] : Iterates(f, n, <<>>, step)
    BY <2>4
  <2>6. f[0] = <<>> /\ \A i \in 1 .. n : f[i] = f[i - 1] \o seqs[i] /\ f[i - 1] \in V
    <3>1. \A i \in 1 .. n : i - 1 \in 0 .. n
      BY <1>0
    <3> HIDE DEF V, n
    <3> QED BY <2>5, <3>1 DEF Iterates
  <2>7. f[1] = seqs[1]
    <3>1. 1 \in 1 .. n /\ 1 - 1 = 0
      BY <1>0, <1>2
    <3>2. f[1] = <<>> \o seqs[1] /\ seqs[1] \in V
      BY <1>0, <2>6, <3>1
    <3> QED BY <3>2, ConcatEmptySeq
  <2> DEFINE g == [i \in 1 .. n |-> f[i]]
  <2>8. g = [i \in 1 .. n |-> IF i = 1 THEN seqs[i] ELSE g[i - 1] \o seqs[i]]
    <3>1. \A i \in 1 .. n : i # 1 => i - 1 \in 1 .. n
      BY <1>0
    <3> HIDE DEF n
    <3> QED BY <2>6, <2>7, <3>1
  <2>9. flatten = [i \in 1 .. n |-> IF i = 1 THEN seqs[i] ELSE flatten[i - 1] \o seqs[i]]
    <3> HIDE DEF n, g
    <3> QED BY <2>8
  <2> HIDE DEF flatten, g
  <2>10. \A i \in 1 .. n : flatten[i] = IF i = 1 THEN seqs[i] ELSE flatten[i - 1] \o seqs[i]
    BY <2>9
  <2> DEFINE Right(i) == /\ flatten[i] \in V
                         /\ \A j \in 1 .. i : \A k \in DOMAIN seqs[j] : Among(seqs[j][k], flatten[i])
                         /\ \A m \in DOMAIN flatten[i] : \E j \in 1 .. i : Among(flatten[i][m], seqs[j])
             G == {i \in 0 .. n : i = 0 \/ Right(i)}
  <2>11. ASSUME NEW i \in 1 .. n, i - 1 \in G PROVE i \in G
    <3>1. CASE i = 1
      <4>1. flatten[i] = seqs[1]
        BY <2>10, <3>1
      <4>2. \A k \in DOMAIN seqs[1] : Among(seqs[1][k], seqs[1])
        BY DEF Among
      <4> QED BY <1>0, <3>1, <4>1, <4>2
    <3>2. CASE i # 1
      <4>1. Right(i - 1) /\ flatten[i] = flatten[i - 1] \o seqs[i] /\ i - 1 \in 1 .. n
        <5>1. i - 1 \in 1 .. n /\ i - 1 # 0
          BY <1>0, <3>2
        <5>2. flatten[i] = flatten[i - 1] \o seqs[i]
          BY <2>10, <3>2
        <5> HIDE DEF Right, n
        <5>3. Right(i - 1)
          BY <2>11, <5>1
        <5> QED BY <5>1, <5>2, <5>3
      <4> DEFINE s == flatten[i - 1]
                 t == seqs[i]
      <4>2. s \in V /\ t \in V /\ flatten[i] = s \o t /\ Len(s) \in Nat /\ Len(t) \in Nat
        BY <1>0, <4>1
      <4>3. /\ s \o t \in V /\ DOMAIN (s \o t) = 1 .. (Len(s) + Len(t))
            /\ \A m \in DOMAIN s : m \in DOMAIN (s \o t) /\ (s \o t)[m] = s[m]
            /\ \A m \in DOMAIN t : m + Len(s) \in DOMAIN (s \o t) /\ (s \o t)[m + Len(s)] = t[m]
            /\ \A m \in DOMAIN (s \o t) : \/ m \in DOMAIN s /\ (s \o t)[m] = s[m]
                                          \/ m - Len(s) \in DOMAIN t /\ (s \o t)[m] = t[m - Len(s)]
        <5> HIDE DEF s, t
        <5> QED BY <4>2, ConcatProperties, LenProperties
      <4>4. \A j \in 1 .. i : \A k \in DOMAIN seqs[j] : Among(seqs[j][k], flatten[i])
        <5> SUFFICES ASSUME NEW j \in 1 .. i, NEW k \in DOMAIN seqs[j] PROVE Among(seqs[j][k], s \o t)
          BY <4>2
        <5>1. CASE j = i
          BY <4>3, <5>1 DEF Among
        <5>2. CASE j # i
          <6>1. j \in 1 .. (i - 1)
            BY <1>0, <5>2
          <6>2. Among(seqs[j][k], s)
            BY <4>1, <6>1
          <6> HIDE DEF s, t
          <6> QED BY <4>3, <6>2 DEF Among
        <5> QED BY <5>1, <5>2
      <4>5. \A m \in DOMAIN flatten[i] : \E j \in 1 .. i : Among(flatten[i][m], seqs[j])
        <5> SUFFICES ASSUME NEW m \in DOMAIN (s \o t) PROVE \E j \in 1 .. i : Among((s \o t)[m], seqs[j])
          BY <4>2
        <5>1. CASE m \in DOMAIN s /\ (s \o t)[m] = s[m]
          <6>1. PICK j \in 1 .. (i - 1) : Among(s[m], seqs[j])
            BY <4>1, <5>1
          <6>2. j \in 1 .. i
            BY <1>0
          <6> QED BY <5>1, <6>1, <6>2
        <5>2. CASE m - Len(s) \in DOMAIN t /\ (s \o t)[m] = t[m - Len(s)]
          <6>1. Among((s \o t)[m], seqs[i])
            BY <5>2 DEF Among
          <6>2. i \in 1 .. i
            BY <1>0
          <6> QED BY <6>1, <6>2
        <5> QED BY <4>3, <5>1, <5>2
      <4>6. flatten[i] \in V
        BY <4>2, <4>3
      <4> QED BY <4>4, <4>5, <4>6
    <3> QED BY <3>1, <3>2
  <2>12. \A i \in 0 .. n : i \in G
    <3>1. 0 \in G
      BY <1>0
    <3> HIDE DEF G, n
    <3> QED BY <1>0, <2>11, <3>1, UpTo
  <2>13. Right(n)
    <3> HIDE DEF Right
    <3> QED BY <1>0, <1>2, <2>12
  <2> QED BY <1>0, <2>1, <2>13
<1> QED
  BY <1>1, <1>2

\* The calls for an output.
LEMMA CallsOfOutput ==
  ASSUME NEW output \in Outputs, OutputOK(output)
  PROVE  /\ Loads(output) \in Seq(Calls)
         /\ \A k \in DOMAIN Loads(output) : CallOK(Loads(output)[k]) /\ Loads(output)[k].agg # "none"
         /\ PrintedFor(output) \in Seq(Calls)
         /\ \A k \in DOMAIN PrintedFor(output) :
              /\ CallOK(PrintedFor(output)[k])
              /\ PrintedFor(output)[k].agg # "none" => Among(PrintedFor(output)[k], Loads(output))
              /\ PrintedFor(output)[k].agg = "none" =>
                   ~output.is_agg /\ PrintedFor(output)[k].column = output.col_name
<1>1. CASE ~output.is_agg
  <2> DEFINE call == ColumnCall(output.col_name)
  <2>1. Loads(output) = <<>> /\ PrintedFor(output) = <<call>>
    BY <1>1 DEF Loads, PrintedFor
  <2>2. call \in Calls /\ call.agg = "none" /\ CallOK(call) /\ call.column = output.col_name
    BY <1>1 DEF ColumnCall, Calls, CallOK, CallFits, OutputOK, OutputFits, NULL
  <2> HIDE DEF call
  <2> QED BY <1>1, <2>1, <2>2
<1>2. CASE output.is_agg
  <2>1. /\ output.arg \in Handles /\ output.arg \in Nat /\ Function(output.fun)
    BY <1>2 DEF OutputOK, OutputFits, Handles
  <2>2. \A type \in AggTypes :
          /\ AggCall(type, output.arg) \in Calls /\ CallOK(AggCall(type, output.arg))
          /\ AggCall(type, output.arg).agg # "none"
    BY <2>1, OpsAssumption DEF AggCall, Calls, CallOK, CallFits, AggFunctions
  <2>3. CASE output.fun = "Avg"
    <3> DEFINE c == AggCall("Sum", output.arg)
               d == AggCall("Count", output.arg)
    <3>1. Loads(output) = <<c, d>> /\ PrintedFor(output) = <<c, d>>
      BY <1>2, <2>3 DEF Loads, LoadedFor, PrintedFor
    <3>2. /\ c \in Calls /\ CallOK(c) /\ c.agg # "none"
          /\ d \in Calls /\ CallOK(d) /\ d.agg # "none"
      BY <2>1, <2>2, <2>3 DEF Function
    <3> HIDE DEF c, d
    <3> QED BY <3>1, <3>2 DEF Among
  <2>4. CASE output.fun # "Avg"
    <3> DEFINE c == AggCall(output.fun, output.arg)
    <3>1. Loads(output) = <<c>> /\ PrintedFor(output) = <<c>>
      BY <1>2, <2>4 DEF Loads, LoadedFor, PrintedFor
    <3>2. c \in Calls /\ CallOK(c) /\ c.agg # "none"
      BY <2>1, <2>2, <2>4 DEF Function
    <3> HIDE DEF c
    <3> QED BY <3>1, <3>2 DEF Among
  <2> QED BY <2>3, <2>4
<1> QED
  BY <1>1, <1>2

\* What load() is to ask for: every aggregate of the outputs, and nothing else.
LEMMA CallsOfLoad ==
  ASSUME TreeOK
  PROVE  /\ LoadCalls \in Seq(Calls)
         /\ \A n \in DOMAIN LoadCalls : CallOK(LoadCalls[n]) /\ LoadCalls[n].agg # "none"
         /\ \A i \in DOMAIN outputs : \A k \in DOMAIN Loads(outputs[i]) :
              Among(Loads(outputs[i])[k], LoadCalls)
<1> DEFINE seqs == [i \in DOMAIN outputs |-> Loads(outputs[i])]
<1>1. \A i \in DOMAIN outputs : outputs[i] \in Outputs /\ OutputOK(outputs[i])
  <2> HIDE DEF Outputs
  <2> QED BY DEF TreeOK
<1>2. \A i \in DOMAIN outputs : Loads(outputs[i]) \in Seq(Calls)
  BY <1>1, CallsOfOutput
<1>3. seqs \in Seq(Seq(Calls)) /\ DOMAIN seqs = DOMAIN outputs
      /\ \A i \in DOMAIN outputs : seqs[i] = Loads(outputs[i])
  <2>1. Len(outputs) \in Nat /\ DOMAIN outputs = 1 .. Len(outputs)
    BY DEF TreeOK
  <2> HIDE DEF Calls
  <2> QED BY <1>2, <2>1
<1>4. LoadCalls = Seqs!FlattenSeq(seqs)
  BY DEF LoadCalls
<1> HIDE DEF seqs
<1>5. \A n \in DOMAIN LoadCalls : CallOK(LoadCalls[n]) /\ LoadCalls[n].agg # "none"
  <2> SUFFICES ASSUME NEW n \in DOMAIN LoadCalls
               PROVE  CallOK(LoadCalls[n]) /\ LoadCalls[n].agg # "none"
    OBVIOUS
  <2>1. PICK i \in DOMAIN outputs : Among(LoadCalls[n], Loads(outputs[i]))
    BY <1>3, <1>4, Flattened
  <2> QED BY <1>1, <2>1, CallsOfOutput DEF Among
<1> QED
  BY <1>3, <1>4, <1>5, Flattened

\* A column that is an output itself, or is in GROUP BY or ORDER BY.
Printed(name) ==
  \/ \E i \in DOMAIN outputs : ~outputs[i].is_agg /\ name = outputs[i].col_name
  \/ \E i \in DOMAIN groupby : name = groupby[i]
  \/ \E i \in DOMAIN orderby : name = orderby[i]

\* What print() is to ask for: aggregates that load() asked for, and columns.
LEMMA CallsOfPrint ==
  ASSUME TreeOK
  PROVE  /\ PrintCalls \in Seq(Calls)
         /\ \A n \in DOMAIN PrintCalls :
              /\ CallOK(PrintCalls[n])
              /\ PrintCalls[n].agg # "none" =>
                   \E i \in DOMAIN outputs : Among(PrintCalls[n], Loads(outputs[i]))
              /\ PrintCalls[n].agg = "none" => Printed(PrintCalls[n].column)
<1> DEFINE seqs == [i \in DOMAIN outputs |-> PrintedFor(outputs[i])]
           Good(call) == /\ CallOK(call)
                         /\ call.agg # "none" => \E i \in DOMAIN outputs : Among(call, Loads(outputs[i]))
                         /\ call.agg = "none" => Printed(call.column)
<1>1. \A i \in DOMAIN outputs : outputs[i] \in Outputs /\ OutputOK(outputs[i])
  <2> HIDE DEF Outputs
  <2> QED BY DEF TreeOK
<1>2. \A i \in DOMAIN outputs : PrintedFor(outputs[i]) \in Seq(Calls)
  BY <1>1, CallsOfOutput
<1>3. seqs \in Seq(Seq(Calls)) /\ DOMAIN seqs = DOMAIN outputs
      /\ \A i \in DOMAIN outputs : seqs[i] = PrintedFor(outputs[i])
  <2>1. Len(outputs) \in Nat /\ DOMAIN outputs = 1 .. Len(outputs)
    BY DEF TreeOK
  <2> HIDE DEF Calls
  <2> QED BY <1>2, <2>1
<1> DEFINE head == Seqs!FlattenSeq(seqs)
<1>4. head \in Seq(Calls) /\ \A n \in DOMAIN head : Good(head[n])
  <2>1. head \in Seq(Calls) /\ \A n \in DOMAIN head : \E i \in DOMAIN outputs : Among(head[n], PrintedFor(outputs[i]))
    <3> HIDE DEF seqs
    <3> QED BY <1>3, Flattened
  <2> HIDE DEF head
  <2> SUFFICES ASSUME NEW n \in DOMAIN head PROVE Good(head[n])
    BY <2>1
  <2>2. PICK i \in DOMAIN outputs : Among(head[n], PrintedFor(outputs[i]))
    BY <2>1
  <2>3. PICK k \in DOMAIN PrintedFor(outputs[i]) : head[n] = PrintedFor(outputs[i])[k]
    BY <2>2 DEF Among
  <2> QED BY <1>1, <2>3, CallsOfOutput DEF Printed
<1>5. ASSUME NEW names \in Seq(ColumnNames), \A n \in DOMAIN names : Printed(names[n])
      PROVE  ColumnCalls(names) \in Seq(Calls) /\ \A n \in DOMAIN ColumnCalls(names) : Good(ColumnCalls(names)[n])
  <2>1. \A name \in ColumnNames :
          Printed(name) => ColumnCall(name) \in Calls /\ Good(ColumnCall(name))
    BY DEF ColumnCall, Calls, CallOK, CallFits, NULL
  <2> HIDE DEF Good
  <2>2. \A n \in DOMAIN names : ColumnCall(names[n]) \in Calls /\ Good(ColumnCall(names[n]))
    BY <1>5, <2>1
  <2>3. Len(names) \in Nat /\ DOMAIN names = 1 .. Len(names)
    OBVIOUS
  <2> HIDE DEF Calls
  <2> QED BY <2>2, <2>3 DEF ColumnCalls
<1>6. ASSUME NEW s \in Seq(Calls), NEW t \in Seq(Calls),
             \A n \in DOMAIN s : Good(s[n]), \A n \in DOMAIN t : Good(t[n])
      PROVE  s \o t \in Seq(Calls) /\ \A n \in DOMAIN (s \o t) : Good((s \o t)[n])
  <2> HIDE DEF Good, Calls
  <2>1. /\ s \o t \in Seq(Calls) /\ Len(s \o t) = Len(s) + Len(t)
        /\ Len(s) \in Nat /\ Len(t) \in Nat
        /\ \A i \in 1 .. Len(s) + Len(t) : (s \o t)[i] = IF i <= Len(s) THEN s[i] ELSE t[i - Len(s)]
    BY ConcatProperties
  <2>2. DOMAIN (s \o t) = 1 .. Len(s) + Len(t)
    BY <2>1
  <2>3. ASSUME NEW i \in 1 .. Len(s) + Len(t) PROVE Good((s \o t)[i])
    <3>1. CASE i <= Len(s)
      <4>1. i \in DOMAIN s /\ (s \o t)[i] = s[i]
        BY <2>1, <3>1
      <4> QED BY <1>6, <4>1
    <3>2. CASE ~(i <= Len(s))
      <4>1. i - Len(s) \in DOMAIN t /\ (s \o t)[i] = t[i - Len(s)]
        BY <2>1, <3>2
      <4> QED BY <1>6, <4>1
    <3> QED BY <3>1, <3>2
  <2> QED BY <2>1, <2>2, <2>3
<1>7. PrintCalls = head \o ColumnCalls(groupby) \o ColumnCalls(orderby)
  BY DEF PrintCalls
<1>8. /\ groupby \in Seq(ColumnNames) /\ \A n \in DOMAIN groupby : Printed(groupby[n])
      /\ orderby \in Seq(ColumnNames) /\ \A n \in DOMAIN orderby : Printed(orderby[n])
  BY DEF TreeOK, Printed
<1>9. PrintCalls \in Seq(Calls) /\ \A n \in DOMAIN PrintCalls : Good(PrintCalls[n])
  <2> HIDE DEF Good, head, Calls
  <2>1. /\ head \o ColumnCalls(groupby) \in Seq(Calls)
        /\ \A n \in DOMAIN (head \o ColumnCalls(groupby)) : Good((head \o ColumnCalls(groupby))[n])
    BY <1>4, <1>5, <1>6, <1>8
  <2> QED BY <1>5, <1>6, <1>7, <1>8, <2>1
<1> QED
  BY <1>9

\* The aggregates of outputs that are loaded stay loaded.
LEMMA LoadedStays ==
  ASSUME Grown, NEW call, LoadedIn(m_aggs, call)
  PROVE  LoadedIn(m_aggs', call)
BY DEF Grown, LoadedIn

\* A call of load() puts its aggregate in the API's table.
LEMMA LoadsCall ==
  ASSUME TypeOK, NEW type, NEW k, Aggregate(type, k), NEW call, call.agg = type, call.arg = k
  PROVE  LoadedIn(m_aggs', call)
<1>1. m_aggs \in Seq([agg_type : AggTypes, expr : Handles]) /\ Len(m_aggs) \in Nat
      /\ DOMAIN m_aggs = 1 .. Len(m_aggs)
  BY DEF TypeOK
<1> DEFINE agg == [agg_type |-> type, expr |-> k]
<1>2. CASE m_aggs' = m_aggs /\ \E i \in 1 .. Len(m_aggs) : SameAgg(agg, m_aggs[i])
  BY <1>1, <1>2 DEF LoadedIn, SameAgg
<1>3. CASE m_aggs' = Append(m_aggs, agg)
  <2>1. Len(m_aggs) + 1 \in DOMAIN m_aggs' /\ m_aggs'[Len(m_aggs) + 1] = agg
    BY <1>1, <1>3
  <2> QED BY <2>1 DEF LoadedIn
<1> QED
  BY <1>2, <1>3 DEF Aggregate

\* What is left of the calls when the first one has been made.
LEMMA RestOfCalls ==
  ASSUME NEW S, NEW calls \in Seq(S), calls # <<>>
  PROVE  /\ Tail(calls) \in Seq(S) /\ Head(calls) = calls[1] /\ 1 \in DOMAIN calls
         /\ \A i \in DOMAIN Tail(calls) : i + 1 \in DOMAIN calls /\ Tail(calls)[i] = calls[i + 1]
         /\ \A call : Among(call, calls) => call = calls[1] \/ Among(call, Tail(calls))
<1>1. Tail(calls) \in Seq(S) /\ Len(Tail(calls)) = Len(calls) - 1 /\ Len(calls) \in Nat \ {0}
      /\ \A i \in 1 .. Len(Tail(calls)) : Tail(calls)[i] = calls[i + 1]
  BY HeadTailProperties, LenProperties, EmptySeq
<1>2. ASSUME NEW call, Among(call, calls), call # calls[1] PROVE Among(call, Tail(calls))
  <2>1. PICK n \in DOMAIN calls : calls[n] = call
    BY <1>2 DEF Among
  <2>2. n # 1 /\ n - 1 \in DOMAIN Tail(calls) /\ Tail(calls)[n - 1] = call
    BY <1>1, <1>2, <2>1
  <2> QED BY <2>2 DEF Among
<1> QED
  BY <1>1, <1>2

\* The calls still to be made are those of what has been parsed, and everything
\* that print() will ask for is loaded.
LEMMA CallsKept ==
  ASSUME TypeOK, LookOK, StackOK, TreeOK, ColumnsOK, CallsOK, Grown, [PreparerNext]_vars
  PROVE  CallsOK'
<1>0. /\ status \in Statuses /\ (status \in Early => m_status = "PROGRAMMING")
      /\ todo \in Seq(Calls) /\ \A i \in DOMAIN todo : CallFits(todo[i], Handles')
      /\ status \notin {"LOADING", "PRINTING"} => todo = <<>>
  BY DEF CallsOK, CallOK, CallFits, Grown
\* Steps of the parser and those that change nothing.
<1>1. ASSUME UNCHANGED <<status, todo>>, status \in {"LOADING", "LOADED", "COMPILED"} => outputs' = outputs,
             m_status' = m_status
      PROVE  CallsOK'
  <2>1. status = "PRINTING" => \A i \in DOMAIN todo : todo[i].agg # "none" => LoadedIn(m_aggs', todo[i])
    BY LoadedStays DEF CallsOK, Loaded
  <2>2. status \in {"LOADING", "LOADED", "COMPILED"} =>
          \A i \in DOMAIN outputs : \A k \in DOMAIN Loads(outputs[i]) :
            LoadedIn(m_aggs', Loads(outputs[i])[k]) \/ Among(Loads(outputs[i])[k], todo)
    BY LoadedStays DEF CallsOK, Loaded
  <2>3. status = "LOADING" => \A i \in DOMAIN todo : todo[i].agg # "none"
    BY DEF CallsOK
  <2> QED BY <1>0, <1>1, <2>1, <2>2, <2>3 DEF CallsOK, CallOK, Loaded
<1>2. CASE UNCHANGED vars
  BY <1>1, <1>2 DEF vars, parserVars, exprVars
<1>3. CASE ParserStep
  <2>1. UNCHANGED <<status, todo>> /\ status = "PARSING" /\ PreparerNext
    BY <1>3 DEF ParserStep, PreparerNext
  <2>2. m_status' = m_status
    BY <2>1, StepCallsApi DEF exprVars, Compile
  <2> QED BY <1>1, <2>1, <2>2
<1>4. CASE BeginParse
  <2>1. status = "INITIALIZED" /\ status' = "PARSING" /\ UNCHANGED <<todo, m_status>>
    BY <1>4 DEF BeginParse, exprVars
  <2> QED BY <1>0, <2>1 DEF CallsOK, Statuses, Early, CallOK
<1>5. CASE ParseReturns
  <2>1. status = "PARSING" /\ status' \in {"PARSED", "FAILED"} /\ UNCHANGED <<todo, m_status>>
    BY <1>5 DEF ParseReturns, exprVars
  <2> QED BY <1>0, <2>1 DEF CallsOK, Statuses, Early, CallOK
<1>6. CASE BeginLoad
  <2>1. status = "PARSED" /\ status' = "LOADING" /\ todo' = LoadCalls
        /\ UNCHANGED <<m_status, outputs, m_exprs, m_aggs>>
    BY <1>6 DEF BeginLoad, exprVars, parserVars
  <2>2. /\ todo' \in Seq(Calls)
        /\ \A n \in DOMAIN todo' : CallFits(todo'[n], Handles') /\ todo'[n].agg # "none"
        /\ \A i \in DOMAIN outputs : \A k \in DOMAIN Loads(outputs[i]) : Among(Loads(outputs[i])[k], todo')
    BY <2>1, CallsOfLoad DEF CallOK, Handles
  <2> QED BY <1>0, <2>1, <2>2 DEF CallsOK, Statuses, Early, CallOK
<1>7. CASE LoadAggregate
  <2>1. /\ status = "LOADING" /\ status' = status /\ todo # <<>> /\ todo' = Tail(todo)
        /\ Aggregate(Head(todo).agg, Head(todo).arg) /\ UNCHANGED <<m_status, outputs>>
    BY <1>7 DEF LoadAggregate, Aggregate, parserVars
  <2>2. /\ todo' \in Seq(Calls) /\ Head(todo) = todo[1]
        /\ \A i \in DOMAIN todo' : i + 1 \in DOMAIN todo /\ todo'[i] = todo[i + 1]
        /\ \A call : Among(call, todo) => call = todo[1] \/ Among(call, todo')
    BY <1>0, <2>1, RestOfCalls
  <2>3. LoadedIn(m_aggs', todo[1])
    BY <2>1, <2>2, LoadsCall
  <2>4. ASSUME NEW i \in DOMAIN outputs, NEW k \in DOMAIN Loads(outputs[i])
        PROVE  LoadedIn(m_aggs', Loads(outputs[i])[k]) \/ Among(Loads(outputs[i])[k], todo')
    <3>1. LoadedIn(m_aggs, Loads(outputs[i])[k]) \/ Among(Loads(outputs[i])[k], todo)
      BY <2>1 DEF CallsOK, Loaded
    <3> QED BY <2>2, <2>3, <3>1, LoadedStays
  <2>5. \A i \in DOMAIN todo' : CallFits(todo'[i], Handles') /\ todo'[i].agg # "none"
    BY <1>0, <2>1, <2>2 DEF CallsOK
  <2> QED BY <1>0, <2>1, <2>2, <2>4, <2>5 DEF CallsOK, CallOK, Loaded
<1>8. CASE LoadReturns
  <2>1. status = "LOADING" /\ status' \in {"LOADED", "FAILED"} /\ todo = <<>>
        /\ UNCHANGED <<todo, m_status, outputs, m_aggs>>
    BY <1>8 DEF LoadReturns, exprVars, parserVars
  <2>2. \A i \in DOMAIN outputs : \A k \in DOMAIN Loads(outputs[i]) :
          LoadedIn(m_aggs, Loads(outputs[i])[k]) \/ Among(Loads(outputs[i])[k], todo)
    BY <2>1 DEF CallsOK, Loaded
  <2> QED BY <1>0, <2>1, <2>2 DEF CallsOK, Statuses, Early, CallOK, Loaded
<1>9. CASE Compile
  <2>1. status = "LOADED" /\ status' \in {"COMPILED", "FAILED"} /\ UNCHANGED <<todo, outputs, m_aggs>>
    BY <1>9 DEF Compile, parserVars
  <2>2. \A i \in DOMAIN outputs : \A k \in DOMAIN Loads(outputs[i]) :
          LoadedIn(m_aggs, Loads(outputs[i])[k]) \/ Among(Loads(outputs[i])[k], todo)
    BY <2>1 DEF CallsOK, Loaded
  <2> QED BY <1>0, <2>1, <2>2 DEF CallsOK, Statuses, Early, CallOK, Loaded
<1>10. CASE BeginPrint
  <2>1. status = "COMPILED" /\ status' = "PRINTING" /\ todo' = PrintCalls
        /\ UNCHANGED <<outputs, m_exprs, m_aggs>>
    BY <1>10 DEF BeginPrint, exprVars, parserVars
  <2>2. todo' \in Seq(Calls) /\ \A n \in DOMAIN todo' : CallFits(todo'[n], Handles')
    BY <2>1, CallsOfPrint DEF CallOK, Handles
  <2>3. ASSUME NEW n \in DOMAIN todo', todo'[n].agg # "none" PROVE LoadedIn(m_aggs, todo'[n])
    <3>1. PICK i \in DOMAIN outputs : Among(todo'[n], Loads(outputs[i]))
      BY <2>1, <2>3, CallsOfPrint
    <3>2. PICK k \in DOMAIN Loads(outputs[i]) : Loads(outputs[i])[k] = todo'[n]
      BY <3>1 DEF Among
    <3>3. LoadedIn(m_aggs, todo'[n]) \/ Among(todo'[n], todo)
      BY <2>1, <3>2 DEF CallsOK, Loaded
    <3>4. todo = <<>>
      BY <1>0, <2>1
    <3> QED BY <3>3, <3>4 DEF Among
  <2> QED BY <1>0, <2>1, <2>2, <2>3 DEF CallsOK, Statuses, Early, CallOK, Loaded
<1>11. CASE PrintAggregate \/ PrintColumn
  <2>1. status = "PRINTING" /\ status' = status /\ todo # <<>> /\ todo' = Tail(todo)
        /\ UNCHANGED <<m_exprs, m_aggs>>
    BY <1>11 DEF PrintAggregate, PrintColumn, exprVars
  <2>2. /\ todo' \in Seq(Calls)
        /\ \A i \in DOMAIN todo' : i + 1 \in DOMAIN todo /\ todo'[i] = todo[i + 1]
    BY <1>0, <2>1, RestOfCalls
  <2>3. \A i \in DOMAIN todo' : /\ CallFits(todo'[i], Handles')
                                /\ todo'[i].agg # "none" => LoadedIn(m_aggs, todo'[i])
    BY <1>0, <2>1, <2>2 DEF CallsOK, Loaded
  <2> QED BY <1>0, <2>1, <2>2, <2>3 DEF CallsOK, Statuses, Early, CallOK, Loaded
<1>12. CASE PrintReturns
  <2>1. status = "PRINTING" /\ status' = "PRINTED" /\ todo = <<>> /\ UNCHANGED todo
    BY <1>12 DEF PrintReturns
  <2> QED BY <1>0, <2>1 DEF CallsOK, Statuses, Early, CallOK
<1> QED
  BY <1>2, <1>3, <1>4, <1>5, <1>6, <1>7, <1>8, <1>9, <1>10, <1>11, <1>12 DEF PreparerNext

-----------------------------------------------------------------------------
(* The theorems                                                              *)

\* The invariant holds initially.
LEMMA InvHolds == PreparerInit => Inv
<1> SUFFICES ASSUME PreparerInit PROVE Inv
  OBVIOUS
<1> USE DEF PreparerInit, ParserInit, ErrorsInit
<1>1. TypeOK
  BY InitTypes
<1>2. LookOK /\ ErrOK
  BY Lookaheads DEF LookOK, ErrOK, Locations, Location
<1>3. StackOK
  <2>1. m_exprs = <<>>
    BY DEF Init
  <2> QED BY <2>1, EmptySeq DEF StackOK, Places
<1>4. TreeOK
  <2>1. NoOutput \in Outputs
    <3>1. <<>> \in Seq(Words) /\ NULL \in Nat /\ Location(0, 0) \in Locations
      BY DEF NULL, Location, Locations
    <3> HIDE DEF Words, Locations
    <3> QED BY <3>1 DEF Outputs, NoOutput
  <2> HIDE DEF Outputs
  <2> QED BY <2>1, EmptySeq DEF TreeOK, Within, Behind
<1>5. ColumnsOK
  BY EmptySeq DEF ColumnsOK, Injective, LoadsIn, Init
<1>6. CallsOK
  BY EmptySeq DEF CallsOK, Statuses, Early, Init
<1> QED
  BY <1>1, <1>2, <1>3, <1>4, <1>5, <1>6 DEF Inv

\* Every step keeps it.
LEMMA InvKept == Inv /\ [PreparerNext]_vars => Inv'
<1> SUFFICES ASSUME Inv, [PreparerNext]_vars PROVE Inv'
  OBVIOUS
<1> USE DEF Inv
<1>1. TypeOK' /\ Grown
  BY TypesKept
<1>2. LexerStep
  BY StepIsLexerStep
<1>3. LookOK'
  BY <1>2, LookKept
<1>4. ErrOK'
  BY <1>2, <1>3, ErrKept
<1>5. StackOK' /\ TreeOK' /\ ColumnsOK' /\ CallsOK'
  BY <1>1, StackKept, TreeKept, ColumnsKept, CallsKept
<1> QED
  BY <1>1, <1>3, <1>4, <1>5

\* At every time the tables, the places and the stack are of their types: an
\* expression on the stack has one operand more than operators between two.
THEOREM PreparerTypesAlwaysHold == PreparerSpec => []PreparerTypeOK
<1>1. Inv => PreparerTypeOK
  <2> SUFFICES ASSUME Inv PROVE PreparerTypeOK
    OBVIOUS
  <2>1. \A i \in DOMAIN outputs :
          outputs[i].arg \in (IF outputs[i].is_agg THEN Handles ELSE {NULL})
    BY DEF Inv, TreeOK, OutputOK, OutputFits
  <2>2. \A i \in DOMAIN args : args[i] \in Handles
    BY DEF Inv, StackOK
  <2>3. at = "operator" => Len(args) = Cardinality({i \in DOMAIN ops : ops[i] \in ArithOps}) + 1
    BY DEF Inv, StackOK, Binary
  <2> QED BY <2>1, <2>2, <2>3 DEF Inv, PreparerTypeOK, CallsOK, Statuses, LookOK, ErrOK
<1> QED
  BY <1>1, InvHolds, InvKept, PTL DEF PreparerSpec

\* A syntax error is found in the last token read or right behind the text, and
\* neither rsqlp_error nor parse() fails an assert on the way.
THEOREM SyntaxErrorAlwaysLocated == PreparerSpec => []SyntaxErrorIsLocated
<1>1. Inv => SyntaxErrorIsLocated
  BY DEF Inv, ErrOK, SyntaxErrorIsLocated
<1> QED
  BY <1>1, InvHolds, InvKept, PTL DEF PreparerSpec

\* Whatever the outputs are, load() has asked for every aggregate that print()
\* asks for.
THEOREM PrintAlwaysFindsAggregates == PreparerSpec => []PrintFindsAggregates
<1>1. Inv => PrintFindsAggregates
  BY DEF Inv, ErrOK, PrintFindsAggregates
<1> QED
  BY <1>1, InvHolds, InvKept, PTL DEF PreparerSpec

-----------------------------------------------------------------------------
(* Every index belongs to a column that is named                             *)

\* A column that a complete output, GROUP BY or ORDER BY names, or that the
\* output being parsed does.
Entered(name) ==
  \/ \E i \in DOMAIN outputs : name \in ColumnsIn(outputs[i].text)
  \/ \E i \in DOMAIN groupby : name = groupby[i]
  \/ \E i \in DOMAIN orderby : name = orderby[i]
Named(name) == name \in ColumnsIn(out.text) \/ Entered(name)

\* A column that is an output is its text.
Own(output) == ~output.is_agg => output.col_name \in ColumnsIn(output.text)

\* The columns that have an index, and those that print() is still to ask for,
\* are named; the output being parsed is forgotten only when it is complete.
NamedOK ==
  /\ \A i \in DOMAIN m_identifiers : Named(m_identifiers[i])
  /\ at \notin Within \cup Behind => \A name \in ColumnsIn(out.text) : Entered(name)
  /\ at = "star" => out.text = <<>>
  /\ \A i \in DOMAIN outputs : Own(outputs[i])
  /\ at \in Behind => Own(out)
  /\ status = "PRINTING" => \A i \in DOMAIN todo : todo[i].agg = "none" => Named(todo[i].column)

\* A column that is searched for is the only one that may be new.
LEMMA SeenColumns ==
  ASSUME m_identifiers \in Seq(ColumnNames), NEW name, NEW i \in DOMAIN Seen(name)
  PROVE  Seen(name)[i] = name \/ \E j \in DOMAIN m_identifiers : Seen(name)[i] = m_identifiers[j]
<1>1. CASE Seen(name) = m_identifiers
  BY <1>1
<1>2. CASE Seen(name) = Append(m_identifiers, name)
  <2>1. Len(m_identifiers) \in Nat /\ DOMAIN m_identifiers = 1 .. Len(m_identifiers)
    OBVIOUS
  <2> QED BY <1>2, <2>1
<1> QED
  BY <1>1, <1>2 DEF Seen

\* A text keeps its columns when the next word is added.
LEMMA ColumnsOfText ==
  ASSUME NEW S, NEW text \in Seq(S), NEW word
  PROVE  /\ ColumnsIn(<<>>) = {}
         /\ ColumnsIn(text) \subseteq ColumnsIn(Append(text, word))
         /\ word.token = "IDENTIFIER" =>
              word.val \in ColumnsIn(<<word>>) /\ word.val \in ColumnsIn(Append(text, word))
<1>1. Len(text) \in Nat /\ DOMAIN text = 1 .. Len(text)
  OBVIOUS
<1>2. /\ DOMAIN Append(text, word) = 1 .. (Len(text) + 1)
      /\ \A k \in DOMAIN text : Append(text, word)[k] = text[k]
      /\ Append(text, word)[Len(text) + 1] = word
  BY <1>1
<1>3. ColumnsIn(text) \subseteq ColumnsIn(Append(text, word))
  BY <1>1, <1>2 DEF ColumnsIn
<1>4. ColumnsIn(<<>>) = {}
  BY DEF ColumnsIn
<1>5. ASSUME word.token = "IDENTIFIER"
      PROVE  word.val \in ColumnsIn(<<word>>) /\ word.val \in ColumnsIn(Append(text, word))
  <2>1. Len(text) + 1 \in DOMAIN Append(text, word)
    BY <1>1, <1>2
  <2>2. 1 \in DOMAIN <<word>> /\ <<word>>[1] = word
    OBVIOUS
  <2> QED BY <1>2, <1>5, <2>1, <2>2 DEF ColumnsIn
<1> QED
  BY <1>3, <1>4, <1>5

\* The outputs and lists of columns stay what they are.
SameTexts == UNCHANGED <<out, outputs, groupby, orderby>>

\* The steps that change them, or the columns that have an index.
LEMMA QuietSteps ==
  ASSUME [PreparerNext]_vars
  PROVE  \/ SameTexts /\ m_identifiers' = m_identifiers /\ (at' = at \/ Move \/ Star)
         \/ PrintColumn /\ SameTexts /\ at' = at
         \/ OutputColumn \/ OutputAggregate \/ CountStar \/ OperandColumn \/ OperandInteger
         \/ Prefix \/ Operator \/ Close \/ Alias \/ ReduceOutput \/ GroupColumn \/ OrderColumn
<1> USE DEF SameTexts
<1>1. CASE UNCHANGED vars
  BY <1>1 DEF vars, parserVars
<1>2. CASE BeginParse \/ ParseReturns \/ BeginLoad \/ LoadAggregate \/ LoadReturns \/ Compile
           \/ BeginPrint \/ PrintAggregate \/ PrintReturns
  BY <1>2 DEF BeginParse, ParseReturns, BeginLoad, LoadAggregate, LoadReturns, Compile,
              BeginPrint, PrintAggregate, PrintReturns, parserVars, treeVars
<1>3. CASE PrintColumn
  BY <1>3 DEF PrintColumn, treeVars
<1>4. CASE ReadNext \/ Accept \/ SyntaxError \/ Exhausted \/ ReduceBinary \/ ReduceNegation
  BY <1>4 DEF ReadNext, ReadToken, ReadError, ReadEnd, Accept, SyntaxError, Exhausted, treeVars,
              ReduceBinary, ReduceNegation
<1>5. CASE Move \/ Star
  BY <1>5 DEF Move, Star, treeVars
<1> QED
  BY <1>1, <1>2, <1>3, <1>4, <1>5 DEF PreparerNext, ParserStep, ParserNext

\* A complete output names its columns.
LEMMA OutputEntered ==
  ASSUME outputs \in Seq(Outputs), NEW output, outputs' = Append(outputs, output),
         UNCHANGED <<groupby, orderby>>
  PROVE  /\ \A name : Entered(name) => Entered(name)'
         /\ \A name \in ColumnsIn(output.text) : Entered(name)'
         /\ (\A i \in DOMAIN outputs : Own(outputs[i])) /\ Own(output) =>
              \A i \in DOMAIN outputs' : Own(outputs'[i])
<1> HIDE DEF Outputs
<1>1. Len(outputs) \in Nat /\ DOMAIN outputs = 1 .. Len(outputs)
  OBVIOUS
<1>2. /\ DOMAIN outputs' = 1 .. (Len(outputs) + 1) /\ outputs'[Len(outputs) + 1] = output
      /\ \A i \in DOMAIN outputs : i \in DOMAIN outputs' /\ outputs'[i] = outputs[i]
  BY <1>1
<1>3. \A name : Entered(name) => Entered(name)'
  BY <1>2 DEF Entered
<1>4. \A name \in ColumnsIn(output.text) : Entered(name)'
  BY <1>1, <1>2 DEF Entered
<1>5. (\A i \in DOMAIN outputs : Own(outputs[i])) /\ Own(output) =>
        \A i \in DOMAIN outputs' : Own(outputs'[i])
  BY <1>1, <1>2
<1> QED
  BY <1>3, <1>4, <1>5

\* A list of columns grows at its end.
LEMMA ListsGrow ==
  ASSUME TreeOK, GroupColumn \/ OrderColumn
  PROVE  /\ \A i \in DOMAIN groupby : i \in DOMAIN groupby' /\ groupby'[i] = groupby[i]
         /\ \A i \in DOMAIN orderby : i \in DOMAIN orderby' /\ orderby'[i] = orderby[i]
<1>1. ASSUME NEW list \in Seq(ColumnNames), NEW next, NEW name,
             next = list \/ next = Append(list, name)
      PROVE  \A i \in DOMAIN list : i \in DOMAIN next /\ next[i] = list[i]
  <2>1. Len(list) \in Nat /\ DOMAIN list = 1 .. Len(list)
    OBVIOUS
  <2> QED BY <1>1, <2>1
<1>2. /\ groupby \in Seq(ColumnNames) /\ (groupby' = groupby \/ groupby' = Append(groupby, look.val))
      /\ orderby \in Seq(ColumnNames) /\ (orderby' = orderby \/ orderby' = Append(orderby, look.val))
  BY DEF GroupColumn, OrderColumn, TreeOK
<1> HIDE DEF ColumnNames
<1>3. \A i \in DOMAIN groupby : i \in DOMAIN groupby' /\ groupby'[i] = groupby[i]
  BY <1>1, <1>2
<1>4. \A i \in DOMAIN orderby : i \in DOMAIN orderby' /\ orderby'[i] = orderby[i]
  BY <1>1, <1>2
<1> QED
  BY <1>3, <1>4

\* What is named stays named.
LEMMA NamesStay ==
  ASSUME Inv, NamedOK, [PreparerNext]_vars
  PROVE  \A name : Named(name) => Named(name)'
<1>0. /\ out \in Outputs /\ out.text \in Seq(Words) /\ outputs \in Seq(Outputs)
      /\ groupby \in Seq(ColumnNames) /\ orderby \in Seq(ColumnNames)
  BY DEF Inv, TreeOK, Outputs
<1>1. CASE SameTexts
  BY <1>1 DEF SameTexts, Named, Entered
<1>2. ASSUME NEW word, out' = [out EXCEPT !.text = Append(@, word)],
             UNCHANGED <<outputs, groupby, orderby>>
      PROVE  \A name : Named(name) => Named(name)'
  <2>1. out'.text = Append(out.text, word)
    BY <1>0, <1>2 DEF Outputs
  <2>2. ColumnsIn(out.text) \subseteq ColumnsIn(out'.text)
    BY <1>0, <2>1, ColumnsOfText
  <2> QED BY <1>2, <2>2 DEF Named, Entered
<1>3. CASE OperandColumn \/ OperandInteger
  BY <1>2, <1>3 DEF OperandColumn, OperandInteger, Operand
<1>4. CASE Prefix \/ Operator
  BY <1>2, <1>4 DEF Prefix, Operator
<1>5. CASE Close
  <2>1. UNCHANGED <<outputs, groupby, orderby>>
    BY <1>5 DEF Close
  <2>2. CASE out' = [out EXCEPT !.text = Append(@, look)]
    BY <1>2, <2>1, <2>2
  <2>3. CASE out' = [out EXCEPT !.arg = Arg(0), !.loc.end = yylloc.end]
    <3>1. out'.text = out.text
      BY <1>0, <2>3 DEF Outputs
    <3> QED BY <2>1, <3>1 DEF Named, Entered
  <2> QED BY <1>5, <2>2, <2>3 DEF Close
<1>6. CASE CountStar
  <2>1. at = "star" /\ UNCHANGED <<outputs, groupby, orderby>>
    BY <1>6 DEF CountStar, Sees
  <2>2. ColumnsIn(out.text) = {}
    BY <1>0, <2>1, ColumnsOfText DEF NamedOK
  <2> QED BY <2>1, <2>2 DEF Named, Entered
<1>7. CASE OutputColumn \/ OutputAggregate
  <2>1. at = "output" /\ UNCHANGED <<outputs, groupby, orderby>>
    BY <1>7 DEF OutputColumn, OutputAggregate, Sees
  <2>2. \A name \in ColumnsIn(out.text) : Entered(name)
    BY <2>1 DEF NamedOK, Within, Behind
  <2> QED BY <2>1, <2>2 DEF Named, Entered
<1>8. CASE Alias
  <2>1. UNCHANGED <<out, groupby, orderby>> /\ \E output : outputs' = Append(outputs, output)
    BY <1>8 DEF Alias
  <2> QED BY <1>0, <2>1, OutputEntered DEF Named
<1>9. CASE ReduceOutput
  <2>1. UNCHANGED <<out, groupby, orderby>> /\ (outputs' = outputs \/ outputs' = Append(outputs, out))
    BY <1>9 DEF ReduceOutput
  <2>2. CASE outputs' = outputs
    BY <1>1, <2>1, <2>2 DEF SameTexts
  <2>3. CASE outputs' = Append(outputs, out)
    BY <1>0, <2>1, <2>3, OutputEntered DEF Named
  <2> QED BY <2>1, <2>2, <2>3
<1>10. CASE GroupColumn \/ OrderColumn
  <2>1. UNCHANGED <<out, outputs>>
    BY <1>10 DEF GroupColumn, OrderColumn
  <2>2. /\ \A i \in DOMAIN groupby : i \in DOMAIN groupby' /\ groupby'[i] = groupby[i]
        /\ \A i \in DOMAIN orderby : i \in DOMAIN orderby' /\ orderby'[i] = orderby[i]
    BY <1>10, ListsGrow DEF Inv
  <2> QED BY <2>1, <2>2 DEF Named, Entered
<1> QED
  BY <1>1, <1>3, <1>4, <1>5, <1>6, <1>7, <1>8, <1>9, <1>10, QuietSteps

\* Every column that gets an index is named.
LEMMA IndexesNamed ==
  ASSUME Inv, NamedOK, [PreparerNext]_vars
  PROVE  (\A i \in DOMAIN m_identifiers : Named(m_identifiers[i]))'
<1>0. m_identifiers \in Seq(ColumnNames) /\ \A i \in DOMAIN m_identifiers : Named(m_identifiers[i])
  BY DEF Inv, ColumnsOK, NamedOK
<1>1. CASE m_identifiers' = m_identifiers
  BY <1>0, <1>1, NamesStay
<1>2. ASSUME NEW name, m_identifiers' = Seen(name), Named(name)'
      PROVE  (\A i \in DOMAIN m_identifiers : Named(m_identifiers[i]))'
  <2>1. ASSUME NEW i \in DOMAIN m_identifiers', NEW column, column = m_identifiers'[i]
        PROVE  Named(column)'
    <3>1. column = name \/ \E j \in DOMAIN m_identifiers : column = m_identifiers[j]
      BY <1>0, <1>2, <2>1, SeenColumns
    <3> QED BY <1>0, <1>2, <3>1, NamesStay
  <2> QED BY <2>1 DEF Named, Entered
<1>3. CASE OperandColumn
  <2>1. /\ out \in Outputs /\ out.text \in Seq(Words)
        /\ out' = [out EXCEPT !.text = Append(@, look)]
        /\ look.token = "IDENTIFIER" /\ m_identifiers' = Seen(look.val)
    BY <1>3 DEF OperandColumn, Operand, Sees, Inv, TreeOK, Outputs
  <2>2. out'.text = Append(out.text, look)
    BY <2>1 DEF Outputs
  <2>3. look.val \in ColumnsIn(out'.text)
    BY <2>1, <2>2, ColumnsOfText
  <2>4. PICK name : name = look.val
    OBVIOUS
  <2>5. Named(name)'
    BY <2>3, <2>4 DEF Named
  <2> QED BY <1>2, <2>1, <2>4, <2>5
<1>4. CASE PrintColumn
  <2>1. /\ status = "PRINTING" /\ todo # <<>> /\ Head(todo) = todo[1] /\ todo[1].agg = "none"
        /\ m_identifiers' = Seen(todo[1].column) /\ 1 \in DOMAIN todo
    BY <1>4 DEF PrintColumn, Inv, CallsOK
  <2>2. PICK name : name = todo[1].column
    OBVIOUS
  <2>3. Named(name)'
    BY <2>1, <2>2, NamesStay DEF NamedOK
  <2> QED BY <1>2, <2>1, <2>2, <2>3
<1>5. CASE OutputColumn \/ OutputAggregate \/ CountStar \/ OperandInteger \/ Prefix \/ Operator
           \/ Close \/ Alias \/ ReduceOutput \/ GroupColumn \/ OrderColumn
  BY <1>1, <1>5 DEF OutputColumn, OutputAggregate, CountStar, OperandInteger, Prefix, Operator,
                    Close, Alias, ReduceOutput, GroupColumn, OrderColumn
<1> QED
  BY <1>1, <1>3, <1>4, <1>5, QuietSteps

\* So are the columns that print() asks for.
LEMMA CallsNamed ==
  ASSUME Inv, NamedOK, [PreparerNext]_vars, status' = "PRINTING"
  PROVE  (\A i \in DOMAIN todo : todo[i].agg = "none" => Named(todo[i].column))'
<1>1. CASE status = "PRINTING" /\ todo' = todo
  BY <1>1, NamesStay DEF NamedOK
<1>2. CASE status = "PRINTING" /\ todo # <<>> /\ todo' = Tail(todo)
  <2>1. \A i \in DOMAIN todo' : i + 1 \in DOMAIN todo /\ todo'[i] = todo[i + 1]
    BY <1>2, RestOfCalls DEF Inv, CallsOK
  <2> QED BY <1>2, <2>1, NamesStay DEF NamedOK
<1>3. CASE BeginPrint
  <2>1. todo' = PrintCalls /\ TreeOK
    BY <1>3 DEF BeginPrint, Inv
  <2>2. ASSUME NEW i \in DOMAIN PrintCalls, PrintCalls[i].agg = "none",
               NEW column, column = PrintCalls[i].column
        PROVE  Named(column)'
    <3>1. Printed(column)
      BY <2>1, <2>2, CallsOfPrint
    <3>2. Named(column)
      BY <3>1 DEF Printed, Named, Entered, NamedOK, Own
    <3> QED BY <3>2, NamesStay
  <2> QED BY <2>1, <2>2 DEF Named, Entered
<1>4. CASE UNCHANGED vars
  BY <1>1, <1>4 DEF vars
<1>5. CASE PreparerNext
  BY <1>1, <1>2, <1>3, <1>5
  DEF PreparerNext, ParserStep, BeginParse, ParseReturns, BeginLoad, LoadAggregate, LoadReturns,
      Compile, PrintAggregate, PrintColumn, PrintReturns, Inv, CallsOK
<1> QED
  BY <1>4, <1>5

\* The output being parsed is entered when it is complete, and its column is its text.
LEMMA TextsNamed ==
  ASSUME Inv, NamedOK, [PreparerNext]_vars
  PROVE  /\ at' \notin Within \cup Behind => \A name \in ColumnsIn(out'.text) : Entered(name)'
         /\ at' = "star" => out'.text = <<>>
         /\ \A i \in DOMAIN outputs' : Own(outputs'[i])
         /\ at' \in Behind => Own(out')
<1>0. /\ out \in Outputs /\ outputs \in Seq(Outputs) /\ \A i \in DOMAIN outputs : Own(outputs[i])
      /\ at \in Within => out.is_agg
      /\ at \in Behind => Own(out)
      /\ at \notin Within \cup Behind => \A name \in ColumnsIn(out.text) : Entered(name)
      /\ groupby \in Seq(ColumnNames) /\ orderby \in Seq(ColumnNames)
  BY DEF Inv, TreeOK, NamedOK
<1>1. CASE SameTexts /\ at' = at
  BY <1>1 DEF SameTexts, NamedOK, Entered
<1>2. CASE SameTexts /\ (Move \/ Star)
  <2>1. /\ at' \in Within \cup Behind <=> at \in Within \cup Behind
        /\ at' \in Behind => at \in Behind
        /\ at' = "star" => out.text = <<>>
    <3>1. CASE Move
      <4>1. PICK m \in Moves : at = m[1] /\ at' = m[3]
        BY <3>1 DEF Move, Sees, Shift
      <4> QED BY <4>1, MovesKeepText DEF Within, Behind
    <3>2. CASE Star
      BY <3>2 DEF Star, Sees, Shift, Within, Behind
    <3> QED BY <1>2, <3>1, <3>2
  <2> QED BY <1>0, <1>2, <2>1 DEF SameTexts, Entered
<1>3. ASSUME at' \in Within \cup Behind, at' # "star", outputs' = outputs, at' \in Behind => Own(out')
      PROVE  /\ at' \notin Within \cup Behind => \A name \in ColumnsIn(out'.text) : Entered(name)'
             /\ at' = "star" => out'.text = <<>>
             /\ \A i \in DOMAIN outputs' : Own(outputs'[i])
             /\ at' \in Behind => Own(out')
  BY <1>0, <1>3
<1>4. CASE OperandColumn \/ OperandInteger \/ Prefix \/ Operator
  <2>1. at' \in {"operand", "operator"} /\ outputs' = outputs
    BY <1>4 DEF OperandColumn, OperandInteger, Operand, Prefix, Operator, Shift
  <2> QED BY <1>3, <2>1 DEF Within, Behind
<1>5. CASE Close
  <2>1. at = "operator" /\ outputs' = outputs
    BY <1>5 DEF Close, Sees
  <2>2. CASE at' = "operator"
    BY <1>3, <2>1, <2>2 DEF Within, Behind
  <2>3. CASE out' = [out EXCEPT !.arg = Arg(0), !.loc.end = yylloc.end] /\ at' = "alias"
    <3>1. out'.is_agg
      BY <1>0, <2>1, <2>3 DEF Within, Outputs
    <3> QED BY <1>3, <2>1, <2>3, <3>1 DEF Within, Behind, Own
  <2> QED BY <1>5, <2>2, <2>3 DEF Close, Shift
<1>6. CASE CountStar
  <2>1. at = "star" /\ at' = "alias" /\ outputs' = outputs
        /\ out' = [out EXCEPT !.arg = ret', !.loc.end = yylloc.end, !.text = <<Tok("INT", 1)>>]
    BY <1>6 DEF CountStar, Sees, Shift
  <2>2. out'.is_agg
    BY <1>0, <2>1 DEF Within, Outputs
  <2> QED BY <1>3, <2>1, <2>2 DEF Within, Behind, Own
<1>7. CASE OutputColumn
  <2>1. at' = "alias" /\ outputs' = outputs /\ look.token = "IDENTIFIER"
        /\ out'.text = <<look>> /\ out'.col_name = look.val
    BY <1>7 DEF OutputColumn, Sees, Shift, NoOutput
  <2>2. out'.col_name \in ColumnsIn(out'.text)
    BY <2>1, EmptySeq, ColumnsOfText
  <2> QED BY <1>3, <2>1, <2>2 DEF Within, Behind, Own
<1>8. CASE OutputAggregate
  <2>1. at' = "open" /\ outputs' = outputs
    BY <1>8 DEF OutputAggregate, Shift
  <2> QED BY <1>3, <2>1 DEF Within, Behind
<1>9. ASSUME NEW output, outputs' = Append(outputs, output), UNCHANGED <<out, groupby, orderby>>,
             at \in Behind, at' = "list", output.text = out.text, Own(output)
      PROVE  /\ at' \notin Within \cup Behind => \A name \in ColumnsIn(out'.text) : Entered(name)'
             /\ at' = "star" => out'.text = <<>>
             /\ \A i \in DOMAIN outputs' : Own(outputs'[i])
             /\ at' \in Behind => Own(out')
  BY <1>0, <1>9, OutputEntered DEF Behind
<1>10. CASE Alias
  <2> DEFINE output == [out EXCEPT !.output_name = look.val]
  <2>1. at = "aliasname" /\ at' = "list" /\ outputs' = Append(outputs, output)
        /\ UNCHANGED <<out, groupby, orderby>>
    BY <1>10 DEF Alias, Sees, Shift
  <2>2. output.text = out.text /\ output.is_agg = out.is_agg /\ output.col_name = out.col_name
    BY <1>0 DEF Outputs
  <2> HIDE DEF output
  <2>3. Own(output)
    BY <1>0, <2>1, <2>2 DEF Own, Behind
  <2> QED BY <1>9, <2>1, <2>2, <2>3 DEF Behind
<1>11. CASE ReduceOutput
  <2>1. at = "alias" /\ UNCHANGED <<out, groupby, orderby>>
    BY <1>11 DEF ReduceOutput
  <2>2. CASE UNCHANGED <<at, outputs>>
    BY <1>1, <2>1, <2>2 DEF SameTexts
  <2>3. CASE outputs' = Append(outputs, out) /\ at' = "list"
    BY <1>0, <1>9, <2>1, <2>3 DEF Behind
  <2> QED BY <1>11, <2>2, <2>3 DEF ReduceOutput
<1>12. CASE GroupColumn \/ OrderColumn
  <2>1. /\ UNCHANGED <<out, outputs>> /\ at \in {"groupcol", "ordercol"}
        /\ at' \in {"grouped", "ordered"}
    BY <1>12 DEF GroupColumn, OrderColumn, Sees, Shift
  <2>2. /\ \A i \in DOMAIN groupby : i \in DOMAIN groupby' /\ groupby'[i] = groupby[i]
        /\ \A i \in DOMAIN orderby : i \in DOMAIN orderby' /\ orderby'[i] = orderby[i]
    BY <1>12, ListsGrow DEF Inv
  <2>3. \A name \in ColumnsIn(out.text) : Entered(name)
    BY <1>0, <2>1 DEF Within, Behind
  <2>4. \A name \in ColumnsIn(out'.text) : Entered(name)'
    BY <2>1, <2>2, <2>3 DEF Entered
  <2> QED BY <1>0, <2>1, <2>4 DEF Behind
<1> QED
  BY <1>1, <1>2, <1>4, <1>5, <1>6, <1>7, <1>8, <1>10, <1>11, <1>12, QuietSteps DEF SameTexts

\* Nothing is named yet, and nothing has an index.
LEMMA NamedBegins == PreparerInit => NamedOK
  BY DEF PreparerInit, ParserInit, NamedOK, NoOutput, ColumnsIn, Behind

\* A step keeps it.
LEMMA NamedKept == Inv /\ NamedOK /\ [PreparerNext]_vars => NamedOK'
  BY IndexesNamed, CallsNamed, TextsNamed DEF NamedOK

\* Together with Inv this is the property.
LEMMA NamedGivesOneIndex == Inv /\ NamedOK => OneIndexPerColumn
<1> SUFFICES ASSUME Inv, NamedOK PROVE OneIndexPerColumn
  OBVIOUS
<1>1. ASSUME NEW name, Named(name) PROVE name \in NamedColumns
  <2> DEFINE texts == {ColumnsIn(outputs[i].text) : i \in DOMAIN outputs}
             groups == {groupby[i] : i \in DOMAIN groupby}
             orders == {orderby[i] : i \in DOMAIN orderby}
  <2>1. (\E i \in DOMAIN outputs : name \in ColumnsIn(outputs[i].text)) => name \in UNION texts
    BY Zenon
  <2>2. /\ (\E i \in DOMAIN groupby : name = groupby[i]) => name \in groups
        /\ (\E i \in DOMAIN orderby : name = orderby[i]) => name \in orders
    BY Zenon
  <2>3. NamedColumns = ColumnsIn(out.text) \cup (UNION texts) \cup groups \cup orders
    BY Zenon DEF NamedColumns
  <2> HIDE DEF texts, groups, orders
  <2>4. name \in ColumnsIn(out.text) \/ name \in UNION texts \/ name \in groups \/ name \in orders
    BY <1>1, <2>1, <2>2, Zenon DEF Named, Entered
  <2> QED BY <2>3, <2>4
<1>2. \A i \in DOMAIN m_identifiers : m_identifiers[i] \in NamedColumns
  BY <1>1 DEF NamedOK
<1> QED
  BY <1>2 DEF Inv, ColumnsOK, Injective, LoadsIn, Handles, OneIndexPerColumn

\* A column has one index, whoever names it first, and no alias ever gets one.
THEOREM ColumnsAlwaysHaveOneIndex == PreparerSpec => []OneIndexPerColumn
<1>1. PreparerInit => Inv /\ NamedOK
  BY InvHolds, NamedBegins
<1>2. Inv /\ NamedOK /\ [PreparerNext]_vars => (Inv /\ NamedOK)'
  BY InvKept, NamedKept
<1>3. Inv /\ NamedOK => OneIndexPerColumn
  BY NamedGivesOneIndex
<1> QED
  BY <1>1, <1>2, <1>3, PTL DEF PreparerSpec

-----------------------------------------------------------------------------
(* The value of a text                                                       *)

\* The operators by precedence.
SumOps == {"Add", "Minus"}
ProductOps == {"Mul", "Div", "Rem"}

\* How many of the tokens from i to k are s.
Number(T, i, k, s) == Cardinality({n \in i .. k : T[n].token = s})

\* The parentheses in the part from a to b belong to each other.
Nested(T, a, b) ==
  /\ \A k \in a .. b : Number(T, a, k, ")") <= Number(T, a, k, "(")
  /\ Number(T, a, b, ")") = Number(T, a, b, "(")

\* v gives every part of T its value.
Values(T, columns, v) ==
  v = [s \in (1 .. Len(T) + 1) \X (0 .. Len(T)) |-> PartValue(T, columns, v, s[1], s[2])]

\* Tokens are counted part by part.
LEMMA NumberSplits ==
  ASSUME NEW T, NEW s, NEW a \in Int, NEW m \in Int, NEW b \in Int, a <= m, m <= b + 1
  PROVE  /\ Number(T, a, b, s) \in Nat /\ Number(T, a, m - 1, s) \in Nat /\ Number(T, m, b, s) \in Nat
         /\ Number(T, a, b, s) = Number(T, a, m - 1, s) + Number(T, m, b, s)
         /\ Number(T, m, m, s) = IF T[m].token = s THEN 1 ELSE 0
         /\ Number(T, a, a - 1, s) = 0
<1> DEFINE In(i, k) == {n \in i .. k : T[n].token = s}
<1>1. \A i, k \in Int : IsFiniteSet(In(i, k)) /\ Cardinality(In(i, k)) \in Nat
  <2> SUFFICES ASSUME NEW i \in Int, NEW k \in Int
               PROVE  IsFiniteSet(In(i, k)) /\ Cardinality(In(i, k)) \in Nat
    OBVIOUS
  <2>1. IsFiniteSet(i .. k) /\ In(i, k) \subseteq i .. k
    BY FS_Interval
  <2> HIDE DEF In
  <2> QED BY <2>1, FS_Subset, FS_CardinalityType
<1>2. In(a, b) = In(a, m - 1) \cup In(m, b) /\ In(a, m - 1) \cap In(m, b) = {}
  OBVIOUS
<1>3. Cardinality(In(a, b)) = Cardinality(In(a, m - 1)) + Cardinality(In(m, b))
  <2>1. IsFiniteSet(In(a, m - 1)) /\ IsFiniteSet(In(m, b)) /\ m - 1 \in Int
    BY <1>1
  <2> HIDE DEF In
  <2>2. Cardinality(In(a, m - 1) \cap In(m, b)) = 0
    BY <1>2, FS_EmptySet
  <2>3. Cardinality(In(a, m - 1)) \in Nat /\ Cardinality(In(m, b)) \in Nat
    BY <1>1, <2>1
  <2> DEFINE A == In(a, m - 1)
             B == In(m, b)
  <2>4. Cardinality(A \cup B) = Cardinality(A) + Cardinality(B) - Cardinality(A \cap B)
    BY <2>1, FS_Union
  <2> QED BY <1>2, <2>2, <2>3, <2>4
<1>4. Cardinality(In(m, m)) = IF T[m].token = s THEN 1 ELSE 0
  <2>1. In(m, m) = IF T[m].token = s THEN {m} ELSE {}
    OBVIOUS
  <2> QED BY <2>1, FS_EmptySet, FS_Singleton
<1>5. Cardinality(In(a, a - 1)) = 0
  <2>1. In(a, a - 1) = {}
    OBVIOUS
  <2> QED BY <2>1, FS_EmptySet
<1>6. m - 1 \in Int
  OBVIOUS
<1> HIDE DEF In
<1>7. \A i, k \in Int : Cardinality(In(i, k)) \in Nat
  BY <1>1
<1> QED
  BY <1>3, <1>4, <1>5, <1>6, <1>7 DEF Number, In

\* An operator between two parts, or before one, is outermost, and what is
\* outermost in the parts stays so.
LEMMA OutermostBeside ==
  ASSUME NEW T, NEW S, NEW a \in Int, NEW m \in Int, NEW b \in Int, a <= m, m <= b,
         Nested(T, a, m - 1), T[m].token \notin {"(", ")"}
  PROVE  /\ \A k : k \in Outermost(T, a, b, S) <=>
                  \/ k \in Outermost(T, a, m - 1, S)
                  \/ k = m /\ T[m].token \in S
                  \/ k \in Outermost(T, m + 1, b, S)
         /\ Nested(T, m + 1, b) => Nested(T, a, b)
<1>1. ASSUME NEW s \in {"(", ")"}, NEW k \in m .. b
      PROVE  Number(T, a, k, s) = Number(T, a, m - 1, s) + Number(T, m + 1, k, s)
             /\ Number(T, m + 1, k, s) \in Nat
  <2>1. Number(T, a, k, s) = Number(T, a, m - 1, s) + Number(T, m, k, s)
    BY NumberSplits
  <2>2. /\ Number(T, m, k, s) = Number(T, m, m, s) + Number(T, m + 1, k, s)
        /\ Number(T, m, m, s) = 0 /\ Number(T, m + 1, k, s) \in Nat
    <3>1. m + 1 \in Int /\ m <= m + 1 /\ m + 1 <= k + 1 /\ (m + 1) - 1 = m
      OBVIOUS
    <3>2. Number(T, m, k, s) = Number(T, m, m, s) + Number(T, m + 1, k, s)
          /\ Number(T, m + 1, k, s) \in Nat
      BY <3>1, NumberSplits
    <3>3. Number(T, m, m, s) = 0
      BY NumberSplits
    <3> QED BY <3>2, <3>3
  <2> QED BY <2>1, <2>2
<1>2. Number(T, a, m - 1, "(") = Number(T, a, m - 1, ")") /\ Number(T, a, m - 1, "(") \in Nat
  BY NumberSplits DEF Nested
<1>3. \A k : k \in Outermost(T, a, b, S) <=>
              \/ k \in Outermost(T, a, m - 1, S)
              \/ k = m /\ T[m].token \in S
              \/ k \in Outermost(T, m + 1, b, S)
  <2>1. \A i, j, k : k \in Outermost(T, i, j, S) <=>
                     k \in i .. j /\ T[k].token \in S /\ Number(T, i, k, "(") = Number(T, i, k, ")")
    BY DEF Outermost, Number
  <2>2. \A k \in a .. (m - 1) : k \in Outermost(T, a, b, S) <=> k \in Outermost(T, a, m - 1, S)
    BY <2>1
  <2>3. \A k \in (m + 1) .. b : k \in Outermost(T, a, b, S) <=> k \in Outermost(T, m + 1, b, S)
    <3> TAKE k \in (m + 1) .. b
    <3>1. Number(T, a, k, "(") = Number(T, a, k, ")")
            <=> Number(T, m + 1, k, "(") = Number(T, m + 1, k, ")")
      BY <1>1, <1>2
    <3> QED BY <2>1, <3>1
  <2>4. m \in Outermost(T, a, b, S) <=> T[m].token \in S
    <3>1. Number(T, m + 1, m, "(") = 0 /\ Number(T, m + 1, m, ")") = 0
      <4>1. m + 1 \in Int /\ (m + 1) - 1 = m
        OBVIOUS
      <4> QED BY <4>1, NumberSplits
    <3>2. Number(T, a, m, "(") = Number(T, a, m, ")")
      BY <1>1, <1>2, <3>1
    <3> QED BY <2>1, <3>2
  <2>5. Outermost(T, a, b, S) \subseteq a .. b /\ Outermost(T, a, m - 1, S) \subseteq a .. (m - 1)
        /\ Outermost(T, m + 1, b, S) \subseteq (m + 1) .. b
    BY DEF Outermost
  <2>6. \A k \in Int : k \in a .. b <=> k \in a .. (m - 1) \/ k = m \/ k \in (m + 1) .. b
    OBVIOUS
  <2> QED BY <2>2, <2>3, <2>4, <2>5, <2>6
<1>4. ASSUME Nested(T, m + 1, b) PROVE Nested(T, a, b)
  <2>1. ASSUME NEW k \in a .. b PROVE Number(T, a, k, ")") <= Number(T, a, k, "(")
    <3>1. CASE k \in a .. (m - 1)
      BY <3>1 DEF Nested
    <3>2. CASE k \in m .. b
      <4>1. Number(T, m + 1, k, ")") <= Number(T, m + 1, k, "(")
        <5>1. CASE k = m
          <6>1. m + 1 \in Int /\ (m + 1) - 1 = m
            OBVIOUS
          <6> QED BY <5>1, <6>1, NumberSplits
        <5>2. CASE k \in (m + 1) .. b
          BY <1>4, <5>2 DEF Nested
        <5> QED BY <3>2, <5>1, <5>2
      <4> QED BY <1>1, <1>2, <3>2, <4>1
    <3> QED BY <3>1, <3>2
  <2>2. Number(T, a, b, ")") = Number(T, a, b, "(")
    <3>1. Number(T, m + 1, b, ")") = Number(T, m + 1, b, "(")
      BY <1>4 DEF Nested
    <3> QED BY <1>1, <1>2, <3>1
  <2> QED BY <2>1, <2>2 DEF Nested
<1> QED
  BY <1>3, <1>4

\* In parentheses no operator is outermost.
LEMMA OutermostInside ==
  ASSUME NEW T, NEW a \in Int, NEW b \in Int, a < b,
         T[a].token = "(", T[b].token = ")", Nested(T, a + 1, b - 1)
  PROVE  /\ \A S : S \cap {"(", ")"} = {} => Outermost(T, a, b, S) = {}
         /\ Nested(T, a, b)
<1>1. ASSUME NEW s \in {"(", ")"}, NEW k \in a .. b
      PROVE  Number(T, a, k, s) = (IF s = "(" THEN 1 ELSE 0) + Number(T, a + 1, k, s)
             /\ Number(T, a + 1, k, s) \in Nat
  <2>1. a + 1 \in Int /\ k \in Int /\ a <= a + 1 /\ a + 1 <= k + 1 /\ (a + 1) - 1 = a
    OBVIOUS
  <2>2. Number(T, a, k, s) = Number(T, a, a, s) + Number(T, a + 1, k, s)
        /\ Number(T, a + 1, k, s) \in Nat
    <3>1. ASSUME NEW c \in Int, a <= c, c <= k + 1
          PROVE  /\ Number(T, a, k, s) = Number(T, a, c - 1, s) + Number(T, c, k, s)
                 /\ Number(T, c, k, s) \in Nat
      BY <2>1, <3>1, NumberSplits
    <3> QED BY <2>1, <3>1
  <2>3. Number(T, a, a, s) = IF s = "(" THEN 1 ELSE 0
    <3>1. a \in Int /\ a <= a /\ a <= a + 1
      OBVIOUS
    <3>2. Number(T, a, a, s) = IF T[a].token = s THEN 1 ELSE 0
      BY <3>1, NumberSplits
    <3> QED BY <3>2
  <2> QED BY <2>2, <2>3
<1>2. ASSUME NEW k \in a .. (b - 1)
      PROVE  Number(T, a + 1, k, ")") <= Number(T, a + 1, k, "(")
  <2>1. CASE k = a
    <3>1. a + 1 \in Int /\ (a + 1) - 1 = a
      OBVIOUS
    <3> QED BY <2>1, <3>1, NumberSplits
  <2>2. CASE k \in (a + 1) .. (b - 1)
    BY <2>2 DEF Nested
  <2> QED BY <2>1, <2>2
<1>3. \A k \in a .. (b - 1) : Number(T, a, k, ")") < Number(T, a, k, "(")
  BY <1>1, <1>2
<1>4. Number(T, a, b, ")") = Number(T, a, b, "(")
  <2>1. /\ Number(T, a + 1, b, "(") = Number(T, a + 1, b - 1, "(")
        /\ Number(T, a + 1, b, ")") = Number(T, a + 1, b - 1, ")") + 1
    <3>1. a + 1 \in Int /\ a + 1 <= b /\ b <= b + 1
      OBVIOUS
    <3>2. \A s \in {"(", ")"} :
            /\ Number(T, a + 1, b, s) = Number(T, a + 1, b - 1, s) + Number(T, b, b, s)
            /\ Number(T, b, b, s) = IF s = ")" THEN 1 ELSE 0
            /\ Number(T, a + 1, b - 1, s) \in Nat
      BY <3>1, NumberSplits
    <3> QED BY <3>2
  <2>2. Number(T, a + 1, b - 1, ")") = Number(T, a + 1, b - 1, "(")
    BY DEF Nested
  <2>3. Number(T, a + 1, b, "(") \in Nat /\ Number(T, a + 1, b - 1, "(") \in Nat
        /\ Number(T, a + 1, b - 1, ")") \in Nat
    <3>1. a + 1 \in Int /\ a + 1 <= b /\ b <= b + 1
      OBVIOUS
    <3> QED BY <3>1, NumberSplits
  <2> QED BY <1>1, <2>1, <2>2, <2>3
<1>5. ASSUME NEW S, S \cap {"(", ")"} = {}, NEW k \in Outermost(T, a, b, S) PROVE FALSE
  <2>1. k \in a .. b /\ T[k].token \in S /\ Number(T, a, k, "(") = Number(T, a, k, ")")
    BY DEF Outermost, Number
  <2>2. k # b
    BY <1>5, <2>1
  <2>3. k \in a .. (b - 1)
    BY <2>1, <2>2
  <2>4. Number(T, a, k, "(") \in Nat /\ Number(T, a, k, ")") \in Nat
    BY <1>1, <2>1
  <2> QED BY <1>3, <2>1, <2>3, <2>4
<1>6. Nested(T, a, b)
  <2>1. \A k \in a .. b : Number(T, a, k, ")") \in Nat /\ Number(T, a, k, "(") \in Nat
    BY <1>1
  <2>2. \A k \in a .. b : Number(T, a, k, ")") <= Number(T, a, k, "(")
    <3> TAKE k \in a .. b
    <3>1. CASE k = b
      BY <1>4, <2>1, <3>1
    <3>2. CASE k \in a .. (b - 1)
      BY <1>3, <2>1, <3>2
    <3> QED BY <3>1, <3>2
  <2> QED BY <1>4, <2>2 DEF Nested
<1> QED
  BY <1>5, <1>6

\* A single operand.
LEMMA OutermostOfOne ==
  ASSUME NEW T, NEW a \in Int, T[a].token \notin {"(", ")"}
  PROVE  /\ \A S : T[a].token \notin S => Outermost(T, a, a, S) = {}
         /\ Nested(T, a, a) /\ Nested(T, a, a - 1)
<1>1. \A s \in {"(", ")"} : Number(T, a, a, s) = 0 /\ Number(T, a, a - 1, s) = 0
  BY NumberSplits
<1>2. \A S : T[a].token \notin S => Outermost(T, a, a, S) = {}
  BY DEF Outermost
<1> QED
  BY <1>1, <1>2 DEF Nested

\* The value of a part is that of its last operator, on the values before and
\* behind it.
LEMMA ValueOfPart ==
  ASSUME NEW T \in Seq(Words), NEW columns, NEW v, Values(T, columns, v),
         NEW a \in 1 .. (Len(T) + 1), NEW b \in 0 .. Len(T)
  PROVE  v[<<a, b>>] = PartValue(T, columns, v, a, b)
<1> DEFINE D == (1 .. Len(T) + 1) \X (0 .. Len(T))
           Part(s) == PartValue(T, columns, v, s[1], s[2])
<1>1. v = [s \in D |-> Part(s)]
  BY DEF Values
<1>2. <<a, b>> \in D
  OBVIOUS
<1>3. v[<<a, b>>] = Part(<<a, b>>)
  <2> HIDE DEF D, Part
  <2> QED BY <1>1, <1>2
<1> QED
  BY <1>3

\* An operator whose operands have no operators that are applied later.
LEMMA BinaryPart ==
  ASSUME NEW T \in Seq(Words), NEW columns, NEW v, Values(T, columns, v),
         NEW a \in 1 .. Len(T), NEW b \in 1 .. Len(T), NEW m \in Int, a < m, m < b,
         T[m].token \in ArithOps, Nested(T, a, m - 1), Nested(T, m + 1, b),
         Outermost(T, m + 1, b, SumOps) = {},
         T[m].token \in ProductOps => /\ Outermost(T, a, m - 1, SumOps) = {}
                                      /\ Outermost(T, m + 1, b, ProductOps) = {}
  PROVE  /\ Nested(T, a, b)
         /\ v[<<a, b>>] = ValueOf(T[m].token, v[<<a, m - 1>>], v[<<m + 1, b>>])
         /\ T[m].token \in ProductOps => Outermost(T, a, b, SumOps) = {}
<1> DEFINE sums == Outermost(T, a, b, SumOps)
           products == Outermost(T, a, b, ProductOps)
           applied == IF sums # {} THEN sums ELSE products
           k == CHOOSE k \in applied : \A n \in applied : n <= k
<1>1. /\ Nested(T, a, b)
      /\ sums = Outermost(T, a, m - 1, SumOps) \cup (IF T[m].token \in SumOps THEN {m} ELSE {})
      /\ T[m].token \in ProductOps =>
           products = Outermost(T, a, m - 1, ProductOps) \cup {m}
  <2>1. /\ T[m].token \notin {"(", ")"}
        /\ a \in Int /\ b \in Int /\ a <= m /\ m <= b
    BY DEF ArithOps
  <2>2. /\ \A S, j : j \in Outermost(T, a, b, S) <=>
                        \/ j \in Outermost(T, a, m - 1, S)
                        \/ j = m /\ T[m].token \in S
                        \/ j \in Outermost(T, m + 1, b, S)
        /\ Nested(T, a, b)
    BY <2>1, OutermostBeside
  <2> QED BY <2>2
<1>2. \A S : Outermost(T, a, m - 1, S) \subseteq a .. (m - 1)
  BY DEF Outermost
<1>3. T[m].token \in SumOps \/ T[m].token \in ProductOps
  BY DEF ArithOps, SumOps, ProductOps
<1>4. ~(T[m].token \in SumOps /\ T[m].token \in ProductOps)
  BY DEF SumOps, ProductOps
<1>5. m \in applied /\ \A n \in applied : n \in Int /\ n <= m
  BY <1>1, <1>2, <1>3, <1>4
<1>6. k = m
  <2> HIDE DEF applied
  <2>1. \E j \in applied : \A n \in applied : n <= j
    BY <1>5
  <2>2. k \in applied /\ \A n \in applied : n <= k
    BY <2>1
  <2>3. k \in Int /\ k <= m /\ m <= k
    BY <1>5, <2>2
  <2> QED BY <2>3
<1>7. v[<<a, b>>] = PartValue(T, columns, v, a, b)
  BY ValueOfPart
<1>8. PartValue(T, columns, v, a, b) = ValueOf(T[k].token, v[<<a, k - 1>>], v[<<k + 1, b>>])
  <2>1. ~(a > b) /\ applied # {}
    BY <1>5
  <2> QED BY <2>1 DEF PartValue, SumOps, ProductOps
<1> HIDE DEF k
<1> QED
  BY <1>1, <1>4, <1>6, <1>7, <1>8

\* A minus at a stands before an operand without operators.
Negated(T, columns, v, a, b) ==
  /\ T \in Seq(Words)
  /\ Values(T, columns, v)
  /\ a \in 1 .. Len(T)
  /\ b \in 1 .. Len(T)
  /\ a < b
  /\ T[a].token = "neg"
  /\ Nested(T, a + 1, b)
  /\ Outermost(T, a + 1, b, SumOps) = {}
  /\ Outermost(T, a + 1, b, ProductOps) = {}

\* The part from a to b has the negated value of what follows its first token, and
\* no operator outside parentheses.
Negation(T, v, a, b) ==
  /\ Nested(T, a, b)
  /\ v[<<a, b>>] = Wrap(-v[<<a + 1, b>>])
  /\ Outermost(T, a, b, SumOps) = {} /\ Outermost(T, a, b, ProductOps) = {}

\* A minus before an operand without operators.
LEMMA NegatedPart ==
  ASSUME NEW T, NEW columns, NEW v, NEW a, NEW b,
         Negated(T, columns, v, a, b)
  PROVE  Negation(T, v, a, b)
<1> USE DEF Negated
<1>1. /\ Nested(T, a, a - 1) /\ T[a].token \notin {"(", ")"}
      /\ a \in Int /\ b \in Int /\ a <= a /\ a <= b
  BY OutermostOfOne
<1>2. /\ \A S, k : k \in Outermost(T, a, b, S) <=>
                      \/ k \in Outermost(T, a, a - 1, S)
                      \/ k = a /\ T[a].token \in S
                      \/ k \in Outermost(T, a + 1, b, S)
      /\ Nested(T, a, b)
  BY <1>1, OutermostBeside
<1>3. \A S : T[a].token \notin S /\ Outermost(T, a + 1, b, S) = {} => Outermost(T, a, b, S) = {}
  <2>1. \A S : Outermost(T, a, a - 1, S) = {}
    BY DEF Outermost
  <2> QED BY <1>2, <2>1
<1>4. Outermost(T, a, b, SumOps) = {} /\ Outermost(T, a, b, ProductOps) = {}
  <2>1. T[a].token \notin SumOps /\ T[a].token \notin ProductOps
    BY DEF SumOps, ProductOps
  <2> QED BY <1>3, <2>1
<1>5. v[<<a, b>>] = PartValue(T, columns, v, a, b)
  BY ValueOfPart
<1>6. PartValue(T, columns, v, a, b) = Wrap(-v[<<a + 1, b>>])
  <2>1. ~(a > b)
    OBVIOUS
  <2> QED BY <1>4, <2>1 DEF PartValue, SumOps, ProductOps
<1>7. Nested(T, a, b)
  BY <1>2
<1> QED
  BY <1>4, <1>5, <1>6, <1>7 DEF Negation

\* A part in parentheses.
LEMMA BracketedPart ==
  ASSUME NEW T \in Seq(Words), NEW columns, NEW v, Values(T, columns, v),
         NEW a \in 1 .. Len(T), NEW b \in 1 .. Len(T), a < b,
         T[a].token = "(", T[b].token = ")", Nested(T, a + 1, b - 1)
  PROVE  /\ Nested(T, a, b)
         /\ v[<<a, b>>] = v[<<a + 1, b - 1>>]
         /\ Outermost(T, a, b, SumOps) = {} /\ Outermost(T, a, b, ProductOps) = {}
<1>1. SumOps \cap {"(", ")"} = {} /\ ProductOps \cap {"(", ")"} = {} /\ a \in Int /\ b \in Int
  BY DEF SumOps, ProductOps
<1>2. Nested(T, a, b) /\ Outermost(T, a, b, SumOps) = {} /\ Outermost(T, a, b, ProductOps) = {}
  <2>1. Nested(T, a, b) /\ \A S : S \cap {"(", ")"} = {} => Outermost(T, a, b, S) = {}
    BY <1>1, OutermostInside
  <2> QED BY <1>1, <2>1
<1>3. v[<<a, b>>] = PartValue(T, columns, v, a, b)
  <2>1. Len(T) \in Nat /\ a \in 1 .. (Len(T) + 1) /\ b \in 0 .. Len(T)
    OBVIOUS
  <2> QED BY <2>1, ValueOfPart
<1>4. PartValue(T, columns, v, a, b) = v[<<a + 1, b - 1>>]
  <2>1. ~(a > b) /\ T[a].token # "neg"
    OBVIOUS
  <2> QED BY <1>2, <2>1 DEF PartValue, SumOps, ProductOps
<1> QED
  BY <1>2, <1>3, <1>4

\* An integer or a column.
LEMMA OperandPart ==
  ASSUME NEW T \in Seq(Words), NEW columns, NEW v, Values(T, columns, v),
         NEW a \in 1 .. Len(T), T[a].token \in {"INT", "IDENTIFIER"}
  PROVE  /\ Nested(T, a, a)
         /\ v[<<a, a>>] = IF T[a].token = "INT" THEN T[a].val ELSE columns[T[a].val]
         /\ Outermost(T, a, a, SumOps) = {} /\ Outermost(T, a, a, ProductOps) = {}
<1>1. T[a].token \notin SumOps /\ T[a].token \notin ProductOps /\ T[a].token \notin {"(", ")"}
  BY DEF SumOps, ProductOps
<1>2. Nested(T, a, a) /\ Outermost(T, a, a, SumOps) = {} /\ Outermost(T, a, a, ProductOps) = {}
  BY <1>1, OutermostOfOne
<1>3. v[<<a, a>>] = PartValue(T, columns, v, a, a)
  BY ValueOfPart
<1>4. PartValue(T, columns, v, a, a) = IF T[a].token = "INT" THEN T[a].val ELSE columns[T[a].val]
  <2>1. ~(a > a) /\ T[a].token # "neg" /\ T[a].token # "("
    OBVIOUS
  <2>2. CASE T[a].token = "INT"
    BY <1>2, <2>1, <2>2 DEF PartValue, SumOps, ProductOps
  <2>3. CASE T[a].token = "IDENTIFIER"
    BY <1>2, <2>1, <2>3 DEF PartValue, SumOps, ProductOps
  <2> QED BY <2>2, <2>3
<1> QED
  BY <1>2, <1>3, <1>4

\* What the tokens of a text carry.
LEMMA WordsCarry ==
  ASSUME NEW word \in Words
  PROVE  /\ word.token = "INT" => word.val \in Long
         /\ word.token = "IDENTIFIER" => word.val \in ColumnNames
<1>1. CASE word \in Lexemes
  BY <1>1, CallsAssumption, LongAssumption DEF ColumnNames
<1>2. CASE word \in {Tok("neg", "none"), Tok("(", "none"), Tok("INT", 1)}
  <2>1. 1 \in Long
    BY CallsAssumption, LongAssumption
  <2> QED BY <1>2, <2>1 DEF Tok
<1> QED
  BY <1>1, <1>2 DEF Words

\* Every part of a text has a value: the value of a part depends on those of
\* shorter parts only.
LEMMA ValuesExist ==
  ASSUME NEW T \in Seq(Words), NEW columns \in [ColumnNames -> Long]
  PROVE  \E v : Values(T, columns, v)
<1> DEFINE n == Len(T)
           I == (1 .. (n + 1)) \X (0 .. n)
           D == [s \in I |-> [v \in [I -> Long] |-> PartValue(T, columns, v, s[1], s[2])]]
           rank == [s \in I |-> IF s[1] > s[2] THEN 0 ELSE s[2] - s[1] + 1]
           Applied(i, j) == IF Outermost(T, i, j, SumOps) # {} THEN Outermost(T, i, j, SumOps)
                                                              ELSE Outermost(T, i, j, ProductOps)
           last(i, j) == CHOOSE k \in Applied(i, j) : \A m \in Applied(i, j) : m <= k
<1>1. n \in Nat /\ \A i \in 1 .. n : T[i] \in Words
  OBVIOUS
<1>2. ASSUME NEW i \in 1 .. (n + 1), NEW j \in 0 .. n, i <= j, Applied(i, j) # {}
      PROVE  last(i, j) \in i .. j /\ T[last(i, j)].token \in ArithOps
  <2>1. Applied(i, j) \subseteq i .. j /\ Applied(i, j) \subseteq 0 .. n
        /\ \A k \in Applied(i, j) : T[k].token \in ArithOps
    <3>1. i .. j \subseteq 0 .. n /\ SumOps \subseteq ArithOps /\ ProductOps \subseteq ArithOps
      BY <1>1 DEF SumOps, ProductOps, ArithOps
    <3>2. \A S : \A k \in Outermost(T, i, j, S) : k \in i .. j /\ T[k].token \in S
      BY DEF Outermost
    <3> QED BY <3>1, <3>2
  <2> DEFINE A == Applied(i, j)
  <2> HIDE DEF A
  <2>2. \E k \in A : \A m \in A : m <= k
    BY <1>1, <1>2, <2>1, GreatestNat DEF A
  <2>3. last(i, j) \in A
    BY <2>2 DEF A
  <2> HIDE DEF last
  <2> QED BY <2>1, <2>3 DEF A
\* The value of a part, by cases.
<1>3. ASSUME NEW i \in 1 .. (n + 1), NEW j \in 0 .. n, NEW v
      PROVE  PartValue(T, columns, v, i, j) =
               IF i > j THEN 0
               ELSE IF Applied(i, j) # {}
               THEN ValueOf(T[last(i, j)].token, v[<<i, last(i, j) - 1>>], v[<<last(i, j) + 1, j>>])
               ELSE IF T[i].token = "neg" THEN Wrap(-v[<<i + 1, j>>])
               ELSE IF T[i].token = "(" THEN v[<<i + 1, j - 1>>]
               ELSE IF T[i].token = "INT" THEN T[i].val
               ELSE IF T[i].token = "IDENTIFIER" THEN columns[T[i].val] ELSE 0
  BY DEF PartValue, SumOps, ProductOps
<1>4. ASSUME NEW i \in 1 .. (n + 1), NEW j \in 0 .. n, i <= j
      PROVE  /\ i \in 1 .. n
             /\ <<i + 1, j>> \in I /\ <<i + 1, j - 1>> \in I
             /\ rank[<<i + 1, j>>] < rank[<<i, j>>] /\ rank[<<i + 1, j - 1>>] < rank[<<i, j>>]
             /\ Applied(i, j) # {} =>
                  /\ <<i, last(i, j) - 1>> \in I /\ <<last(i, j) + 1, j>> \in I
                  /\ rank[<<i, last(i, j) - 1>>] < rank[<<i, j>>]
                  /\ rank[<<last(i, j) + 1, j>>] < rank[<<i, j>>]
  <2>1. i \in 1 .. n /\ <<i + 1, j>> \in I /\ <<i + 1, j - 1>> \in I
    BY <1>1, <1>4
  <2>2. rank[<<i + 1, j>>] < rank[<<i, j>>] /\ rank[<<i + 1, j - 1>>] < rank[<<i, j>>]
    BY <1>1, <1>4, <2>1
  <2>3. ASSUME NEW k \in i .. j
        PROVE  /\ <<i, k - 1>> \in I /\ <<k + 1, j>> \in I
               /\ rank[<<i, k - 1>>] < rank[<<i, j>>] /\ rank[<<k + 1, j>>] < rank[<<i, j>>]
    <3>1. /\ k \in 1 .. n /\ k - 1 \in 0 .. n /\ k + 1 \in 1 .. (n + 1)
          /\ (i > k - 1 \/ k - 1 - i + 1 < j - i + 1) /\ (k + 1 > j \/ j - (k + 1) + 1 < j - i + 1)
          /\ j - i + 1 > 0
      BY <1>1, <1>4
    <3>2. <<i, k - 1>> \in I /\ <<k + 1, j>> \in I /\ <<i, j>> \in I
      BY <3>1
    <3>3. /\ rank[<<i, j>>] = j - i + 1
          /\ rank[<<i, k - 1>>] = IF i > k - 1 THEN 0 ELSE k - 1 - i + 1
          /\ rank[<<k + 1, j>>] = IF k + 1 > j THEN 0 ELSE j - (k + 1) + 1
      BY <1>4, <3>2
    <3> HIDE DEF rank, I
    <3> QED BY <3>1, <3>2, <3>3
  <2> HIDE DEF I, rank, Applied, last
  <2> QED BY <1>2, <1>4, <2>1, <2>2, <2>3
<1>5. ASSUME NEW s \in I, NEW v \in [I -> Long] PROVE PartValue(T, columns, v, s[1], s[2]) \in Long
  <2> DEFINE i == s[1]
             j == s[2]
  <2>1. i \in 1 .. (n + 1) /\ j \in 0 .. n /\ 0 \in Long
    BY LongAssumption DEF Long
  <2>2. CASE i > j
    BY <1>3, <2>1, <2>2
  <2>3. CASE i <= j
    <3>1. /\ i \in 1 .. n
          /\ v[<<i + 1, j>>] \in Long /\ v[<<i + 1, j - 1>>] \in Long
          /\ Applied(i, j) # {} =>
               v[<<i, last(i, j) - 1>>] \in Long /\ v[<<last(i, j) + 1, j>>] \in Long
      <4> HIDE DEF I, rank, Applied, last
      <4> QED BY <1>4, <2>1, <2>3
    <3>2. Applied(i, j) # {} =>
            ValueOf(T[last(i, j)].token, v[<<i, last(i, j) - 1>>], v[<<last(i, j) + 1, j>>]) \in Long
      <4> HIDE DEF I, rank, Applied, last
      <4> QED BY <1>2, <2>1, <2>3, <3>1, ValueInLong
    <3>3. Wrap(-v[<<i + 1, j>>]) \in Long
      <4>1. -v[<<i + 1, j>>] \in Int
        BY <3>1, LongAssumption DEF Long
      <4> QED BY <4>1, WrapInLong
    <3>4. /\ T[i].token = "INT" => T[i].val \in Long
          /\ T[i].token = "IDENTIFIER" => columns[T[i].val] \in Long
      BY <1>1, <3>1, WordsCarry
    <3> HIDE DEF I, rank, Applied, last
    <3> QED BY <1>3, <2>1, <2>3, <3>1, <3>2, <3>3, <3>4
  <2> QED BY <2>1, <2>2, <2>3
<1>6. ASSUME NEW s \in I, NEW g \in [I -> Long], NEW h \in [I -> Long],
             \A t \in I : rank[t] < rank[s] => g[t] = h[t]
      PROVE  PartValue(T, columns, g, s[1], s[2]) = PartValue(T, columns, h, s[1], s[2])
  <2> DEFINE i == s[1]
             j == s[2]
  <2>1. i \in 1 .. (n + 1) /\ j \in 0 .. n /\ s = <<i, j>>
    OBVIOUS
  <2>2. CASE i > j
    BY <1>3, <2>1, <2>2
  <2>3. CASE i <= j
    <3>1. /\ g[<<i + 1, j>>] = h[<<i + 1, j>>] /\ g[<<i + 1, j - 1>>] = h[<<i + 1, j - 1>>]
          /\ Applied(i, j) # {} =>
               /\ g[<<i, last(i, j) - 1>>] = h[<<i, last(i, j) - 1>>]
               /\ g[<<last(i, j) + 1, j>>] = h[<<last(i, j) + 1, j>>]
      <4> HIDE DEF I, rank, Applied, last, i, j
      <4> QED BY <1>4, <1>6, <2>1, <2>3
    <3> HIDE DEF I, rank, Applied, last
    <3> QED BY <1>3, <2>1, <2>3, <3>1
  <2> QED BY <2>1, <2>2, <2>3
<1>7. \E f \in [I -> Long] : \A s \in I : f[s] = D[s][f]
  <2>1. D \in [I -> [[I -> Long] -> Long]]
    BY <1>5
  <2>2. rank \in [I -> 0 .. n]
    BY <1>1
  <2>3. Long # {}
    <3>1. 0 \in Long
      BY LongAssumption DEF Long
    <3> QED BY <3>1
  <2>4. \A s \in I : \A g, h \in [I -> Long] :
          (\A t \in I : rank[t] < rank[s] => g[t] = h[t]) => D[s][g] = D[s][h]
    <3> HIDE DEF I, rank
    <3> QED BY <1>6
  <2> HIDE DEF D, rank, I, n
  <2>5. Recursion(I, Long, n, rank, D)
    BY <1>1, <2>1, <2>2, <2>3, <2>4 DEF Recursion
  <2> QED BY <2>5, RecursiveFunctionExists
<1>8. PICK f \in [I -> Long] : \A s \in I : f[s] = D[s][f]
  BY <1>7
<1>9. f = [s \in I |-> PartValue(T, columns, f, s[1], s[2])]
  <2> DEFINE Part(s) == PartValue(T, columns, f, s[1], s[2])
  <2>1. \A s \in I : f[s] = Part(s)
    BY <1>8
  <2> HIDE DEF I, Part
  <2> QED BY <2>1 DEF Part
<1> QED
  BY <1>9 DEF Values

\* The reference is the value of the whole text.
LEMMA ReferenceIsValue ==
  ASSUME NEW T \in Seq(Words), NEW columns \in [ColumnNames -> Long]
  PROVE  \E v : Values(T, columns, v) /\ TextValue(T, columns) = v[<<1, Len(T)>>]
<1> DEFINE v == CHOOSE v : v = [s \in (1 .. Len(T) + 1) \X (0 .. Len(T)) |->
                                 PartValue(T, columns, v, s[1], s[2])]
<1>1. TextValue(T, columns) = v[<<1, Len(T)>>]
  BY DEF TextValue
<1>2. Values(T, columns, v)
  BY ValuesExist DEF Values
<1> QED
  BY <1>1, <1>2

-----------------------------------------------------------------------------
(* The stack as parts of the text                                            *)

\* A fact about a length that a step needs not see.
OfLength(s, n) == n = Len(s)

\* The operand h is the part from a to b, and has its value.
Stands(T, v, den, h, a, b) == a <= b /\ Nested(T, a, b) /\ den[h] = v[<<a, b>>]

\* The k-th operator on the stack is the token at place[k].  A minus before an
\* operand, as it is or as the difference of 0 and the operand, and a parenthesis
\* follow the operator below.  Between the others and the operator below is their
\* left operand, operands[rank[k]], and the operator below is applied later.
Link(T, v, den, place, rank, symbols, operands, k) ==
  LET from == place[k - 1] + 1
      to == place[k]
  IN  /\ from <= to
      /\ rank[k] = rank[k - 1] + (IF symbols[k] \in ArithOps THEN 1 ELSE 0)
      /\ \/ /\ from = to /\ T[to].token \in {"neg", "("}
            /\ \/ symbols[k] = T[to].token
               \/ T[to].token = "neg" /\ symbols[k] = "Minus" /\ den[operands[rank[k]]] = 0
         \/ /\ symbols[k] = T[to].token /\ symbols[k] \in ArithOps
            /\ Stands(T, v, den, operands[rank[k]], from, to - 1)
            /\ symbols[k] \in ProductOps => Outermost(T, from, to - 1, SumOps) = {}
            /\ k > 1 => \/ T[from - 1].token = "("
                        \/ T[from - 1].token \in SumOps /\ symbols[k] \in ProductOps

\* The symbols of the stack, from the lowest to the highest.
Chain(T, v, den, place, rank, symbols, operands) ==
  /\ place \in [Nat -> Nat] /\ rank \in [Nat -> Nat]
  /\ place[0] = 0 /\ rank[0] = 0
  /\ \A j, k \in 0 .. Len(symbols) : j <= k => rank[j] <= rank[k]
  /\ \A k \in 1 .. Len(symbols) : Link(T, v, den, place, rank, symbols, operands, k)

\* The operators outside of parentheses in the last operand bind stronger than
\* the operator below and, if they are sums, than the lookahead.
Level(T, place, n, length, token) ==
  LET sums == Outermost(T, place[n] + 1, length, SumOps)
      products == Outermost(T, place[n] + 1, length, ProductOps)
  IN  /\ n > 0 /\ T[place[n]].token \in ProductOps \cup {"neg"} => sums = {} /\ products = {}
      /\ n > 0 /\ T[place[n]].token \in SumOps => sums = {}
      /\ sums # {} => token # "NONE" /\ token \notin ProductOps

\* Before an operand, and behind it.
Waiting(place, rank, n, operands, length) == place[n] = length /\ rank[n] = Len(operands)
Complete(T, v, den, place, rank, n, operands, length, token) ==
  /\ rank[n] + 1 = Len(operands)
  /\ Stands(T, v, den, operands[Len(operands)], place[n] + 1, length)
  /\ Level(T, place, n, length, token)

\* Only the first m symbols are left, and the operands below the m-th one are the same
\* or of the same value.
Below(T, v, den, den2, place, rank, A, symbols, symbols2, operands, operands2, m) ==
  /\ symbols \in Seq(A)
  /\ symbols2 \in Seq(A)
  /\ Chain(T, v, den, place, rank, symbols, operands)
  /\ m \in 0 .. Len(symbols)
  /\ Len(symbols2) = m
  /\ \A k \in 1 .. m : symbols2[k] = symbols[k]
  /\ \A i \in 1 .. rank[m] : operands2[i] = operands[i] /\ den2[operands[i]] = den[operands[i]]

\* What is below stays as it is when symbols are popped and the API's tables grow.
LEMMA ChainKept ==
  ASSUME NEW T, NEW v, NEW den, NEW den2, NEW place, NEW rank, NEW A, NEW symbols,
         NEW symbols2, NEW operands, NEW operands2, NEW m,
         Below(T, v, den, den2, place, rank, A, symbols, symbols2, operands, operands2, m)
  PROVE  Chain(T, v, den2, place, rank, symbols2, operands2)
<1> USE DEF Below
<1>0. Len(symbols) \in Nat /\ m \in Nat /\ m <= Len(symbols)
  OBVIOUS
<1>a. /\ place \in [Nat -> Nat] /\ rank \in [Nat -> Nat]
      /\ place[0] = 0 /\ rank[0] = 0
      /\ \A j, k \in 0 .. Len(symbols) : j <= k => rank[j] <= rank[k]
      /\ \A k \in 1 .. Len(symbols) : Link(T, v, den, place, rank, symbols, operands, k)
  BY DEF Chain
<1>b. ASSUME NEW j \in 0 .. m, NEW k \in 0 .. m, j <= k PROVE rank[j] <= rank[k] /\ rank[j] \in Nat
  <2>1. j \in 0 .. Len(symbols) /\ k \in 0 .. Len(symbols) /\ j \in Nat
    BY <1>0
  <2>2. rank[j] <= rank[k]
    BY <1>a, <1>b, <2>1, Zenon
  <2> QED BY <1>a, <2>1, <2>2
<1>1. ASSUME NEW k \in 1 .. m PROVE Link(T, v, den2, place, rank, symbols2, operands2, k)
  <2>0. k \in 1 .. Len(symbols) /\ k \in 0 .. Len(symbols) /\ k \in Nat /\ k - 1 \in Nat
    BY <1>0
  <2>1. Link(T, v, den, place, rank, symbols, operands, k) /\ symbols2[k] = symbols[k]
    BY <1>a, <2>0
  <2>2. rank[k] \in Nat /\ rank[k - 1] \in Nat /\ rank[k] <= rank[m]
    <3>1. k \in 0 .. m /\ m \in 0 .. m /\ k - 1 \in 0 .. m /\ k <= m /\ k - 1 <= k
      BY <1>0
    <3>2. rank[k] <= rank[m] /\ rank[k] \in Nat
      BY <1>b, <3>1
    <3>3. rank[k - 1] \in Nat
      BY <1>b, <3>1
    <3> QED BY <3>2, <3>3
  <2>3. symbols[k] \in ArithOps => rank[k] \in 1 .. rank[m]
    <3>1. symbols[k] \in ArithOps => rank[k] = rank[k - 1] + 1
      BY <2>1 DEF Link
    <3>2. rank[m] \in Nat
      BY <1>0, <1>a
    <3> QED BY <2>2, <3>1, <3>2
  <2>4. symbols[k] \in ArithOps => /\ operands2[rank[k]] = operands[rank[k]]
                                   /\ den2[operands[rank[k]]] = den[operands[rank[k]]]
    BY <2>3
  <2>5. "Minus" \in ArithOps
    BY DEF ArithOps
  <2> QED BY <2>1, <2>4, <2>5 DEF Link, Stands
<1>2. \A j, k \in 0 .. m : j <= k => rank[j] <= rank[k]
  BY <1>b
<1> QED
  BY <1>a, <1>1, <1>2 DEF Chain

\* The symbol s, which is at place p of T, with r operands below it, is to be pushed.
Pushed(T, v, den, place, rank, A, symbols, s, operands, p, n, r) ==
  /\ symbols \in Seq(A)
  /\ s \in A
  /\ Chain(T, v, den, place, rank, symbols, operands)
  /\ p \in Nat
  /\ OfLength(symbols, n)
  /\ r = rank[n] + (IF s \in ArithOps THEN 1 ELSE 0)
  /\ Link(T, v, den, [place EXCEPT ![n + 1] = p], [rank EXCEPT ![n + 1] = r],
          Append(symbols, s), operands, n + 1)

\* One more operator.
LEMMA ChainPushed ==
  ASSUME NEW T, NEW v, NEW den, NEW place, NEW rank, NEW A, NEW symbols, NEW s,
         NEW operands, NEW p, NEW n, NEW r,
         Pushed(T, v, den, place, rank, A, symbols, s, operands, p, n, r)
  PROVE  Chain(T, v, den, [place EXCEPT ![n + 1] = p], [rank EXCEPT ![n + 1] = r],
               Append(symbols, s), operands)
<1> USE DEF Pushed
<1> DEFINE place2 == [place EXCEPT ![n + 1] = p]
           rank2 == [rank EXCEPT ![n + 1] = r]
           symbols2 == Append(symbols, s)
<1>a. /\ place \in [Nat -> Nat] /\ rank \in [Nat -> Nat]
      /\ place[0] = 0 /\ rank[0] = 0
      /\ \A j, k \in 0 .. n : j <= k => rank[j] <= rank[k]
      /\ \A k \in 1 .. n : Link(T, v, den, place, rank, symbols, operands, k)
  BY DEF Chain, OfLength
<1>b. n \in Nat /\ Len(symbols2) = n + 1 /\ \A k \in 1 .. n : symbols2[k] = symbols[k]
  BY DEF OfLength
<1>1. rank[n] \in Nat /\ r \in Nat /\ r >= rank[n]
  <2>1. rank[n] \in Nat
    BY <1>a, <1>b
  <2> QED BY <2>1
<1>2. place2 \in [Nat -> Nat] /\ rank2 \in [Nat -> Nat] /\ rank2[n + 1] = r
      /\ \A k \in 0 .. n : place2[k] = place[k] /\ rank2[k] = rank[k]
  <2>1. n + 1 \in Nat /\ \A k \in 0 .. n : k \in Nat /\ k # n + 1
    BY <1>b
  <2> HIDE <1>b
  <2> QED BY <1>a, <1>1, <2>1
<1>3. place2[0] = 0 /\ rank2[0] = 0
  BY <1>a, <1>b, <1>2
<1>4. \A j, k \in 0 .. (n + 1) : j <= k => rank2[j] <= rank2[k]
  <2>2. \A j \in 0 .. n : rank[j] <= rank[n] /\ rank[j] \in Nat
    BY <1>a, <1>b DEF OfLength
  <2>3. \A j \in 0 .. (n + 1) : j \in 0 .. n \/ j = n + 1
    BY <1>b
  <2> HIDE DEF rank2
  <2>4. ASSUME NEW j \in 0 .. (n + 1), NEW k \in 0 .. (n + 1), j <= k PROVE rank2[j] <= rank2[k]
    <3>1. CASE j \in 0 .. n /\ k \in 0 .. n
      BY <1>a, <1>2, <2>4, <3>1
    <3>2. CASE j \in 0 .. n /\ k = n + 1
      <4>1. rank2[j] = rank[j] /\ rank2[k] = r /\ rank[j] <= rank[n] /\ rank[j] \in Nat
        BY <1>2, <2>2, <3>2
      <4> HIDE <2>4
      <4> QED BY <1>1, <4>1
    <3>3. CASE j = n + 1
      BY <1>1, <1>2, <1>b, <2>4, <3>3
    <3> QED BY <2>3, <2>4, <3>1, <3>2, <3>3
  <2> QED BY <2>4
<1>5. ASSUME NEW k \in 1 .. (n + 1) PROVE Link(T, v, den, place2, rank2, symbols2, operands, k)
  <2>1. CASE k = n + 1
    BY <2>1
  <2>2. CASE k \in 1 .. n
    <3>1. Link(T, v, den, place, rank, symbols, operands, k)
      BY <1>a, <2>2
    <3>0. k \in 0 .. n /\ k - 1 \in 0 .. n
      BY <1>b, <2>2
    <3>2. /\ place2[k] = place[k] /\ place2[k - 1] = place[k - 1]
          /\ rank2[k] = rank[k] /\ rank2[k - 1] = rank[k - 1]
          /\ symbols2[k] = symbols[k]
      <4> HIDE DEF place2, rank2, symbols2
      <4> QED BY <1>b, <1>2, <2>2, <3>0
    <3> HIDE DEF place2, rank2, symbols2
    <3> QED BY <3>1, <3>2 DEF Link
  <2>3. k \in 1 .. n \/ k = n + 1
    BY <1>b
  <2> QED BY <2>1, <2>2, <2>3
<1> HIDE DEF place2, rank2, symbols2
<1>6. Chain(T, v, den, place2, rank2, symbols2, operands)
  BY <1>b, <1>2, <1>3, <1>4, <1>5 DEF Chain
<1> QED
  BY <1>6 DEF place2, rank2, symbols2

\* What is at the top of the stack.
LEMMA ChainTop ==
  ASSUME NEW T, NEW v, NEW den, NEW place, NEW rank,
         NEW A, NEW symbols \in Seq(A), NEW operands,
         Chain(T, v, den, place, rank, symbols, operands), NEW n, OfLength(symbols, n)
  PROVE  /\ n \in Nat /\ place[n] \in Nat /\ rank[n] \in Nat
         /\ place \in [Nat -> Nat] /\ rank \in [Nat -> Nat]
         /\ n > 0 => /\ place[n - 1] \in Nat /\ rank[n - 1] \in Nat
                     /\ Link(T, v, den, place, rank, symbols, operands, n)
         /\ n = 0 => place[n] = 0 /\ rank[n] = 0
<1>1. /\ place \in [Nat -> Nat] /\ rank \in [Nat -> Nat]
      /\ place[0] = 0 /\ rank[0] = 0
      /\ \A k \in 1 .. n : Link(T, v, den, place, rank, symbols, operands, k)
  BY DEF Chain, OfLength
<1>2. n \in Nat /\ (n > 0 => n - 1 \in Nat /\ n \in 1 .. n)
  BY DEF OfLength
<1> QED
  BY <1>1, <1>2

\* An operand is read and pushed as h.
ReadsOperand(T, columns, v, place, rank, A, symbols, H, operands, den, den2, n, length, h) ==
  /\ T \in Seq(Words)
  /\ Values(T, columns, v)
  /\ symbols \in Seq(A)
  /\ operands \in Seq(H)
  /\ OfLength(symbols, n)
  /\ length \in Nat
  /\ length < Len(T)
  /\ Chain(T, v, den, place, rank, symbols, operands)
  /\ Waiting(place, rank, n, operands, length)
  /\ T[length + 1].token \in {"INT", "IDENTIFIER"}
  /\ \A i \in 1 .. Len(operands) : den2[operands[i]] = den[operands[i]]
  /\ h \in H
  /\ den2[h] = IF T[length + 1].token = "INT" THEN T[length + 1].val
                                             ELSE columns[T[length + 1].val]

\* An operand is read.
LEMMA OperandRead ==
  ASSUME NEW T, NEW columns, NEW v, NEW place, NEW rank, NEW A, NEW symbols, NEW H,
         NEW operands, NEW den, NEW den2, NEW n, NEW length, NEW h,
         ReadsOperand(T, columns, v, place, rank, A, symbols, H, operands, den, den2, n,
                      length, h)
  PROVE  /\ Chain(T, v, den2, place, rank, symbols, Append(operands, h))
         /\ Complete(T, v, den2, place, rank, n, Append(operands, h), length + 1, "NONE")
<1> USE DEF ReadsOperand
<1>1. n \in Nat /\ rank[n] = Len(operands) /\ place[n] = length /\ n \in 0 .. Len(symbols)
  BY DEF Waiting, OfLength
<1> DEFINE operands2 == Append(operands, h)
           a == length + 1
<1>2. /\ Len(operands2) = Len(operands) + 1 /\ operands2[Len(operands) + 1] = h
      /\ \A i \in 1 .. Len(operands) : operands2[i] = operands[i]
      /\ Len(operands) \in Nat
  BY AppendProperties
<1>3. a \in 1 .. Len(T) /\ a = place[n] + 1
  BY <1>1
<1> HIDE DEF operands2
<1>4. Chain(T, v, den2, place, rank, symbols, operands2)
  <2>1. \A k \in 1 .. n : symbols[k] = symbols[k]
    OBVIOUS
  <2>2. \A i \in 1 .. rank[n] : operands2[i] = operands[i] /\ den2[operands[i]] = den[operands[i]]
    BY <1>1, <1>2
  <2>3. n \in 0 .. Len(symbols) /\ Len(symbols) = n
    BY <1>1 DEF OfLength
  <2>4. Below(T, v, den, den2, place, rank, A, symbols, symbols, operands, operands2, n)
    BY <2>1, <2>2, <2>3 DEF Below
  <2> QED BY <2>4, ChainKept
<1> HIDE DEF a
<1>5. /\ Nested(T, a, a)
      /\ v[<<a, a>>] = IF T[a].token = "INT" THEN T[a].val ELSE columns[T[a].val]
      /\ Outermost(T, a, a, SumOps) = {} /\ Outermost(T, a, a, ProductOps) = {}
  BY <1>3, OperandPart DEF a
<1>6. Stands(T, v, den2, h, a, a)
  BY <1>3, <1>5 DEF Stands, a
<1>7. Complete(T, v, den2, place, rank, n, operands2, a, "NONE")
  BY <1>1, <1>2, <1>3, <1>5, <1>6 DEF Complete, Level
<1> QED
  BY <1>4, <1>7 DEF a, operands2

\* A minus or a parenthesis before an operand is read.
ReadsPrefix(T, v, place, rank, A, symbols, operands, den, n, length, s) ==
  /\ T \in Seq(Words)
  /\ symbols \in Seq(A)
  /\ OfLength(symbols, n)
  /\ length \in Nat
  /\ Chain(T, v, den, place, rank, symbols, operands)
  /\ Waiting(place, rank, n, operands, length)
  /\ s \in A
  /\ s \in {"neg", "("} /\ T[length + 1].token = s

\* A minus or a parenthesis is read.
LEMMA PrefixRead ==
  ASSUME NEW T, NEW v, NEW place, NEW rank, NEW A, NEW symbols, NEW operands, NEW den,
         NEW n, NEW length, NEW s,
         ReadsPrefix(T, v, place, rank, A, symbols, operands, den, n, length, s)
  PROVE  \E p, r : /\ Chain(T, v, den, p, r, Append(symbols, s), operands)
                   /\ Waiting(p, r, n + 1, operands, length + 1)
<1> USE DEF ReadsPrefix
<1> DEFINE p == [place EXCEPT ![n + 1] = length + 1]
           r == [rank EXCEPT ![n + 1] = rank[n]]
<1>1. /\ n \in Nat /\ rank[n] = Len(operands) /\ place[n] = length
      /\ rank[n] \in Nat /\ place \in [Nat -> Nat] /\ rank \in [Nat -> Nat] /\ s \notin ArithOps
  <2>1. n \in Nat /\ rank[n] \in Nat /\ place \in [Nat -> Nat] /\ rank \in [Nat -> Nat]
    BY ChainTop
  <2>2. rank[n] = Len(operands) /\ place[n] = length
    BY DEF Waiting
  <2>3. s \notin ArithOps
    BY DEF ArithOps
  <2> QED BY <2>1, <2>2, <2>3
<1>2. /\ p[n + 1] = length + 1 /\ r[n + 1] = rank[n] /\ p[n] = length /\ r[n] = rank[n]
      /\ Append(symbols, s)[n + 1] = s /\ n + 1 \in Nat /\ (n + 1) - 1 = n
  <2>1. \A i \in Nat : i + 1 # i /\ i + 1 \in Nat /\ (i + 1) - 1 = i
    OBVIOUS
  <2>2. Append(symbols, s)[n + 1] = s
    BY DEF OfLength
  <2>3. p[n + 1] = length + 1 /\ p[n] = place[n] /\ r[n + 1] = rank[n] /\ r[n] = rank[n]
    <3> QED BY <1>1, <2>1
  <2> QED BY <1>1, <2>1, <2>2, <2>3
<1> HIDE DEF p, r
<1>3. Link(T, v, den, p, r, Append(symbols, s), operands, n + 1)
  <2> DEFINE to == length + 1
             symbols2 == Append(symbols, s)
  <2>0. \A i \in Nat : i <= i /\ i + 0 = i
    OBVIOUS
  <2>1. /\ p[n + 1] = to /\ p[(n + 1) - 1] + 1 = to /\ symbols2[n + 1] = s /\ to <= to
        /\ r[n + 1] = r[(n + 1) - 1] + 0 /\ T[to].token = s
    <3>1. p[(n + 1) - 1] = length /\ r[(n + 1) - 1] = rank[n]
      BY <1>2
    <3>2. rank[n] + 0 = rank[n] /\ to \in Nat /\ to <= to
      BY <1>1, <2>0
    <3> QED BY <1>2, <3>1, <3>2
  <2> HIDE DEF to, symbols2
  <2>2. Link(T, v, den, p, r, symbols2, operands, n + 1)
    BY <1>1, <2>1 DEF Link
  <2> QED BY <2>2 DEF symbols2
<1>4. Chain(T, v, den, p, r, Append(symbols, s), operands)
  <2>1. length + 1 \in Nat /\ rank[n] = rank[n] + (IF s \in ArithOps THEN 1 ELSE 0)
    <3>1. rank[n] + 0 = rank[n] /\ length + 1 \in Nat
      BY <1>1
    <3> QED BY <1>1, <3>1
  <2>2. Pushed(T, v, den, place, rank, A, symbols, s, operands, length + 1, n, rank[n])
    BY <1>3, <2>1 DEF Pushed, p, r
  <2> QED BY <2>2, ChainPushed DEF p, r
<1>5. Waiting(p, r, n + 1, operands, length + 1)
  BY <1>1, <1>2 DEF Waiting
<1> QED
  BY <1>4, <1>5

\* An operator is read that binds stronger than the one below.
ReadsOperator(T, v, place, rank, A, symbols, H, operands, den, n, length, s) ==
  /\ T \in Seq(Words)
  /\ symbols \in Seq(A)
  /\ operands \in Seq(H)
  /\ OfLength(symbols, n)
  /\ length \in Nat
  /\ Chain(T, v, den, place, rank, symbols, operands)
  /\ s \in A
  /\ s \in ArithOps
  /\ T[length + 1].token = s
  /\ Complete(T, v, den, place, rank, n, operands, length, s)
  /\ n > 0 => symbols[n] = "(" \/ Precedence(symbols[n]) < Precedence(s)
  /\ n > 0 /\ T[place[n]].token = "neg" => s \notin ProductOps

\* An operator between two operands is read.
LEMMA OperatorRead ==
  ASSUME NEW T, NEW v, NEW place, NEW rank, NEW A, NEW symbols, NEW H, NEW operands,
         NEW den, NEW n, NEW length, NEW s,
         ReadsOperator(T, v, place, rank, A, symbols, H, operands, den, n, length, s)
  PROVE  \E p, r : /\ Chain(T, v, den, p, r, Append(symbols, s), operands)
                   /\ Waiting(p, r, n + 1, operands, length + 1)
<1> USE DEF ReadsOperator
<1> DEFINE p == [place EXCEPT ![n + 1] = length + 1]
           r == [rank EXCEPT ![n + 1] = rank[n] + 1]
<1>1. /\ n \in Nat /\ rank[n] + 1 = Len(operands) /\ place[n] \in Nat
      /\ rank[n] \in Nat /\ place \in [Nat -> Nat] /\ rank \in [Nat -> Nat]
  <2>1. n \in Nat /\ rank[n] \in Nat /\ place[n] \in Nat
        /\ place \in [Nat -> Nat] /\ rank \in [Nat -> Nat]
    BY ChainTop
  <2>2. rank[n] + 1 = Len(operands)
    BY DEF Complete
  <2> QED BY <2>1, <2>2
<1>2. /\ p[n + 1] = length + 1 /\ r[n + 1] = rank[n] + 1 /\ p[n] = place[n] /\ r[n] = rank[n]
      /\ Append(symbols, s)[n + 1] = s /\ n + 1 \in Nat /\ (n + 1) - 1 = n
  <2>1. \A i \in Nat : i + 1 # i /\ i + 1 \in Nat /\ (i + 1) - 1 = i
    OBVIOUS
  <2>2. Append(symbols, s)[n + 1] = s
    BY DEF OfLength
  <2>3. p[n + 1] = length + 1 /\ p[n] = place[n] /\ r[n + 1] = rank[n] + 1 /\ r[n] = rank[n]
    <3> QED BY <1>1, <2>1
  <2> QED BY <1>1, <2>1, <2>2, <2>3
<1>3. /\ Stands(T, v, den, operands[rank[n] + 1], place[n] + 1, length)
      /\ place[n] + 1 <= length
      /\ s \in ProductOps => Outermost(T, place[n] + 1, length, SumOps) = {}
  BY <1>1 DEF Complete, Stands, Level
<1>4. n > 0 => T[place[n]].token = "(" \/ (T[place[n]].token \in SumOps /\ s \in ProductOps)
  <2> SUFFICES ASSUME n > 0
               PROVE  T[place[n]].token = "(" \/ (T[place[n]].token \in SumOps /\ s \in ProductOps)
    OBVIOUS
  <2>1. Link(T, v, den, place, rank, symbols, operands, n)
    BY ChainTop
  <2>2. CASE symbols[n] = "("
    <3>1. "(" \notin ArithOps
      BY DEF ArithOps
    <3> QED BY <2>1, <2>2, <3>1 DEF Link
  <2>3. CASE Precedence(symbols[n]) < Precedence(s)
    <3>1. s \in ProductOps /\ symbols[n] \notin ProductOps
      BY <2>3 DEF Precedence, ProductOps
    <3>2. T[place[n]].token # "neg"
      BY <3>1
    <3> QED BY <2>1, <3>1, <3>2 DEF Link, ArithOps, SumOps, ProductOps
  <2> QED BY <2>2, <2>3
<1>5. (length + 1) - 1 = length /\ (place[n] + 1) - 1 = place[n] /\ (n + 1 > 1 => n > 0)
  <2>1. \A i \in Nat : (i + 1) - 1 = i /\ (i + 1 > 1 => i > 0)
    OBVIOUS
  <2> QED BY <1>1, <2>1
<1> HIDE DEF p, r
<1>6. Link(T, v, den, p, r, Append(symbols, s), operands, n + 1)
  <2>1. Stands(T, v, den, operands[r[n + 1]], place[n] + 1, (length + 1) - 1)
    BY <1>2, <1>3, <1>5
  <2>2. place[n] + 1 <= length + 1
    BY <1>1, <1>3
  <2> QED BY <1>1, <1>2, <1>3, <1>4, <1>5, <2>1, <2>2 DEF Link
<1>7. Chain(T, v, den, p, r, Append(symbols, s), operands)
  <2>1. length + 1 \in Nat /\ rank[n] + 1 = rank[n] + (IF s \in ArithOps THEN 1 ELSE 0)
    BY <1>1
  <2>2. Pushed(T, v, den, place, rank, A, symbols, s, operands, length + 1, n, rank[n] + 1)
    BY <1>6, <2>1 DEF Pushed, p, r
  <2> QED BY <2>2, ChainPushed DEF p, r
<1>8. Waiting(p, r, n + 1, operands, length + 1)
  BY <1>1, <1>2 DEF Waiting
<1> QED
  BY <1>7, <1>8

\* The difference of 0 and an operand is its negation.
LEMMA DifferenceOfZero ==
  ASSUME NEW x \in Int
  PROVE  ValueOf("Minus", 0, x) = Wrap(-x)
<1>1. 0 - x = -x
  OBVIOUS
<1>2. ~Traps("Minus", 0, x)
  BY DEF Traps
<1> QED
  BY <1>1, <1>2 DEF ValueOf, Apply

\* The n-th symbol is applied to its operands, and h is the result.
Applied(T, columns, v, den, left, right, place, rank, n, symbols, operands, length, token,
        den2, h) ==
  /\ T \in Seq(Words)
  /\ Values(T, columns, v)
  /\ place \in [Nat -> Nat]
  /\ n \in Nat \ {0}
  /\ length \in Nat
  /\ length <= Len(T)
  /\ symbols[n] \in ArithOps
  /\ Link(T, v, den, place, rank, symbols, operands, n)
  /\ left = operands[rank[n]]
  /\ den[right] \in Int
  /\ Stands(T, v, den, right, place[n] + 1, length)
  /\ Level(T, place, n, length, token)
  /\ token # "NONE"
  /\ token \in ArithOps => Precedence(symbols[n]) >= Precedence(token)
  /\ den2[h] = ValueOf(symbols[n], den[left], den[right])

\* The part an operator makes with its operands: the operator is the token at k,
\* and there is no other token before the left operand's but an operator which is
\* applied later.
LEMMA AppliedPart ==
  ASSUME NEW T, NEW columns, NEW v, NEW den, NEW left, NEW right, NEW place, NEW rank,
         NEW n, NEW symbols, NEW operands, NEW length, NEW token, NEW den2, NEW h,
         Applied(T, columns, v, den, left, right, place, rank, n, symbols, operands,
                 length, token, den2, h)
  PROVE  Stands(T, v, den2, h, place[n - 1] + 1, length) /\ Level(T, place, n - 1, length, token)
<1> USE DEF Applied
<1> DEFINE a == place[n - 1] + 1
           k == place[n]
<1>1. /\ a \in Nat \ {0} /\ k \in Nat /\ a <= k /\ k < length /\ a \in 1 .. Len(T)
      /\ length \in 1 .. Len(T) /\ k \in Int /\ a \in Int /\ a < length
      /\ n - 1 \in Nat /\ place[n - 1] \in Nat /\ a - 1 = place[n - 1] /\ (n - 1 > 0 => n > 1)
  <2>1. n - 1 \in Nat /\ (n - 1 > 0 => n > 1)
    OBVIOUS
  <2>2. place[n - 1] \in Nat /\ place[n] \in Nat
    BY <2>1
  <2>3. place[n - 1] + 1 <= place[n]
    BY DEF Link
  <2>4. place[n] + 1 <= length
    BY DEF Stands
  <2>5. \A p, q, l, size \in Nat : p + 1 <= q /\ q + 1 <= l /\ l <= size =>
          /\ p + 1 \in Nat \ {0} /\ q < l /\ p + 1 \in 1 .. size /\ l \in 1 .. size
          /\ p + 1 < l /\ (p + 1) - 1 = p /\ p + 1 \in Int
    OBVIOUS
  <2>6. Len(T) \in Nat
    OBVIOUS
  <2>7. /\ a \in Nat \ {0} /\ k < length /\ a \in 1 .. Len(T) /\ length \in 1 .. Len(T)
        /\ a < length /\ a - 1 = place[n - 1] /\ a \in Int
    BY <2>2, <2>3, <2>4, <2>5, <2>6
  <2>8. k \in Int
    BY <2>2
  <2> HIDE DEF a
  <2> QED BY <2>1, <2>2, <2>3, <2>7, <2>8 DEF a
<1>2. Nested(T, k + 1, length) /\ den[right] = v[<<k + 1, length>>]
  BY DEF Stands
<1>3. /\ T[k].token \in ProductOps \cup {"neg"} =>
           Outermost(T, k + 1, length, SumOps) = {} /\ Outermost(T, k + 1, length, ProductOps) = {}
      /\ T[k].token \in SumOps => Outermost(T, k + 1, length, SumOps) = {}
  <2>1. n > 0
    OBVIOUS
  <2> QED BY <2>1 DEF Level
<1>4. ASSUME Stands(T, v, den2, h, a, length),
             Outermost(T, a, length, SumOps) # {} =>
               symbols[n] \in SumOps /\ (n > 1 => T[a - 1].token \notin SumOps),
             \/ Outermost(T, a, length, SumOps) = {} /\ Outermost(T, a, length, ProductOps) = {}
             \/ n > 1 => T[a - 1].token \notin ProductOps \cup {"neg"}
      PROVE  Stands(T, v, den2, h, place[n - 1] + 1, length) /\ Level(T, place, n - 1, length, token)
  <2>1. symbols[n] \in SumOps => token \notin ProductOps
    <3>1. symbols[n] \in SumOps => Precedence(symbols[n]) = 1
      BY DEF Precedence, SumOps
    <3>2. token \in ProductOps => Precedence(token) = 2 /\ token \in ArithOps
      BY DEF Precedence, ProductOps, ArithOps
    <3> QED BY <3>1, <3>2
  <2>2. T[a - 1].token \in ProductOps \cup {"neg"} => T[a - 1].token \notin SumOps
    BY DEF SumOps, ProductOps
  <2>3. Level(T, place, n - 1, length, token)
    <3> HIDE DEF k
    <3>1. T[place[n - 1]] = T[a - 1] /\ place[n - 1] + 1 = a
      BY <1>1
    <3> HIDE DEF a
    <3> QED BY <1>1, <1>4, <2>1, <2>2, <3>1 DEF Level
  <2> QED BY <1>4, <2>3
<1>5. CASE T[k].token = "neg"
  <2>1. a = k /\ symbols[n] = "Minus" /\ den[left] = 0
    <3>1. "neg" \notin ArithOps
      BY DEF ArithOps
    <3> HIDE DEF Level
    <3> QED BY <1>5, <3>1 DEF Link
  <2>2. /\ Nested(T, a, length) /\ v[<<a, length>>] = Wrap(-v[<<a + 1, length>>])
        /\ Outermost(T, a, length, SumOps) = {} /\ Outermost(T, a, length, ProductOps) = {}
    <3>1. Outermost(T, a + 1, length, SumOps) = {} /\ Outermost(T, a + 1, length, ProductOps) = {}
          /\ Nested(T, a + 1, length) /\ T[a].token = "neg"
      BY <1>2, <1>3, <1>5, <2>1
    <3>2. a \in 1 .. Len(T) /\ length \in 1 .. Len(T) /\ a < length
      BY <1>1
    <3> HIDE DEF a, k
    <3>3. Negated(T, columns, v, a, length)
      BY <3>1, <3>2 DEF Negated
    <3>4. Negation(T, v, a, length)
      BY <3>3, NegatedPart
    <3> QED BY <3>4 DEF Negation
  <2>3. Stands(T, v, den2, h, a, length)
    <3>1. den2[h] = Wrap(-den[right])
      BY <2>1, DifferenceOfZero
    <3>2. a <= length
      BY <1>1
    <3> QED BY <1>2, <2>1, <2>2, <3>1, <3>2 DEF Stands
  <2> QED BY <1>4, <2>2, <2>3
<1>6. CASE T[k].token # "neg"
  <2>1. /\ symbols[n] = T[k].token
        /\ Stands(T, v, den, left, a, k - 1)
        /\ symbols[n] \in ProductOps => Outermost(T, a, k - 1, SumOps) = {}
        /\ n > 1 => \/ T[a - 1].token = "("
                    \/ T[a - 1].token \in SumOps /\ symbols[n] \in ProductOps
    <3>1. "(" \notin ArithOps
      BY DEF ArithOps
    <3> QED BY <1>6, <3>1 DEF Link
  <2>2. a < k /\ Nested(T, a, k - 1) /\ den[left] = v[<<a, k - 1>>]
    <3>1. a <= k - 1
      BY <2>1 DEF Stands
    <3>2. a < k
      BY <1>1, <3>1
    <3> QED BY <2>1, <3>2 DEF Stands
  <2>3. symbols[n] \in SumOps \/ symbols[n] \in ProductOps
    BY DEF ArithOps, SumOps, ProductOps
  <2>4. /\ Nested(T, a, length)
        /\ v[<<a, length>>] = ValueOf(T[k].token, v[<<a, k - 1>>], v[<<k + 1, length>>])
        /\ T[k].token \in ProductOps => Outermost(T, a, length, SumOps) = {}
    <3>1. Outermost(T, k + 1, length, SumOps) = {}
          /\ (T[k].token \in ProductOps => /\ Outermost(T, a, k - 1, SumOps) = {}
                                           /\ Outermost(T, k + 1, length, ProductOps) = {})
      BY <1>3, <2>1, <2>3
    <3>2. T[k].token \in ArithOps
      BY <2>1
    <3> HIDE DEF a, k
    <3> QED BY <1>1, <1>2, <2>2, <3>1, <3>2, BinaryPart
  <2>5. Stands(T, v, den2, h, a, length)
    <3>1. a <= length
      BY <1>1
    <3> QED BY <1>2, <2>1, <2>2, <2>4, <3>1 DEF Stands
  <2>6. "(" \notin SumOps /\ "(" \notin ProductOps \cup {"neg"}
        /\ \A s \in SumOps : s \notin ProductOps \cup {"neg"}
    BY DEF SumOps, ProductOps
  <2> HIDE DEF a, k
  <2> QED BY <1>4, <2>1, <2>3, <2>4, <2>5, <2>6
<1> QED
  BY <1>5, <1>6

\* The topmost operator is applied, and symbols2 and operands2 are left.
AppliesOperator(T, columns, v, place, rank, A, symbols, symbols2, H, operands, operands2,
                den, den2, n, length, token, m) ==
  /\ T \in Seq(Words)
  /\ Values(T, columns, v)
  /\ symbols \in Seq(A)
  /\ symbols2 \in Seq(A)
  /\ operands \in Seq(H)
  /\ operands2 \in Seq(H)
  /\ OfLength(symbols, n)
  /\ length \in Nat
  /\ length <= Len(T)
  /\ Chain(T, v, den, place, rank, symbols, operands)
  /\ Complete(T, v, den, place, rank, n, operands, length, token)
  /\ n > 0
  /\ symbols[n] \in ArithOps
  /\ token # "NONE"
  /\ token \in ArithOps => Precedence(symbols[n]) >= Precedence(token)
  /\ Len(symbols2) = n - 1
  /\ \A k \in 1 .. (n - 1) : symbols2[k] = symbols[k]
  /\ OfLength(operands, m)
  /\ Len(operands2) = m - 1
  /\ \A i \in 1 .. (m - 2) : operands2[i] = operands[i]
  /\ \A i \in 1 .. m : den2[operands[i]] = den[operands[i]]
  /\ den[operands[m]] \in Int
  /\ den2[operands2[m - 1]] = ValueOf(symbols[n], den[operands[m - 1]], den[operands[m]])

\* An operator is applied to the operands on top of the stack.
LEMMA OperatorApplied ==
  ASSUME NEW T, NEW columns, NEW v, NEW place, NEW rank, NEW A, NEW symbols, NEW symbols2,
         NEW H, NEW operands, NEW operands2, NEW den, NEW den2, NEW n, NEW length,
         NEW token, NEW m,
         AppliesOperator(T, columns, v, place, rank, A, symbols, symbols2, H, operands,
                         operands2, den, den2, n, length, token, m)
  PROVE  /\ Chain(T, v, den2, place, rank, symbols2, operands2)
         /\ Complete(T, v, den2, place, rank, n - 1, operands2, length, token)
<1> USE DEF AppliesOperator
<1>1. /\ n \in Nat \ {0} /\ place \in [Nat -> Nat] /\ rank[n] \in Nat /\ rank[n - 1] \in Nat
      /\ Link(T, v, den, place, rank, symbols, operands, n)
  <2>1. /\ n \in Nat /\ place \in [Nat -> Nat] /\ rank[n] \in Nat /\ rank[n - 1] \in Nat
        /\ Link(T, v, den, place, rank, symbols, operands, n)
    BY ChainTop, Zenon
  <2>2. \A i \in Nat : i > 0 => i \in Nat \ {0}
    OBVIOUS
  <2> QED BY <2>1, <2>2
<1>2. /\ rank[n] + 1 = m
      /\ Stands(T, v, den, operands[m], place[n] + 1, length)
      /\ Level(T, place, n, length, token)
  BY DEF Complete, OfLength
<1>3. rank[n] = rank[n - 1] + 1
  BY <1>1 DEF Link
<1>4. rank[n] = m - 1 /\ rank[n - 1] = m - 2 /\ m \in Nat /\ rank[n - 1] + 1 = m - 1
  <2>1. \A i, j \in Nat : j = i + 1 =>
          /\ j = (j + 1) - 1 /\ i = (j + 1) - 2 /\ j + 1 \in Nat /\ i + 1 = (j + 1) - 1
    OBVIOUS
  <2> QED BY <1>1, <1>2, <1>3, <2>1
<1>5. Stands(T, v, den2, operands2[m - 1], place[n - 1] + 1, length) /\ Level(T, place, n - 1, length, token)
  <2> DEFINE h == operands2[m - 1]
             left == operands[rank[n]]
             right == operands[m]
  <2>1. left = operands[m - 1]
    BY <1>4
  <2>2. den2[h] = ValueOf(symbols[n], den[left], den[right])
    BY <2>1
  <2>3. Stands(T, v, den, right, place[n] + 1, length) /\ den[right] \in Int
    BY <1>2
  <2> HIDE DEF h, right
  <2>4. Stands(T, v, den2, h, place[n - 1] + 1, length) /\ Level(T, place, n - 1, length, token)
    <3>1. Applied(T, columns, v, den, left, right, place, rank, n, symbols, operands, length,
                  token, den2, h)
      BY <1>1, <1>2, <2>2, <2>3 DEF Applied
    <3> QED BY <3>1, AppliedPart
  <2> QED BY <2>4 DEF h
<1>6. Chain(T, v, den2, place, rank, symbols2, operands2)
  <2>1. n - 1 \in 0 .. Len(symbols)
    <3>1. \A i \in Nat \ {0} : i - 1 \in 0 .. i
      OBVIOUS
    <3> QED BY <1>1, <3>1 DEF OfLength
  <2>2. \A i \in 1 .. rank[n - 1] : operands2[i] = operands[i] /\ den2[operands[i]] = den[operands[i]]
    <3>1. \A i \in 1 .. (m - 2) : i \in 1 .. m
      BY <1>4
    <3> QED BY <1>4, <3>1
  <2>3. Below(T, v, den, den2, place, rank, A, symbols, symbols2, operands, operands2, n - 1)
    BY <2>1, <2>2 DEF Below
  <2> QED BY <2>3, ChainKept
<1>7. Complete(T, v, den2, place, rank, n - 1, operands2, length, token)
  <2> QED BY <1>4, <1>5 DEF Complete
<1> QED
  BY <1>6, <1>7

\* The last element of a sequence is replaced.
LEMMA LastReplaced ==
  ASSUME NEW A, NEW s \in Seq(A), NEW x \in A, NEW n, OfLength(s, n), n > 0
  PROVE  /\ [s EXCEPT ![n] = x] = Append(SubSeq(s, 1, n - 1), x)
         /\ [s EXCEPT ![n] = x][n] = x
<1> DEFINE s2 == [s EXCEPT ![n] = x]
           s3 == SubSeq(s, 1, n - 1)
           s4 == Append(s3, x)
<1>1. n \in Nat /\ n - 1 \in Nat /\ (n - 1) + 1 = n /\ n \in 1 .. n
      /\ \A k \in 1 .. n : k \in 1 .. (n - 1) \/ k = n
  BY DEF OfLength
<1>2. s3 \in Seq(A) /\ Len(s3) = n - 1 /\ \A k \in 1 .. (n - 1) : s3[k] = s[k]
  BY <1>1 DEF OfLength
<1>3. s2 \in Seq(A) /\ Len(s2) = n /\ s2[n] = x /\ \A k \in 1 .. (n - 1) : s2[k] = s[k]
  BY <1>1 DEF OfLength
<1> HIDE DEF s2, s3
<1>4. s4 \in Seq(A) /\ Len(s4) = n /\ s4[n] = x /\ \A k \in 1 .. (n - 1) : s4[k] = s[k]
  BY <1>1, <1>2, AppendProperties
<1> HIDE DEF s4
<1>5. \A k \in 1 .. n : s2[k] = s4[k]
  BY <1>1, <1>3, <1>4
<1>6. s2 = s4
  BY <1>3, <1>4, <1>5, SeqEqual
<1> QED
  BY <1>3, <1>6 DEF s2, s3, s4

\* The topmost minus before an operand becomes the difference of 0 and the operand.
AppliesNegation(T, v, place, rank, A, symbols, symbols2, H, operands, operands2, den, den2,
                n, length, token, m) ==
  /\ T \in Seq(Words)
  /\ symbols \in Seq(A)
  /\ "Minus" \in A
  /\ operands \in Seq(H)
  /\ OfLength(symbols, n)
  /\ length \in Nat
  /\ Chain(T, v, den, place, rank, symbols, operands)
  /\ Complete(T, v, den, place, rank, n, operands, length, token)
  /\ n > 0
  /\ symbols[n] = "neg"
  /\ symbols2 = [symbols EXCEPT ![n] = "Minus"]
  /\ OfLength(operands, m)
  /\ Len(operands2) = m + 1
  /\ \A i \in 1 .. (m - 1) : operands2[i] = operands[i]
  /\ operands2[m + 1] = operands[m]
  /\ den2[operands2[m]] = 0
  /\ \A i \in 1 .. m : den2[operands[i]] = den[operands[i]]

\* The minus before an operand becomes the difference of 0 and the operand.
LEMMA NegationApplied ==
  ASSUME NEW T, NEW v, NEW place, NEW rank, NEW A, NEW symbols, NEW symbols2, NEW H,
         NEW operands, NEW operands2, NEW den, NEW den2, NEW n, NEW length, NEW token, NEW m,
         AppliesNegation(T, v, place, rank, A, symbols, symbols2, H, operands, operands2,
                         den, den2, n, length, token, m)
  PROVE  \E r : /\ Chain(T, v, den2, place, r, symbols2, operands2)
                /\ Complete(T, v, den2, place, r, n, operands2, length, token)
<1> USE DEF AppliesNegation
<1> DEFINE symbols3 == SubSeq(symbols, 1, n - 1)
           r == [rank EXCEPT ![n] = rank[n] + 1]
           p == [place EXCEPT ![n] = place[n]]
<1>1. /\ n \in Nat \ {0} /\ place \in [Nat -> Nat] /\ rank \in [Nat -> Nat]
      /\ rank[n] \in Nat /\ rank[n - 1] \in Nat /\ place[n] \in Nat
      /\ Link(T, v, den, place, rank, symbols, operands, n)
  <2>1. /\ n \in Nat /\ place \in [Nat -> Nat] /\ rank[n] \in Nat /\ rank[n - 1] \in Nat
        /\ place[n] \in Nat /\ rank \in [Nat -> Nat]
        /\ Link(T, v, den, place, rank, symbols, operands, n)
    BY ChainTop, Zenon
  <2>2. \A i \in Nat : i > 0 => i \in Nat \ {0}
    OBVIOUS
  <2> QED BY <2>1, <2>2
<1>2. /\ rank[n] + 1 = m
      /\ Stands(T, v, den, operands[m], place[n] + 1, length)
      /\ Level(T, place, n, length, token)
  BY DEF Complete, OfLength
<1>3. /\ rank[n] = rank[n - 1] + 0 /\ place[n - 1] + 1 = place[n] /\ T[place[n]].token = "neg"
      /\ place[n - 1] + 1 <= place[n]
  <2>1. "neg" \notin ArithOps
    BY DEF ArithOps
  <2> QED BY <1>1, <2>1 DEF Link
<1>4. rank[n] = rank[n - 1] /\ m \in Nat /\ rank[n] = m - 1
  <2>1. \A i \in Nat : i + 0 = i /\ i + 1 \in Nat /\ i = (i + 1) - 1
    OBVIOUS
  <2> QED BY <1>1, <1>2, <1>3, <2>1
<1>5. /\ n - 1 \in 0 .. Len(symbols) /\ n - 1 \in Nat /\ (n - 1) + 1 = n /\ n \in Nat
      /\ n - 1 # n
  <2>1. \A i \in Nat \ {0} : i - 1 \in 0 .. i /\ i - 1 \in Nat /\ (i - 1) + 1 = i /\ i \in Nat /\ i - 1 # i
    OBVIOUS
  <2> QED BY <1>1, <2>1 DEF OfLength
<1>6. /\ symbols3 \in Seq(A) /\ Len(symbols3) = n - 1
      /\ \A k \in 1 .. (n - 1) : symbols3[k] = symbols[k]
  BY <1>5
<1>7. Chain(T, v, den2, place, rank, symbols3, operands2)
  <2>1. \A i \in 1 .. rank[n - 1] : operands2[i] = operands[i] /\ den2[operands[i]] = den[operands[i]]
    <3>1. \A i \in 1 .. (m - 1) : i \in 1 .. m
      BY <1>4
    <3> QED BY <1>4, <3>1
  <2> HIDE DEF symbols3
  <2>2. Below(T, v, den, den2, place, rank, A, symbols, symbols3, operands, operands2, n - 1)
    BY <1>5, <1>6, <2>1 DEF Below
  <2> QED BY <2>2, ChainKept
<1>8. symbols2 = Append(symbols3, "Minus") /\ symbols2[n] = "Minus"
  BY LastReplaced
<1>9. /\ p = place /\ p[n] = place[n] /\ r[n] = rank[n] + 1 /\ r[n - 1] = rank[n - 1]
      /\ p[n - 1] = place[n - 1] /\ r[n] = m /\ r[n] = r[n - 1] + 1
  <2>1. p = place
    BY <1>1
  <2>2. r[n] = rank[n] + 1 /\ r[n - 1] = rank[n - 1]
    BY <1>1, <1>5
  <2> HIDE DEF p, r
  <2> QED BY <1>2, <1>4, <2>1, <2>2
<1>10. Link(T, v, den2, p, r, symbols2, operands2, n)
  <2>1. symbols2[n] = "Minus" /\ symbols2[n] \in ArithOps
    BY <1>8 DEF ArithOps
  <2>2. operands2[r[n]] = operands2[m]
    BY <1>9
  <2> HIDE DEF p, r
  <2> QED BY <1>3, <1>9, <2>1, <2>2 DEF Link
<1> HIDE DEF symbols3
<1>11. Chain(T, v, den2, p, r, symbols2, operands2)
  <2> DEFINE n3 == n - 1
             p3 == place[n]
             r3 == rank[n] + 1
  <2>1. n3 = Len(symbols3) /\ n3 + 1 = n /\ p3 \in Nat
    BY <1>1, <1>5, <1>6
  <2>2. r3 = rank[n3] + (IF "Minus" \in ArithOps THEN 1 ELSE 0)
    BY <1>4 DEF ArithOps
  <2>3. /\ p = [place EXCEPT ![n3 + 1] = p3]
        /\ r = [rank EXCEPT ![n3 + 1] = r3]
    BY <2>1
  <2>4. Link(T, v, den2, [place EXCEPT ![n3 + 1] = p3], [rank EXCEPT ![n3 + 1] = r3],
             Append(symbols3, "Minus"), operands2, n3 + 1)
    BY <1>8, <1>10, <2>1, <2>3
  <2> HIDE DEF n3, p3, r3, p, r
  <2>5. Chain(T, v, den2, [place EXCEPT ![n3 + 1] = p3], [rank EXCEPT ![n3 + 1] = r3],
              Append(symbols3, "Minus"), operands2)
    <3>1. OfLength(symbols3, n3) /\ "Minus" \in A
      BY <2>1 DEF OfLength
    <3>2. Pushed(T, v, den2, place, rank, A, symbols3, "Minus", operands2, p3, n3, r3)
      BY <1>6, <1>7, <2>1, <2>2, <2>4, <3>1 DEF Pushed
    <3> QED BY <3>2, ChainPushed
  <2> QED BY <1>8, <2>3, <2>5
<1>12. Complete(T, v, den2, p, r, n, operands2, length, token)
  <2>1. Stands(T, v, den2, operands2[m + 1], place[n] + 1, length)
    <3>1. m \in 1 .. m
      <4>1. \A i \in Nat : i + 1 \in 1 .. (i + 1)
        OBVIOUS
      <4> QED BY <1>1, <1>2, <4>1
    <3>2. den2[operands2[m + 1]] = den[operands[m]]
      BY <3>1
    <3> QED BY <1>2, <3>2 DEF Stands
  <2> HIDE DEF p, r
  <2> QED BY <1>2, <1>9, <2>1 DEF Complete
<1> HIDE DEF r
<1> QED
  BY <1>9, <1>11, <1>12

\* A parenthesis is read that closes the topmost one.
ClosesParenthesis(T, columns, v, place, rank, A, symbols, symbols2, operands, den, n,
                  length, token) ==
  /\ T \in Seq(Words)
  /\ Values(T, columns, v)
  /\ symbols \in Seq(A)
  /\ symbols2 \in Seq(A)
  /\ OfLength(symbols, n)
  /\ length \in Nat
  /\ length < Len(T)
  /\ Chain(T, v, den, place, rank, symbols, operands)
  /\ Complete(T, v, den, place, rank, n, operands, length, token)
  /\ n > 0
  /\ symbols[n] = "(" /\ T[length + 1].token = ")"
  /\ Len(symbols2) = n - 1
  /\ \A k \in 1 .. (n - 1) : symbols2[k] = symbols[k]

\* A parenthesis is closed.
LEMMA ParenthesisClosed ==
  ASSUME NEW T, NEW columns, NEW v, NEW place, NEW rank, NEW A, NEW symbols, NEW symbols2,
         NEW operands, NEW den, NEW n, NEW length, NEW token,
         ClosesParenthesis(T, columns, v, place, rank, A, symbols, symbols2, operands, den,
                           n, length, token)
  PROVE  /\ Chain(T, v, den, place, rank, symbols2, operands)
         /\ Complete(T, v, den, place, rank, n - 1, operands, length + 1, "NONE")
<1> USE DEF ClosesParenthesis
<1>1. /\ n \in Nat \ {0} /\ place \in [Nat -> Nat] /\ rank \in [Nat -> Nat]
      /\ rank[n] \in Nat /\ rank[n - 1] \in Nat /\ place[n] \in Nat /\ place[n - 1] \in Nat
      /\ Link(T, v, den, place, rank, symbols, operands, n)
  <2>1. /\ n \in Nat /\ place \in [Nat -> Nat] /\ rank[n] \in Nat /\ rank[n - 1] \in Nat
        /\ place[n] \in Nat /\ place[n - 1] \in Nat /\ rank \in [Nat -> Nat]
        /\ Link(T, v, den, place, rank, symbols, operands, n)
    BY ChainTop, Zenon
  <2>2. \A i \in Nat : i > 0 => i \in Nat \ {0}
    OBVIOUS
  <2> QED BY <2>1, <2>2
<1> DEFINE o == operands[Len(operands)]
<1>2. /\ rank[n] + 1 = Len(operands)
      /\ place[n] + 1 <= length /\ Nested(T, place[n] + 1, length) /\ den[o] = v[<<place[n] + 1, length>>]
  BY DEF Complete, Stands
<1>3. /\ rank[n] = rank[n - 1] + 0 /\ place[n - 1] + 1 = place[n] /\ T[place[n]].token = "("
  <2>1. "(" \notin ArithOps
    BY DEF ArithOps
  <2> QED BY <1>1, <2>1 DEF Link
<1>4. rank[n] = rank[n - 1]
  BY <1>1, <1>3
<1> DEFINE a == place[n]
           b == length + 1
<1>5. a \in 1 .. Len(T) /\ b \in 1 .. Len(T) /\ a < b /\ b - 1 = length /\ a <= b
  <2>1. \A p, q, l, size \in Nat : p + 1 = q /\ q + 1 <= l /\ l < size =>
          /\ q \in 1 .. size /\ l + 1 \in 1 .. size /\ q < l + 1 /\ (l + 1) - 1 = l
          /\ q <= l + 1
    OBVIOUS
  <2>2. Len(T) \in Nat
    OBVIOUS
  <2> QED BY <1>1, <1>2, <1>3, <2>1, <2>2
<1>6. /\ Nested(T, a, b) /\ v[<<a, b>>] = v[<<a + 1, length>>]
      /\ Outermost(T, a, b, SumOps) = {} /\ Outermost(T, a, b, ProductOps) = {}
  <2>1. T[a].token = "(" /\ T[b].token = ")" /\ Nested(T, a + 1, b - 1)
    BY <1>2, <1>3, <1>5
  <2> HIDE DEF a, b
  <2> QED BY <1>5, <2>1, BracketedPart
<1>7. Stands(T, v, den, o, place[n - 1] + 1, length + 1)
  BY <1>2, <1>3, <1>5, <1>6 DEF Stands
<1>8. Level(T, place, n - 1, length + 1, "NONE")
  <2> QED BY <1>3, <1>6 DEF Level
<1>9. Complete(T, v, den, place, rank, n - 1, operands, length + 1, "NONE")
  BY <1>2, <1>4, <1>7, <1>8 DEF Complete
<1>10. Chain(T, v, den, place, rank, symbols2, operands)
  <2>1. n - 1 \in 0 .. Len(symbols)
    <3>1. \A i \in Nat \ {0} : i - 1 \in 0 .. i
      OBVIOUS
    <3> QED BY <1>1, <3>1 DEF OfLength
  <2>2. \A i \in 1 .. rank[n - 1] : operands[i] = operands[i] /\ den[operands[i]] = den[operands[i]]
    OBVIOUS
  <2>3. Below(T, v, den, den, place, rank, A, symbols, symbols2, operands, operands, n - 1)
    BY <2>1, <2>2 DEF Below
  <2> QED BY <2>3, ChainKept
<1> QED
  BY <1>9, <1>10

\* The text is read, and there is no operator left.
EndsText(T, v, place, rank, operands, den, length, token) ==
  /\ Chain(T, v, den, place, rank, <<>>, operands)
  /\ Complete(T, v, den, place, rank, 0, operands, length, token)

\* When the stack has no operators, its operand is the whole text.
LEMMA WholeText ==
  ASSUME NEW T, NEW v, NEW place, NEW rank, NEW operands, NEW den, NEW length, NEW token,
         EndsText(T, v, place, rank, operands, den, length, token)
  PROVE  Len(operands) = 1 /\ den[operands[1]] = v[<<1, length>>]
<1> USE DEF EndsText
<1>1. place[0] = 0 /\ rank[0] = 0
  BY DEF Chain
<1>2. 0 + 1 = 1
  OBVIOUS
<1> QED
  BY <1>1, <1>2 DEF Complete, Stands

-----------------------------------------------------------------------------
(* The values of the API's expressions                                       *)

\* The pool of constants only grows.
LEMMA ConstantsGrow ==
  ASSUME TypeOK, [Next]_exprVars \/ Compile
  PROVE  \A i \in 1 .. Len(m_constants) : m_constants'[i] = m_constants[i]
<1>1. m_constants \in Seq(Long) /\ Len(m_constants) \in Nat
  BY DEF TypeOK
<1>2. CASE m_constants' = m_constants
  BY <1>2
<1>3. ASSUME NEW c, m_constants' = Append(m_constants, c)
      PROVE  \A i \in 1 .. Len(m_constants) : m_constants'[i] = m_constants[i]
  BY <1>1, <1>3
<1>4. m_constants' = m_constants \/ \E c : m_constants' = Append(m_constants, c)
  BY DEF Next, Load, LoadUnknown, ConstantInteger, Arith, Fold, Aggregate, Compile, exprVars
<1> QED
  BY <1>2, <1>3, <1>4

\* A step keeps the value of every expression.
LEMMA ValuesKept ==
  ASSUME TypeOK, LookOK, StackOK, ColumnsOK, CallsOK, TypeOK', Grown, [PreparerNext]_vars,
         NEW row \in [Columns -> Long]
  PROVE  \A k \in Handles : k \in Handles' /\ Denotation(row)'[k] = Denotation(row)[k]
<1>1. [Next]_exprVars \/ Compile
  BY StepCallsApi DEF vars
<1>2. \A i \in 1 .. Len(m_constants) : m_constants'[i] = m_constants[i]
  BY <1>1, ConstantsGrow
<1>3. Handles \subseteq Handles' /\ \A k \in Handles : m_exprs'[k] = m_exprs[k]
  BY DEF Grown
<1>4. \A k \in Handles : Denotation(row)'[k] = Denotation(row)[k]
  BY <1>2, <1>3, OlderRowsKeepValue
<1> QED
  BY <1>3, <1>4

\* The handle of a column has the column's value.
LEMMA LoadDenotes ==
  ASSUME TypeOK, TypeOK', NEW col \in Columns, Load(col), NEW row \in [Columns -> Long]
  PROVE  Denotation(row)'[ret'] = row[col]
<1> DEFINE e == Leaf("Load", col)
<1>1. e \in Node /\ Intern(e)
  BY LoadFits DEF Load
<1>2. ret' \in Handles' /\ SameExpr(e, m_exprs'[ret'])
  <2> HIDE DEF e
  <2> QED BY <1>1, InternReturnsRequest
<1>3. m_exprs'[ret'].op = "Load" /\ m_exprs'[ret'].idx = col
  BY <1>2 DEF SameExpr, Leaf
<1> QED
  BY <1>2, <1>3, DenotationCasesAfter

\* The handle of a constant has the constant's value.
LEMMA ConstantDenotes ==
  ASSUME TypeOK, TypeOK', m_status = "PROGRAMMING", NEW c \in Literals, ConstantInteger(c),
         NEW row \in [Columns -> Long]
  PROVE  Denotation(row)'[ret'] = c
<1> DEFINE n == PoolIndex(c)
           e == Leaf("LoadConstantInt", n)
<1>1. m_constants \in Seq(Long) /\ Len(m_constants) \in Nat /\ c \in Long
  BY LongAssumption DEF TypeOK
<1>2. n \in 1 .. (Len(m_constants) + 1)
  BY <1>1, PoolIndexFits
<1>3. Intern(e) /\ m_constants' = IF n > Len(m_constants) THEN Append(m_constants, c) ELSE m_constants
  BY DEF ConstantInteger
<1>4. m_constants'[n] = c
  <2> DEFINE known == {k \in 1 .. Len(m_constants) : m_constants[k] = c}
  <2>1. CASE known # {}
    <3>1. known \subseteq Nat
      BY <1>1
    <3>2. First(known) \in known
      BY <2>1, <3>1, FirstIsMember
    <3>3. n = First(known)
      BY <2>1 DEF PoolIndex
    <3>4. n \in 1 .. Len(m_constants) /\ m_constants[n] = c
      BY <3>2, <3>3
    <3> HIDE DEF n
    <3>5. ~(n > Len(m_constants))
      BY <1>1, <3>4
    <3> QED BY <1>3, <3>4, <3>5
  <2>2. CASE known = {}
    <3>1. n = Len(m_constants) + 1
      BY <2>2 DEF PoolIndex
    <3> HIDE DEF n
    <3>2. m_constants' = Append(m_constants, c)
      BY <1>1, <1>3, <3>1
    <3> QED BY <1>1, <3>1, <3>2, AppendProperties
  <2> QED BY <2>1, <2>2
<1>5. e \in Node
  <2> HIDE DEF n
  <2>1. Len(m_constants) + 1 \in Nat
    BY <1>1
  <2> QED BY <1>2, <2>1, ConstantFits
<1>6. ret' \in Handles' /\ SameExpr(e, m_exprs'[ret'])
  <2> HIDE DEF e, n
  <2> QED BY <1>3, <1>5, InternReturnsRequest
<1>7. m_exprs'[ret'].op = "LoadConstantInt" /\ m_exprs'[ret'].idx = n
  <2> HIDE DEF n
  <2> QED BY <1>6 DEF SameExpr, Leaf
<1> HIDE DEF n
<1> QED
  BY <1>4, <1>6, <1>7, DenotationCasesAfter

-----------------------------------------------------------------------------
(* The expressions of the outputs                                            *)

\* The values of columns, by name and by index.
Fits(names, columns, row) == \A i \in DOMAIN names : columns[names[i]] = row[i]

\* T begins with text.
Begins(T, text) == Len(text) <= Len(T) /\ \A i \in 1 .. Len(text) : T[i] = text[i]

\* The argument of an aggregate over T has the value of T.
Meant(output, T, v, den) == output.is_agg /\ output.text = T => den[output.arg] = v[<<1, Len(T)>>]

\* The stack, when as much of T as `text' has been read.
Reading(T, v, den, where, token, text, symbols, operands) ==
  \E place, rank :
    /\ Chain(T, v, den, place, rank, symbols, operands)
    /\ where = "operand" => Waiting(place, rank, Len(symbols), operands, Len(text))
    /\ where = "operator" =>
         Complete(T, v, den, place, rank, Len(symbols), operands, Len(text), token)

\* What has been parsed and what is being parsed agree with the values v, if T is the
\* text that is read in the end.
Parsed(T, v, den) ==
  /\ \A i \in DOMAIN outputs : Meant(outputs[i], T, v, den)
  /\ at \in Behind => Meant(out, T, v, den)
  /\ at \in {"operand", "operator"} /\ Begins(T, out.text) =>
       Reading(T, v, den, at, look.token, out.text, ops, args)
  /\ at = "open" => out.text = <<>>

\* A text without a minus before a product, and the values of its parts.
Valued(T, columns, v) ==
  /\ T \in Seq(Words) /\ columns \in [ColumnNames -> Long] /\ Values(T, columns, v)
  /\ ~NegatesProduct(T)

\* What is parsed has the value of its text, whatever the text and the row are.
ParsedOK ==
  ~fault =>
    \A T, columns, v : \A row \in [Columns -> Long] :
      Valued(T, columns, v) /\ Fits(m_identifiers, columns, row) => Parsed(T, v, Denotation(row))

\* The values of expressions stay.
Kept(den, den2) == \A k \in Handles : den2[k] = den[k]

\* A finished output keeps its value.
LEMMA MeantKept ==
  ASSUME NEW output, OutputOK(output), NEW T, NEW v, NEW den, NEW den2, Kept(den, den2),
         Meant(output, T, v, den)
  PROVE  Meant(output, T, v, den2)
BY DEF OutputOK, OutputFits, Kept, Meant

\* The stack keeps its values when the API's tables grow and a token is read.
LEMMA StackCarried ==
  ASSUME StackOK, NEW T, NEW v, NEW den, NEW den2, Kept(den, den2),
         at \in {"operand", "operator"}, NEW token, NEW token2, token2 = token \/ token = "NONE",
         Reading(T, v, den, at, token, out.text, ops, args)
  PROVE  Reading(T, v, den2, at, token2, out.text, ops, args)
<1> DEFINE n == Len(ops)
           length == Len(out.text)
           m == Len(args)
<1>1. PICK place, rank : /\ Chain(T, v, den, place, rank, ops, args)
                         /\ at = "operand" => Waiting(place, rank, n, args, length)
                         /\ at = "operator" => Complete(T, v, den, place, rank, n, args, length, token)
  BY DEF Reading
<1>2. ops \in Seq(Ops \cup {"neg", "("}) /\ args \in Seq(Handles) /\ n \in Nat /\ m \in Nat
  BY DEF StackOK
<1>3. \A i \in 1 .. m : args[i] \in Handles
  BY <1>2
<1>4. rank[n] \in Nat
  BY <1>1, <1>2, ChainTop DEF OfLength
<1>5. rank[n] <= m /\ (at = "operator" => m \in 1 .. m)
  <2>1. CASE at = "operand"
    BY <1>1, <1>2, <2>1 DEF Waiting
  <2>2. CASE at = "operator"
    <3>1. rank[n] + 1 = m
      BY <1>1, <2>2 DEF Complete
    <3> HIDE DEF n, m
    <3> QED BY <1>2, <1>4, <3>1
  <2> QED BY <2>1, <2>2
<1>6. Chain(T, v, den2, place, rank, ops, args)
  <2>1. \A i \in 1 .. rank[n] : args[i] = args[i] /\ den2[args[i]] = den[args[i]]
    <3>1. \A i \in 1 .. rank[n] : i \in 1 .. m
      <4> HIDE DEF n, m
      <4> QED BY <1>2, <1>4, <1>5
    <3> QED BY <1>3, <3>1 DEF Kept
  <2>2. n \in 0 .. Len(ops) /\ \A k \in 1 .. n : ops[k] = ops[k]
    BY <1>2
  <2> DEFINE A == Ops \cup {"neg", "("}
  <2>3. ops \in Seq(A) /\ Len(ops) = n
    BY <1>2
  <2> HIDE DEF A, n
  <2>4. Below(T, v, den, den2, place, rank, A, ops, ops, args, args, n)
    BY <1>1, <2>1, <2>2, <2>3 DEF Below
  <2> QED BY <2>4, ChainKept
<1>7. ASSUME at = "operator" PROVE Complete(T, v, den2, place, rank, n, args, length, token2)
  <2>1. Complete(T, v, den, place, rank, n, args, length, token) /\ den2[args[m]] = den[args[m]]
    BY <1>1, <1>3, <1>5, <1>7 DEF Kept
  <2>2. Level(T, place, n, length, token2)
    <3> HIDE DEF n, length
    <3> QED BY <2>1 DEF Complete, Level
  <2> QED BY <2>1, <2>2 DEF Complete, Stands
<1> QED
  BY <1>1, <1>6, <1>7 DEF Reading

\* A text is longer than one that it begins with and a word.
LEMMA BeginsLonger ==
  ASSUME NEW T \in Seq(Words), NEW text \in Seq(Words), NEW word \in Words,
         Begins(T, Append(text, word))
  PROVE  /\ Begins(T, text) /\ Len(text) \in Nat /\ Len(text) < Len(T) /\ T[Len(text) + 1] = word
         /\ Len(Append(text, word)) = Len(text) + 1
<1> DEFINE n == Len(text)
           text2 == Append(text, word)
<1>1. n \in Nat /\ Len(T) \in Nat
  OBVIOUS
<1>2. Len(text2) = n + 1 /\ text2[n + 1] = word /\ \A i \in 1 .. n : text2[i] = text[i]
  BY AppendProperties
<1>3. n + 1 <= Len(T) /\ \A i \in 1 .. (n + 1) : T[i] = text2[i]
  BY <1>2 DEF Begins
<1>4. n <= Len(T) /\ n < Len(T) /\ n + 1 \in 1 .. (n + 1) /\ \A i \in 1 .. n : i \in 1 .. (n + 1)
  BY <1>1, <1>3
<1> HIDE DEF text2
<1> QED
  BY <1>1, <1>2, <1>3, <1>4 DEF Begins, text2

\* What a step has to show.
LEMMA ParsedNow ==
  ASSUME TreeOK, NEW T, NEW v, NEW den, NEW den2, Kept(den, den2), Parsed(T, v, den),
         \/ outputs' = outputs
         \/ \E output : outputs' = Append(outputs, output) /\ Meant(output, T, v, den2),
         at' \in Behind => Meant(out', T, v, den2),
         at' \in {"operand", "operator"} /\ Begins(T, out'.text) =>
           Reading(T, v, den2, at', look'.token, out'.text, ops', args'),
         at' = "open" => out'.text = <<>>
  PROVE  Parsed(T, v, den2)'
<1>1. \A i \in DOMAIN outputs : Meant(outputs[i], T, v, den2)
  <2> SUFFICES ASSUME NEW i \in DOMAIN outputs PROVE Meant(outputs[i], T, v, den2)
    OBVIOUS
  <2>1. OutputOK(outputs[i]) /\ Meant(outputs[i], T, v, den)
    BY DEF TreeOK, Parsed
  <2> QED BY <2>1, MeantKept
<1>2. \A i \in DOMAIN outputs' : Meant(outputs'[i], T, v, den2)
  <2>1. CASE outputs' = outputs
    BY <1>1, <2>1
  <2>2. ASSUME NEW output, outputs' = Append(outputs, output), Meant(output, T, v, den2)
        PROVE  \A i \in DOMAIN outputs' : Meant(outputs'[i], T, v, den2)
    <3>1. outputs \in Seq(Outputs)
      BY DEF TreeOK
    <3>2. \A i \in DOMAIN outputs' :
            outputs'[i] = output \/ (i \in DOMAIN outputs /\ outputs'[i] = outputs[i])
      BY <2>2, <3>1
    <3> QED BY <1>1, <2>2, <3>2
  <2> QED BY <2>1, <2>2
<1> QED
  BY <1>2 DEF Parsed, Meant

\* A step that leaves the parser's stack and the output as they are.
LEMMA QuietParsed ==
  ASSUME StackOK, TreeOK, NEW T, NEW v, NEW den, NEW den2, Kept(den, den2), Parsed(T, v, den),
         UNCHANGED <<at, ops, args, out, outputs>>,
         look'.token = look.token \/ look.token = "NONE"
  PROVE  Parsed(T, v, den2)'
<1>1. at \in Behind => Meant(out, T, v, den2)
  BY MeantKept DEF TreeOK, Parsed
<1>2. ASSUME at \in {"operand", "operator"}, Begins(T, out.text)
      PROVE  Reading(T, v, den2, at, look'.token, out.text, ops, args)
  <2>1. Reading(T, v, den, at, look.token, out.text, ops, args)
    BY <1>2 DEF Parsed
  <2> QED BY <1>2, <2>1, StackCarried
<1>3. at = "open" => out.text = <<>>
  BY DEF Parsed
<1> QED
  BY <1>1, <1>2, <1>3, ParsedNow

\* An operand is pushed.
LEMMA OperandParsed ==
  ASSUME StackOK, TreeOK, Handles \subseteq Handles', NEW T, NEW columns, NEW v, Valued(T, columns, v),
         NEW den, NEW den2, Kept(den, den2), Parsed(T, v, den),
         at = "operand", look \in Lexemes, look.token \in {"INT", "IDENTIFIER"}, Operand,
         ret' \in Handles',
         den2[ret'] = IF look.token = "INT" THEN look.val ELSE columns[look.val]
  PROVE  Parsed(T, v, den2)'
<1> DEFINE A == Ops \cup {"neg", "("}
           n == Len(ops)
           length == Len(out.text)
           text2 == Append(out.text, look)
<1>1. /\ at' = "operator" /\ look' = None /\ None.token = "NONE"
      /\ args' = Append(args, ret') /\ ops' = ops /\ outputs' = outputs
      /\ out' = [out EXCEPT !.text = Append(@, look)]
  BY Lookaheads DEF Operand, Shift
<1>2. /\ ops \in Seq(A) /\ args \in Seq(Handles') /\ n \in Nat
      /\ \A i \in 1 .. Len(args) : args[i] \in Handles
  BY OperandsStay DEF StackOK
<1>3. out.text \in Seq(Words) /\ look \in Words /\ out'.text = text2 /\ T \in Seq(Words)
  BY <1>1, TextGrows DEF TreeOK, Outputs, Words, Valued
<1>4. ASSUME Begins(T, text2)
      PROVE  Reading(T, v, den2, "operator", "NONE", text2, ops, args')
  <2>1. /\ Begins(T, out.text) /\ length \in Nat /\ length < Len(T) /\ T[length + 1] = look
        /\ Len(text2) = length + 1
    BY <1>3, <1>4, BeginsLonger
  <2>2. Reading(T, v, den, "operand", look.token, out.text, ops, args)
    BY <2>1 DEF Parsed
  <2>3. PICK place, rank : /\ Chain(T, v, den, place, rank, ops, args)
                           /\ Waiting(place, rank, n, args, length)
    BY <2>2 DEF Reading
  <2>4. \A i \in 1 .. Len(args) : den2[args[i]] = den[args[i]]
    BY <1>2 DEF Kept
  <2> DEFINE H == Handles'
             h == ret'
  <2>5. h \in H /\ args \in Seq(H)
    BY <1>2
  <2> HIDE DEF H, h, text2, length, n, A
  <2>6. Values(T, columns, v)
    BY DEF Valued
  <2>7. /\ T[length + 1].token \in {"INT", "IDENTIFIER"}
        /\ den2[h] = IF T[length + 1].token = "INT" THEN T[length + 1].val
                                                    ELSE columns[T[length + 1].val]
    BY <2>1 DEF h
  <2>8. /\ Chain(T, v, den2, place, rank, ops, Append(args, h))
        /\ Complete(T, v, den2, place, rank, n, Append(args, h), length + 1, "NONE")
    <3>1. OfLength(ops, n)
      BY DEF OfLength, n
    <3>2. ReadsOperand(T, columns, v, place, rank, A, ops, H, args, den, den2, n, length, h)
      BY <1>2, <1>3, <2>1, <2>3, <2>4, <2>5, <2>6, <2>7, <3>1 DEF ReadsOperand
    <3> QED BY <3>2, OperandRead
  <2>9. args' = Append(args, h)
    BY <1>1 DEF h
  <2>10. Complete(T, v, den2, place, rank, Len(ops), args', Len(text2), "NONE")
    BY <2>1, <2>8, <2>9 DEF n
  <2> QED BY <2>8, <2>9, <2>10 DEF Reading
<1> QED
  BY <1>1, <1>3, <1>4, ParsedNow DEF Behind

\* A minus or a parenthesis before an operand is pushed.
LEMMA PrefixParsed ==
  ASSUME StackOK, StackOK', TreeOK, NEW T, NEW columns, NEW v, Valued(T, columns, v),
         NEW den, NEW den2, Kept(den, den2), Parsed(T, v, den), Prefix
  PROVE  Parsed(T, v, den2)'
<1> DEFINE A == Ops \cup {"neg", "("}
           symbol == IF look.token = "(" THEN look.token ELSE "neg"
           word == Tok(symbol, "none")
           n == Len(ops)
           length == Len(out.text)
           text2 == Append(out.text, word)
<1>1. /\ at = "operand" /\ at' = "operand"
      /\ args' = args /\ ops' = Append(ops, symbol) /\ outputs' = outputs
      /\ out' = [out EXCEPT !.text = Append(@, word)]
  BY DEF Prefix, Shift, Sees
<1>2. /\ ops \in Seq(A) /\ n \in Nat /\ symbol \in A /\ symbol \in {"neg", "("}
      /\ word \in Words /\ word.token = symbol
  BY DEF StackOK, Words, Tok
<1>3. out.text \in Seq(Words) /\ out'.text = text2 /\ T \in Seq(Words)
  <2> HIDE DEF word
  <2> QED BY <1>1, <1>2, TextGrows DEF TreeOK, Outputs, Valued
<1> HIDE DEF word, symbol
<1>4. ASSUME Begins(T, text2)
      PROVE  Reading(T, v, den2, "operand", look'.token, text2, ops', args')
  <2>1. /\ Begins(T, out.text) /\ length \in Nat /\ length < Len(T) /\ T[length + 1] = word
        /\ Len(text2) = length + 1
    BY <1>2, <1>3, <1>4, BeginsLonger
  <2>2. Reading(T, v, den2, "operand", look.token, out.text, ops, args)
    <3>1. Reading(T, v, den, "operand", look.token, out.text, ops, args)
      BY <1>1, <2>1 DEF Parsed
    <3> QED BY <1>1, <3>1, StackCarried
  <2>3. PICK place, rank : /\ Chain(T, v, den2, place, rank, ops, args)
                           /\ Waiting(place, rank, n, args, length)
    BY <2>2 DEF Reading
  <2>4. T[length + 1].token = symbol
    BY <1>2, <2>1
  <2> HIDE DEF text2, length, n, A
  <2>5. PICK p, r : /\ Chain(T, v, den2, p, r, Append(ops, symbol), args)
                    /\ Waiting(p, r, n + 1, args, length + 1)
    <3>1. OfLength(ops, n)
      BY DEF OfLength, n
    <3>2. ReadsPrefix(T, v, place, rank, A, ops, args, den2, n, length, symbol)
      BY <1>2, <1>3, <2>1, <2>3, <2>4, <3>1 DEF ReadsPrefix
    <3> QED BY <3>2, PrefixRead
  <2>6. Len(Append(ops, symbol)) = n + 1
    BY <1>2 DEF n
  <2>7. Waiting(p, r, Len(ops'), args', Len(text2))
    BY <1>1, <2>1, <2>5, <2>6
  <2> QED BY <1>1, <2>5, <2>7 DEF Reading
<1> QED
  BY <1>1, <1>3, <1>4, ParsedNow DEF Behind

\* An operator between two operands is pushed.
LEMMA OperatorParsed ==
  ASSUME LookOK, StackOK, TreeOK, NEW T, NEW columns, NEW v, Valued(T, columns, v),
         NEW den, NEW den2, Kept(den, den2), Parsed(T, v, den), Operator
  PROVE  Parsed(T, v, den2)'
<1> DEFINE A == Ops \cup {"neg", "("}
           s == look.token
           n == Len(ops)
           length == Len(out.text)
           text2 == Append(out.text, look)
<1>1. /\ at = "operator" /\ at' = "operand" /\ look \in Lexemes /\ s \in ArithOps
      /\ args' = args /\ ops' = Append(ops, s) /\ outputs' = outputs
      /\ out' = [out EXCEPT !.text = Append(@, look)]
      /\ ~Reducible
  BY LookIsLexeme DEF Operator, Shift, Sees, Tokens
<1>2. /\ ops \in Seq(A) /\ args \in Seq(Handles) /\ n \in Nat /\ s \in A
  BY <1>1, CallsAssumption DEF StackOK
<1>3. out.text \in Seq(Words) /\ look \in Words /\ out'.text = text2 /\ T \in Seq(Words)
  BY <1>1, TextGrows DEF TreeOK, Outputs, Words, Valued
<1>4. n > 0 => ops[n] = "(" \/ Precedence(ops[n]) < Precedence(s)
  <2>1. n > 0 => ops # <<>>
    OBVIOUS
  <2>2. \A a, b : Precedence(a) \in Int
    BY DEF Precedence
  <2> QED BY <1>1, <2>1, <2>2 DEF Reducible, Top
<1>5. ASSUME Begins(T, text2)
      PROVE  Reading(T, v, den2, "operand", look'.token, text2, ops', args')
  <2>1. /\ Begins(T, out.text) /\ length \in Nat /\ length < Len(T) /\ T[length + 1] = look
        /\ Len(text2) = length + 1
    BY <1>3, <1>5, BeginsLonger
  <2>2. Reading(T, v, den2, "operator", s, out.text, ops, args)
    <3>1. Reading(T, v, den, "operator", s, out.text, ops, args)
      BY <1>1, <2>1 DEF Parsed
    <3> QED BY <1>1, <3>1, StackCarried
  <2>3. PICK place, rank : /\ Chain(T, v, den2, place, rank, ops, args)
                           /\ Complete(T, v, den2, place, rank, n, args, length, s)
    BY <2>2 DEF Reading
  <2>4. n > 0 /\ T[place[n]].token = "neg" => s \notin ProductOps
    <3> SUFFICES ASSUME n > 0, T[place[n]].token = "neg", s \in ProductOps PROVE FALSE
      OBVIOUS
    <3>1. /\ place[n] \in Nat /\ place[n - 1] \in Nat
          /\ Link(T, v, den2, place, rank, ops, args, n)
      BY <1>2, <2>3, ChainTop DEF OfLength
    <3>2. place[n - 1] + 1 <= place[n]
      BY <3>1 DEF Link
    <3>3. place[n] + 1 <= length
      BY <2>3 DEF Complete, Stands
    <3>4. place[n] \in DOMAIN T /\ length + 1 \in DOMAIN T /\ place[n] < length + 1
      <4>1. \A p, q, l, size \in Nat : p + 1 <= q /\ q + 1 <= l /\ l < size =>
              q \in 1 .. size /\ l + 1 \in 1 .. size /\ q < l + 1
        OBVIOUS
      <4>2. Len(T) \in Nat /\ DOMAIN T = 1 .. Len(T)
        BY <1>3
      <4> QED BY <2>1, <3>1, <3>2, <3>3, <4>1, <4>2
    <3>5. T[length + 1].token \in {"Mul", "Div", "Rem"}
      BY <2>1 DEF ProductOps
    <3>6. ~NegatesProduct(T)
      BY DEF Valued
    <3> QED BY <3>4, <3>5, <3>6 DEF NegatesProduct
  <2>5. T[length + 1].token = s
    BY <2>1
  <2> HIDE DEF text2, length, n, A, s
  <2>6. PICK p, r : /\ Chain(T, v, den2, p, r, Append(ops, s), args)
                    /\ Waiting(p, r, n + 1, args, length + 1)
    <3>1. OfLength(ops, n)
      BY DEF OfLength, n
    <3> DEFINE H == Handles
    <3>2. args \in Seq(H)
      BY <1>2
    <3> HIDE DEF H
    <3>3. ReadsOperator(T, v, place, rank, A, ops, H, args, den2, n, length, s)
      BY <1>1, <1>2, <1>3, <1>4, <2>1, <2>3, <2>4, <2>5, <3>1, <3>2 DEF ReadsOperator
    <3> QED BY <3>3, OperatorRead
  <2>7. Len(Append(ops, s)) = n + 1
    BY <1>2 DEF n
  <2>8. Waiting(p, r, Len(ops'), args', Len(text2))
    BY <1>1, <2>1, <2>6, <2>7
  <2> QED BY <1>1, <2>6, <2>8 DEF Reading
<1> QED
  BY <1>1, <1>3, <1>5, ParsedNow DEF Behind

\* What is left of a stack.
LEMMA PoppedKeeps ==
  ASSUME NEW A, NEW symbols \in Seq(A), NEW k \in Nat, k <= Len(symbols)
  PROVE  /\ Popped(symbols, k) \in Seq(A) /\ Len(Popped(symbols, k)) = Len(symbols) - k
         /\ \A i \in 1 .. (Len(symbols) - k) : Popped(symbols, k)[i] = symbols[i]
<1>1. ASSUME NEW j \in 0 .. Len(symbols)
      PROVE  /\ SubSeq(symbols, 1, j) \in Seq(A) /\ Len(SubSeq(symbols, 1, j)) = j
             /\ \A i \in 1 .. j : SubSeq(symbols, 1, j)[i] = symbols[i]
  OBVIOUS
<1>2. Len(symbols) - k \in 0 .. Len(symbols)
  OBVIOUS
<1> QED
  BY <1>1, <1>2 DEF Popped

\* A parenthesis is closed, or the aggregate.
LEMMA CloseParsed ==
  ASSUME LookOK, StackOK, TreeOK, NEW T, NEW columns, NEW v, Valued(T, columns, v),
         NEW den, NEW den2, Kept(den, den2), Parsed(T, v, den), Close
  PROVE  Parsed(T, v, den2)'
<1> DEFINE A == Ops \cup {"neg", "("}
           n == Len(ops)
           length == Len(out.text)
           text2 == Append(out.text, look)
<1>1. /\ at = "operator" /\ look \in Lexemes /\ look.token = ")" /\ outputs' = outputs
      /\ look' = None /\ None.token = "NONE" /\ ~Reducible
  BY LookIsLexeme, Lookaheads DEF Close, Shift, Sees, Tokens
<1>2. ops \in Seq(A) /\ args \in Seq(Handles) /\ n \in Nat /\ T \in Seq(Words) /\ Values(T, columns, v)
  BY DEF StackOK, Valued
<1>3. ASSUME Begins(T, out.text)
      PROVE  Reading(T, v, den2, "operator", look.token, out.text, ops, args)
  <2>1. Reading(T, v, den, "operator", look.token, out.text, ops, args)
    BY <1>1, <1>3 DEF Parsed
  <2> QED BY <1>1, <2>1, StackCarried
<1>4. CASE ops # <<>> /\ at' = "operator" /\ ops' = Popped(ops, 1) /\ args' = args
           /\ out' = [out EXCEPT !.text = Append(@, look)]
  <2>1. out.text \in Seq(Words) /\ look \in Words /\ out'.text = text2
    BY <1>1, <1>4, TextGrows DEF TreeOK, Outputs, Words
  <2>2. ASSUME Begins(T, text2)
        PROVE  Reading(T, v, den2, "operator", "NONE", text2, ops', args)
    <3>1. /\ Begins(T, out.text) /\ length \in Nat /\ length < Len(T) /\ T[length + 1] = look
          /\ Len(text2) = length + 1
      BY <1>2, <2>1, <2>2, BeginsLonger
    <3>2. PICK place, rank :
            /\ Chain(T, v, den2, place, rank, ops, args)
            /\ Complete(T, v, den2, place, rank, n, args, length, look.token)
      BY <1>3, <3>1 DEF Reading
    <3>3. n > 0 /\ ops[n] = "("
      <4>1. Precedence(ops[n]) >= Precedence(look.token) \/ look.token \notin ArithOps
        BY <1>1 DEF ArithOps
      <4> QED BY <1>1, <1>2, <1>4, <4>1 DEF Reducible, Top
    <3>4. /\ ops' \in Seq(A) /\ Len(ops') = n - 1 /\ n - 1 \in Nat
          /\ \A k \in 1 .. (n - 1) : ops'[k] = ops[k]
      BY <1>2, <1>4, <3>3, PoppedKeeps
    <3>5. T[length + 1].token = ")"
      BY <1>1, <3>1
    <3> HIDE DEF text2, length, n, A
    <3>6. /\ Chain(T, v, den2, place, rank, ops', args)
          /\ Complete(T, v, den2, place, rank, n - 1, args, length + 1, "NONE")
      <4> DEFINE ops2 == ops'
                 token == look.token
      <4>1. OfLength(ops, n)
        BY DEF OfLength, n
      <4>2. ops2 \in Seq(A) /\ Len(ops2) = n - 1 /\ \A k \in 1 .. (n - 1) : ops2[k] = ops[k]
        BY <3>4
      <4>3. Complete(T, v, den2, place, rank, n, args, length, token)
        BY <3>2
      <4> HIDE DEF ops2, token
      <4>4. ClosesParenthesis(T, columns, v, place, rank, A, ops, ops2, args, den2, n, length, token)
        BY <1>2, <3>1, <3>2, <3>3, <3>5, <4>1, <4>2, <4>3 DEF ClosesParenthesis
      <4>5. /\ Chain(T, v, den2, place, rank, ops2, args)
            /\ Complete(T, v, den2, place, rank, n - 1, args, length + 1, "NONE")
        BY <4>4, ParenthesisClosed
      <4> QED BY <4>5 DEF ops2
    <3>7. Complete(T, v, den2, place, rank, Len(ops'), args, Len(text2), "NONE")
      BY <3>1, <3>4, <3>6
    <3> QED BY <3>6, <3>7 DEF Reading
  <2> QED BY <1>1, <1>4, <2>1, <2>2, ParsedNow DEF Behind
<1>5. CASE ops = <<>> /\ at' = "alias" /\ out' = [out EXCEPT !.arg = Arg(0), !.loc.end = yylloc.end]
  <2>1. out'.text = out.text /\ out'.arg = Arg(0) /\ out'.is_agg = out.is_agg
    BY <1>5 DEF TreeOK, Outputs
  <2>2. Meant(out', T, v, den2)
    <3> SUFFICES ASSUME out.text = T PROVE den2[Arg(0)] = v[<<1, Len(T)>>]
      BY <2>1 DEF Meant
    <3>1. Begins(T, T)
      <4>1. Len(T) \in Nat
        BY <1>2
      <4> QED BY <4>1 DEF Begins
    <3>2. PICK place, rank :
            /\ Chain(T, v, den2, place, rank, <<>>, args)
            /\ Complete(T, v, den2, place, rank, 0, args, Len(T), look.token)
      <4>1. Len(ops) = 0
        BY <1>5
      <4>2. Reading(T, v, den2, "operator", look.token, T, <<>>, args)
        BY <1>3, <1>5, <3>1
      <4> QED BY <1>5, <4>1, <4>2 DEF Reading
    <3>3. Len(args) = 1 /\ den2[args[1]] = v[<<1, Len(T)>>]
      <4>1. EndsText(T, v, place, rank, args, den2, Len(T), look.token)
        BY <3>2 DEF EndsText
      <4> QED BY <4>1, WholeText
    <3>4. Arg(0) = args[1]
      <4>1. 1 - 0 = 1
        OBVIOUS
      <4> QED BY <3>3, <4>1 DEF Arg
    <3> QED BY <3>3, <3>4
  <2> QED BY <1>1, <1>5, <2>2, ParsedNow
<1> QED
  BY <1>4, <1>5 DEF Close, Shift

\* COUNT(*).
LEMMA CountStarParsed ==
  ASSUME TreeOK, NEW T, NEW columns, NEW v, Valued(T, columns, v),
         NEW den, NEW den2, Kept(den, den2), Parsed(T, v, den), CountStar, den2[ret'] = 1
  PROVE  Parsed(T, v, den2)'
<1>1. /\ at' = "alias" /\ outputs' = outputs
      /\ out' = [out EXCEPT !.arg = ret', !.loc.end = yylloc.end, !.text = <<Tok("INT", 1)>>]
  BY DEF CountStar, Shift
<1>2. out'.arg = ret' /\ out'.text = <<Tok("INT", 1)>>
  BY <1>1 DEF TreeOK, Outputs
<1>3. Meant(out', T, v, den2)
  <2>0. SUFFICES ASSUME T = <<Tok("INT", 1)>> PROVE v[<<1, Len(T)>>] = 1
    BY <1>2 DEF Meant
  <2>1. Len(T) = 1 /\ T[1] = Tok("INT", 1) /\ 1 \in 1 .. Len(T)
    BY <2>0
  <2>2. T[1].token = "INT" /\ T[1].val = 1
    BY <2>1 DEF Tok
  <2>3. T \in Seq(Words) /\ Values(T, columns, v)
    BY DEF Valued
  <2>4. v[<<1, 1>>] = IF T[1].token = "INT" THEN T[1].val ELSE columns[T[1].val]
    BY <2>1, <2>2, <2>3, OperandPart
  <2> QED BY <2>1, <2>2, <2>4
<1> QED
  BY <1>1, <1>3, ParsedNow

\* An operator is applied.
LEMMA BinaryParsed ==
  ASSUME StackOK, StackOK', TreeOK, Handles \subseteq Handles',
         NEW T, NEW columns, NEW v, Valued(T, columns, v),
         NEW den, NEW den2, Kept(den, den2), Parsed(T, v, den), \A k \in Handles : den[k] \in Int,
         LookOK, ReduceBinary, den2[ret'] = ValueOf(Top, den[Arg(1)], den[Arg(0)])
  PROVE  Parsed(T, v, den2)'
<1> DEFINE A == Ops \cup {"neg", "("}
           n == Len(ops)
           m == Len(args)
           length == Len(out.text)
           args2 == Append(Popped(args, 2), ret')
<1>1. /\ at = "operator" /\ at' = at /\ out' = out /\ outputs' = outputs /\ look' = look
      /\ args' = args2 /\ ops' = Popped(ops, 1)
      /\ Top \in ArithOps /\ Top = ops[n] /\ look.token # "NONE"
      /\ look.token \in ArithOps => Precedence(Top) >= Precedence(look.token)
  <2>1. look # None => look.token # "NONE"
    BY Lookaheads DEF LookOK
  <2> QED BY <2>1 DEF ReduceBinary, Reducing, Reducible, Top
<1>2. /\ ops \in Seq(A) /\ n \in Nat /\ n > 0 /\ args \in Seq(Handles) /\ args \in Seq(Handles')
      /\ m \in Nat /\ m >= 2 /\ Arg(1) = args[m - 1] /\ Arg(0) = args[m]
      /\ args[m] \in Handles
  <2>1. /\ ops \in Seq(A) /\ n \in Nat \ {0} /\ args \in Seq(Handles) /\ m \in Nat \ {0} /\ m >= 2
    BY <1>1, ReductionFindsOperands DEF ReduceBinary
  <2>2. m - 0 = m /\ m \in 1 .. m
    BY <2>1
  <2> QED BY <2>1, <2>2, OperandsStay DEF Arg
<1>3. /\ ops' \in Seq(A) /\ Len(ops') = n - 1 /\ \A k \in 1 .. (n - 1) : ops'[k] = ops[k]
  <2>1. 1 \in Nat /\ 1 <= n
    BY <1>2
  <2> QED BY <1>1, <1>2, <2>1, PoppedKeeps
<1>4. /\ args2 \in Seq(Handles') /\ Len(args2) = m - 1 /\ args2[m - 1] = ret'
      /\ \A i \in 1 .. (m - 2) : args2[i] = args[i]
  <2> DEFINE popped == Popped(args, 2)
  <2>1. popped \in Seq(Handles') /\ Len(popped) = m - 2 /\ \A i \in 1 .. (m - 2) : popped[i] = args[i]
    <3>1. 2 \in Nat /\ 2 <= Len(args)
      BY <1>2
    <3> QED BY <1>2, <3>1, PoppedKeeps
  <2>2. (m - 2) + 1 = m - 1
    BY <1>2
  <2>3. args2 \in Seq(Handles')
    BY <1>1 DEF StackOK
  <2> HIDE DEF popped, m
  <2> QED BY <2>1, <2>2, <2>3, AppendProperties DEF popped
<1>5. ASSUME Begins(T, out.text)
      PROVE  Reading(T, v, den2, "operator", look.token, out.text, ops', args2)
  <2>1. PICK place, rank :
          /\ Chain(T, v, den, place, rank, ops, args)
          /\ Complete(T, v, den, place, rank, n, args, length, look.token)
    BY <1>1, <1>5 DEF Parsed, Reading
  <2>2. length \in Nat /\ length <= Len(T) /\ T \in Seq(Words) /\ Values(T, columns, v)
    BY <1>5 DEF Begins, TreeOK, Outputs, Valued
  <2>3. \A i \in 1 .. m : args[i] \in Handles /\ den2[args[i]] = den[args[i]]
    BY <1>2 DEF Kept
  <2> DEFINE H == Handles'
             token == look.token
             ops2 == ops'
  <2>4. /\ args \in Seq(H) /\ args2 \in Seq(H) /\ ops2 \in Seq(A) /\ Len(ops2) = n - 1
        /\ \A k \in 1 .. (n - 1) : ops2[k] = ops[k]
    BY <1>2, <1>3, <1>4
  <2>5. /\ ops[n] \in ArithOps /\ token # "NONE"
        /\ token \in ArithOps => Precedence(ops[n]) >= Precedence(token)
    BY <1>1
  <2>6. den[args[m]] \in Int
    BY <1>2
  <2>7. den2[args2[m - 1]] = ValueOf(ops[n], den[args[m - 1]], den[args[m]])
    BY <1>1, <1>2, <1>4
  <2> HIDE DEF H, token, ops2, args2, n, m, length, A
  <2>8. /\ Chain(T, v, den2, place, rank, ops2, args2)
        /\ Complete(T, v, den2, place, rank, n - 1, args2, length, token)
    <3>1. OfLength(ops, n) /\ OfLength(args, m)
      BY DEF OfLength, n, m
    <3>2. Complete(T, v, den, place, rank, n, args, length, token)
      BY <2>1 DEF token
    <3>3. AppliesOperator(T, columns, v, place, rank, A, ops, ops2, H, args, args2, den, den2,
                          n, length, token, m)
      BY <1>2, <1>4, <2>1, <2>2, <2>3, <2>4, <2>5, <2>6, <2>7, <3>1, <3>2 DEF AppliesOperator
    <3> QED BY <3>3, OperatorApplied
  <2>9. Complete(T, v, den2, place, rank, Len(ops2), args2, length, token)
    BY <2>4, <2>8
  <2> QED BY <2>8, <2>9 DEF Reading, token, ops2, length
<1> HIDE DEF args2
<1> QED
  BY <1>1, <1>5, ParsedNow DEF Behind

\* A minus before an operand becomes a difference.
LEMMA NegationParsed ==
  ASSUME StackOK, StackOK', TreeOK, Handles \subseteq Handles',
         NEW T, NEW columns, NEW v, Valued(T, columns, v),
         NEW den, NEW den2, Kept(den, den2), Parsed(T, v, den),
         ReduceNegation, den2[ret'] = 0
  PROVE  Parsed(T, v, den2)'
<1> DEFINE A == Ops \cup {"neg", "("}
           n == Len(ops)
           m == Len(args)
           length == Len(out.text)
           args2 == Popped(args, 1) \o <<ret', Arg(0)>>
           ops2 == [ops EXCEPT ![n] = "Minus"]
<1>1. /\ at = "operator" /\ at' = at /\ out' = out /\ outputs' = outputs /\ look' = look
      /\ args' = args2 /\ ops' = ops2 /\ ops[n] = "neg"
  BY DEF ReduceNegation, Reducing, Reducible, Top
<1>2. /\ ops \in Seq(A) /\ n \in Nat /\ n > 0 /\ args \in Seq(Handles) /\ "Minus" \in A
      /\ m \in Nat /\ m >= 1 /\ Arg(0) = args[m]
  <2>1. /\ ops \in Seq(A) /\ n \in Nat \ {0} /\ args \in Seq(Handles) /\ m \in Nat \ {0}
        /\ "Minus" \in Ops
    BY <1>1, ReductionFindsOperands DEF ReduceNegation
  <2>2. m - 0 = m
    BY <2>1
  <2> QED BY <2>1, <2>2 DEF Arg
<1>3. /\ Len(args2) = m + 1 /\ args2[m] = ret' /\ args2[m + 1] = args[m]
      /\ \A i \in 1 .. (m - 1) : args2[i] = args[i]
  <2> DEFINE popped == Popped(args, 1)
             pushed == <<ret', Arg(0)>>
  <2>1. popped \in Seq(Handles) /\ Len(popped) = m - 1 /\ \A i \in 1 .. (m - 1) : popped[i] = args[i]
    BY <1>2, PoppedKeeps
  <2>2. /\ pushed \in Seq({ret', Arg(0)}) /\ Len(pushed) = 2
        /\ pushed[1] = ret' /\ pushed[2] = args[m]
    BY <1>2
  <2>3. /\ (m - 1) + 2 = m + 1 /\ m - (m - 1) = 1 /\ (m + 1) - (m - 1) = 2
        /\ m \in 1 .. (m + 1) /\ m + 1 \in 1 .. (m + 1) /\ \A i \in 1 .. (m - 1) : i \in 1 .. (m + 1)
        /\ ~(m <= m - 1) /\ ~(m + 1 <= m - 1) /\ \A i \in 1 .. (m - 1) : i <= m - 1
    BY <1>2
  <2> DEFINE S == Handles \cup {ret', Arg(0)}
  <2>4. popped \in Seq(S) /\ pushed \in Seq(S)
    <3>1. Handles \subseteq S /\ {ret', Arg(0)} \subseteq S
      OBVIOUS
    <3> HIDE DEF S, popped, pushed
    <3> QED BY <2>1, <2>2, <3>1, SeqMonotonic
  <2> HIDE DEF S, popped, pushed, m
  <2>5. /\ Len(popped \o pushed) = Len(popped) + Len(pushed)
        /\ \A i \in 1 .. Len(popped) + Len(pushed) :
             (popped \o pushed)[i] = IF i <= Len(popped) THEN popped[i] ELSE pushed[i - Len(popped)]
    BY <2>4, ConcatProperties
  <2> DEFINE q == popped \o pushed
  <2>6. /\ Len(q) = m + 1
        /\ \A i \in 1 .. (m + 1) : q[i] = IF i <= m - 1 THEN popped[i] ELSE pushed[i - (m - 1)]
    BY <2>1, <2>2, <2>3, <2>5
  <2> HIDE DEF q
  <2>7. q[m] = ret' /\ q[m + 1] = args[m] /\ \A i \in 1 .. (m - 1) : q[i] = args[i]
    BY <2>1, <2>2, <2>3, <2>6
  <2> QED BY <2>6, <2>7 DEF popped, pushed, q
<1>4. ASSUME Begins(T, out.text)
      PROVE  Reading(T, v, den2, "operator", look.token, out.text, ops2, args2)
  <2>1. PICK place, rank :
          /\ Chain(T, v, den, place, rank, ops, args)
          /\ Complete(T, v, den, place, rank, n, args, length, look.token)
    BY <1>1, <1>4 DEF Parsed, Reading
  <2>2. length \in Nat /\ T \in Seq(Words)
    BY DEF TreeOK, Outputs, Valued
  <2>3. \A i \in 1 .. m : den2[args[i]] = den[args[i]]
    BY <1>2 DEF Kept
  <2> DEFINE token == look.token
  <2>4. den2[args2[m]] = 0
    BY <1>3
  <2>5. Len(ops2) = n
    BY <1>2
  <2> HIDE DEF token, args2, n, m, length, A
  <2>6. PICK r : /\ Chain(T, v, den2, place, r, ops2, args2)
                 /\ Complete(T, v, den2, place, r, n, args2, length, token)
    <3>1. OfLength(ops, n) /\ OfLength(args, m)
      BY DEF OfLength, n, m
    <3>2. Complete(T, v, den, place, rank, n, args, length, token)
      BY <2>1 DEF token
    <3> DEFINE H == Handles
    <3>3. args \in Seq(H)
      BY <1>2
    <3> HIDE DEF H
    <3>4. AppliesNegation(T, v, place, rank, A, ops, ops2, H, args, args2, den, den2, n, length,
                          token, m)
      BY <1>1, <1>2, <1>3, <2>1, <2>2, <2>3, <2>4, <3>1, <3>2, <3>3 DEF AppliesNegation
    <3> QED BY <3>4, NegationApplied
  <2> HIDE DEF ops2
  <2> QED BY <2>5, <2>6 DEF Reading, token, length
<1> HIDE DEF args2, ops2
<1> QED
  BY <1>1, <1>4, ParsedNow DEF Behind

\* Before the argument of an aggregate the stack is empty.
LEMMA NothingRead ==
  ASSUME NEW T, NEW v, NEW den, NEW token
  PROVE  Reading(T, v, den, "operand", token, <<>>, <<>>, <<>>)
<1> DEFINE zero == [i \in Nat |-> 0]
<1>1. zero \in [Nat -> Nat] /\ zero[0] = 0
  OBVIOUS
<1>2. Chain(T, v, den, zero, zero, <<>>, <<>>)
  <2>1. \A j, k \in 0 .. Len(<<>>) : j <= k => zero[j] <= zero[k]
    OBVIOUS
  <2>2. \A k \in 1 .. Len(<<>>) : Link(T, v, den, zero, zero, <<>>, <<>>, k)
    OBVIOUS
  <2> HIDE DEF zero
  <2> QED BY <1>1, <2>1, <2>2 DEF Chain
<1>3. Waiting(zero, zero, Len(<<>>), <<>>, Len(<<>>))
  BY DEF Waiting
<1> HIDE DEF zero
<1> QED
  BY <1>2, <1>3 DEF Reading

\* A token without an action of its own is shifted.
LEMMA MoveParsed ==
  ASSUME StackOK, TreeOK, NEW T, NEW v, NEW den, NEW den2, Kept(den, den2), Parsed(T, v, den), Move
  PROVE  Parsed(T, v, den2)'
<1>1. PICK m \in Moves : /\ at = m[1] /\ at' = m[3]
                         /\ UNCHANGED <<ops, args, out, outputs>>
  BY DEF Move, Sees, Shift, treeVars
<1>2. /\ m[3] \in Places \ {"operator", "star", "alias", "open"}
      /\ m[3] = "operand" <=> m[1] = "open"
      /\ m[3] = "aliasname" => m[1] = "alias"
  BY MovesShiftTokens
<1>3. at' \in Behind => Meant(out', T, v, den2)
  <2> SUFFICES ASSUME at' \in Behind PROVE Meant(out, T, v, den2)
    BY <1>1
  <2>1. at \in Behind
    BY <1>1, <1>2 DEF Behind
  <2> QED BY <2>1, MeantKept DEF TreeOK, Parsed
<1>4. ASSUME at' \in {"operand", "operator"}
      PROVE  Reading(T, v, den2, at', look'.token, out'.text, ops', args')
  <2>1. at = "open" /\ at' = "operand"
    BY <1>1, <1>2, <1>4
  <2>2. out'.text = <<>> /\ ops' = <<>> /\ args' = <<>>
    BY <1>1, <2>1 DEF Parsed, StackOK
  <2> QED BY <2>1, <2>2, NothingRead
<1> QED
  BY <1>1, <1>2, <1>3, <1>4, ParsedNow

\* An output begins or ends, or a list of columns grows.
LEMMA OutputParsed ==
  ASSUME StackOK, TreeOK, NEW T, NEW v, NEW den, NEW den2, Kept(den, den2), Parsed(T, v, den),
         \/ OutputColumn \/ OutputAggregate \/ Star \/ Alias \/ ReduceOutput
         \/ GroupColumn \/ OrderColumn
  PROVE  Parsed(T, v, den2)'
<1>0. at \in Behind => Meant(out, T, v, den2)
  BY MeantKept DEF TreeOK, Parsed
<1>1. CASE OutputColumn
  <2>1. at' = "alias" /\ outputs' = outputs /\ ~out'.is_agg
    BY <1>1 DEF OutputColumn, Shift, NoOutput
  <2> QED BY <2>1, ParsedNow DEF Meant
<1>2. CASE OutputAggregate
  <2>1. at' = "open" /\ outputs' = outputs /\ out'.text = <<>>
    BY <1>2 DEF OutputAggregate, Shift, NoOutput
  <2> QED BY <2>1, ParsedNow DEF Behind
<1>3. CASE Star \/ GroupColumn \/ OrderColumn
  <2>1. at' \in {"star", "grouped", "ordered"} /\ outputs' = outputs
    BY <1>3 DEF Star, GroupColumn, OrderColumn, Shift, treeVars
  <2> QED BY <2>1, ParsedNow DEF Behind
<1>4. CASE Alias
  <2> DEFINE output == [out EXCEPT !.output_name = look.val]
  <2>1. at = "aliasname" /\ at' = "list" /\ outputs' = Append(outputs, output)
    BY <1>4 DEF Alias, Shift, Sees
  <2>2. output.is_agg = out.is_agg /\ output.text = out.text /\ output.arg = out.arg
    BY DEF TreeOK, Outputs
  <2>3. Meant(output, T, v, den2)
    BY <1>0, <2>1, <2>2 DEF Meant, Behind
  <2> HIDE DEF output
  <2> QED BY <2>1, <2>3, ParsedNow DEF Behind
<1>5. CASE ReduceOutput
  <2>1. CASE outputs' = Append(outputs, out) /\ at' = "list"
    <3>1. Meant(out, T, v, den2)
      BY <1>0, <1>5 DEF ReduceOutput, Behind
    <3> QED BY <2>1, <3>1, ParsedNow DEF Behind
  <2>2. CASE UNCHANGED <<at, outputs>>
    <3>1. UNCHANGED <<at, ops, args, out, outputs, look>>
      BY <1>5, <2>2 DEF ReduceOutput
    <3> QED BY <3>1, QuietParsed
  <2> QED BY <1>5, <2>1, <2>2 DEF ReduceOutput
<1> QED
  BY <1>1, <1>2, <1>3, <1>4, <1>5

\* The columns seen keep their indexes.
LEMMA ColumnsGrow ==
  ASSUME LookOK, ColumnsOK, CallsOK, [PreparerNext]_vars, NEW columns, NEW row,
         Fits(m_identifiers', columns, row)
  PROVE  Fits(m_identifiers, columns, row)
<1>0. m_identifiers \in Seq(ColumnNames) /\ Injective(m_identifiers)
  BY DEF ColumnsOK
<1>1. CASE m_identifiers' = m_identifiers
  BY <1>1
<1>2. ASSUME NEW name \in ColumnNames, m_identifiers' = Seen(name)
      PROVE  Fits(m_identifiers, columns, row)
  <2>1. /\ DOMAIN m_identifiers \subseteq DOMAIN m_identifiers'
        /\ \A i \in DOMAIN m_identifiers : m_identifiers'[i] = m_identifiers[i]
    BY <1>0, <1>2, ColumnIndex
  <2> QED BY <2>1 DEF Fits
<1>3. CASE PrintColumn
  <2>1. /\ todo \in Seq(Calls) /\ todo # <<>> /\ Head(todo) = todo[1] /\ todo[1].agg = "none"
        /\ m_identifiers' = Seen(todo[1].column)
    BY <1>3 DEF PrintColumn, CallsOK
  <2>2. todo[1].column \in ColumnNames
    BY <2>1 DEF CallsOK, CallOK, CallFits
  <2> QED BY <1>2, <2>1, <2>2
<1>4. CASE OperandColumn
  BY <1>2, <1>4, OperandFits DEF OperandColumn
<1>5. CASE OperandInteger \/ CountStar \/ ReduceBinary \/ ReduceNegation \/ UNCHANGED vars
  BY <1>1, <1>5 DEF OperandInteger, CountStar, ReduceBinary, ReduceNegation, vars, parserVars
<1>6. CASE BeginParse \/ ParseReturns \/ BeginLoad \/ LoadAggregate \/ LoadReturns \/ Compile
           \/ BeginPrint \/ PrintAggregate \/ PrintReturns
  BY <1>1, <1>6 DEF BeginParse, ParseReturns, BeginLoad, LoadAggregate, LoadReturns,
                    Compile, BeginPrint, PrintAggregate, PrintReturns, parserVars
<1>7. CASE ReadNext \/ Move \/ OutputColumn \/ OutputAggregate \/ Star \/ Prefix \/ Operator \/ Close
  BY <1>1, <1>7 DEF ReadNext, ReadToken, ReadError, ReadEnd, Move, OutputColumn, OutputAggregate,
                    Star, Prefix, Operator, Close
<1>8. CASE Alias \/ ReduceOutput \/ GroupColumn \/ OrderColumn \/ Accept \/ SyntaxError \/ Exhausted
  BY <1>1, <1>8 DEF Alias, ReduceOutput, GroupColumn, OrderColumn, Accept, SyntaxError, Exhausted
<1> QED
  BY <1>3, <1>4, <1>5, <1>6, <1>7, <1>8 DEF PreparerNext, ParserStep, ParserNext

\* A process that was stopped makes no step.
LEMMA StoppedStays == [PreparerNext]_vars /\ fault => fault'
<1> SUFFICES ASSUME [PreparerNext]_vars, fault PROVE fault'
  OBVIOUS
<1>1. ~Running /\ ~Parsing
  BY DEF Running, Parsing
<1>2. ~ReadNext /\ ~Move /\ ~OutputColumn /\ ~OutputAggregate /\ ~Star /\ ~CountStar
      /\ ~OperandColumn /\ ~OperandInteger /\ ~Prefix /\ ~Operator /\ ~Close
  BY <1>1 DEF ReadNext, ReadToken, ReadError, ReadEnd, Lexing, Move, OutputColumn, OutputAggregate,
              Star, CountStar, OperandColumn, OperandInteger, Prefix, Operator, Close, Sees
<1>3. ~ReduceBinary /\ ~ReduceNegation /\ ~Alias /\ ~ReduceOutput /\ ~GroupColumn
      /\ ~OrderColumn /\ ~Accept /\ ~SyntaxError /\ ~Exhausted
  BY <1>1 DEF ReduceBinary, ReduceNegation, Reducing, Alias, ReduceOutput, GroupColumn, OrderColumn,
              Accept, SyntaxError, Exhausted, Sees
<1>4. ~PreparerNext
  BY <1>1, <1>2, <1>3 DEF PreparerNext, ParserStep, ParserNext, BeginParse, ParseReturns, BeginLoad,
       LoadAggregate, LoadReturns, Compile, BeginPrint, PrintAggregate, PrintColumn, PrintReturns
<1> QED
  BY <1>4 DEF vars, exprVars

\* What a step leaves of the parser's stack and the outputs has the values of its
\* text, when what was there before had.
LEMMA StepParsed ==
  ASSUME Inv, Inv', Grown, [PreparerNext]_vars, ~fault, ~fault',
         NEW T, NEW columns, NEW v, Valued(T, columns, v),
         NEW row \in [Columns -> Long], Fits(m_identifiers', columns, row),
         NEW den, den = Denotation(row), NEW den2, den2 = Denotation(row)',
         Kept(den, den2), Parsed(T, v, den)
  PROVE  Parsed(T, v, den2)'
<1> USE DEF Inv
<1>0. Handles \subseteq Handles' /\ m_status \in {"PROGRAMMING", m_status}
  BY DEF Grown
<1>1. CASE UNCHANGED vars
  BY <1>1, QuietParsed DEF vars, parserVars
<1>2. CASE BeginParse \/ ParseReturns \/ BeginLoad \/ LoadAggregate \/ LoadReturns \/ Compile
           \/ BeginPrint \/ PrintAggregate \/ PrintColumn \/ PrintReturns
  <2>1. UNCHANGED <<at, ops, args, out, outputs, look>>
    BY <1>2 DEF BeginParse, ParseReturns, BeginLoad, LoadAggregate, LoadReturns, Compile,
                BeginPrint, PrintAggregate, PrintColumn, PrintReturns, parserVars, treeVars
  <2> QED BY <2>1, QuietParsed
<1>3. CASE ReadNext \/ Accept \/ SyntaxError \/ Exhausted
  <2>1. UNCHANGED <<at, ops, args, out, outputs>>
    BY <1>3 DEF ReadNext, ReadToken, ReadError, ReadEnd, Accept, SyntaxError, Exhausted, treeVars
  <2>2. look' = look \/ look = None
    BY <1>3 DEF ReadNext, ReadToken, ReadError, ReadEnd, Lexing, Accept, SyntaxError, Exhausted
  <2> QED BY <2>1, <2>2, QuietParsed, Lookaheads
<1>4. CASE Move
  BY <1>4, MoveParsed
<1>5. CASE OutputColumn \/ OutputAggregate \/ Star \/ Alias \/ ReduceOutput
           \/ GroupColumn \/ OrderColumn
  BY <1>5, OutputParsed
<1>6. CASE Prefix
  BY <1>6, PrefixParsed
<1>7. CASE Operator
  BY <1>7, OperatorParsed
<1>8. CASE Close
  BY <1>8, CloseParsed
<1>9. ASSUME status = "PARSING", OperandColumn PROVE Parsed(T, v, den2)'
  <2> DEFINE col == column_name_to_idx(look.val)
  <2>1. /\ look \in Lexemes /\ look.val \in ColumnNames /\ col \in Columns
        /\ look.token = "IDENTIFIER" /\ at = "operand" /\ Load(col) /\ Operand
        /\ m_identifiers' = Seen(look.val)
    BY <1>9, OperandFits DEF OperandColumn, Sees
  <2>2. /\ col \in DOMAIN m_identifiers' /\ m_identifiers'[col] = look.val
    BY <2>1, ColumnIndex DEF ColumnsOK
  <2> HIDE DEF col
  <2>3. ret' \in Handles'
    BY <1>9, <2>1, CallReturnsHandle DEF CallsOK, Early, StackOK
  <2>4. den2[ret'] = columns[look.val]
    BY <2>1, <2>2, LoadDenotes DEF Fits
  <2> QED BY <1>0, <2>1, <2>3, <2>4, OperandParsed
<1>10. ASSUME status = "PARSING", OperandInteger PROVE Parsed(T, v, den2)'
  <2>1. /\ look \in Lexemes /\ look.val \in Literals /\ look.token = "INT" /\ at = "operand"
        /\ ConstantInteger(look.val) /\ Operand
    BY <1>10, OperandFits DEF OperandInteger, Sees
  <2>2. m_status = "PROGRAMMING"
    BY <1>10 DEF CallsOK, Early
  <2>3. ret' \in Handles' /\ den2[ret'] = look.val
    BY <2>1, <2>2, CallReturnsHandle, ConstantDenotes DEF StackOK
  <2> QED BY <1>0, <2>1, <2>3, OperandParsed
<1>11. ASSUME status = "PARSING", CountStar PROVE Parsed(T, v, den2)'
  <2>1. m_status = "PROGRAMMING" /\ ConstantInteger(1) /\ 1 \in Literals
    BY <1>11, CallsAssumption DEF CallsOK, Early, CountStar
  <2>2. den2[ret'] = 1
    BY <2>1, ConstantDenotes
  <2> QED BY <1>11, <2>2, CountStarParsed
<1>12. ASSUME ReduceBinary PROVE Parsed(T, v, den2)'
  <2>1. Top \in Ops /\ Arg(1) \in Handles /\ Arg(0) \in Handles /\ Arith(Top, Arg(1), Arg(0))
    BY <1>12, ReductionFindsOperands DEF ReduceBinary
  <2>2. den2[ret'] = ValueOf(Top, den[Arg(1)], den[Arg(0)])
    BY <2>1, ArithDenotes
  <2>3. \A k \in Handles : den[k] \in Int
    BY DenotationCases DEF Long
  <2> QED BY <1>0, <1>12, <2>2, <2>3, BinaryParsed
<1>13. ASSUME status = "PARSING", ReduceNegation PROVE Parsed(T, v, den2)'
  <2>1. m_status = "PROGRAMMING" /\ ConstantInteger(0) /\ 0 \in Literals
    BY <1>13, CallsAssumption DEF CallsOK, Early, ReduceNegation
  <2>2. den2[ret'] = 0
    BY <2>1, ConstantDenotes
  <2> QED BY <1>0, <1>13, <2>2, NegationParsed
<1>14. CASE ParserStep
  BY <1>3, <1>4, <1>5, <1>6, <1>7, <1>8, <1>9, <1>10, <1>11, <1>12, <1>13, <1>14
  DEF ParserStep, ParserNext
<1> QED
  BY <1>1, <1>2, <1>14 DEF PreparerNext

\* A step keeps it.
LEMMA ParsedKept ==
  ASSUME Inv, Inv', ParsedOK, [PreparerNext]_vars
  PROVE  ParsedOK'
<1> SUFFICES ASSUME ~fault', NEW T, NEW columns, NEW v, NEW row \in [Columns -> Long],
                    Valued(T, columns, v), Fits(m_identifiers', columns, row)
             PROVE  Parsed(T, v, Denotation(row))'
  BY DEF ParsedOK
<1>1. Grown
  BY TypesKept DEF Inv
<1>2. ~fault
  BY StoppedStays
<1>3. Fits(m_identifiers, columns, row)
  BY ColumnsGrow DEF Inv
<1>4. PICK den : den = Denotation(row)
  OBVIOUS
<1>5. PICK den2 : den2 = Denotation(row)'
  OBVIOUS
<1>6. Parsed(T, v, den)
  BY <1>2, <1>3, <1>4 DEF ParsedOK
<1>7. Kept(den, den2)
  BY <1>1, <1>4, <1>5, ValuesKept DEF Inv, Kept
<1>8. Parsed(T, v, den2)'
  BY <1>1, <1>2, <1>4, <1>5, <1>6, <1>7, StepParsed
<1> QED
  BY <1>5, <1>8 DEF Parsed, Meant

\* Nothing has been parsed in the beginning.
LEMMA ParsedBegins == PreparerInit => ParsedOK
<1> SUFFICES ASSUME PreparerInit, NEW T, NEW v, NEW den PROVE Parsed(T, v, den)
  BY DEF ParsedOK
<1>1. outputs = <<>> /\ at = "start"
  BY DEF PreparerInit, ParserInit
<1> QED
  BY <1>1 DEF Parsed, Behind

\* The arguments of the aggregates that are parsed have the values of their texts.
LEMMA ParsedMeansSame == Inv /\ ParsedOK => PrecedenceAsMySQL
<1> SUFFICES ASSUME Inv, ParsedOK, ~fault, NEW output \in Finished, ~NegatesProduct(output.text),
                    output.is_agg, NEW row \in [Columns -> Long]
             PROVE  Denotation(row)[output.arg] = TextValue(output.text, ColumnValues(row))
  BY DEF PrecedenceAsMySQL, HasTextValue
<1> DEFINE columns == ColumnValues(row)
<1>1. m_identifiers \in Seq(ColumnNames) /\ Injective(m_identifiers)
  BY DEF Inv, ColumnsOK
<1>2. columns \in [ColumnNames -> Long]
  BY <1>1, ColumnIndex DEF ColumnValues
<1>3. Fits(m_identifiers, columns, row)
  <2> SUFFICES ASSUME NEW i \in DOMAIN m_identifiers PROVE columns[m_identifiers[i]] = row[i]
    BY DEF Fits
  <2>1. m_identifiers[i] \in ColumnNames
    BY <1>1
  <2>2. PICK name : name = m_identifiers[i]
    OBVIOUS
  <2>3. /\ column_name_to_idx(name) \in DOMAIN Seen(name)
        /\ Seen(name)[column_name_to_idx(name)] = name /\ Injective(Seen(name))
        /\ i \in DOMAIN Seen(name) /\ Seen(name)[i] = name
    BY <1>1, <2>1, <2>2, ColumnIndex
  <2>4. column_name_to_idx(name) = i
    BY <2>3 DEF Injective
  <2> QED BY <2>1, <2>2, <2>4 DEF ColumnValues
<1> HIDE DEF columns
<1>4. output \in Outputs
  BY DEF Finished, Inv, TreeOK
<1>5. PICK T : T = output.text
  OBVIOUS
<1>6. T \in Seq(Words)
  BY <1>4, <1>5 DEF Outputs
<1>7. PICK v : Values(T, columns, v) /\ TextValue(T, columns) = v[<<1, Len(T)>>]
  BY <1>2, <1>6, ReferenceIsValue
<1>8. Parsed(T, v, Denotation(row))
  BY <1>2, <1>3, <1>5, <1>6, <1>7 DEF ParsedOK, Valued
<1>9. Meant(output, T, v, Denotation(row))
  BY <1>8 DEF Parsed, Finished, Behind
<1> QED
  BY <1>5, <1>7, <1>9 DEF Meant, columns

\* However operators and parentheses are mixed, and whatever is folded or shared
\* on the way, the argument of an aggregate has on every row the value of its text
\* read with MySQL's precedence, in the API's own arithmetic, unless a minus stands
\* before a product.
THEOREM PrecedenceAlwaysAsMySQL == PreparerSpec => []PrecedenceAsMySQL
<1>1. PreparerInit => Inv /\ ParsedOK
  BY InvHolds, ParsedBegins
<1>2. Inv /\ ParsedOK /\ [PreparerNext]_vars => (Inv /\ ParsedOK)'
  BY InvKept, ParsedKept
<1>3. Inv /\ ParsedOK => PrecedenceAsMySQL
  BY ParsedMeansSame
<1> QED
  BY <1>1, <1>2, <1>3, PTL DEF PreparerSpec

=============================================================================
