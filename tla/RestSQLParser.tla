---------------------------- MODULE RestSQLParser ----------------------------
(* The lexer (RestSQLLexer.l) and the parser (RestSQLParser.y) of the SQL    *)
(* subset: from bytes to the tree and, through the high-level API, to        *)
(* expressions.  The statement is read one lexeme at a time, any lexeme at   *)
(* any place, and a position counts the bytes before it.                     *)
(*                                                                           *)
(* The LALR automaton is reduced to what it still can read (`at'), the       *)
(* symbols of the arithmetic expression on its stack (`ops', `args'), and    *)
(* its one token of lookahead (`look').  Reductions that need no lookahead   *)
(* are part of the step that shifts; those that do are made on any token     *)
(* that cannot be shifted, T_ERR included, as bison's default reductions     *)
(* are.  A condition after WHERE is one lexeme: RestSQLConditions parses it. *)
EXTENDS AggExprs, SyntaxErrors

CONSTANTS
  Lexemes,     \* the tokens a statement is made of: token, value and width
  LexErrors,   \* the lexical errors it may have
  MaxName,     \* the longest name of an output, 64
  MaxPos,      \* bound on the length of a statement
  MaxDepth     \* the limit of the parser's stack, YYMAXDEPTH

\* The tokens lexemes stand for, and the names of columns.
Tokens ==
  ArithOps \cup {"SELECT", "FROM", "AS", "WHERE", "CONDITION", "GROUP", "BY", "ORDER", "ASC",
                 "DESC", "COMMA", "(", ")", "SEMICOLON", "INT", "IDENTIFIER", "FUNCTION"}
ColumnNames == {lexeme.val : lexeme \in {l \in Lexemes : l.token = "IDENTIFIER"}}

ASSUME LexemesAssumption ==
  /\ \A lexeme \in Lexemes : lexeme.token \in Tokens /\ lexeme.width \in Nat \ {0}
  /\ LexErrors \subseteq {"LEX_HERE", "LEX_ILLEGAL_TOKEN", "LEX_TOO_LONG_IDENTIFIER",
                          "LEX_UNEXPECTED_EOI"}

\* What the parser passes to the API: its operations, the literals of the
\* statement, the constants of a minus and of COUNT(*), and indexes of columns.
ASSUME CallsAssumption ==
  /\ {0, 1} \subseteq Literals
  /\ \A lexeme \in Lexemes :
       /\ lexeme.token \in ArithOps => lexeme.token \in Ops
       /\ lexeme.token = "INT" => lexeme.val \in Literals
       /\ lexeme.token = "FUNCTION" =>
            (IF lexeme.val = "Avg" THEN {"Sum", "Count"} ELSE {lexeme.val}) \subseteq AggTypes
  /\ IsFiniteSet(ColumnNames) /\ 1 .. Cardinality(ColumnNames) \subseteq Columns

VARIABLES
  pos,             \* where the lexer goes on
  look,            \* the lookahead token
  at,              \* what the parser expects
  ops, args,       \* operators and operands of the expression being parsed
  out,             \* the output being parsed
  outputs,         \* ast_root.outputs
  groupby,         \* ast_root.groupby_columns
  orderby,         \* ast_root.orderby_columns
  m_identifiers,   \* the columns seen, in order: their places are their indexes
  m_agg,           \* the API object has been created
  parse_result     \* what rsqlp_parse returned, -1 while it runs

lexVars == <<pos, yytext, yylloc>>
treeVars == <<ops, args, out, outputs, groupby, orderby>>
parserVars == <<pos, yytext, yylloc, look, at, ops, args, out, outputs, groupby,
                orderby, m_identifiers, m_agg, err, failed, parse_result>>

Tok(token, val) == [token |-> token, val |-> val, width |-> 1]
None == Tok("NONE", "none")
\* The output_name "none" is the text of the output itself.
NoOutput == [is_agg |-> FALSE, fun |-> "none", arg |-> NULL, col_name |-> "none",
             output_name |-> "none", loc |-> Location(0, 0), text |-> <<>>]

ParserInit ==
  /\ Init /\ ErrorsInit
  /\ pos = 0
  /\ look = None /\ at = "start"
  /\ ops = <<>> /\ args = <<>> /\ out = NoOutput
  /\ outputs = <<>> /\ groupby = <<>> /\ orderby = <<>>
  /\ m_identifiers = <<>> /\ m_agg = FALSE
  /\ parse_result = -1

Running == failed = "none" /\ ~fault
Parsing == Running /\ parse_result = -1

-----------------------------------------------------------------------------
(* The lexer                                                                 *)

Lexing == Parsing /\ look = None /\ pos < MaxPos

\* A token.  The last match of an identifier in backticks is the second one.
ReadToken(lexeme) ==
  /\ Lexing
  /\ LET end == pos + lexeme.width
     IN  /\ pos' = end
         /\ yytext' = IF lexeme.token = "IDENTIFIER" THEN Location(end - 1, end)
                                                    ELSE Location(pos, end)
         /\ yylloc' = Location(pos, end)
  /\ look' = lexeme
  /\ UNCHANGED <<exprVars, treeVars, at, m_identifiers, m_agg, err, failed, parse_result>>

\* The end of the statement: yylloc stays at the last token.
ReadEnd ==
  /\ Parsing /\ look = None
  /\ yytext' = Location(pos, pos + 1)
  /\ look' = Tok("END", "none")
  /\ UNCHANGED <<exprVars, treeVars, pos, yylloc, at, m_identifiers, m_agg, err, failed,
                 parse_result>>

\* yylloc and yytext after a rule that finds an error.  LEX_HERE stands for the
\* errors of return_err_for_this_rule and of the rules for words: bad UTF-8, NUL,
\* keywords that are not implemented, incomplete escapes.  The rule for illegal
\* tokens sets no location.  The others concern what begins with a quote.
MatchedAs(error) ==
  CASE error = "LEX_HERE" -> [loc |-> Location(pos, pos + 1), text |-> Location(pos, pos + 1)]
    [] error = "LEX_ILLEGAL_TOKEN" -> [loc |-> yylloc, text |-> Location(pos, pos + 1)]
    [] error = "LEX_TOO_LONG_IDENTIFIER" ->
         [loc |-> Location(pos, pos + 2), text |-> Location(pos + 1, pos + 2)]
    [] error = "LEX_UNEXPECTED_EOI" ->
         [loc |-> Location(pos, pos + 1), text |-> Location(pos + 1, pos + 2)]

\* A rule that reports an error and returns T_ERR.
ReadError(error) ==
  /\ Lexing
  /\ LET match == MatchedAs(error)
     IN  /\ yylloc' = match.loc
         /\ yytext' = match.text
         /\ pos' = IF error = "LEX_UNEXPECTED_EOI" THEN match.text.begin ELSE match.text.end
         /\ set_err_state(error, IF error = "LEX_ILLEGAL_TOKEN" THEN match.text ELSE match.loc)
  /\ look' = Tok("ERR", error)
  /\ UNCHANGED <<exprVars, treeVars, at, m_identifiers, m_agg, parse_result>>

ReadNext ==
  \/ \E lexeme \in Lexemes : ReadToken(lexeme)
  \/ \E error \in LexErrors : ReadError(error)
  \/ ReadEnd

-----------------------------------------------------------------------------
(* The grammar's actions                                                     *)

\* Tokens that are shifted without an action of their own, by the place where
\* they are read.
Moves == {
  <<"start", "SELECT", "output">>, <<"open", "(", "operand">>,
  <<"alias", "AS", "aliasname">>, <<"list", "COMMA", "output">>, <<"list", "FROM", "table">>,
  <<"table", "IDENTIFIER", "tail">>,
  <<"tail", "WHERE", "where">>, <<"where", "CONDITION", "filtered">>,
  <<"filtered", "GROUP", "group">>, <<"filtered", "ORDER", "order">>, <<"filtered", "SEMICOLON", "end">>,
  <<"tail", "GROUP", "group">>, <<"group", "BY", "groupcol">>, <<"grouped", "COMMA", "groupcol">>,
  <<"tail", "ORDER", "order">>, <<"grouped", "ORDER", "order">>, <<"order", "BY", "ordercol">>,
  <<"ordered", "ASC", "directed">>, <<"ordered", "DESC", "directed">>,
  <<"ordered", "COMMA", "ordercol">>, <<"directed", "COMMA", "ordercol">>,
  <<"tail", "SEMICOLON", "end">>, <<"grouped", "SEMICOLON", "end">>,
  <<"ordered", "SEMICOLON", "end">>, <<"directed", "SEMICOLON", "end">>}

\* The parser has a lookahead, which is one of `tokens', at this place.
Sees(place, tokens) == Parsing /\ at = place /\ look.token \in tokens

\* The lookahead is consumed.
Shift(next) == look' = None /\ at' = next /\ UNCHANGED <<lexVars, err, failed, parse_result>>

Move ==
  \E m \in Moves :
    /\ Sees(m[1], {m[2]})
    /\ Shift(m[3])
    /\ UNCHANGED <<exprVars, treeVars, m_identifiers, m_agg>>

\* A column as output, without an alias so far; it is its own text.
OutputColumn ==
  /\ Sees("output", {"IDENTIFIER"})
  /\ Shift("alias")
  /\ out' = [NoOutput EXCEPT !.col_name = look.val, !.output_name = look.val, !.loc = yylloc,
                             !.text = <<look>>]
  /\ UNCHANGED <<exprVars, ops, args, outputs, groupby, orderby, m_identifiers, m_agg>>

OutputAggregate ==
  /\ Sees("output", {"FUNCTION"})
  /\ Shift("open")
  /\ out' = [NoOutput EXCEPT !.is_agg = TRUE, !.fun = look.val, !.loc = yylloc]
  /\ UNCHANGED <<exprVars, ops, args, outputs, groupby, orderby, m_identifiers, m_agg>>

\* The index of a column, the next free one if it has not been seen.
column_name_to_idx(name) ==
  LET known == {i \in DOMAIN m_identifiers : m_identifiers[i] = name}
  IN  IF known # {} THEN First(known) ELSE Len(m_identifiers) + 1

Seen(name) ==
  IF column_name_to_idx(name) > Len(m_identifiers) THEN Append(m_identifiers, name)
                                                   ELSE m_identifiers

\* The parser's stack has room for another symbol.  Lists of columns are parsed
\* by right recursion: their columns and commas stay on it until the list ends.
Listed == IF at \in {"groupcol", "grouped"} THEN Len(groupby) ELSE Len(orderby)
Room == Len(ops) + Len(args) + 2 * Listed < MaxDepth

\* An operand: the first one creates the API object.
Operand ==
  /\ Room
  /\ Shift("operator")
  /\ args' = Append(args, ret')
  /\ out' = [out EXCEPT !.text = Append(@, look)]
  /\ m_agg' = TRUE
  /\ UNCHANGED <<ops, outputs, groupby, orderby>>

OperandColumn ==
  /\ Sees("operand", {"IDENTIFIER"})
  /\ Load(column_name_to_idx(look.val))
  /\ m_identifiers' = Seen(look.val)
  /\ Operand

OperandInteger ==
  /\ Sees("operand", {"INT"})
  /\ ConstantInteger(look.val)
  /\ Operand
  /\ UNCHANGED m_identifiers

\* A minus or a parenthesis before an operand.
Prefix ==
  /\ Sees("operand", {"Minus", "("})
  /\ Room
  /\ Shift("operand")
  /\ LET symbol == IF look.token = "(" THEN look.token ELSE "neg"
     IN  /\ ops' = Append(ops, symbol)
         /\ out' = [out EXCEPT !.text = Append(@, Tok(symbol, "none"))]
  /\ UNCHANGED <<exprVars, args, outputs, groupby, orderby, m_identifiers, m_agg>>

\* COUNT(*) is COUNT(1).
Star ==
  /\ Sees("operand", {"Mul"}) /\ out.fun = "Count" /\ out.text = <<>>
  /\ Shift("star")
  /\ UNCHANGED <<exprVars, treeVars, m_identifiers, m_agg>>

CountStar ==
  /\ Sees("star", {")"})
  /\ ConstantInteger(1)
  /\ Shift("alias")
  /\ out' = [out EXCEPT !.arg = ret', !.loc.end = yylloc.end, !.text = <<Tok("INT", 1)>>]
  /\ m_agg' = TRUE
  /\ UNCHANGED <<ops, args, outputs, groupby, orderby, m_identifiers>>

\* Mutant of Precedence: all operators bind equally.
PrecedenceFlat(op) == 1

\* %left T_PLUS T_MINUS, %left T_MULTIPLY T_DIVIDE T_MODULO; the rule for the
\* minus before an operand takes the precedence of its token.
Precedence(op) == IF op \in {"Mul", "Div", "Rem"} THEN 2 ELSE 1

\* Mutant of Popped: one symbol is popped, whatever the length of the rule.
PoppedOne(symbols, n) == SubSeq(symbols, 1, Len(symbols) - 1)

Popped(symbols, n) == SubSeq(symbols, 1, Len(symbols) - n)
Top == ops[Len(ops)]
Arg(n) == args[Len(args) - n]

\* The operator on top of the stack is applied before the lookahead is shifted.
Reducible ==
  /\ at = "operator" /\ ops # <<>>
  /\ Top # "("
  /\ look.token \in ArithOps => Precedence(Top) >= Precedence(look.token)

Reducing == Parsing /\ look # None /\ Reducible

\* arith_expr op arith_expr, and the second half of a negation.
ReduceBinary ==
  /\ Reducing /\ Top \in ArithOps
  /\ Arith(Top, Arg(1), Arg(0))
  /\ args' = Append(Popped(args, 2), ret')
  /\ ops' = Popped(ops, 1)
  /\ UNCHANGED <<lexVars, look, at, out, outputs, groupby, orderby, m_identifiers, m_agg,
                 err, failed, parse_result>>

\* T_MINUS arith_expr becomes the difference of a constant zero and the operand.
ReduceNegation ==
  /\ Reducing /\ Top = "neg"
  /\ ConstantInteger(0)
  /\ args' = Popped(args, 1) \o <<ret', Arg(0)>>
  /\ ops' = [ops EXCEPT ![Len(ops)] = "Minus"]
  /\ UNCHANGED <<lexVars, look, at, out, outputs, groupby, orderby, m_identifiers, m_agg,
                 err, failed, parse_result>>

Operator ==
  /\ Sees("operator", ArithOps) /\ ~Reducible /\ Room
  /\ Shift("operand")
  /\ ops' = Append(ops, look.token)
  /\ out' = [out EXCEPT !.text = Append(@, look)]
  /\ UNCHANGED <<exprVars, args, outputs, groupby, orderby, m_identifiers, m_agg>>

Close ==
  /\ Sees("operator", {")"}) /\ ~Reducible
  /\ UNCHANGED <<exprVars, outputs, groupby, orderby, m_identifiers, m_agg>>
  /\ \/ /\ ops # <<>>
        /\ Shift("operator")
        /\ ops' = Popped(ops, 1)
        /\ out' = [out EXCEPT !.text = Append(@, look)]
        /\ UNCHANGED args
     \/ /\ ops = <<>>
        /\ Shift("alias")
        /\ out' = [out EXCEPT !.arg = Arg(0), !.loc.end = yylloc.end]
        /\ args' = <<>>
        /\ UNCHANGED ops

\* Mutant of Alias: a column becomes the column its alias names.
AliasRenames ==
  /\ Sees("aliasname", {"IDENTIFIER"})
  /\ Shift("list")
  /\ outputs' = Append(outputs, [out EXCEPT !.col_name = look.val, !.output_name = look.val])
  /\ UNCHANGED <<exprVars, ops, args, out, groupby, orderby, m_identifiers, m_agg>>

\* output: nonaliased_output T_AS identifier.  A column keeps its own name too.
Alias ==
  /\ Sees("aliasname", {"IDENTIFIER"})
  /\ Shift("list")
  /\ outputs' = Append(outputs, [out EXCEPT !.output_name = look.val])
  /\ UNCHANGED <<exprVars, ops, args, out, groupby, orderby, m_identifiers, m_agg>>

\* An aggregate without alias is named as it is written.
TooLong == out.is_agg /\ out.loc.end - out.loc.begin > MaxName

\* output: nonaliased_output.  A token has been read to see that it is not AS.
ReduceOutput ==
  /\ Parsing /\ at = "alias" /\ look # None /\ look.token # "AS"
  /\ \/ /\ TooLong
        /\ set_err_state("TOO_LONG_UNALIASED_OUTPUT", out.loc)
        /\ parse_result' = 1
        /\ UNCHANGED <<at, outputs>>
     \/ /\ ~TooLong
        /\ outputs' = Append(outputs, out)
        /\ at' = "list"
        /\ UNCHANGED <<err, failed, parse_result>>
  /\ UNCHANGED <<exprVars, lexVars, look, ops, args, out, groupby, orderby, m_identifiers, m_agg>>

GroupColumn ==
  /\ Sees("groupcol", {"IDENTIFIER"}) /\ Room
  /\ Shift("grouped")
  /\ groupby' = Append(groupby, look.val)
  /\ UNCHANGED <<exprVars, ops, args, out, outputs, orderby, m_identifiers, m_agg>>

OrderColumn ==
  /\ Sees("ordercol", {"IDENTIFIER"}) /\ Room
  /\ Shift("ordered")
  /\ orderby' = Append(orderby, look.val)
  /\ UNCHANGED <<exprVars, ops, args, out, outputs, groupby, m_identifiers, m_agg>>

Accept ==
  /\ Sees("end", {"END"})
  /\ parse_result' = 0
  /\ UNCHANGED <<exprVars, lexVars, treeVars, look, at, m_identifiers, m_agg, err, failed>>

\* What can be shifted where.
Operands == {"IDENTIFIER", "INT", "Minus", "("}

Expected ==
  {m[2] : m \in {n \in Moves : n[1] = at}} \cup
  (CASE at = "output" -> {"IDENTIFIER", "FUNCTION"}
     [] at = "operand" -> IF out.fun = "Count" /\ out.text = <<>> THEN Operands \cup {"Mul"}
                                                                  ELSE Operands
     [] at = "star" -> {")"}
     [] at = "operator" -> ArithOps \cup {")"}
     [] at \in {"aliasname", "groupcol", "ordercol"} -> {"IDENTIFIER"}
     [] at = "end" -> {"END"}
     [] OTHER -> {})

\* Any other token is an error, and no rule recovers from errors.
SyntaxError ==
  /\ Parsing /\ look # None
  /\ at # "alias" /\ ~Reducible
  /\ look.token \notin Expected
  /\ rsqlp_error
  /\ parse_result' = 1
  /\ UNCHANGED <<exprVars, lexVars, treeVars, look, at, m_identifiers, m_agg>>

Pushes == ({"operand"} \X Operands) \cup ({"operator"} \X ArithOps)
          \cup ({"groupcol", "ordercol"} \X {"IDENTIFIER"})

\* The stack is full: yyexhaustedlab reports an error as well.
Exhausted ==
  /\ Parsing /\ look # None /\ ~Room /\ ~Reducible
  /\ <<at, look.token>> \in Pushes
  /\ rsqlp_error
  /\ parse_result' = 2
  /\ UNCHANGED <<exprVars, lexVars, treeVars, look, at, m_identifiers, m_agg>>

ParserNext ==
  \/ ReadNext
  \/ Move
  \/ OutputColumn \/ OutputAggregate \/ Star \/ CountStar
  \/ OperandColumn \/ OperandInteger \/ Prefix \/ Operator \/ Close
  \/ ReduceBinary \/ ReduceNegation
  \/ Alias \/ ReduceOutput \/ GroupColumn \/ OrderColumn
  \/ Accept \/ SyntaxError \/ Exhausted

=============================================================================
