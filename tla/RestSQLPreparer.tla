--------------------------- MODULE RestSQLPreparer ---------------------------
(* RestSQLPreparer: a statement is parsed, its aggregates are loaded into    *)
(* the API object, compiled and printed.  The caller makes the calls in this *)
(* order (main of ParseCompileTest.cpp); a call that fails sets FAILED, and  *)
(* the calls after it return at once.                                        *)
EXTENDS RestSQLParser

Seqs == INSTANCE SequencesExt

VARIABLES
  status,    \* INITIALIZED, PARSING, PARSED, LOADING, LOADED, COMPILED, PRINTING,
             \* PRINTED or FAILED
  todo       \* the calls load() and print() still have to make

vars == <<parserVars, exprVars, status, todo>>

PreparerInit == ParserInit /\ status = "INITIALIZED" /\ todo = <<>>

-----------------------------------------------------------------------------
(* parse()                                                                   *)

BeginParse ==
  /\ Running /\ status = "INITIALIZED"
  /\ status' = "PARSING"
  /\ UNCHANGED <<parserVars, exprVars, todo>>

ParserStep == status = "PARSING" /\ ParserNext /\ UNCHANGED <<status, todo>>

\* The asserts of parse().  The text is at least as long as what was read of it,
\* and no longer if that was all.
ParseAsserts ==
  IF parse_result = 1
  THEN /\ err.state # "NONE"
       /\ 0 <= err.pos /\ err.pos <= pos
       /\ err.pos + err.len <= pos + 1
  ELSE parse_result = 0 => err.state = "NONE"

ParseReturns ==
  /\ Running /\ status = "PARSING" /\ parse_result # -1
  /\ status' = IF parse_result = 0 THEN "PARSED" ELSE "FAILED"
  /\ failed' = IF ParseAsserts THEN "none" ELSE "parse"
  /\ UNCHANGED <<exprVars, lexVars, treeVars, look, at, m_identifiers, m_agg, err,
                 parse_result, todo>>

-----------------------------------------------------------------------------
(* load(), compile() and print()                                             *)

AggCall(function, arg) == [agg |-> function, arg |-> arg, column |-> "none"]
ColumnCall(name) == [agg |-> "none", arg |-> NULL, column |-> name]

\* Mutant of LoadedFor: the average is loaded as its sum.
LoadedAsSum(output) ==
  IF output.fun = "Avg" THEN <<AggCall("Sum", output.arg)>>
                        ELSE <<AggCall(output.fun, output.arg)>>

\* What load() asks the API for: it has no average, but sums and counts.
LoadedFor(output) ==
  IF output.fun = "Avg"
  THEN <<AggCall("Sum", output.arg), AggCall("Count", output.arg)>>
  ELSE <<AggCall(output.fun, output.arg)>>

Loads(output) == IF output.is_agg THEN LoadedFor(output) ELSE <<>>

\* What print() asks for: the same aggregates, and the index of every column.
PrintedFor(output) ==
  IF ~output.is_agg THEN <<ColumnCall(output.col_name)>>
  ELSE IF output.fun = "Avg" THEN <<AggCall("Sum", output.arg), AggCall("Count", output.arg)>>
  ELSE <<AggCall(output.fun, output.arg)>>

LoadCalls == Seqs!FlattenSeq([i \in DOMAIN outputs |-> Loads(outputs[i])])

ColumnCalls(names) == [i \in DOMAIN names |-> ColumnCall(names[i])]
PrintCalls ==
  Seqs!FlattenSeq([i \in DOMAIN outputs |-> PrintedFor(outputs[i])])
    \o ColumnCalls(groupby) \o ColumnCalls(orderby)

BeginLoad ==
  /\ Running /\ status = "PARSED"
  /\ status' = "LOADING"
  /\ todo' = LoadCalls
  /\ UNCHANGED <<parserVars, exprVars>>

LoadAggregate ==
  /\ Running /\ status = "LOADING" /\ todo # <<>>
  /\ Aggregate(Head(todo).agg, Head(todo).arg)
  /\ todo' = Tail(todo)
  /\ UNCHANGED <<parserVars, status>>

LoadReturns ==
  /\ Running /\ status = "LOADING" /\ todo = <<>>
  /\ status' = IF m_agg => m_status = "PROGRAMMING" THEN "LOADED" ELSE "FAILED"
  /\ UNCHANGED <<parserVars, exprVars, todo>>

\* compile() of the API is AggCompiler; here it compiles or fails, and keeps the
\* tables of expressions and aggregates.
Compile ==
  /\ Running /\ status = "LOADED"
  /\ \/ /\ m_agg
        /\ m_status' \in {"COMPILED", "FAILED"}
        /\ status' = m_status'
     \/ /\ ~m_agg
        /\ status' = "COMPILED"
        /\ UNCHANGED m_status
  /\ UNCHANGED <<parserVars, m_exprs, usage, m_aggs, m_constants, ret, fault, todo>>

BeginPrint ==
  /\ Running /\ status = "COMPILED"
  /\ status' = "PRINTING"
  /\ todo' = PrintCalls
  /\ UNCHANGED <<parserVars, exprVars>>

\* new_agg in status COMPILED: only deduplication can give an index.
PrintAggregate ==
  /\ Running /\ status = "PRINTING" /\ todo # <<>> /\ Head(todo).agg # "none"
  /\ LET agg == [agg_type |-> Head(todo).agg, expr |-> Head(todo).arg]
     IN  failed' = IF \E i \in DOMAIN m_aggs : SameAgg(agg, m_aggs[i]) THEN "none" ELSE "new_agg"
  /\ todo' = Tail(todo)
  /\ UNCHANGED <<exprVars, lexVars, treeVars, look, at, m_identifiers, m_agg, err,
                 parse_result, status>>

\* A column that no expression uses gets its index here.
PrintColumn ==
  /\ Running /\ status = "PRINTING" /\ todo # <<>> /\ Head(todo).agg = "none"
  /\ m_identifiers' = Seen(Head(todo).column)
  /\ todo' = Tail(todo)
  /\ UNCHANGED <<exprVars, lexVars, treeVars, look, at, m_agg, err, failed,
                 parse_result, status>>

PrintReturns ==
  /\ Running /\ status = "PRINTING" /\ todo = <<>>
  /\ status' = "PRINTED"
  /\ UNCHANGED <<parserVars, exprVars, todo>>

PreparerNext ==
  \/ BeginParse \/ ParserStep \/ ParseReturns
  \/ BeginLoad \/ LoadAggregate \/ LoadReturns
  \/ Compile
  \/ BeginPrint \/ PrintAggregate \/ PrintColumn \/ PrintReturns

PreparerSpec == PreparerInit /\ [][PreparerNext]_vars

-----------------------------------------------------------------------------
(* Properties                                                                *)

\* The types, and that the places in the text are in order: the last token ends
\* where the lexer goes on, and an expression's operands are in the API's table.
PreparerTypeOK ==
  /\ TypeOK
  /\ status \in {"INITIALIZED", "PARSING", "PARSED", "LOADING", "LOADED", "COMPILED",
                 "PRINTING", "PRINTED", "FAILED"}
  /\ pos \in Nat /\ yylloc.end <= pos
  /\ parse_result \in {-1, 0, 1, 2}
  /\ \A i \in DOMAIN outputs :
       outputs[i].arg \in (IF outputs[i].is_agg THEN Handles ELSE {NULL})
  /\ \A i \in DOMAIN args : args[i] \in Handles
  /\ at = "operator" => Len(args) = Cardinality({i \in DOMAIN ops : ops[i] \in ArithOps}) + 1

\* The text of the message of parse() rests on these places: "Unexpected end of
\* input" is said of an error one byte after the text, "Unexpected at this point"
\* of the last token read; no other function than set_err_state fails an assert
\* on the way.
SyntaxErrorIsLocated ==
  /\ failed \notin {"rsqlp_error", "parse"}
  /\ parse_result = 1 /\ err.state = "PARSER_ERROR" =>
       IF look.token = "END" THEN err.pos = pos /\ err.len = 1
                             ELSE err.len > 0 /\ err.pos + err.len = pos

\* The value that an expression has on a row if it is read with MySQL's
\* precedence: of the operators outside of parentheses the rightmost + or - is
\* applied last, then the rightmost *, /, %; a minus before an operand binds
\* stronger.  Each is applied as the API would: only the structure is MySQL's,
\* whose / is decimal and whose overflow is an error.
Outermost(text, i, j, operators) ==
  {k \in i .. j : /\ text[k].token \in operators
                  /\ Cardinality({n \in i .. k : text[n].token = "("})
                       = Cardinality({n \in i .. k : text[n].token = ")"})}

\* The value of the part from i to j, given the values v of the parts in it and
\* those of the columns.
PartValue(text, columns, v, i, j) ==
  LET sums == Outermost(text, i, j, {"Add", "Minus"})
      products == Outermost(text, i, j, {"Mul", "Div", "Rem"})
      applied == IF sums # {} THEN sums ELSE products
      k == CHOOSE k \in applied : \A n \in applied : n <= k
  IN  IF i > j THEN 0
      ELSE IF applied # {}
      THEN ValueOf(text[k].token, v[<<i, k - 1>>], v[<<k + 1, j>>])
      ELSE CASE text[i].token = "neg" -> Wrap(-v[<<i + 1, j>>])
             [] text[i].token = "(" -> v[<<i + 1, j - 1>>]
             [] text[i].token = "INT" -> text[i].val
             [] text[i].token = "IDENTIFIER" -> columns[text[i].val]
             [] OTHER -> 0

ColumnValues(row) == [name \in ColumnNames |-> row[column_name_to_idx(name)]]

TextValue(text, columns) ==
  LET v[s \in (1 .. Len(text) + 1) \X (0 .. Len(text))] ==
        PartValue(text, columns, v, s[1], s[2])
  IN  v[<<1, Len(text)>>]

Finished == {outputs[i] : i \in DOMAIN outputs} \cup (IF at = "alias" THEN {out} ELSE {})

HasTextValue(output, values) ==
  output.is_agg =>
    \A row \in [Columns -> values] :
      Denotation(row)[output.arg] = TextValue(output.text, ColumnValues(row))

\* A minus before an operand, and a product after it.
NegatesProduct(text) ==
  \E i, j \in DOMAIN text :
    i < j /\ text[i].token = "neg" /\ text[j].token \in {"Mul", "Div", "Rem"}

\* However operators and parentheses are mixed, and whatever is folded or shared
\* on the way, the argument of an aggregate has the structure MySQL gives to its
\* text, unless a minus stands before a product: on every row its value is that
\* of the text read with MySQL's precedence, in the API's own arithmetic.
PrecedenceAsMySQL ==
  ~fault => \A output \in Finished : NegatesProduct(output.text) \/ HasTextValue(output, Long)

\* The same without exception, on values so small that nothing overflows.
\* "always produce the same result as MySQL" (spec.md) asks for no less.
ParsedAsMySQL == ~fault => \A output \in Finished : HasTextValue(output, 0 .. 2)

\* When the aggregates are printed the API is COMPILED and takes no new ones, so
\* load() must have asked for every one of them, both halves of an average too.
PrintFindsAggregates == failed # "new_agg"

\* The columns that the statement names, as far as it has been read: in the texts
\* of its outputs, without their aliases, in GROUP BY and in ORDER BY.
ColumnsIn(text) == {text[k].val : k \in {n \in DOMAIN text : text[n].token = "IDENTIFIER"}}
NamedColumns ==
  ColumnsIn(out.text) \cup (UNION {ColumnsIn(outputs[i].text) : i \in DOMAIN outputs})
    \cup {groupby[i] : i \in DOMAIN groupby} \cup {orderby[i] : i \in DOMAIN orderby}

\* A column has one index, whether expressions, outputs, GROUP BY or ORDER BY
\* name it first; every index belongs to a column the statement names, never to
\* an alias; and every index an expression loads is the index of a column.
OneIndexPerColumn ==
  /\ \A i, j \in DOMAIN m_identifiers : m_identifiers[i] = m_identifiers[j] => i = j
  /\ \A i \in DOMAIN m_identifiers : m_identifiers[i] \in NamedColumns
  /\ \A k \in Handles : m_exprs[k].op = "Load" => m_exprs[k].idx \in DOMAIN m_identifiers

\* "We want to save the error with the left-most position ... here we assert so."
FirstErrorIsLeftmost == failed # "set_err_state"

=============================================================================
