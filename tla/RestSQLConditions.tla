-------------------------- MODULE RestSQLConditions --------------------------
(* The condition after WHERE: the rules of cond_expr (RestSQLParser.y), the  *)
(* tree they build in the union of ConditionalExpression, and how print()    *)
(* reads it (RestSQLPreparer.cpp).  The parser shifts and reduces as bison's *)
(* does: a production is reduced when its right-hand side is on top of the   *)
(* stack and the lookahead does not bind stronger.                           *)
EXTENDS Integers, Sequences, FiniteSets

CONSTANT Languages   \* from which tokens texts are made, and the most tokens of a text

VARIABLES
  language,
  text,        \* the tokens read
  look,        \* the lookahead token
  stack,       \* symbols with their semantic values
  nodes,       \* the ConditionalExpressions in the arena; a pointer is an index
  where_expression,   \* the tree, a pointer
  parse_result        \* -1 while the parser runs, 0 or 1

vars == <<language, text, look, stack, nodes, where_expression, parse_result>>

Null == 0
Units == {"DAY", "SECOND", "DAY_SECOND"}
Leaves == {"IDENTIFIER", "STRING", "INT"}

\* Mutant of Level: T_XOR and T_AND are declared in the other order.
LevelSwapped(op) ==
  CASE op = "OR" -> 1 [] op = "AND" -> 2 [] op = "XOR" -> 3 [] op = "NOT" -> 4
    [] op \in {"=", ">=", ">", "<=", "<", "!=", "IS"} -> 5 [] op = "|" -> 6 [] op = "&" -> 7
    [] op \in {"<<", ">>"} -> 8 [] op \in {"+", "-"} -> 9 [] op \in {"*", "/", "%"} -> 10
    [] op = "^" -> 11 [] op = "!" -> 12

\* %left and %precedence, the strongest last.
Level(op) ==
  CASE op = "OR" -> 1 [] op = "XOR" -> 2 [] op = "AND" -> 3 [] op = "NOT" -> 4
    [] op \in {"=", ">=", ">", "<=", "<", "!=", "IS"} -> 5 [] op = "|" -> 6 [] op = "&" -> 7
    [] op \in {"<<", ">>"} -> 8 [] op \in {"+", "-"} -> 9 [] op \in {"*", "/", "%"} -> 10
    [] op = "^" -> 11 [] op = "!" -> 12

Infix == {"OR", "XOR", "AND", "=", ">=", ">", "<=", "<", "!=", "|", "&", "<<", ">>",
          "+", "-", "*", "/", "%", "^"}

Opening(f) ==
  CASE f = "DATE_ADD" -> "DATE_ADD(" [] f = "DATE_SUB" -> "DATE_SUB(" [] f = "EXTRACT" -> "EXTRACT("

Terminals ==
  Leaves \cup Units \cup Infix
  \cup {"NOT", "!", "(", ")", ",", "IS", "NULL", "INTERVAL", "DATE_ADD", "DATE_SUB", "EXTRACT", "FROM"}

ASSUME LanguagesAssumption == \A l \in Languages : l.tokens \subseteq Terminals /\ l.max \in Nat

\* The productions of cond_expr, E for itself.  A parenthesis behind a function and
\* a NOT behind IS are symbols of their own: the automaton is in another state.
Productions ==
  {<<leaf>> : leaf \in Leaves} \cup {<<"E", op, "E">> : op \in Infix}
  \cup {<<op, "E">> : op \in {"-", "NOT", "!"}}
  \cup {<<f, Opening(f), "E", ",", "E", ")">> : f \in {"DATE_ADD", "DATE_SUB"}}
  \cup {<<"(", "E", ")">>, <<"E", "IS", "NULL">>, <<"E", "IS", "IS_NOT", "NULL">>,
        <<"INTERVAL", "E", "unit">>, <<"EXTRACT", "EXTRACT(", "unit", "FROM", "E", ")">>}

Init ==
  /\ language \in Languages
  /\ text = <<>> /\ look = "NONE" /\ stack = <<>>
  /\ nodes = <<>> /\ where_expression = Null /\ parse_result = -1

Running == parse_result = -1

-----------------------------------------------------------------------------
(* The tree                                                                  *)

\* A node, with the member of the union that is written.
Node(op, member, left, right, val) ==
  [op |-> op, member |-> member, left |-> left, right |-> right, val |-> val]

\* init_cond; `is', `interval' and `extract' hold one pointer and a value.
init_cond(left, op, right) == Node(op, "args", left, right, 0)
WithArg(op, member, arg, val) == Node(op, member, arg, Null, val)
Leaf(op, val) ==
  Node(op, CASE op = "IDENTIFIER" -> "identifier" [] op = "STRING" -> "string"
             [] op = "INT" -> "constant_integer", Null, Null, val)

\* Mutant of Prefixed: the operand of NOT and ! is where that of the minus is.
PrefixedRight(op, arg) ==
  IF op = "-" /\ nodes[arg].op = "INT" THEN Leaf("INT", -nodes[arg].val)
                                       ELSE init_cond(Null, op, arg)

\* A minus before an integer is part of it.
Prefixed(op, arg) ==
  CASE op = "-" /\ nodes[arg].op = "INT" -> Leaf("INT", -nodes[arg].val)
    [] op = "-" /\ nodes[arg].op # "INT" -> init_cond(Null, "-", arg)
    [] OTHER -> init_cond(arg, op, Null)

\* The node a production's action makes: $1, $2 and so on are the values on the
\* stack.  Parentheses make none.
Built(production, v) ==
  LET head == production[1]
  IN  CASE head \in Leaves -> Leaf(head, v[1])
        [] head \in {"-", "NOT", "!"} -> Prefixed(head, v[2])
        [] head = "INTERVAL" -> WithArg("INTERVAL", "interval", v[2], v[3])
        [] head \in {"DATE_ADD", "DATE_SUB"} -> init_cond(v[3], head, v[5])
        [] head = "EXTRACT" -> WithArg("EXTRACT", "extract", v[5], v[3])
        [] head = "E" /\ production[2] = "IS" ->
             WithArg("IS", "is", v[1], production[3] = "NULL")
        [] head = "E" /\ production[2] # "IS" -> init_cond(v[1], production[2], v[3])

-----------------------------------------------------------------------------
(* The parser                                                                *)

\* With its location, as YYLLOC_DEFAULT puts it together: tokens begin .. end.
Symbol(sym, val, begin, end) == [sym |-> sym, val |-> val, begin |-> begin, end |-> end]
EndsWith(n, symbols) ==
  n <= Len(stack) /\ \A k \in 1 .. n : stack[Len(stack) - n + k].sym = symbols[k]
Whole == Len(stack) = 1 /\ EndsWith(1, <<"E">>)
Top == IF stack = <<>> THEN "" ELSE stack[Len(stack)].sym

\* The symbol a token becomes.
Shifted(token) ==
  CASE token \in Units -> "unit"
    [] token = "(" /\ Top \in {"DATE_ADD", "DATE_SUB", "EXTRACT"} -> Opening(Top)
    [] token = "NOT" /\ Top = "IS" -> "IS_NOT"
    [] OTHER -> token

\* What the automaton can read next.
Awaited ==
  UNION {{q[n + 1] : n \in {m \in 1 .. (Len(q) - 1) : EndsWith(m, q)}} : q \in Productions}
CanShift(symbol) ==
  \/ symbol \in Awaited
  \/ /\ stack = <<>> \/ "E" \in Awaited
     /\ \E q \in Productions : q[1] = symbol /\ symbol # "E"

\* The longest production on top of the stack, if there is one.
Handles == {q \in Productions : EndsWith(Len(q), q)}
Handle == CHOOSE q \in Handles : \A r \in Handles : Len(r) <= Len(q)

\* One that ends with an expression waits for the lookahead; the stack is only
\* kept if that binds stronger than the production's operator.
Operator(production) == production[Len(production) - 1]
Reducible ==
  /\ Handles # {}
  /\ Handle[Len(Handle)] = "E" =>
       /\ look # "NONE"
       /\ look \in Infix \cup {"IS"} => Level(Operator(Handle)) >= Level(look)

ReadToken ==
  /\ Running /\ look = "NONE" /\ ~Reducible
  /\ \/ /\ Len(text) < language.max
        /\ look' \in language.tokens
        /\ text' = Append(text, look')
     \/ look' = "END" /\ UNCHANGED text
  /\ UNCHANGED <<language, stack, nodes, where_expression, parse_result>>

\* Names, strings and integers are all 1 here, and a unit is itself.
Shift ==
  /\ Running /\ look \notin {"NONE", "END"} /\ ~Reducible
  /\ CanShift(Shifted(look))
  /\ stack' = Append(stack, Symbol(Shifted(look), IF look \in Leaves THEN 1 ELSE look,
                                   Len(text), Len(text)))
  /\ look' = "NONE"
  /\ UNCHANGED <<language, text, nodes, where_expression, parse_result>>

Reduce ==
  /\ Running /\ Reducible
  /\ LET kept == Len(stack) - Len(Handle)
         values == [i \in DOMAIN Handle |-> stack[kept + i].val]
         Yields(pointer) ==
           stack' = Append(SubSeq(stack, 1, kept),
                           Symbol("E", pointer, stack[kept + 1].begin, stack[Len(stack)].end))
     IN  IF Handle[1] = "("
         THEN Yields(values[2]) /\ UNCHANGED nodes
         ELSE Yields(Len(nodes) + 1) /\ nodes' = Append(nodes, Built(Handle, values))
  /\ UNCHANGED <<language, text, look, where_expression, parse_result>>

\* where_opt: T_WHERE cond_expr, when the next clause or the semicolon follows.
Accept ==
  /\ Running /\ look = "END" /\ ~Reducible /\ Whole
  /\ where_expression' = stack[1].val
  /\ parse_result' = 0
  /\ UNCHANGED <<language, text, look, stack, nodes>>

Reject ==
  /\ Running /\ look # "NONE" /\ ~Reducible
  /\ IF look = "END" THEN ~Whole ELSE ~CanShift(Shifted(look))
  /\ parse_result' = 1
  /\ UNCHANGED <<language, text, look, stack, nodes, where_expression>>

Next == ReadToken \/ Shift \/ Reduce \/ Accept \/ Reject
Spec == Init /\ [][Next]_vars

-----------------------------------------------------------------------------
(* print(ConditionalExpression), without its layout                          *)

\* The member of the union that print reads by the operator.
MemberRead(op) ==
  CASE op = "IDENTIFIER" -> "identifier" [] op = "STRING" -> "string"
    [] op = "INT" -> "constant_integer" [] op = "IS" -> "is" [] op = "INTERVAL" -> "interval"
    [] op = "EXTRACT" -> "extract" [] OTHER -> "args"

\* A row of the output; undefined is what reading another member or NULL gives.
Row(label) == <<label>>
Undefined == Row("undefined")
Literal(op, val) == Row(IF val >= 0 THEN op ELSE "negative_INT")

print[p \in 0 .. Len(nodes)] ==
  LET ce == nodes[p]
  IN  IF p = Null \/ ce.member # MemberRead(ce.op) THEN Undefined
      ELSE CASE ce.op \in Leaves -> Literal(ce.op, ce.val)
             [] ce.op = "IS" ->
                  Row("IS") \o print[ce.left] \o Row(IF ce.val THEN "NULL" ELSE "NOT_NULL")
             [] ce.op = "INTERVAL" -> Row("INTERVAL") \o print[ce.left] \o Row(ce.val)
             [] ce.op = "EXTRACT" -> Row("EXTRACT") \o Row(ce.val) \o print[ce.left]
             [] ce.op = "-" /\ ce.left = Null -> Row("NEGATION") \o print[ce.right]
             [] ce.op \in {"NOT", "!"} -> Row(ce.op) \o print[ce.left]
             [] OTHER -> Row(ce.op) \o print[ce.left] \o print[ce.right]

-----------------------------------------------------------------------------
(* Properties                                                                *)

Tokens(S) == {k \in DOMAIN text : text[k] \in S}

\* An operator is infix behind what ends an operand.
IsInfix(k) ==
  text[k] \in Infix \cup {"IS"} /\ k > 1
  /\ text[k - 1] \in Leaves \cup Units \cup {")", "NULL"}

\* INTERVAL and its unit are parentheses as well.
Opens(k) == text[k] \in {"(", "INTERVAL"}
Closes(k) == text[k] = ")" \/ (text[k] \in Units /\ (k > 1 => text[k - 1] # "("))
Depth(i, k) == Cardinality({n \in i .. k : Opens(n)}) - Cardinality({n \in i .. k : Closes(n)})
Outermost(i, j) == {k \in i .. j : IsInfix(k) /\ Depth(i, k) = 0}
Commas(i, j) == {k \in i .. j : text[k] = "," /\ Depth(i, k) = 1}

\* "MySQL operator precedence", weakest binding first.
MySQLPrecedence ==
  <<{"OR"}, {"XOR"}, {"AND"}, {"NOT"}, {"=", ">=", ">", "<=", "<", "!=", "IS"}, {"|"}, {"&"},
    {"<<", ">>"}, {"+", "-"}, {"*", "/", "%"}, {"^"}>>
Strength(op) == CHOOSE i \in DOMAIN MySQLPrecedence : op \in MySQLPrecedence[i]

\* The operator that is applied last, the rightmost of several.
Weakest(S) ==
  CHOOSE k \in S : \A n \in S : \/ Strength(text[k]) < Strength(text[n])
                                \/ Strength(text[k]) = Strength(text[n]) /\ n <= k

Negated(rows) ==
  CASE rows = Row("INT") -> Row("negative_INT")
    [] rows = Row("negative_INT") -> Row("INT")
    [] OTHER -> Row("NEGATION") \o rows

\* How MySQL reads the tokens i .. j, in the order of print: the weakest operator
\* outside of parentheses is applied last; what is left is a prefix, parentheses, a
\* function or an operand.
Spans == (1 .. Len(text) + 4) \X (0 .. Len(text))
RowsOfMySQL[span \in Spans] ==
  LET i == span[1]
      j == span[2]
      infix == Outermost(i, j)
      k == Weakest(infix)
      comma == CHOOSE n \in Commas(i, j) : TRUE
      IsNot == text[i] = "NOT" /\ \A n \in infix : Strength(text[n]) > Strength("NOT")
      IsPrefix(op) == infix = {} /\ text[i] = op
  IN  IF i > j THEN <<>>
      ELSE CASE IsNot -> Row("NOT") \o RowsOfMySQL[<<i + 1, j>>]
             [] ~IsNot /\ infix # {} /\ text[k] = "IS" ->
                  Row("IS") \o RowsOfMySQL[<<i, k - 1>>]
                  \o Row(IF k < j /\ text[k + 1] = "NOT" THEN "NOT_NULL" ELSE "NULL")
             [] ~IsNot /\ infix # {} /\ text[k] # "IS" ->
                  Row(text[k]) \o RowsOfMySQL[<<i, k - 1>>] \o RowsOfMySQL[<<k + 1, j>>]
             [] IsPrefix("-") -> Negated(RowsOfMySQL[<<i + 1, j>>])
             [] IsPrefix("!") -> Row("!") \o RowsOfMySQL[<<i + 1, j>>]
             [] IsPrefix("(") -> RowsOfMySQL[<<i + 1, j - 1>>]
             [] IsPrefix("INTERVAL") ->
                  Row("INTERVAL") \o RowsOfMySQL[<<i + 1, j - 1>>] \o Row(text[j])
             [] (IsPrefix("DATE_ADD") \/ IsPrefix("DATE_SUB")) /\ Commas(i, j) # {} ->
                  Row(text[i]) \o RowsOfMySQL[<<i + 2, comma - 1>>] \o RowsOfMySQL[<<comma + 1, j - 1>>]
             [] IsPrefix("EXTRACT") /\ i + 2 <= j ->
                  Row("EXTRACT") \o Row(text[i + 2]) \o RowsOfMySQL[<<i + 4, j - 1>>]
             [] OTHER -> Row(text[i])

\* MySQL has no NOT behind a stronger operator, and none of these behind IS NULL.
NotInMySQL ==
  \/ \E k \in Tokens({"NOT"}) :
       k > 1 /\ text[k - 1] \in (Infix \cup {"!"}) \ {"OR", "XOR", "AND"}
  \/ \E k \in Tokens({"NULL"}) :
       k < Len(text) /\ text[k + 1] \in Infix /\ Strength(text[k + 1]) > Strength("IS")

\* A minus before an operand and a stronger operator after it.
NegatesProduct ==
  \E i, j \in DOMAIN text :
    i < j /\ text[i] = "-" /\ ~IsInfix(i) /\ text[j] \in {"*", "/", "%", "^"}

\* However the operators of all levels, prefixes, parentheses and functions are
\* mixed, the tree that is printed has the structure MySQL's precedence gives to the
\* condition, unless a minus stands before a product.
ConditionAsMySQL ==
  parse_result = 0 =>
    NotInMySQL \/ NegatesProduct \/ print[where_expression] = RowsOfMySQL[<<1, Len(text)>>]

\* Nothing says which member of the union a node has but its operator: print reads
\* the one the grammar's action has written, and follows no pointer that is NULL.
PrintReadsWhatWasBuilt ==
  LET rows == print[where_expression]
  IN  parse_result = 0 => \A i \in DOMAIN rows : rows[i] # "undefined"

=============================================================================
