---------------------- MODULE RestSQLConditions_proofs ----------------------
(* Theorems about RestSQLConditions: the nodes of a condition are a tree, as *)
(* each points only to older ones, and print() finds the member of the union *)
(* that was written in every node it comes to.  The tree that is accepted is *)
(* the one MySQL's precedence gives to the tokens: a parser that works from  *)
(* the bottom agrees with a reading that works from the top.                 *)
EXTENDS RestSQLConditions, RecursionTheorems, SequenceTheorems

-----------------------------------------------------------------------------
(* The invariant                                                             *)

Ops == Leaves \cup Infix \cup {"NOT", "!", "IS", "INTERVAL", "DATE_ADD", "DATE_SUB", "EXTRACT"}
Members == {"identifier", "string", "constant_integer", "is", "interval", "extract", "args"}
Symbols == Terminals \cup {"E", "unit", "IS_NOT", "DATE_ADD(", "DATE_SUB(", "EXTRACT("}
Values == Int \cup Terminals
Entries == [sym : Symbols, val : Values, begin : Nat, end : Nat]
Cells == [op : Ops, member : Members, left : Nat, right : Nat, val : Values \cup BOOLEAN]

OneArg == {"IS", "INTERVAL", "EXTRACT", "NOT", "!"}
TwoArgs == (Infix \ {"-"}) \cup {"DATE_ADD", "DATE_SUB"}

\* What print needs of a node to read it: its operator says which member it has,
\* and the pointers print follows are those of older nodes.
Readable(ce, p) ==
  /\ ce.member = MemberRead(ce.op)
  /\ ce.op \in Leaves => ce.val = 1 \/ (ce.op = "INT" /\ ce.val = -1)
  /\ ce.op \in {"INTERVAL", "EXTRACT"} => ce.val \in Units
  /\ ce.op \in OneArg => ce.left \in 1 .. (p - 1)
  /\ ce.op \in TwoArgs => ce.left \in 1 .. (p - 1) /\ ce.right \in 1 .. (p - 1)
  /\ ce.op = "-" => ce.left \in 0 .. (p - 1) /\ ce.right \in 1 .. (p - 1)

NodesOK == nodes \in Seq(Cells) /\ \A p \in 1 .. Len(nodes) : Readable(nodes[p], p)

\* The semantic value of a symbol, where there are n nodes.
Fits(sym, val, n) ==
  /\ sym = "E" => val \in 1 .. n
  /\ sym \in Leaves => val = 1
  /\ sym = "unit" => val \in Units

StackOK ==
  /\ stack \in Seq(Entries)
  /\ \A i \in 1 .. Len(stack) : Fits(stack[i].sym, stack[i].val, Len(nodes))

CondOK ==
  /\ language \in Languages /\ text \in Seq(Terminals) /\ look \in Terminals \cup {"NONE", "END"}
  /\ NodesOK /\ StackOK
  /\ parse_result = 0 => where_expression \in 1 .. Len(nodes)

-----------------------------------------------------------------------------
(* Productions                                                               *)

LEMMA ProductionsAre ==
  ASSUME NEW q \in Productions
  PROVE  \/ \E leaf \in Leaves : q = <<leaf>>
         \/ \E op \in Infix : q = <<"E", op, "E">>
         \/ \E op \in {"-", "NOT", "!"} : q = <<op, "E">>
         \/ \E f \in {"DATE_ADD", "DATE_SUB"} : \E open, comma : q = <<f, open, "E", comma, "E", ")">>
         \/ q = <<"(", "E", ")">> \/ q = <<"E", "IS", "NULL">> \/ q = <<"E", "IS", "IS_NOT", "NULL">>
         \/ q = <<"INTERVAL", "E", "unit">> \/ q = <<"EXTRACT", "EXTRACT(", "unit", "FROM", "E", ")">>
  BY Zenon DEF Productions

LEMMA ProductionsAreShort ==
  ASSUME NEW q \in Productions
  PROVE  Len(q) \in 1 .. 6 /\ DOMAIN q = 1 .. Len(q)
<1>1. CASE \E leaf \in Leaves : q = <<leaf>>
  BY <1>1
<1>2. CASE \E op \in Infix : q = <<"E", op, "E">>
  BY <1>2
<1>3. CASE \E op \in {"-", "NOT", "!"} : q = <<op, "E">>
  BY <1>3
<1>4. CASE \E f \in {"DATE_ADD", "DATE_SUB"} : \E open, comma : q = <<f, open, "E", comma, "E", ")">>
  BY <1>4
<1>5. CASE \/ q = <<"(", "E", ")">> \/ q = <<"E", "IS", "NULL">> \/ q = <<"E", "IS", "IS_NOT", "NULL">>
           \/ q = <<"INTERVAL", "E", "unit">> \/ q = <<"EXTRACT", "EXTRACT(", "unit", "FROM", "E", ")">>
  BY <1>5
<1> QED BY <1>1, <1>2, <1>3, <1>4, <1>5, ProductionsAre

\* There is a longest production on top of the stack.
LEMMA HandleIs ==
  ASSUME Handles # {}
  PROVE  Handle \in Productions /\ EndsWith(Len(Handle), Handle)
<1>1. Handles \subseteq Productions /\ \A q \in Handles : EndsWith(Len(q), q)
  BY DEF Handles
<1>2. PICK L : L = {Len(q) : q \in Handles}
  OBVIOUS
<1>3. L \subseteq 0 .. 6 /\ L # {}
  <2>1. \A q \in Handles : Len(q) \in 0 .. 6
    BY <1>1, ProductionsAreShort
  <2> QED BY <1>2, <2>1
<1>4. PICK m \in L : \A j \in L : j <= m
  BY <1>3, GreatestNat
<1>5. PICK q \in Handles : Len(q) = m
  BY <1>2
<1>6. \A r \in Handles : Len(r) <= Len(q)
  BY <1>2, <1>4, <1>5
<1>7. Handle \in Handles
  BY <1>5, <1>6 DEF Handle
<1> QED BY <1>1, <1>7

\* Values that fit the symbols of a production.
ValuesFit(q, v, n) == \A i \in DOMAIN q : v[i] \in Values /\ Fits(q[i], v[i], n)

LEMMA LeavesAre == Leaves = {"IDENTIFIER", "STRING", "INT"} /\ Leaves \subseteq Ops
  BY DEF Leaves, Ops

LEMMA LeafIsReadable ==
  ASSUME NEW op \in Leaves, NEW val \in Int, val = 1 \/ (op = "INT" /\ val = -1), NEW p
  PROVE  Leaf(op, val) \in Cells /\ Readable(Leaf(op, val), p)
<1>1. /\ Leaf(op, val).op = op /\ Leaf(op, val).member = MemberRead(op) /\ Leaf(op, val).val = val
      /\ MemberRead(op) \in Members
      /\ Leaf(op, val) = Node(op, MemberRead(op), Null, Null, val)
  BY DEF Leaf, Node, MemberRead, Members, Leaves
<1>2. Leaf(op, val) \in Cells
  BY <1>1 DEF Node, Cells, Ops, Values, Null
<1>3. op \notin {"INTERVAL", "EXTRACT"} /\ op \notin OneArg /\ op \notin TwoArgs /\ op # "-"
  BY DEF Leaves, OneArg, TwoArgs, Infix
<1> QED BY <1>1, <1>2, <1>3 DEF Readable

LEMMA ArgsAreReadable ==
  ASSUME NEW p \in Nat, NEW left \in 0 .. p, NEW right \in 0 .. p, NEW op,
         \/ op \in TwoArgs /\ left # 0 /\ right # 0
         \/ op \in {"NOT", "!"} /\ left # 0
         \/ op = "-" /\ right # 0
  PROVE  init_cond(left, op, right) \in Cells /\ Readable(init_cond(left, op, right), p + 1)
<1>1. PICK ce : ce = init_cond(left, op, right)
  OBVIOUS
<1>2. ce.op = op /\ ce.member = "args" /\ ce.left = left /\ ce.right = right
  BY <1>1 DEF init_cond, Node
<1>3. op \notin Leaves /\ op \notin {"INTERVAL", "EXTRACT", "IS"} /\ op \in Ops
  BY DEF TwoArgs, Infix, Leaves, Ops
<1>4. MemberRead(op) = "args"
  BY <1>3 DEF MemberRead, Leaves
<1>5. ce \in Cells
  BY <1>1, <1>3 DEF init_cond, Node, Cells, Members, Values
<1>6. /\ op \in OneArg => op \in {"NOT", "!"}
      /\ op \in {"NOT", "!"} => op \notin TwoArgs /\ op # "-"
      /\ op = "-" => op \notin TwoArgs /\ op \notin OneArg
      /\ op \in TwoArgs => op # "-"
  BY <1>3 DEF OneArg, TwoArgs, Infix
<1>7. left \in 0 .. (p + 1 - 1) /\ (left # 0 => left \in 1 .. (p + 1 - 1))
      /\ (right # 0 => right \in 1 .. (p + 1 - 1))
  OBVIOUS
<1> QED BY <1>1, <1>2, <1>3, <1>4, <1>5, <1>6, <1>7 DEF Readable

LEMMA WithArgIsReadable ==
  ASSUME NEW p \in Nat, NEW arg \in 1 .. p, NEW op, NEW member, NEW val,
         \/ op = "IS" /\ member = "is" /\ val \in BOOLEAN
         \/ op = "INTERVAL" /\ member = "interval" /\ val \in Units
         \/ op = "EXTRACT" /\ member = "extract" /\ val \in Units
  PROVE  WithArg(op, member, arg, val) \in Cells /\ Readable(WithArg(op, member, arg, val), p + 1)
<1>1. PICK ce : ce = WithArg(op, member, arg, val)
  OBVIOUS
<1>2. ce.op = op /\ ce.member = member /\ ce.left = arg /\ ce.val = val
  BY <1>1 DEF WithArg, Node
<1>3. op \notin Leaves /\ op \notin TwoArgs /\ op # "-" /\ op \in Ops /\ op \in {"IS", "INTERVAL", "EXTRACT"}
  BY DEF TwoArgs, Infix, Leaves, Ops
<1>4. MemberRead(op) = member /\ member \in Members
  BY DEF MemberRead, Members
<1>5. val \in Values \cup BOOLEAN
  BY DEF Values, Terminals
<1>6. ce \in Cells
  BY <1>1, <1>3, <1>4, <1>5 DEF WithArg, Node, Cells, Null
<1>7. op \in {"INTERVAL", "EXTRACT"} => val \in Units
  OBVIOUS
<1>8. arg \in 1 .. (p + 1 - 1)
  OBVIOUS
<1> QED BY <1>1, <1>2, <1>3, <1>4, <1>6, <1>7, <1>8 DEF Readable

\* The node a production makes can be read.
LEMMA BuiltIsReadable ==
  ASSUME NodesOK, NEW q \in Productions, q[1] # "(", NEW v, ValuesFit(q, v, Len(nodes))
  PROVE  Built(q, v) \in Cells /\ Readable(Built(q, v), Len(nodes) + 1)
<1>1. PICK p : p = Len(nodes)
  OBVIOUS
<1>2. p \in Nat /\ \A i \in DOMAIN q : Fits(q[i], v[i], p)
  BY <1>1 DEF NodesOK, ValuesFit
<1>3. CASE \E leaf \in Leaves : q = <<leaf>>
  <2>1. PICK leaf \in Leaves : q = <<leaf>>
    BY <1>3
  <2>2. q[1] = leaf /\ v[1] = 1 /\ 1 \in Int
    BY <1>2, <2>1 DEF Fits
  <2>3. Built(q, v) = Leaf(leaf, v[1])
    BY <2>2 DEF Built, Leaves
  <2> QED BY <2>2, <2>3, LeafIsReadable
<1>4. CASE \E op \in Infix : q = <<"E", op, "E">>
  <2>1. PICK op \in Infix : q = <<"E", op, "E">>
    BY <1>4
  <2>2. q[1] = "E" /\ q[2] = op /\ q[3] = "E" /\ op # "IS" /\ DOMAIN q = 1 .. 3
    BY <2>1 DEF Infix
  <2>3. v[1] \in 1 .. p /\ v[3] \in 1 .. p
    BY <1>2, <2>2 DEF Fits
  <2>4. Built(q, v) = init_cond(v[1], op, v[3])
    BY <2>2 DEF Built, Leaves
  <2>5. op \in TwoArgs \/ op = "-"
    BY DEF TwoArgs
  <2>6. v[1] \in 0 .. p /\ v[3] \in 0 .. p /\ v[1] # 0 /\ v[3] # 0
    BY <1>2, <2>3
  <2> QED BY <1>1, <1>2, <2>4, <2>5, <2>6, ArgsAreReadable
<1>5. CASE \E op \in {"-", "NOT", "!"} : q = <<op, "E">>
  <2>1. PICK op \in {"-", "NOT", "!"} : q = <<op, "E">>
    BY <1>5
  <2>2. q[1] = op /\ q[2] = "E" /\ DOMAIN q = 1 .. 2 /\ op \notin Leaves
    BY <2>1 DEF Leaves
  <2>3. PICK a : a = v[2]
    OBVIOUS
  <2>4. a \in 1 .. p
    BY <1>2, <2>2, <2>3 DEF Fits
  <2>5. Built(q, v) = Prefixed(op, a)
    BY <2>2, <2>3 DEF Built
  <2>6. CASE op = "-" /\ nodes[a].op = "INT"
    <3>1. nodes[a].val \in {1, -1}
      BY <1>1, <2>4, <2>6 DEF NodesOK, Readable, Leaves
    <3>2. -nodes[a].val \in Int /\ -nodes[a].val \in {1, -1}
      BY <3>1
    <3>3. Built(q, v) = Leaf("INT", -nodes[a].val)
      BY <2>5, <2>6 DEF Prefixed
    <3>4. "INT" \in Leaves
      BY DEF Leaves
    <3> QED BY <3>2, <3>3, <3>4, LeafIsReadable
  <2>7. CASE op = "-" /\ nodes[a].op # "INT"
    <3>1. Built(q, v) = init_cond(0, op, a)
      BY <2>5, <2>7 DEF Prefixed, Null
    <3>2. 0 \in 0 .. p /\ a \in 0 .. p /\ a # 0
      BY <1>2, <2>4
    <3> QED BY <1>1, <1>2, <2>7, <3>1, <3>2, ArgsAreReadable
  <2>8. CASE op \in {"NOT", "!"}
    <3>1. Built(q, v) = init_cond(a, op, 0)
      BY <2>5, <2>8 DEF Prefixed, Null
    <3>2. 0 \in 0 .. p /\ a \in 0 .. p /\ a # 0
      BY <1>2, <2>4
    <3> QED BY <1>1, <1>2, <2>8, <3>1, <3>2, ArgsAreReadable
  <2> QED BY <2>6, <2>7, <2>8
<1>6. CASE \E f \in {"DATE_ADD", "DATE_SUB"} : \E open, comma : q = <<f, open, "E", comma, "E", ")">>
  <2>0. PICK f \in {"DATE_ADD", "DATE_SUB"} : \E open, comma : q = <<f, open, "E", comma, "E", ")">>
    BY <1>6
  <2>1. PICK open, comma : q = <<f, open, "E", comma, "E", ")">>
    BY <2>0
  <2>2. q[1] = f /\ q[3] = "E" /\ q[5] = "E" /\ DOMAIN q = 1 .. 6 /\ f \notin Leaves
    BY <2>1 DEF Leaves
  <2>3. v[3] \in 1 .. p /\ v[5] \in 1 .. p
    BY <1>2, <2>2 DEF Fits
  <2>4. Built(q, v) = init_cond(v[3], f, v[5])
    BY <2>2 DEF Built
  <2>5. f \in TwoArgs
    BY DEF TwoArgs
  <2>6. v[3] \in 0 .. p /\ v[5] \in 0 .. p /\ v[3] # 0 /\ v[5] # 0
    BY <1>2, <2>3
  <2> QED BY <1>1, <1>2, <2>4, <2>5, <2>6, ArgsAreReadable
<1>7. CASE q = <<"E", "IS", "NULL">> \/ q = <<"E", "IS", "IS_NOT", "NULL">>
  <2>1. q[1] = "E" /\ q[2] = "IS" /\ 1 \in DOMAIN q
    BY <1>7
  <2>2. v[1] \in 1 .. p
    BY <1>2, <2>1 DEF Fits
  <2>3. Built(q, v) = WithArg("IS", "is", v[1], q[3] = "NULL")
    BY <2>1 DEF Built, Leaves
  <2>4. PICK null : null = (q[3] = "NULL")
    OBVIOUS
  <2>5. null \in BOOLEAN /\ Built(q, v) = WithArg("IS", "is", v[1], null)
    BY <2>3, <2>4, Zenon
  <2> QED BY <1>1, <1>2, <2>2, <2>5, WithArgIsReadable
<1>8. CASE q = <<"INTERVAL", "E", "unit">>
  <2>1. q[1] = "INTERVAL" /\ q[2] = "E" /\ q[3] = "unit" /\ DOMAIN q = 1 .. 3
    BY <1>8
  <2>2. v[2] \in 1 .. p /\ v[3] \in Units
    BY <1>2, <2>1 DEF Fits
  <2>3. Built(q, v) = WithArg("INTERVAL", "interval", v[2], v[3])
    BY <2>1 DEF Built, Leaves
  <2> QED BY <1>1, <1>2, <2>2, <2>3, WithArgIsReadable
<1>9. CASE q = <<"EXTRACT", "EXTRACT(", "unit", "FROM", "E", ")">>
  <2>1. q[1] = "EXTRACT" /\ q[3] = "unit" /\ q[5] = "E" /\ DOMAIN q = 1 .. 6
    BY <1>9
  <2>2. v[5] \in 1 .. p /\ v[3] \in Units
    BY <1>2, <2>1 DEF Fits
  <2>3. Built(q, v) = WithArg("EXTRACT", "extract", v[5], v[3])
    BY <2>1 DEF Built, Leaves
  <2> QED BY <1>1, <1>2, <2>2, <2>3, WithArgIsReadable
<1> QED BY <1>3, <1>4, <1>5, <1>6, <1>7, <1>8, <1>9, ProductionsAre

-----------------------------------------------------------------------------
(* The parser keeps the invariant                                            *)

\* No token is an expression, or has the symbol of a unit, before it is shifted.
LEMMA TokensAre ==
  /\ "E" \notin Terminals /\ "unit" \notin Terminals /\ "NONE" \notin Terminals /\ "END" \notin Terminals
  /\ Leaves \subseteq Terminals /\ Units \subseteq Terminals
  /\ \A leaf \in Leaves : leaf \notin Units /\ leaf # "E" /\ leaf # "unit"
  /\ 1 \in Values /\ Terminals \subseteq Values /\ Int \subseteq Values /\ Units \subseteq Values
<1>1. Leaves \subseteq Terminals /\ Units \subseteq Terminals
  BY Zenon DEF Terminals
<1>2. "E" \notin Terminals /\ "unit" \notin Terminals
  BY Zenon DEF Terminals, Leaves, Units, Infix
<1>3. "NONE" \notin Terminals /\ "END" \notin Terminals
  BY Zenon DEF Terminals, Leaves, Units, Infix
<1>4. \A leaf \in Leaves : leaf \notin Units /\ leaf # "E" /\ leaf # "unit"
  BY DEF Leaves, Units
<1>5. 1 \in Int
  OBVIOUS
<1>6. Terminals \subseteq Values /\ Int \subseteq Values
  BY Zenon DEF Values
<1> QED BY <1>1, <1>2, <1>3, <1>4, <1>5, <1>6

\* The symbol of a token, with the value that fits it.
LEMMA ShiftedIs ==
  ASSUME NEW token \in Terminals, NEW n
  PROVE  /\ Shifted(token) \in Symbols
         /\ Fits(Shifted(token), IF token \in Leaves THEN 1 ELSE token, n)
<1>1. CASE token \in Units
  <2>1. Shifted(token) = "unit"
    BY <1>1 DEF Shifted, Units
  <2>2. token \notin Leaves /\ "unit" # "E" /\ "unit" \notin Leaves
    BY <1>1, TokensAre
  <2>3. "unit" \in Symbols
    BY Zenon DEF Symbols
  <2> QED BY <1>1, <2>1, <2>2, <2>3 DEF Fits
<1>2. CASE token \notin Units
  <2>1. CASE token = "(" /\ Top \in {"DATE_ADD", "DATE_SUB", "EXTRACT"}
    <3>1. Shifted(token) = Opening(Top)
      BY <2>1 DEF Shifted, Units
    <3>2. Opening(Top) \in {"DATE_ADD(", "DATE_SUB(", "EXTRACT("}
      BY <2>1 DEF Opening
    <3>3. Shifted(token) \in Symbols
      BY <3>1, <3>2, Zenon DEF Symbols
    <3>4. Shifted(token) \notin Leaves /\ Shifted(token) \notin {"E", "unit"}
      BY <3>1, <3>2 DEF Leaves
    <3> QED BY <3>3, <3>4 DEF Fits
  <2>2. CASE token = "NOT" /\ Top = "IS"
    <3>1. Shifted(token) = "IS_NOT"
      BY <2>2 DEF Shifted, Units
    <3>2. Shifted(token) \in Symbols
      BY <3>1, Zenon DEF Symbols
    <3>3. Shifted(token) \notin Leaves /\ Shifted(token) \notin {"E", "unit"}
      BY <3>1 DEF Leaves
    <3> QED BY <3>2, <3>3 DEF Fits
  <2>3. CASE ~(token = "(" /\ Top \in {"DATE_ADD", "DATE_SUB", "EXTRACT"}) /\ ~(token = "NOT" /\ Top = "IS")
    <3>1. Shifted(token) = token
      BY <1>2, <2>3 DEF Shifted
    <3>2. Shifted(token) \in Symbols
      BY <3>1, Zenon DEF Symbols
    <3>3. Shifted(token) # "E" /\ Shifted(token) # "unit"
      BY <3>1, TokensAre
    <3> QED BY <3>1, <3>2, <3>3 DEF Fits
  <2> QED BY <2>1, <2>2, <2>3
<1> QED BY <1>1, <1>2

LEMMA InitIsOK ==
  ASSUME Init
  PROVE  CondOK
BY DEF Init, CondOK, NodesOK, StackOK

LEMMA ReadTokenIsOK ==
  ASSUME CondOK, ReadToken
  PROVE  CondOK'
<1>1. look' \in Terminals \cup {"NONE", "END"}
  <2>1. CASE look' = "END"
    BY <2>1
  <2>2. CASE look' \in language.tokens
    BY <2>2, LanguagesAssumption DEF CondOK
  <2> QED BY <2>1, <2>2 DEF ReadToken
<1>2. parse_result' # 0
  BY DEF ReadToken, Running
<1>3. UNCHANGED <<language, stack, nodes>>
  BY DEF ReadToken
<1>4. NodesOK' /\ StackOK'
  BY <1>3 DEF CondOK, NodesOK, StackOK
<1>5. text' \in Seq(Terminals)
  <2>1. look' \in language.tokens => look' \in Terminals
    BY LanguagesAssumption DEF CondOK
  <2> QED BY <2>1 DEF ReadToken, CondOK
<1> QED BY <1>1, <1>2, <1>3, <1>4, <1>5 DEF CondOK

\* A stack that is extended by a symbol with a value that fits it.
LEMMA Pushed ==
  ASSUME NEW s \in Seq(Entries), NEW n \in Nat, NEW m \in Nat, n <= m,
         \A i \in 1 .. Len(s) : Fits(s[i].sym, s[i].val, n),
         NEW sym \in Symbols, NEW val \in Values, Fits(sym, val, m),
         NEW begin \in Nat, NEW end \in Nat, NEW c, c = Symbol(sym, val, begin, end)
  PROVE  /\ Append(s, c) \in Seq(Entries)
         /\ \A i \in 1 .. Len(Append(s, c)) : Fits(Append(s, c)[i].sym, Append(s, c)[i].val, m)
<1>2. c \in Entries /\ c.sym = sym /\ c.val = val
  BY DEF Symbol, Entries
<1>3. PICK t : t = Append(s, c)
  OBVIOUS
<1>4. t \in Seq(Entries)
  BY <1>2, <1>3
<1>5. /\ Len(t) = Len(s) + 1 /\ Len(s) \in Nat /\ t[Len(s) + 1] = c
      /\ \A i \in 1 .. Len(s) : t[i] = s[i]
  BY <1>2, <1>3
<1>6. \A i \in 1 .. Len(s) : Fits(s[i].sym, s[i].val, m)
  BY DEF Fits
<1>7. \A i \in 1 .. Len(t) : Fits(t[i].sym, t[i].val, m)
  <2>1. \A i \in 1 .. Len(t) : i \in 1 .. Len(s) \/ i = Len(s) + 1
    BY <1>5
  <2> QED BY <1>2, <1>5, <1>6, <2>1
<1> QED BY <1>3, <1>4, <1>7

LEMMA ShiftIsOK ==
  ASSUME CondOK, Shift
  PROVE  CondOK'
<1>1. look \in Terminals
  BY DEF CondOK, Shift
<1>2. PICK val : val = IF look \in Leaves THEN 1 ELSE look
  OBVIOUS
<1>3. val \in Values
  BY <1>1, <1>2, TokensAre
<1>4. Shifted(look) \in Symbols /\ Fits(Shifted(look), val, Len(nodes))
  BY <1>1, <1>2, ShiftedIs
<1>5. PICK c : c = Symbol(Shifted(look), val, Len(text), Len(text))
  OBVIOUS
<1>6. stack' = Append(stack, c) /\ look' = "NONE" /\ parse_result' # 0 /\ UNCHANGED <<language, text, nodes>>
  BY <1>2, <1>5 DEF Shift, Running
<1>7. Len(nodes) \in Nat /\ Len(nodes) <= Len(nodes) /\ Len(text) \in Nat
  BY DEF CondOK, NodesOK
<1>8. StackOK'
  BY <1>3, <1>4, <1>5, <1>6, <1>7, Pushed DEF CondOK, StackOK
<1>9. NodesOK'
  BY <1>6 DEF CondOK, NodesOK
<1> QED BY <1>6, <1>8, <1>9 DEF CondOK

\* The values a production is reduced with are those of the symbols on the stack.
LEMMA HandleFits ==
  ASSUME StackOK, NodesOK, Handles # {},
         NEW v, v = [i \in DOMAIN Handle |-> stack[Len(stack) - Len(Handle) + i].val]
  PROVE  /\ Handle \in Productions /\ ValuesFit(Handle, v, Len(nodes))
         /\ Len(stack) - Len(Handle) \in 0 .. Len(stack)
<1>1. PICK q : q = Handle
  OBVIOUS
<1>2. q \in Productions /\ EndsWith(Len(q), q)
  BY <1>1, HandleIs
<1>3. Len(q) \in 1 .. 6 /\ DOMAIN q = 1 .. Len(q)
  BY <1>2, ProductionsAreShort
<1>4. Len(q) <= Len(stack) /\ \A k \in 1 .. Len(q) : stack[Len(stack) - Len(q) + k].sym = q[k]
  BY <1>2 DEF EndsWith
<1>5. Len(stack) \in Nat
  BY DEF StackOK
<1>6. ASSUME NEW k \in DOMAIN q PROVE v[k] \in Values /\ Fits(q[k], v[k], Len(nodes))
  <2>1. PICK j \in 1 .. Len(stack) : j = Len(stack) - Len(q) + k
    <3>1. Len(stack) - Len(q) + k \in 1 .. Len(stack)
      BY <1>3, <1>4, <1>5
    <3> QED BY <3>1, Zenon
  <2>2. stack[j] \in Entries
    BY <2>1 DEF StackOK
  <2>3. stack[j].val \in Values /\ Fits(stack[j].sym, stack[j].val, Len(nodes))
    BY <2>1, <2>2 DEF StackOK, Entries
  <2>4. stack[j].sym = q[k] /\ v[k] = stack[j].val
    BY <1>1, <1>3, <1>4, <2>1
  <2> QED BY <2>3, <2>4
<1>7. Len(stack) - Len(q) \in 0 .. Len(stack)
  BY <1>3, <1>4, <1>5
<1> QED BY <1>1, <1>2, <1>6, <1>7 DEF ValuesFit

\* A production that begins with a parenthesis is an expression in parentheses.
LEMMA ParenthesesAre ==
  ASSUME NEW q \in Productions, q[1] = "("
  PROVE  q = <<"(", "E", ")">>
<1>1. CASE \E leaf \in Leaves : q = <<leaf>>
  BY <1>1 DEF Leaves
<1>2. CASE \E op \in Infix : q = <<"E", op, "E">>
  BY <1>2
<1>3. CASE \E op \in {"-", "NOT", "!"} : q = <<op, "E">>
  BY <1>3
<1>4. CASE \E f \in {"DATE_ADD", "DATE_SUB"} : \E open, comma : q = <<f, open, "E", comma, "E", ")">>
  BY <1>4
<1>5. CASE \/ q = <<"(", "E", ")">> \/ q = <<"E", "IS", "NULL">> \/ q = <<"E", "IS", "IS_NOT", "NULL">>
           \/ q = <<"INTERVAL", "E", "unit">> \/ q = <<"EXTRACT", "EXTRACT(", "unit", "FROM", "E", ")">>
  BY <1>5
<1> QED BY <1>1, <1>2, <1>3, <1>4, <1>5, ProductionsAre

\* The symbols that are kept below a production.
LEMMA KeptIs ==
  ASSUME NEW S, NEW s \in Seq(S), NEW k \in 0 .. Len(s)
  PROVE  /\ SubSeq(s, 1, k) \in Seq(S) /\ Len(SubSeq(s, 1, k)) = k
         /\ \A i \in 1 .. k : SubSeq(s, 1, k)[i] = s[i] /\ i \in 1 .. Len(s)
<1>1. Len(s) \in Nat /\ 1 \in Int /\ k \in Int
  OBVIOUS
<1>2. \A i \in 1 .. k : i \in 1 .. Len(s) /\ s[i] \in S
  BY <1>1
<1>3. PICK t : t = SubSeq(s, 1, k)
  OBVIOUS
<1>4. /\ t \in Seq(S) /\ Len(t) = IF 1 <= k THEN k - 1 + 1 ELSE 0
      /\ \A i \in 1 .. k - 1 + 1 : t[i] = s[1 + i - 1]
  BY <1>1, <1>2, <1>3, SubSeqProperties
<1>5. \A i \in 1 .. k : t[i] = s[i]
  <2>1. \A i \in 1 .. k : i \in 1 .. k - 1 + 1 /\ 1 + i - 1 = i
    BY <1>1
  <2> QED BY <1>4, <2>1
<1>6. Len(t) = k
  BY <1>1, <1>4
<1> QED BY <1>2, <1>3, <1>4, <1>5, <1>6

\* What a reduction of the production q does, with the values v: below k symbols
\* that are kept comes c.
Reduces(q, v, k, c) ==
  /\ q = Handle /\ q \in Productions /\ Len(q) \in 1 .. 6 /\ DOMAIN q = 1 .. Len(q)
  /\ k \in 0 .. Len(stack) /\ Len(stack) = k + Len(q)
  /\ \A i \in 1 .. Len(q) : k + i \in 1 .. Len(stack) /\ stack[k + i].sym = q[i] /\ v[i] = stack[k + i].val
  /\ ValuesFit(q, v, Len(nodes))
  /\ c \in Entries /\ c.sym = "E"
  /\ c.begin = stack[k + 1].begin /\ c.end = stack[Len(stack)].end
  /\ stack' = Append(SubSeq(stack, 1, k), c)
  /\ IF q[1] = "(" THEN c.val = v[2] /\ nodes' = nodes
                  ELSE c.val = Len(nodes) + 1 /\ nodes' = Append(nodes, Built(q, v))

LEMMA ReduceIs ==
  ASSUME CondOK, Reduce
  PROVE  \E q, v, k, c : Reduces(q, v, k, c)
<1>1. NodesOK /\ StackOK /\ Handles # {}
  BY DEF CondOK, Reduce, Reducible
<1>2. PICK n \in Nat : n = Len(nodes)
  BY <1>1 DEF NodesOK
<1>3. PICK v : v = [i \in DOMAIN Handle |-> stack[Len(stack) - Len(Handle) + i].val]
  OBVIOUS
<1>4. PICK q : q = Handle
  OBVIOUS
<1>5. PICK k : k = Len(stack) - Len(q)
  OBVIOUS
<1>6. PICK s : s = SubSeq(stack, 1, k)
  OBVIOUS
<1>7. q \in Productions /\ ValuesFit(q, v, n) /\ k \in 0 .. Len(stack)
  BY <1>1, <1>2, <1>3, <1>4, <1>5, HandleFits
<1>8. PICK c : c = Symbol("E", IF q[1] = "(" THEN v[2] ELSE n + 1, stack[k + 1].begin, stack[Len(stack)].end)
  OBVIOUS
<1>9. /\ c.sym = "E" /\ c.val = (IF q[1] = "(" THEN v[2] ELSE n + 1)
      /\ c.begin = stack[k + 1].begin /\ c.end = stack[Len(stack)].end
  BY <1>8 DEF Symbol
<1>10. stack' = Append(s, c) /\ IF q[1] = "(" THEN nodes' = nodes ELSE nodes' = Append(nodes, Built(q, v))
  BY <1>2, <1>3, <1>4, <1>5, <1>6, <1>8, Zenon DEF Reduce
<1>11. Len(q) \in 1 .. 6 /\ DOMAIN q = 1 .. Len(q) /\ Len(stack) \in Nat
  BY <1>1, <1>7, ProductionsAreShort DEF StackOK
<1>12. Len(stack) = k + Len(q)
  BY <1>5, <1>7, <1>11
<1>13. \A i \in 1 .. Len(q) : k + i \in 1 .. Len(stack) /\ stack[k + i].sym = q[i] /\ v[i] = stack[k + i].val
  <2>1. \A i \in 1 .. Len(q) : stack[k + i].sym = q[i]
    BY <1>1, <1>4, <1>5, HandleIs DEF EndsWith
  <2>2. \A i \in 1 .. Len(q) : k + i \in 1 .. Len(stack)
    BY <1>7, <1>11, <1>12
  <2> QED BY <1>3, <1>4, <1>5, <1>11, <2>1, <2>2
<1>14. c \in Entries
  <2>1. 1 \in 1 .. Len(q) /\ Len(q) \in 1 .. Len(q)
    BY <1>11
  <2>2. k + 1 \in 1 .. Len(stack) /\ Len(stack) \in 1 .. Len(stack)
    BY <1>11, <1>12, <1>13, <2>1
  <2>3. stack[k + 1] \in Entries /\ stack[Len(stack)] \in Entries
    BY <1>1, <2>2 DEF StackOK
  <2>4. stack[k + 1].begin \in Nat /\ stack[Len(stack)].end \in Nat
    BY <2>3 DEF Entries
  <2>5. (IF q[1] = "(" THEN v[2] ELSE n + 1) \in Values
    <3>1. q[1] = "(" => q = <<"(", "E", ")">>
      BY <1>7, ParenthesesAre
    <3>2. q[1] = "(" => 2 \in DOMAIN q
      BY <3>1
    <3>3. q[1] = "(" => v[2] \in Values
      BY <1>7, <3>2 DEF ValuesFit
    <3>4. n + 1 \in Values
      BY <1>2, TokensAre
    <3> QED BY <3>3, <3>4
  <2>6. "E" \in Symbols
    BY Zenon DEF Symbols
  <2> QED BY <1>8, <2>4, <2>5, <2>6 DEF Symbol, Entries
<1>15. IF q[1] = "(" THEN c.val = v[2] /\ nodes' = nodes
                     ELSE c.val = Len(nodes) + 1 /\ nodes' = Append(nodes, Built(q, v))
  BY <1>2, <1>9, <1>10, Zenon
<1>16. Reduces(q, v, k, c)
  BY <1>2, <1>4, <1>6, <1>7, <1>9, <1>10, <1>11, <1>12, <1>13, <1>14, <1>15, Zenon DEF Reduces
<1> QED BY <1>16

LEMMA ReduceIsOK ==
  ASSUME CondOK, Reduce
  PROVE  CondOK'
<1>1. PICK q, v, k, c : Reduces(q, v, k, c)
  BY ReduceIs
<1>2. PICK n \in Nat : n = Len(nodes)
  BY DEF CondOK, NodesOK
<1>3. PICK s : s = SubSeq(stack, 1, k)
  OBVIOUS
<1>4. q \in Productions /\ ValuesFit(q, v, n) /\ stack' = Append(s, c)
  BY <1>1, <1>2, <1>3 DEF Reduces
<1>5. /\ s \in Seq(Entries)
      /\ \A i \in 1 .. Len(s) : Fits(s[i].sym, s[i].val, n)
  <2>1. k \in 0 .. Len(stack)
    BY <1>1 DEF Reduces
  <2>2. stack \in Seq(Entries)
    BY DEF CondOK, StackOK
  <2>3. /\ s \in Seq(Entries) /\ Len(s) = k
        /\ \A i \in 1 .. k : s[i] = stack[i] /\ i \in 1 .. Len(stack)
    BY <1>3, <2>1, <2>2, KeptIs
  <2> QED BY <1>2, <2>3 DEF CondOK, StackOK
<1>6. UNCHANGED <<language, text, look>> /\ parse_result' # 0
  <2>1. parse_result = -1 /\ UNCHANGED <<language, text, look, where_expression, parse_result>>
    BY Zenon DEF Reduce, Running
  <2> QED BY <2>1
<1>7. "E" \notin Leaves /\ "E" # "unit"
  BY DEF Leaves
<1>8. PICK sym, val, begin, end : c = Symbol(sym, val, begin, end) /\ sym = "E" /\ val = c.val
                                   /\ sym \in Symbols /\ val \in Values /\ begin \in Nat /\ end \in Nat
  <2>1. c \in Entries /\ c.sym = "E"
    BY <1>1 DEF Reduces
  <2>2. c = Symbol(c.sym, c.val, c.begin, c.end)
    BY <2>1 DEF Entries, Symbol
  <2>3. c.sym \in Symbols /\ c.val \in Values /\ c.begin \in Nat /\ c.end \in Nat
    BY <2>1 DEF Entries
  <2> QED BY <2>1, <2>2, <2>3, Zenon
<1>9. CASE q[1] = "("
  <2>1. q[2] = "E" /\ 2 \in DOMAIN q
    BY <1>4, <1>9, ParenthesesAre
  <2>2. Fits("E", v[2], n)
    BY <1>4, <2>1 DEF ValuesFit
  <2>3. UNCHANGED nodes /\ val = v[2]
    BY <1>1, <1>8, <1>9 DEF Reduces
  <2>4. StackOK'
    <3>1. n \in Nat /\ n <= n /\ Fits(sym, val, n) /\ sym \in Symbols /\ val \in Values
          /\ begin \in Nat /\ end \in Nat /\ c = Symbol(sym, val, begin, end) /\ stack' = Append(s, c)
      BY <1>2, <1>4, <1>8, <2>2, <2>3
    <3>2. /\ stack' \in Seq(Entries)
          /\ \A i \in 1 .. Len(stack') : Fits(stack'[i].sym, stack'[i].val, n)
      BY <1>5, <3>1, Pushed
    <3> QED BY <1>2, <2>3, <3>2 DEF StackOK
  <2>5. NodesOK'
    BY <2>3 DEF CondOK, NodesOK
  <2> QED BY <1>6, <2>4, <2>5 DEF CondOK
<1>10. CASE q[1] # "("
  <2>1. PICK ce : ce = Built(q, v)
    OBVIOUS
  <2>2. ce \in Cells /\ Readable(ce, n + 1)
    BY <1>2, <1>4, <1>10, <2>1, BuiltIsReadable DEF CondOK
  <2>3. nodes' = Append(nodes, ce) /\ val = n + 1
    BY <1>1, <1>2, <1>8, <1>10, <2>1 DEF Reduces
  <2>4. /\ nodes' \in Seq(Cells) /\ Len(nodes') = n + 1 /\ nodes'[n + 1] = ce
        /\ \A p \in 1 .. n : nodes'[p] = nodes[p]
    BY <1>2, <2>2, <2>3 DEF CondOK, NodesOK
  <2>5. NodesOK'
    <3>1. \A p \in 1 .. (n + 1) : p \in 1 .. n \/ p = n + 1
      BY <1>2
    <3>2. \A p \in 1 .. (n + 1) : Readable(nodes'[p], p)
      BY <1>2, <2>2, <2>4, <3>1 DEF CondOK, NodesOK
    <3> QED BY <2>4, <3>2 DEF NodesOK
  <2>6. n + 1 \in Nat /\ n <= n + 1 /\ n + 1 \in 1 .. (n + 1)
    BY <1>2
  <2>7. Fits("E", n + 1, n + 1)
    BY <1>7, <2>6 DEF Fits
  <2>8. StackOK'
    <3>1. /\ stack' \in Seq(Entries)
          /\ \A i \in 1 .. Len(stack') : Fits(stack'[i].sym, stack'[i].val, n + 1)
      BY <1>2, <1>4, <1>5, <1>8, <2>3, <2>6, <2>7, Pushed
    <3> QED BY <2>4, <3>1 DEF StackOK
  <2> QED BY <1>6, <2>5, <2>8 DEF CondOK
<1> QED BY <1>9, <1>10

LEMMA AcceptIsOK ==
  ASSUME CondOK, Accept
  PROVE  CondOK'
<1>1. where_expression' = stack[1].val /\ UNCHANGED <<language, text, look, stack, nodes>>
  BY DEF Accept
<1>2. Len(stack) = 1 /\ stack[1].sym = "E"
  <2>1. Len(stack) = 1 /\ EndsWith(1, <<"E">>)
    BY DEF Accept, Whole
  <2> QED BY <2>1 DEF EndsWith
<1>3. where_expression' \in 1 .. Len(nodes)
  BY <1>1, <1>2 DEF CondOK, StackOK, Fits
<1>4. NodesOK' /\ StackOK'
  BY <1>1 DEF CondOK, NodesOK, StackOK
<1> QED BY <1>1, <1>3, <1>4 DEF CondOK

LEMMA CondOKIsInvariant ==
  Spec => []CondOK
<1>1. ASSUME CondOK, [Next]_vars PROVE CondOK'
  <2>1. CASE Reject
    <3>1. UNCHANGED <<language, text, look, stack, nodes>> /\ parse_result' # 0
      BY <2>1 DEF Reject
    <3>2. NodesOK' /\ StackOK'
      BY <1>1, <3>1 DEF CondOK, NodesOK, StackOK
    <3> QED BY <1>1, <3>1, <3>2 DEF CondOK
  <2>2. CASE UNCHANGED vars
    <3>1. UNCHANGED <<language, text, look, stack, nodes, where_expression, parse_result>>
      BY <2>2 DEF vars
    <3>2. NodesOK' /\ StackOK'
      BY <1>1, <3>1 DEF CondOK, NodesOK, StackOK
    <3> QED BY <1>1, <3>1, <3>2 DEF CondOK
  <2> QED
    BY <1>1, <2>1, <2>2, ReadTokenIsOK, ShiftIsOK, ReduceIsOK, AcceptIsOK DEF Next
<1> QED
  BY <1>1, InitIsOK, PTL DEF Spec

-----------------------------------------------------------------------------
(* What print() reads                                                        *)

\* The rows print can have, but for the one it must not have.
Labels == Ops \cup Units \cup {"negative_INT", "NULL", "NOT_NULL", "NEGATION"}

\* One call of print for the node ce, f for the calls it makes.
PrintedNode(f, p, ce) ==
  IF p = Null \/ ce.member # MemberRead(ce.op) THEN Undefined
  ELSE CASE ce.op \in Leaves -> Literal(ce.op, ce.val)
         [] ce.op = "IS" ->
              Row("IS") \o f[ce.left] \o Row(IF ce.val THEN "NULL" ELSE "NOT_NULL")
         [] ce.op = "INTERVAL" -> Row("INTERVAL") \o f[ce.left] \o Row(ce.val)
         [] ce.op = "EXTRACT" -> Row("EXTRACT") \o Row(ce.val) \o f[ce.left]
         [] ce.op = "-" /\ ce.left = Null -> Row("NEGATION") \o f[ce.right]
         [] ce.op \in {"NOT", "!"} -> Row(ce.op) \o f[ce.left]
         [] OTHER -> Row(ce.op) \o f[ce.left] \o f[ce.right]
Printed(f, p) == PrintedNode(f, p, nodes[p])

LEMMA LabelsAre ==
  /\ "undefined" \notin Labels /\ Ops \subseteq Labels /\ Units \subseteq Labels
  /\ "negative_INT" \in Labels /\ "NULL" \in Labels /\ "NOT_NULL" \in Labels /\ "NEGATION" \in Labels
  /\ "IS" \in Labels /\ "INTERVAL" \in Labels /\ "EXTRACT" \in Labels
<1>1. "undefined" \notin Ops
  BY Zenon DEF Ops, Leaves, Infix
<1>2. "undefined" \notin Units
  BY DEF Units
<1>3. "undefined" \notin Labels
  BY <1>1, <1>2 DEF Labels
<1> QED BY <1>3, Zenon DEF Labels, Ops

LEMMA RowsAre == \A label \in Labels : Row(label) \in Seq(Labels)
  BY DEF Row

\* What a call prints: rows of its own, and the calls for pointers to older nodes.
LEMMA PrintedIs ==
  ASSUME NodesOK, NEW p \in 1 .. Len(nodes)
  PROVE  \/ \E r \in Seq(Labels) : \A f : Printed(f, p) = r
         \/ \E r \in Seq(Labels), i \in 1 .. (p - 1) : \A f : Printed(f, p) = r \o f[i]
         \/ \E r, t \in Seq(Labels), i \in 1 .. (p - 1) : \A f : Printed(f, p) = r \o f[i] \o t
         \/ \E r \in Seq(Labels), i, j \in 1 .. (p - 1) : \A f : Printed(f, p) = r \o f[i] \o f[j]
<1>1. PICK ce : ce = nodes[p]
  OBVIOUS
<1>2. ce \in Cells /\ Readable(ce, p) /\ ce.op \in Ops
  <2>1. ce \in Cells /\ Readable(ce, p)
    BY <1>1 DEF NodesOK
  <2> QED BY <2>1 DEF Cells
<1>3. p # Null /\ ~(ce.member # MemberRead(ce.op))
  BY <1>2 DEF Null, Readable
<1>4. \A f : Printed(f, p) =
        CASE ce.op \in Leaves -> Literal(ce.op, ce.val)
          [] ce.op = "IS" ->
               Row("IS") \o f[ce.left] \o Row(IF ce.val THEN "NULL" ELSE "NOT_NULL")
          [] ce.op = "INTERVAL" -> Row("INTERVAL") \o f[ce.left] \o Row(ce.val)
          [] ce.op = "EXTRACT" -> Row("EXTRACT") \o Row(ce.val) \o f[ce.left]
          [] ce.op = "-" /\ ce.left = Null -> Row("NEGATION") \o f[ce.right]
          [] ce.op \in {"NOT", "!"} -> Row(ce.op) \o f[ce.left]
          [] OTHER -> Row(ce.op) \o f[ce.left] \o f[ce.right]
  BY <1>1, <1>3, Zenon DEF Printed, PrintedNode
<1>5. CASE ce.op \in Leaves
  <2>1. \A f : Printed(f, p) = Literal(ce.op, ce.val)
    BY <1>4, <1>5 DEF Leaves
  <2>2. Literal(ce.op, ce.val) \in Seq(Labels)
    <3>1. ce.op \in Labels
      BY <1>2, LabelsAre
    <3>2. (IF ce.val >= 0 THEN ce.op ELSE "negative_INT") \in Labels
      BY <3>1, LabelsAre, Zenon
    <3> QED BY <3>2, RowsAre, Zenon DEF Literal
  <2> QED BY <2>1, <2>2
<1>6. CASE ce.op = "IS"
  <2>1. PICK t : t = Row(IF ce.val THEN "NULL" ELSE "NOT_NULL")
    OBVIOUS
  <2>2. t \in Seq(Labels) /\ Row("IS") \in Seq(Labels)
    BY <2>1, LabelsAre, RowsAre, Zenon
  <2>3. \A f : Printed(f, p) = Row("IS") \o f[ce.left] \o t
    BY <1>4, <1>6, <2>1 DEF Leaves
  <2>4. ce.left \in 1 .. (p - 1)
    BY <1>2, <1>6 DEF Readable, OneArg
  <2> QED BY <2>2, <2>3, <2>4
<1>7. CASE ce.op = "INTERVAL"
  <2>1. ce.left \in 1 .. (p - 1) /\ ce.val \in Units
    BY <1>2, <1>7 DEF Readable, OneArg
  <2>2. Row(ce.val) \in Seq(Labels) /\ Row("INTERVAL") \in Seq(Labels)
    BY <2>1, LabelsAre, RowsAre
  <2>3. \A f : Printed(f, p) = Row("INTERVAL") \o f[ce.left] \o Row(ce.val)
    BY <1>4, <1>7 DEF Leaves
  <2> QED BY <2>1, <2>2, <2>3
<1>8. CASE ce.op = "EXTRACT"
  <2>1. ce.left \in 1 .. (p - 1) /\ ce.val \in Units
    BY <1>2, <1>8 DEF Readable, OneArg
  <2>2. Row(ce.val) \in Seq(Labels) /\ Row("EXTRACT") \in Seq(Labels)
    BY <2>1, LabelsAre, RowsAre
  <2>3. Row("EXTRACT") \o Row(ce.val) \in Seq(Labels)
    BY <2>2, ConcatProperties
  <2>4. \A f : Printed(f, p) = (Row("EXTRACT") \o Row(ce.val)) \o f[ce.left]
    BY <1>4, <1>8 DEF Leaves
  <2> QED BY <2>1, <2>3, <2>4
<1>9. CASE ce.op = "-" /\ ce.left = Null
  <2>1. ce.right \in 1 .. (p - 1)
    BY <1>2, <1>9 DEF Readable
  <2>2. Row("NEGATION") \in Seq(Labels)
    BY LabelsAre, RowsAre
  <2>3. \A f : Printed(f, p) = Row("NEGATION") \o f[ce.right]
    BY <1>4, <1>9 DEF Leaves
  <2> QED BY <2>1, <2>2, <2>3
<1>10. CASE ce.op \in {"NOT", "!"}
  <2>1. ce.left \in 1 .. (p - 1)
    BY <1>2, <1>10 DEF Readable, OneArg
  <2>2. Row(ce.op) \in Seq(Labels)
    BY <1>2, LabelsAre, RowsAre
  <2>3. \A f : Printed(f, p) = Row(ce.op) \o f[ce.left]
    BY <1>4, <1>10 DEF Leaves
  <2> QED BY <2>1, <2>2, <2>3
<1>11. CASE /\ ce.op \notin Leaves /\ ce.op \notin {"IS", "INTERVAL", "EXTRACT", "NOT", "!"}
            /\ ~(ce.op = "-" /\ ce.left = Null)
  <2>1. ce.left \in 1 .. (p - 1) /\ ce.right \in 1 .. (p - 1)
    <3>1. CASE ce.op = "-"
      BY <1>2, <1>11, <3>1 DEF Readable, Null
    <3>2. CASE ce.op # "-"
      <4>1. ce.op \in TwoArgs
        BY <1>2, <1>11, <3>2, Zenon DEF Ops, TwoArgs
      <4> QED BY <1>2, <4>1 DEF Readable
    <3> QED BY <3>1, <3>2
  <2>2. Row(ce.op) \in Seq(Labels)
    BY <1>2, LabelsAre, RowsAre
  <2>3. \A f : Printed(f, p) = Row(ce.op) \o f[ce.left] \o f[ce.right]
    BY <1>4, <1>11
  <2> QED BY <2>1, <2>2, <2>3
<1> QED BY <1>5, <1>6, <1>7, <1>8, <1>9, <1>10, <1>11, Zenon

\* A call prints sequences of S if the calls for older nodes do, and it depends on
\* nothing else.
LEMMA PrintedFollows ==
  ASSUME NodesOK, NEW p \in 1 .. Len(nodes), NEW S, Labels \subseteq S
  PROVE  /\ \A f : (\A i \in 1 .. (p - 1) : f[i] \in Seq(S)) => Printed(f, p) \in Seq(S)
         /\ \A g, h : (\A i \in 1 .. (p - 1) : g[i] = h[i]) => Printed(g, p) = Printed(h, p)
<1>1. Seq(Labels) \subseteq Seq(S)
  OBVIOUS
<1>2. \A s, t \in Seq(S) : s \o t \in Seq(S)
  BY ConcatProperties
<1>3. CASE \E r \in Seq(Labels) : \A f : Printed(f, p) = r
  BY <1>1, <1>3
<1>4. CASE \E r \in Seq(Labels), i \in 1 .. (p - 1) : \A f : Printed(f, p) = r \o f[i]
  BY <1>1, <1>2, <1>4, Zenon
<1>5. CASE \E r, t \in Seq(Labels), i \in 1 .. (p - 1) : \A f : Printed(f, p) = r \o f[i] \o t
  BY <1>1, <1>2, <1>5, Zenon
<1>6. CASE \E r \in Seq(Labels), i, j \in 1 .. (p - 1) : \A f : Printed(f, p) = r \o f[i] \o f[j]
  BY <1>1, <1>2, <1>6, Zenon
<1> QED BY <1>3, <1>4, <1>5, <1>6, PrintedIs

\* print() comes to an end, as pointers lead to older nodes.
LEMMA PrintUnfolds ==
  ASSUME NodesOK
  PROVE  \A p \in 0 .. Len(nodes) : print[p] = Printed(print, p)
<1> DEFINE n == Len(nodes)
           I == 0 .. n
           V == Seq(Labels \cup {"undefined"})
           rank == [p \in I |-> p]
           D == [p \in I |-> [f \in [I -> V] |-> Printed(f, p)]]
<1>1. n \in Nat /\ rank \in [I -> 0 .. n] /\ V # {}
  <2>1. n \in Nat
    BY DEF NodesOK
  <2>2. <<>> \in V
    OBVIOUS
  <2> QED BY <2>1, <2>2
<1>2. \A p \in I : p = 0 \/ p \in 1 .. n
  BY <1>1
<1>3. \A p \in 1 .. n : \A i \in 1 .. (p - 1) : i \in I /\ rank[i] < rank[p]
  BY <1>1
<1>4. \A f : Printed(f, 0) = Undefined
  BY Zenon DEF Printed, PrintedNode, Null
<1>5. \A p \in I : \A f \in [I -> V] : Printed(f, p) \in V
  <2> SUFFICES ASSUME NEW p \in I, NEW f \in [I -> V]
               PROVE  Printed(f, p) \in V
    OBVIOUS
  <2>1. CASE p = 0
    <3>1. Undefined \in V
      BY DEF Undefined, Row
    <3> QED BY <1>4, <2>1, <3>1, Zenon
  <2>2. CASE p \in 1 .. n
    <3>1. \A i \in 1 .. (p - 1) : f[i] \in V
      <4> HIDE DEF I, V, rank
      <4> QED BY <1>3, <2>2
    <3>2. Labels \subseteq Labels \cup {"undefined"}
      OBVIOUS
    <3> QED BY <2>2, <3>1, <3>2, PrintedFollows
  <2> QED BY <1>2, <2>1, <2>2
<1>6. D \in [I -> [[I -> V] -> V]]
  <2> HIDE DEF I, V
  <2> QED BY <1>5
<1>7. \A p \in I : \A f \in [I -> V] : D[p][f] = Printed(f, p)
  <2> HIDE DEF I, V
  <2> QED OBVIOUS
<1>8. Recursion(I, V, n, rank, D)
  <2>1. \A p \in I : \A g, h \in [I -> V] :
          (\A j \in I : rank[j] < rank[p] => g[j] = h[j]) => D[p][g] = D[p][h]
    <3> SUFFICES ASSUME NEW p \in I, NEW g \in [I -> V], NEW h \in [I -> V],
                        \A j \in I : rank[j] < rank[p] => g[j] = h[j]
                 PROVE  Printed(g, p) = Printed(h, p)
      <4> HIDE DEF I, V, rank, D
      <4> QED BY <1>7
    <3>1. CASE p = 0
      BY <1>4, <3>1, Zenon
    <3>2. CASE p \in 1 .. n
      <4>1. \A i \in 1 .. (p - 1) : g[i] = h[i]
        <5> HIDE DEF I, V, rank
        <5> QED BY <1>3, <3>2
      <4> QED BY <3>2, <4>1, PrintedFollows
    <3> QED BY <1>2, <3>1, <3>2
  <2> HIDE DEF I, V, rank, D
  <2> QED BY <1>1, <1>6, <2>1 DEF Recursion
<1>9. PICK f \in [I -> V] : \A p \in I : f[p] = D[p][f]
  <2> HIDE DEF I, V, rank, D, n
  <2> QED BY <1>8, RecursiveFunctionExists
<1>10. f = [p \in I |-> Printed(f, p)]
  <2> HIDE DEF I, V, rank, D, n
  <2> QED BY <1>7, <1>9
<1>11. print = CHOOSE g : g = [p \in 0 .. Len(nodes) |-> Printed(g, p)]
  BY Zenon DEF print, Printed, PrintedNode
<1>12. print = [p \in 0 .. Len(nodes) |-> Printed(print, p)]
  BY <1>10, <1>11, Zenon
<1> QED BY <1>12, Zenon

LEMMA PrintIsClean ==
  ASSUME NodesOK
  PROVE  \A p \in 1 .. Len(nodes) : print[p] \in Seq(Labels)
<1>1. PICK n \in Nat : n = Len(nodes)
  BY DEF NodesOK
<1> DEFINE G == {k \in 0 .. n : \A p \in 1 .. k : print[p] \in Seq(Labels)}
<1>2. 0 \in G
  BY <1>1
<1>3. ASSUME NEW k \in 1 .. n, k - 1 \in G PROVE k \in G
  <2>1. \A p \in 1 .. (k - 1) : print[p] \in Seq(Labels)
    BY <1>3
  <2>2. Printed(print, k) \in Seq(Labels)
    BY <1>1, <2>1, PrintedFollows
  <2>3. k \in 0 .. n
    BY <1>1
  <2>4. print[k] \in Seq(Labels)
    BY <1>1, <2>2, <2>3, PrintUnfolds
  <2>5. \A p \in 1 .. k : p \in 1 .. (k - 1) \/ p = k
    OBVIOUS
  <2> QED BY <2>1, <2>3, <2>4, <2>5
<1>4. \A k \in 0 .. n : k \in G
  <2> HIDE DEF G
  <2> QED BY <1>1, <1>2, <1>3, UpTo
<1>5. n \in 0 .. n
  BY <1>1
<1> QED BY <1>1, <1>4, <1>5

\* A condition that is accepted is printed without reading a member of the union
\* that was not written and without following a NULL pointer, whatever its text is
\* and however long.
THEOREM PrintAlwaysReadsWhatWasBuilt ==
  Spec => []PrintReadsWhatWasBuilt
<1>1. CondOK => PrintReadsWhatWasBuilt
  <2> SUFFICES ASSUME CondOK, parse_result = 0,
                      NEW i \in DOMAIN print[where_expression]
               PROVE  print[where_expression][i] # "undefined"
    BY Zenon DEF PrintReadsWhatWasBuilt
  <2>1. print[where_expression] \in Seq(Labels)
    BY PrintIsClean DEF CondOK
  <2>2. PICK rows : rows = print[where_expression]
    OBVIOUS
  <2>3. rows[i] \in Labels
    BY <2>1, <2>2
  <2> QED BY <2>2, <2>3, LabelsAre
<1> QED
  BY <1>1, CondOKIsInvariant, PTL

-----------------------------------------------------------------------------
(* Parentheses                                                               *)

\* What a token adds to the depth.
Adds(k) == (IF Opens(k) THEN 1 ELSE 0) - (IF Closes(k) THEN 1 ELSE 0)

LEMMA DepthIs ==
  ASSUME NEW i \in Int, NEW m \in Int, NEW k \in Int, i <= m + 1, m <= k
  PROVE  /\ Depth(i, m) \in Int /\ Depth(m + 1, k) \in Int
         /\ Depth(i, k) = Depth(i, m) + Depth(m + 1, k)
<1> DEFINE O(a, b) == {n \in a .. b : Opens(n)}
           C(a, b) == {n \in a .. b : Closes(n)}
<1>1. /\ O(i, k) = O(i, m) \cup O(m + 1, k) /\ O(i, m) \cap O(m + 1, k) = {}
      /\ C(i, k) = C(i, m) \cup C(m + 1, k) /\ C(i, m) \cap C(m + 1, k) = {}
  <2>1. i .. k = (i .. m) \cup (m + 1 .. k) /\ (i .. m) \cap (m + 1 .. k) = {}
    OBVIOUS
  <2> QED BY <2>1
<1>2. \A a, b \in Int : IsFiniteSet(O(a, b)) /\ IsFiniteSet(C(a, b))
  <2> SUFFICES ASSUME NEW a \in Int, NEW b \in Int
               PROVE  IsFiniteSet(O(a, b)) /\ IsFiniteSet(C(a, b))
    OBVIOUS
  <2>1. IsFiniteSet(a .. b)
    BY FS_Interval
  <2> QED BY <2>1, FS_Subset
<1>3. m + 1 \in Int
  OBVIOUS
<1> HIDE DEF O, C
<1>4. /\ Cardinality(O(i, k)) = Cardinality(O(i, m)) + Cardinality(O(m + 1, k))
      /\ Cardinality(C(i, k)) = Cardinality(C(i, m)) + Cardinality(C(m + 1, k))
      /\ Cardinality(O(i, m)) \in Nat /\ Cardinality(O(m + 1, k)) \in Nat
      /\ Cardinality(C(i, m)) \in Nat /\ Cardinality(C(m + 1, k)) \in Nat
  <2>1. /\ IsFiniteSet(O(i, m)) /\ IsFiniteSet(O(m + 1, k))
        /\ IsFiniteSet(C(i, m)) /\ IsFiniteSet(C(m + 1, k))
    BY <1>2, <1>3
  <2>2. Cardinality({}) = 0
    BY FS_EmptySet
  <2>3. /\ Cardinality(O(i, m)) \in Nat /\ Cardinality(O(m + 1, k)) \in Nat
        /\ Cardinality(C(i, m)) \in Nat /\ Cardinality(C(m + 1, k)) \in Nat
    BY <2>1, FS_CardinalityType
  <2>4. /\ Cardinality(O(i, m) \cup O(m + 1, k))
             = Cardinality(O(i, m)) + Cardinality(O(m + 1, k)) - Cardinality(O(i, m) \cap O(m + 1, k))
        /\ Cardinality(C(i, m) \cup C(m + 1, k))
             = Cardinality(C(i, m)) + Cardinality(C(m + 1, k)) - Cardinality(C(i, m) \cap C(m + 1, k))
    BY <2>1, FS_Union
  <2>5. /\ Cardinality(O(i, k)) = Cardinality(O(i, m)) + Cardinality(O(m + 1, k)) - 0
        /\ Cardinality(C(i, k)) = Cardinality(C(i, m)) + Cardinality(C(m + 1, k)) - 0
    BY <1>1, <2>2, <2>4, Zenon
  <2> QED BY <2>3, <2>5
<1>5. \A a, b : Depth(a, b) = Cardinality(O(a, b)) - Cardinality(C(a, b))
  BY DEF Depth, O, C
<1> QED BY <1>4, <1>5

\* The depth over no token, and over one.
LEMMA DepthOf ==
  /\ \A i, k \in Int : k < i => Depth(i, k) = 0
  /\ \A k \in Int : Depth(k, k) = Adds(k)
<1>1. ASSUME NEW i \in Int, NEW k \in Int, k < i PROVE Depth(i, k) = 0
  <2>1. {n \in i .. k : Opens(n)} = {} /\ {n \in i .. k : Closes(n)} = {}
    <3>1. i .. k = {}
      BY <1>1
    <3> QED BY <3>1
  <2> QED BY <2>1, FS_EmptySet DEF Depth
<1>2. ASSUME NEW k \in Int PROVE Depth(k, k) = Adds(k)
  <2>1. k .. k = {k}
    OBVIOUS
  <2>2. {n \in k .. k : Opens(n)} = (IF Opens(k) THEN {k} ELSE {})
    BY <2>1
  <2>3. {n \in k .. k : Closes(n)} = (IF Closes(k) THEN {k} ELSE {})
    BY <2>1
  <2>4. Cardinality({k}) = 1 /\ Cardinality({}) = 0
    BY FS_Singleton, FS_EmptySet
  <2> QED BY <2>2, <2>3, <2>4 DEF Depth, Adds
<1> QED BY <1>1, <1>2

LEMMA DepthStep ==
  /\ \A i, k \in Int : Depth(i, k) \in Int
  /\ \A i, k \in Int : i <= k => Depth(i, k) = Depth(i, k - 1) + Adds(k)
  /\ \A i, k \in Int : i <= k => Depth(i, k) = Adds(i) + Depth(i + 1, k)
  /\ \A i, m, k \in Int : i <= m + 1 /\ m <= k => Depth(i, k) = Depth(i, m) + Depth(m + 1, k)
<1>1. ASSUME NEW i \in Int, NEW k \in Int PROVE Depth(i, k) \in Int
  <2>1. CASE k < i
    BY <2>1, DepthOf
  <2>2. CASE i <= k
    BY <2>2, DepthIs
  <2> QED BY <2>1, <2>2
<1>2. ASSUME NEW i \in Int, NEW k \in Int, i <= k PROVE Depth(i, k) = Depth(i, k - 1) + Adds(k)
  <2>1. k - 1 \in Int /\ i <= k - 1 + 1 /\ k - 1 <= k /\ k - 1 + 1 = k
    BY <1>2
  <2>2. Depth(i, k) = Depth(i, k - 1) + Depth(k - 1 + 1, k)
    BY <2>1, DepthIs
  <2> QED BY <2>1, <2>2, DepthOf
<1>3. ASSUME NEW i \in Int, NEW k \in Int, i <= k PROVE Depth(i, k) = Adds(i) + Depth(i + 1, k)
  <2>1. Depth(i, k) = Depth(i, i) + Depth(i + 1, k)
    BY <1>3, DepthIs
  <2> QED BY <2>1, DepthOf
<1>4. ASSUME NEW i \in Int, NEW m \in Int, NEW k \in Int, i <= m + 1, m <= k
      PROVE  Depth(i, k) = Depth(i, m) + Depth(m + 1, k)
  BY <1>4, DepthIs
<1> QED BY <1>1, <1>2, <1>3, <1>4

-----------------------------------------------------------------------------
(* Tokens                                                                    *)

Infixes == Infix \cup {"IS"}
Prefixes == {"-", "NOT", "!"}
Functions == {"DATE_ADD", "DATE_SUB"}
Enders == Leaves \cup Units \cup {")", "NULL"}
Comma == ","

LEMMA CommaIs ==
  /\ Comma \notin Infixes \cup Enders \cup Prefixes \cup {"(", "INTERVAL", "NULL", "NOT", "IS", "E"}
  /\ \A i, j : Commas(i, j) = {k \in i .. j : text[k] = Comma /\ Depth(i, k) = 1}
<1>1. Comma \notin Infixes \cup Enders \cup Prefixes \cup {"(", "INTERVAL", "NULL", "NOT", "IS", "E"}
  BY Zenon DEF Comma, Infixes, Infix, Enders, Leaves, Units, Prefixes
<1>2. \A i, j : Commas(i, j) = {k \in i .. j : text[k] = Comma /\ Depth(i, k) = 1}
  BY Zenon DEF Comma, Commas
<1> QED BY <1>1, <1>2

\* What is no parenthesis leaves the depth as it is.
LEMMA AddsIs ==
  ASSUME NEW k \in Nat \ {0}
  PROVE  /\ text[k] \notin {"(", "INTERVAL", ")"} \cup Units => Adds(k) = 0
         /\ text[k] \in {"(", "INTERVAL"} => Adds(k) = 1
         /\ text[k] = ")" => Adds(k) = -1
         /\ text[k] \in Units /\ k > 1 => Adds(k) = IF text[k - 1] = "(" THEN 0 ELSE -1
  BY DEF Adds, Opens, Closes, Units

LEMMA TokenClasses ==
  /\ \A t \in Infixes \cup Prefixes \cup Leaves \cup Functions \cup {"EXTRACT", "NULL", "FROM"} :
       t \notin {"(", "INTERVAL", ")"} \cup Units
  /\ \A t \in Infixes : t \notin Enders
  /\ \A t \in Prefixes : t \notin Enders
  /\ Comma \notin {"(", "INTERVAL", ")"} \cup Units
<1>1. Comma \notin {"(", "INTERVAL", ")"} \cup Units
  BY Zenon DEF Comma, Units
<1> QED BY <1>1 DEF Infixes, Infix, Prefixes, Leaves, Functions, Units, Enders

LEMMA InfixIs ==
  \A k \in Nat : IsInfix(k) <=> text[k] \in Infixes /\ k > 1 /\ text[k - 1] \in Enders
  BY DEF IsInfix, Infixes, Enders

-----------------------------------------------------------------------------
(* Precedence                                                                *)

LEMMA StrengthIsLevel ==
  /\ \A op \in Infixes : Strength(op) = Level(op) /\ Level(op) \in 1 .. 11 /\ Level(op) # 4
  /\ Strength("NOT") = 4 /\ Level("NOT") = 4 /\ Level("!") = 12 /\ Level("-") = 9
  /\ Strength("IS") = 5
<1> DEFINE P == MySQLPrecedence
<1>1. DOMAIN P = 1 .. 11
  BY DEF MySQLPrecedence
<1>2. /\ P[1] = {"OR"} /\ P[2] = {"XOR"} /\ P[3] = {"AND"} /\ P[4] = {"NOT"}
      /\ P[5] = {"=", ">=", ">", "<=", "<", "!=", "IS"} /\ P[6] = {"|"} /\ P[7] = {"&"}
      /\ P[8] = {"<<", ">>"} /\ P[9] = {"+", "-"} /\ P[10] = {"*", "/", "%"} /\ P[11] = {"^"}
  BY DEF MySQLPrecedence
<1> HIDE DEF P
<1>3. \A op \in Infixes \cup {"NOT"} : Level(op) \in 1 .. 11 /\ op \in P[Level(op)]
  BY <1>2 DEF Level, Infixes, Infix
<1>4. \A op \in Infixes \cup {"NOT"} : \A i \in 1 .. 11 : op \in P[i] => i = Level(op)
  BY <1>2 DEF Level, Infixes, Infix
<1>5. \A op \in Infixes \cup {"NOT"} : Strength(op) = Level(op)
  BY <1>1, <1>3, <1>4 DEF Strength, P
<1>6. Level("NOT") = 4 /\ Level("!") = 12 /\ Level("-") = 9 /\ Level("IS") = 5
  BY DEF Level
<1>7. \A op \in Infixes : Level(op) # 4
  BY DEF Level, Infixes, Infix
<1> QED BY <1>3, <1>5, <1>6, <1>7 DEF Infixes

\* k is applied last of the operators in S.
AppliedLast(k, S) ==
  \A n \in S : \/ Strength(text[k]) < Strength(text[n])
               \/ Strength(text[k]) = Strength(text[n]) /\ n <= k

LEMMA WeakestIs ==
  ASSUME NEW i \in Nat, NEW j \in Nat, NEW S, S \subseteq i .. j, \A n \in S : text[n] \in Infixes,
         S # {}
  PROVE  /\ Weakest(S) \in S /\ AppliedLast(Weakest(S), S)
         /\ \A k \in S : AppliedLast(k, S) => k = Weakest(S)
<1>1. \A n \in S : Strength(text[n]) \in Nat /\ n \in Nat /\ n <= j
  BY StrengthIsLevel
<1>2. PICK L : L = {Strength(text[n]) : n \in S}
  OBVIOUS
<1>3. L \subseteq Nat /\ L # {}
  BY <1>1, <1>2
<1>4. PICK l \in L : \A m \in L : l <= m
  BY <1>3, LeastNat
<1>5. PICK W : W = {n \in S : Strength(text[n]) = l}
  OBVIOUS
<1>6. W \subseteq 0 .. j /\ W # {}
  BY <1>1, <1>2, <1>4, <1>5
<1>7. PICK k \in W : \A n \in W : n <= k
  BY <1>6, GreatestNat
<1>8. k \in S /\ AppliedLast(k, S)
  <2>1. \A n \in S : l <= Strength(text[n]) /\ (Strength(text[n]) = l => n <= k)
    BY <1>2, <1>4, <1>5, <1>7
  <2>2. k \in S /\ Strength(text[k]) = l
    BY <1>5, <1>7
  <2> QED BY <1>1, <2>1, <2>2 DEF AppliedLast
<1>9. \A a, b \in S : AppliedLast(a, S) /\ AppliedLast(b, S) => a = b
  BY <1>1 DEF AppliedLast
<1>10. Weakest(S) = CHOOSE a \in S : AppliedLast(a, S)
  BY Zenon DEF Weakest, AppliedLast
<1>11. Weakest(S) \in S /\ AppliedLast(Weakest(S), S)
  BY <1>8, <1>10
<1> QED BY <1>9, <1>11

-----------------------------------------------------------------------------
(* MySQL's reading                                                           *)

\* One call of RowsOfMySQL, f for the calls it makes.
RowsBody(f, i, j) ==
  LET infix == Outermost(i, j)
      k == Weakest(infix)
      comma == CHOOSE n \in Commas(i, j) : TRUE
      IsNot == text[i] = "NOT" /\ \A n \in infix : Strength(text[n]) > Strength("NOT")
      IsPrefix(op) == infix = {} /\ text[i] = op
  IN  IF i > j THEN <<>>
      ELSE CASE IsNot -> Row("NOT") \o f[<<i + 1, j>>]
             [] ~IsNot /\ infix # {} /\ text[k] = "IS" ->
                  Row("IS") \o f[<<i, k - 1>>]
                  \o Row(IF k < j /\ text[k + 1] = "NOT" THEN "NOT_NULL" ELSE "NULL")
             [] ~IsNot /\ infix # {} /\ text[k] # "IS" ->
                  Row(text[k]) \o f[<<i, k - 1>>] \o f[<<k + 1, j>>]
             [] IsPrefix("-") -> Negated(f[<<i + 1, j>>])
             [] IsPrefix("!") -> Row("!") \o f[<<i + 1, j>>]
             [] IsPrefix("(") -> f[<<i + 1, j - 1>>]
             [] IsPrefix("INTERVAL") ->
                  Row("INTERVAL") \o f[<<i + 1, j - 1>>] \o Row(text[j])
             [] (IsPrefix("DATE_ADD") \/ IsPrefix("DATE_SUB")) /\ Commas(i, j) # {} ->
                  Row(text[i]) \o f[<<i + 2, comma - 1>>] \o f[<<comma + 1, j - 1>>]
             [] IsPrefix("EXTRACT") /\ i + 2 <= j ->
                  Row("EXTRACT") \o Row(text[i + 2]) \o f[<<i + 4, j - 1>>]
             [] OTHER -> Row(text[i])

LeadsNot(i, j) == text[i] = "NOT" /\ \A n \in Outermost(i, j) : Strength(text[n]) > Strength("NOT")
Last(i, j) == Weakest(Outermost(i, j))
CommaOf(i, j) == CHOOSE n \in Commas(i, j) : TRUE
NullRow(k, j) == Row(IF k < j /\ text[k + 1] = "NOT" THEN "NOT_NULL" ELSE "NULL")

\* The call for i .. j by its tokens: behind a NOT, around the weakest operator k,
\* and by the first token.
AroundInfix(f, i, j, k) ==
  IF text[k] = "IS" THEN Row("IS") \o f[<<i, k - 1>>] \o NullRow(k, j)
                    ELSE Row(text[k]) \o f[<<i, k - 1>>] \o f[<<k + 1, j>>]
ByFirst(f, i, j) ==
  CASE text[i] = "-" -> Negated(f[<<i + 1, j>>])
    [] text[i] = "!" -> Row("!") \o f[<<i + 1, j>>]
    [] text[i] = "(" -> f[<<i + 1, j - 1>>]
    [] text[i] = "INTERVAL" -> Row("INTERVAL") \o f[<<i + 1, j - 1>>] \o Row(text[j])
    [] text[i] \in Functions /\ Commas(i, j) # {} ->
         Row(text[i]) \o f[<<i + 2, CommaOf(i, j) - 1>>] \o f[<<CommaOf(i, j) + 1, j - 1>>]
    [] text[i] = "EXTRACT" /\ i + 2 <= j ->
         Row("EXTRACT") \o Row(text[i + 2]) \o f[<<i + 4, j - 1>>]
    [] OTHER -> Row(text[i])

LEMMA RowsBodyIf ==
  ASSUME NEW i \in Int, NEW j \in Int, NEW f
  PROVE  RowsBody(f, i, j) =
           IF i > j THEN <<>>
           ELSE IF LeadsNot(i, j) THEN Row("NOT") \o f[<<i + 1, j>>]
           ELSE IF Outermost(i, j) # {} THEN AroundInfix(f, i, j, Weakest(Outermost(i, j)))
           ELSE ByFirst(f, i, j)
<1> DEFINE infix == Outermost(i, j)
           k == Weakest(infix)
           IsPrefix(op) == infix = {} /\ text[i] = op
<1>1. RowsBody(f, i, j) =
        IF i > j THEN <<>>
        ELSE CASE LeadsNot(i, j) -> Row("NOT") \o f[<<i + 1, j>>]
             [] ~LeadsNot(i, j) /\ infix # {} /\ text[k] = "IS" ->
                  Row("IS") \o f[<<i, k - 1>>] \o NullRow(k, j)
             [] ~LeadsNot(i, j) /\ infix # {} /\ text[k] # "IS" ->
                  Row(text[k]) \o f[<<i, k - 1>>] \o f[<<k + 1, j>>]
             [] IsPrefix("-") -> Negated(f[<<i + 1, j>>])
             [] IsPrefix("!") -> Row("!") \o f[<<i + 1, j>>]
             [] IsPrefix("(") -> f[<<i + 1, j - 1>>]
             [] IsPrefix("INTERVAL") ->
                  Row("INTERVAL") \o f[<<i + 1, j - 1>>] \o Row(text[j])
             [] (IsPrefix("DATE_ADD") \/ IsPrefix("DATE_SUB")) /\ Commas(i, j) # {} ->
                  Row(text[i]) \o f[<<i + 2, CommaOf(i, j) - 1>>] \o f[<<CommaOf(i, j) + 1, j - 1>>]
             [] IsPrefix("EXTRACT") /\ i + 2 <= j ->
                  Row("EXTRACT") \o Row(text[i + 2]) \o f[<<i + 4, j - 1>>]
             [] OTHER -> Row(text[i])
  BY Zenon DEF RowsBody, LeadsNot, NullRow, CommaOf
<1>2. infix = {} /\ text[i] = "NOT" => LeadsNot(i, j)
  BY DEF LeadsNot
<1>3. LeadsNot(i, j) => text[i] = "NOT"
  BY DEF LeadsNot
<1> HIDE DEF infix, k
<1>4. CASE i > j
  BY <1>1, <1>4
<1>5. CASE ~(i > j) /\ LeadsNot(i, j) /\ infix = {}
  BY <1>1, <1>3, <1>5
<1>6. CASE ~(i > j) /\ infix # {}
  BY <1>1, <1>6 DEF AroundInfix, infix, k
<1>7. CASE ~(i > j) /\ ~LeadsNot(i, j) /\ infix = {}
  BY <1>1, <1>2, <1>7 DEF ByFirst, Functions, infix
<1> QED BY <1>4, <1>5, <1>6, <1>7 DEF infix

BodyCases(i, j) ==
  /\ i > j => \A f : RowsBody(f, i, j) = <<>>
  /\ i <= j /\ LeadsNot(i, j) => \A f : RowsBody(f, i, j) = Row("NOT") \o f[<<i + 1, j>>]
  /\ i <= j /\ ~LeadsNot(i, j) /\ Outermost(i, j) # {} =>
       \A f : RowsBody(f, i, j) = AroundInfix(f, i, j, Last(i, j))
  /\ i <= j /\ ~LeadsNot(i, j) /\ Outermost(i, j) = {} => \A f : RowsBody(f, i, j) = ByFirst(f, i, j)

LEMMA RowsBodyIs == \A a, b \in Int : BodyCases(a, b)
<1>1. \A a, b \in Int : a <= b => ~(a > b)
  OBVIOUS
<1> QED BY <1>1, RowsBodyIf, Zenon DEF BodyCases, Last

\* The spans a call for i .. j may read.
Within(i, j) == {s \in (i .. j + 2) \X (0 .. j) : s[2] - s[1] < j - i}

LEMMA WithinIs ==
  ASSUME NEW i \in Nat, NEW j \in Nat, NEW a \in i .. j + 2, NEW b \in 0 .. j, b - a < j - i
  PROVE  <<a, b>> \in Within(i, j)
  BY DEF Within

\* k is the operator in i .. j that is applied last.
IsLast(k, i, j) == k \in Outermost(i, j) /\ AppliedLast(k, Outermost(i, j))

LEMMA OutermostIs ==
  ASSUME NEW i \in Nat, NEW j \in Nat
  PROVE  /\ Outermost(i, j) \subseteq i .. j
         /\ \A n \in Outermost(i, j) : text[n] \in Infixes /\ n > 1 /\ text[n - 1] \in Enders
         /\ Outermost(i, j) # {} => IsLast(Last(i, j), i, j)
         /\ \A k : IsLast(k, i, j) => k = Last(i, j)
         /\ Commas(i, j) \subseteq i .. j
         /\ Commas(i, j) # {} => CommaOf(i, j) \in Commas(i, j)
<1>1. Outermost(i, j) \subseteq i .. j
  BY DEF Outermost
<1>2. \A n \in Outermost(i, j) : text[n] \in Infixes /\ n > 1 /\ text[n - 1] \in Enders
  BY InfixIs DEF Outermost
<1>3. PICK S : S = Outermost(i, j)
  OBVIOUS
<1>4. S # {} => /\ Weakest(S) \in S /\ AppliedLast(Weakest(S), S)
                /\ \A k \in S : AppliedLast(k, S) => k = Weakest(S)
  BY <1>1, <1>2, <1>3, WeakestIs
<1>5. Commas(i, j) \subseteq i .. j
  BY CommaIs
<1>6. Commas(i, j) # {} => CommaOf(i, j) \in Commas(i, j)
  BY Zenon DEF CommaOf
<1>7. /\ Outermost(i, j) # {} => IsLast(Last(i, j), i, j)
      /\ \A k : IsLast(k, i, j) => k = Last(i, j)
  BY <1>3, <1>4, Zenon DEF IsLast, Last
<1> QED BY <1>1, <1>2, <1>5, <1>6, <1>7

\* All of them are shorter.
LEMMA CallsAreWithin ==
  ASSUME NEW i \in Nat \ {0}, NEW j \in Nat, i <= j
  PROVE  /\ <<i + 1, j>> \in Within(i, j) /\ <<i + 1, j - 1>> \in Within(i, j)
         /\ i + 2 <= j => <<i + 4, j - 1>> \in Within(i, j)
         /\ \A k \in i .. j : <<i, k - 1>> \in Within(i, j) /\ <<k + 1, j>> \in Within(i, j)
         /\ \A k \in i .. j : <<i + 2, k - 1>> \in Within(i, j) /\ <<k + 1, j - 1>> \in Within(i, j)
<1>1. <<i + 1, j>> \in Within(i, j) /\ <<i + 1, j - 1>> \in Within(i, j)
  BY WithinIs
<1>2. ASSUME i + 2 <= j PROVE <<i + 4, j - 1>> \in Within(i, j)
  BY <1>2, WithinIs
<1>3. ASSUME NEW k \in i .. j
      PROVE  /\ <<i, k - 1>> \in Within(i, j) /\ <<k + 1, j>> \in Within(i, j)
             /\ <<i + 2, k - 1>> \in Within(i, j) /\ <<k + 1, j - 1>> \in Within(i, j)
  <2>1. <<i, k - 1>> \in Within(i, j) /\ <<k + 1, j>> \in Within(i, j)
    BY WithinIs
  <2>2. <<i + 2, k - 1>> \in Within(i, j) /\ <<k + 1, j - 1>> \in Within(i, j)
    BY WithinIs
  <2> QED BY <2>1, <2>2
<1> QED BY <1>1, <1>2, <1>3

Rows == Seq(Labels \cup Terminals)

LEMMA RowsJoin ==
  /\ \A label \in Labels \cup Terminals : Row(label) \in Rows
  /\ \A s, t \in Rows : s \o t \in Rows /\ Negated(s) \in Rows
  /\ Row("IS") \in Rows /\ Row("NULL") \in Rows /\ Row("NOT_NULL") \in Rows /\ Row("NEGATION") \in Rows
  /\ Row("INTERVAL") \in Rows /\ Row("EXTRACT") \in Rows /\ Row("NOT") \in Rows /\ Row("!") \in Rows
<1>1. \A label \in Labels \cup Terminals : Row(label) \in Rows
  BY DEF Rows, Row
<1>2. \A s, t \in Rows : s \o t \in Rows
  BY ConcatProperties DEF Rows
<1>3. {"IS", "NULL", "NOT_NULL", "NEGATION", "INT", "negative_INT", "INTERVAL", "EXTRACT", "NOT", "!"} \subseteq Labels
  BY Zenon DEF Labels, Ops, Leaves
<1>4. \A s \in Rows : Negated(s) \in Rows
  <2>1. Row("INT") \in Rows /\ Row("negative_INT") \in Rows /\ Row("NEGATION") \in Rows
    BY <1>1, <1>3
  <2> QED BY <1>2, <2>1, Zenon DEF Negated
<1>5. \A label \in {"IS", "NULL", "NOT_NULL", "NEGATION", "INTERVAL", "EXTRACT", "NOT", "!"} : Row(label) \in Rows
  BY <1>1, <1>3, Zenon
<1> QED BY <1>1, <1>2, <1>4, <1>5

\* What a call returns: rows of its own, and those of the calls it makes.
LEMMA RowsBodyShape ==
  ASSUME text \in Seq(Terminals), NEW i \in Nat \ {0}, NEW j \in 0 .. Len(text)
  PROVE  \/ \E r \in Rows : \A f : RowsBody(f, i, j) = r
         \/ \E a \in Within(i, j) : \A f : RowsBody(f, i, j) = f[a]
         \/ \E a \in Within(i, j) : \A f : RowsBody(f, i, j) = Negated(f[a])
         \/ \E r \in Rows, a \in Within(i, j) : \A f : RowsBody(f, i, j) = r \o f[a]
         \/ \E r, t \in Rows, a \in Within(i, j) : \A f : RowsBody(f, i, j) = r \o f[a] \o t
         \/ \E r \in Rows, a, b \in Within(i, j) : \A f : RowsBody(f, i, j) = r \o f[a] \o f[b]
<1> DEFINE infix == Outermost(i, j)
           k == Last(i, j)
<1>0. j \in Nat /\ \A n \in i .. j : text[n] \in Terminals /\ Row(text[n]) \in Rows
  <2>1. j \in Nat /\ \A n \in i .. j : text[n] \in Terminals
    OBVIOUS
  <2>2. \A n \in i .. j : Row(text[n]) \in Rows
    BY <2>1, RowsJoin
  <2> QED BY <2>1, <2>2
<1>n. i \in Int /\ j \in Int
  OBVIOUS
<1>1. CASE i > j
  <2>1. \A f : RowsBody(f, i, j) = <<>>
    BY <1>n, <1>1, RowsBodyIs, Zenon DEF BodyCases
  <2>2. <<>> \in Rows
    BY DEF Rows
  <2> QED BY <2>1, <2>2
<1>2. CASE i <= j /\ LeadsNot(i, j)
  <2>1. PICK a \in Within(i, j) : a = <<i + 1, j>>
    BY <1>0, <1>2, CallsAreWithin
  <2>2. PICK r \in Rows : r = Row("NOT")
    BY RowsJoin
  <2>3. \A f : RowsBody(f, i, j) = r \o f[a]
    BY <1>n, <1>2, <2>1, <2>2, RowsBodyIs, Zenon DEF BodyCases
  <2> QED BY <2>3
<1>3. CASE i <= j /\ ~LeadsNot(i, j) /\ infix # {}
  <2>1. \A f : RowsBody(f, i, j) = AroundInfix(f, i, j, k)
    BY <1>n, <1>3, RowsBodyIs, Zenon DEF BodyCases
  <2>2. k \in i .. j
    BY <1>0, <1>3, OutermostIs DEF IsLast
  <2> HIDE DEF infix, k
  <2>3. PICK a \in Within(i, j), b \in Within(i, j) : a = <<i, k - 1>> /\ b = <<k + 1, j>>
    BY <1>0, <1>3, <2>2, CallsAreWithin
  <2>4. CASE text[k] = "IS"
    <3>1. PICK r \in Rows : r = Row("IS")
      BY RowsJoin
    <3>2. PICK t \in Rows : t = NullRow(k, j)
      BY RowsJoin, Zenon DEF NullRow
    <3>3. \A f : RowsBody(f, i, j) = r \o f[a] \o t
      BY <2>1, <2>3, <2>4, <3>1, <3>2 DEF AroundInfix
    <3> QED BY <3>3
  <2>5. CASE text[k] # "IS"
    <3>1. PICK r \in Rows : r = Row(text[k])
      BY <1>0, <2>2
    <3>2. \A f : RowsBody(f, i, j) = r \o f[a] \o f[b]
      BY <2>1, <2>3, <2>5, <3>1 DEF AroundInfix
    <3> QED BY <3>2
  <2> QED BY <2>4, <2>5
<1>4. CASE i <= j /\ ~LeadsNot(i, j) /\ infix = {}
  <2>1. \A f : RowsBody(f, i, j) = ByFirst(f, i, j)
    BY <1>n, <1>4, RowsBodyIs, Zenon DEF BodyCases
  <2>2. PICK a \in Within(i, j), b \in Within(i, j) : a = <<i + 1, j>> /\ b = <<i + 1, j - 1>>
    BY <1>0, <1>4, CallsAreWithin
  <2>3. i \in i .. j /\ j \in i .. j
    BY <1>0, <1>4
  <2>4. CASE text[i] = "-"
    <3>1. \A f : RowsBody(f, i, j) = Negated(f[a])
      BY <2>1, <2>2, <2>4 DEF ByFirst, Functions
    <3> QED BY <3>1
  <2>5. CASE text[i] = "!"
    <3>1. PICK r \in Rows : r = Row("!")
      BY RowsJoin
    <3>2. \A f : RowsBody(f, i, j) = r \o f[a]
      BY <2>1, <2>2, <2>5, <3>1 DEF ByFirst, Functions
    <3> QED BY <3>2
  <2>6. CASE text[i] = "("
    <3>1. \A f : RowsBody(f, i, j) = f[b]
      BY <2>1, <2>2, <2>6 DEF ByFirst, Functions
    <3> QED BY <3>1
  <2>7. CASE text[i] = "INTERVAL"
    <3>1. PICK r \in Rows : r = Row("INTERVAL")
      BY RowsJoin
    <3>2. PICK t \in Rows : t = Row(text[j])
      BY <1>0, <2>3
    <3>3. \A f : RowsBody(f, i, j) = r \o f[b] \o t
      BY <2>1, <2>2, <2>7, <3>1, <3>2 DEF ByFirst, Functions
    <3> QED BY <3>3
  <2>8. CASE text[i] \in Functions /\ Commas(i, j) # {}
    <3>1. PICK comma : comma = CommaOf(i, j)
      OBVIOUS
    <3>2. comma \in i .. j
      BY <1>0, <2>8, <3>1, OutermostIs
    <3>3. PICK c \in Within(i, j), d \in Within(i, j) : c = <<i + 2, comma - 1>> /\ d = <<comma + 1, j - 1>>
      BY <1>0, <1>4, <3>2, CallsAreWithin
    <3>4. PICK r \in Rows : r = Row(text[i])
      BY <1>0, <2>3
    <3>5. \A f : RowsBody(f, i, j) = r \o f[c] \o f[d]
      BY <2>1, <2>8, <3>1, <3>3, <3>4 DEF ByFirst, Functions
    <3> QED BY <3>5
  <2>9. CASE text[i] = "EXTRACT" /\ i + 2 <= j
    <3>1. PICK c \in Within(i, j) : c = <<i + 4, j - 1>>
      BY <1>0, <1>4, <2>9, CallsAreWithin
    <3>2. i + 2 \in i .. j
      BY <1>0, <2>9
    <3>3. PICK r \in Rows : r = Row("EXTRACT") \o Row(text[i + 2])
      BY <1>0, <3>2, RowsJoin
    <3>4. \A f : RowsBody(f, i, j) = r \o f[c]
      BY <2>1, <2>9, <3>1, <3>3 DEF ByFirst, Functions
    <3> QED BY <3>4
  <2>10. CASE /\ text[i] \notin {"-", "!", "(", "INTERVAL"} /\ ~(text[i] \in Functions /\ Commas(i, j) # {})
              /\ ~(text[i] = "EXTRACT" /\ i + 2 <= j)
    <3>1. PICK r \in Rows : r = Row(text[i])
      BY <1>0, <2>3
    <3>2. \A f : RowsBody(f, i, j) = r
      BY <2>1, <2>10, <3>1 DEF ByFirst
    <3> QED BY <3>2
  <2> QED BY <2>4, <2>5, <2>6, <2>7, <2>8, <2>9, <2>10
<1>5. i > j \/ i <= j
  BY <1>n
<1> QED BY <1>1, <1>2, <1>3, <1>4, <1>5, Zenon

\* A call returns rows if those it makes do, and it depends on nothing else.
LEMMA RowsBodyFollows ==
  ASSUME text \in Seq(Terminals), NEW i \in Nat \ {0}, NEW j \in 0 .. Len(text)
  PROVE  /\ \A f : (\A s \in Within(i, j) : f[s] \in Rows) => RowsBody(f, i, j) \in Rows
         /\ \A g, h : (\A s \in Within(i, j) : g[s] = h[s]) => RowsBody(g, i, j) = RowsBody(h, i, j)
<1>1. \A s, t \in Rows : s \o t \in Rows
  BY RowsJoin
<1>2. CASE \E r \in Rows : \A f : RowsBody(f, i, j) = r
  BY <1>2
<1>3. CASE \E a \in Within(i, j) : \A f : RowsBody(f, i, j) = f[a]
  BY <1>3, Zenon
<1>4. CASE \E a \in Within(i, j) : \A f : RowsBody(f, i, j) = Negated(f[a])
  <2>1. PICK a \in Within(i, j) : \A f : RowsBody(f, i, j) = Negated(f[a])
    BY <1>4
  <2>2. \A s \in Rows : Negated(s) \in Rows
    BY RowsJoin, Zenon
  <2> QED BY <2>1, <2>2, Zenon
<1>5. CASE \E r \in Rows, a \in Within(i, j) : \A f : RowsBody(f, i, j) = r \o f[a]
  BY <1>1, <1>5, Zenon
<1>6. CASE \E r, t \in Rows, a \in Within(i, j) : \A f : RowsBody(f, i, j) = r \o f[a] \o t
  <2>1. PICK r \in Rows, t \in Rows, a \in Within(i, j) : \A f : RowsBody(f, i, j) = r \o f[a] \o t
    BY <1>6
  <2>2. \A f : f[a] \in Rows => r \o f[a] \o t \in Rows
    BY <1>1
  <2> QED BY <2>1, <2>2, Zenon
<1>7. CASE \E r \in Rows, a, b \in Within(i, j) : \A f : RowsBody(f, i, j) = r \o f[a] \o f[b]
  <2>1. PICK r \in Rows, a \in Within(i, j), b \in Within(i, j) : \A f : RowsBody(f, i, j) = r \o f[a] \o f[b]
    BY <1>7
  <2>2. \A f : f[a] \in Rows /\ f[b] \in Rows => r \o f[a] \o f[b] \in Rows
    BY <1>1
  <2> QED BY <2>1, <2>2, Zenon
<1> QED BY <1>2, <1>3, <1>4, <1>5, <1>6, <1>7, RowsBodyShape

\* The recursion comes to an end, as the spans become shorter.
LEMMA RowsUnfold ==
  ASSUME text \in Seq(Terminals)
  PROVE  \A i \in 1 .. Len(text) + 4, j \in 0 .. Len(text) :
           RowsOfMySQL[<<i, j>>] = RowsBody(RowsOfMySQL, i, j)
<1> DEFINE n == Len(text)
           I == Spans
           rank == [s \in I |-> IF s[1] > s[2] THEN 0 ELSE s[2] - s[1] + 1]
           D == [s \in I |-> [f \in [I -> Rows] |-> RowsBody(f, s[1], s[2])]]
<1>1. n \in Nat /\ rank \in [I -> 0 .. n] /\ Rows # {}
  <2>1. n \in Nat
    OBVIOUS
  <2>2. <<>> \in Rows
    BY DEF Rows
  <2>3. \A s \in I : (IF s[1] > s[2] THEN 0 ELSE s[2] - s[1] + 1) \in 0 .. n
    BY <2>1 DEF Spans
  <2> QED BY <2>1, <2>2, <2>3
<1>2. \A s \in I : s[1] \in Nat \ {0} /\ s[2] \in 0 .. n /\ s = <<s[1], s[2]>>
  BY DEF Spans
<1>3. \A s \in I : s[1] <= s[2] => \A t \in Within(s[1], s[2]) : t \in I /\ rank[t] < rank[s]
  <2> SUFFICES ASSUME NEW s \in I, s[1] <= s[2], NEW t \in Within(s[1], s[2])
               PROVE  t \in I /\ rank[t] < rank[s]
    OBVIOUS
  <2>1. PICK i, j : i = s[1] /\ j = s[2] /\ i \in Nat \ {0} /\ j \in 0 .. n /\ i <= j
    BY <1>2
  <2>2. PICK a \in i .. j + 2, b \in 0 .. j : t = <<a, b>> /\ b - a < j - i
    BY <2>1 DEF Within
  <2>3. t \in I
    BY <1>1, <2>1, <2>2, SMTT(30) DEF Spans
  <2>4. rank[t] = IF a > b THEN 0 ELSE b - a + 1
    BY <2>2, <2>3
  <2>5. rank[s] = j - i + 1
    BY <2>1
  <2>6. a \in Int /\ b \in Int
    BY <2>1, <2>2
  <2>7. (IF a > b THEN 0 ELSE b - a + 1) < j - i + 1
    BY <1>1, <2>1, <2>2, <2>6
  <2> HIDE DEF rank, I
  <2> QED BY <2>3, <2>4, <2>5, <2>7, Zenon
<1>4. \A s \in I : s[1] > s[2] => \A f : RowsBody(f, s[1], s[2]) = <<>>
  <2>1. \A s \in I : s[1] \in Int /\ s[2] \in Int
    BY <1>1, <1>2
  <2> QED BY <2>1, RowsBodyIs, Zenon DEF BodyCases
<1>5. \A s \in I : \A f \in [I -> Rows] : RowsBody(f, s[1], s[2]) \in Rows
  <2> SUFFICES ASSUME NEW s \in I, NEW f \in [I -> Rows]
               PROVE  RowsBody(f, s[1], s[2]) \in Rows
    OBVIOUS
  <2>1. CASE s[1] > s[2]
    <3>1. <<>> \in Rows
      BY DEF Rows
    <3> QED BY <1>4, <2>1, <3>1
  <2>2. CASE s[1] <= s[2]
    <3>1. \A t \in Within(s[1], s[2]) : f[t] \in Rows
      <4> HIDE DEF I, rank
      <4> QED BY <1>3, <2>2
    <3> QED BY <1>2, <3>1, RowsBodyFollows
  <2>3. s[1] \in Int /\ s[2] \in Int
    BY <1>1, <1>2
  <2> QED BY <2>1, <2>2, <2>3
<1>6. D \in [I -> [[I -> Rows] -> Rows]]
  <2> HIDE DEF I
  <2> QED BY <1>5
<1>7. \A s \in I : \A f \in [I -> Rows] : D[s][f] = RowsBody(f, s[1], s[2])
  <2> HIDE DEF I
  <2> QED OBVIOUS
<1>8. Recursion(I, Rows, n, rank, D)
  <2>1. \A s \in I : \A g, h \in [I -> Rows] :
          (\A t \in I : rank[t] < rank[s] => g[t] = h[t]) => D[s][g] = D[s][h]
    <3> SUFFICES ASSUME NEW s \in I, NEW g \in [I -> Rows], NEW h \in [I -> Rows],
                        \A t \in I : rank[t] < rank[s] => g[t] = h[t]
                 PROVE  RowsBody(g, s[1], s[2]) = RowsBody(h, s[1], s[2])
      <4> HIDE DEF I, rank, D
      <4> QED BY <1>7
    <3>1. CASE s[1] > s[2]
      BY <1>4, <3>1
    <3>2. CASE s[1] <= s[2]
      <4>1. \A t \in Within(s[1], s[2]) : g[t] = h[t]
        <5> HIDE DEF I, rank
        <5> QED BY <1>3, <3>2
      <4> QED BY <1>2, <4>1, RowsBodyFollows
    <3>3. s[1] \in Int /\ s[2] \in Int
      BY <1>1, <1>2
    <3> QED BY <3>1, <3>2, <3>3
  <2> HIDE DEF I, rank, D
  <2> QED BY <1>1, <1>6, <2>1 DEF Recursion
<1>9. PICK f \in [I -> Rows] : \A s \in I : f[s] = D[s][f]
  <2> HIDE DEF I, rank, D, n
  <2> QED BY <1>8, RecursiveFunctionExists
<1>10. f = [s \in I |-> RowsBody(f, s[1], s[2])]
  <2> HIDE DEF I, rank, D, n
  <2> QED BY <1>7, <1>9
<1>11. RowsOfMySQL = CHOOSE g : g = [s \in Spans |-> RowsBody(g, s[1], s[2])]
  BY Zenon DEF RowsOfMySQL, RowsBody
<1>12. RowsOfMySQL = [s \in Spans |-> RowsBody(RowsOfMySQL, s[1], s[2])]
  BY <1>10, <1>11, Zenon
<1>13. \A i \in 1 .. n + 4, j \in 0 .. n : <<i, j>> \in Spans
  BY <1>1 DEF Spans
<1>14. \A s \in Spans : RowsOfMySQL[s] = RowsBody(RowsOfMySQL, s[1], s[2])
  BY <1>12, Zenon
<1> QED BY <1>13, <1>14

-----------------------------------------------------------------------------
(* A text that grows                                                         *)

Grows ==
  /\ text \in Seq(Terminals) /\ text' \in Seq(Terminals) /\ Len(text) <= Len(text')
  /\ \A k \in 1 .. Len(text) : text'[k] = text[k]

\* What was read is read as before.
LEMMA TextStays ==
  ASSUME Grows
  PROVE  /\ \A k \in 1 .. Len(text) :
              (Opens(k)' <=> Opens(k)) /\ (Closes(k)' <=> Closes(k)) /\ (IsInfix(k)' <=> IsInfix(k))
         /\ \A i \in Nat \ {0}, k \in 0 .. Len(text) : Depth(i, k)' = Depth(i, k)
         /\ \A i \in Nat \ {0}, j \in 0 .. Len(text) :
              Outermost(i, j)' = Outermost(i, j) /\ Commas(i, j)' = Commas(i, j)
<1>1. ASSUME NEW k \in 1 .. Len(text)
      PROVE  (Opens(k)' <=> Opens(k)) /\ (Closes(k)' <=> Closes(k)) /\ (IsInfix(k)' <=> IsInfix(k))
  <2>1. text'[k] = text[k] /\ (k > 1 => text'[k - 1] = text[k - 1])
    BY DEF Grows
  <2>2. Opens(k)' <=> Opens(k)
    BY <2>1 DEF Opens
  <2>3. Closes(k)' <=> Closes(k)
    BY <2>1 DEF Closes
  <2>4. IsInfix(k)' <=> IsInfix(k)
    BY <2>1 DEF IsInfix
  <2> QED BY <2>2, <2>3, <2>4
<1>2. ASSUME NEW i \in Nat \ {0}, NEW k \in 0 .. Len(text) PROVE Depth(i, k)' = Depth(i, k)
  <2>1. \A n \in i .. k : n \in 1 .. Len(text)
    BY DEF Grows
  <2>2. {n \in i .. k : Opens(n)}' = {n \in i .. k : Opens(n)}
    BY <1>1, <2>1
  <2>3. {n \in i .. k : Closes(n)}' = {n \in i .. k : Closes(n)}
    BY <1>1, <2>1
  <2> QED BY <2>2, <2>3, Zenon DEF Depth
<1>3. ASSUME NEW i \in Nat \ {0}, NEW j \in 0 .. Len(text)
      PROVE  Outermost(i, j)' = Outermost(i, j) /\ Commas(i, j)' = Commas(i, j)
  <2>1. \A n \in i .. j : n \in 1 .. Len(text) /\ n \in 0 .. Len(text) /\ text'[n] = text[n]
    BY DEF Grows
  <2>2. Outermost(i, j)' = Outermost(i, j)
    BY <1>1, <1>2, <2>1 DEF Outermost
  <2>3. /\ Commas(i, j) = {k \in i .. j : text[k] = Comma /\ Depth(i, k) = 1}
        /\ Commas(i, j)' = {k \in i .. j : text[k] = Comma /\ Depth(i, k) = 1}'
    BY Zenon DEF Commas, Comma
  <2>4. Commas(i, j)' = Commas(i, j)
    BY <1>2, <2>1, <2>3
  <2> QED BY <2>2, <2>4
<1> QED BY <1>1, <1>2, <1>3

LEMMA LastIs == \A a, b \in Nat : Outermost(a, b) # {} => IsLast(Last(a, b), a, b)
  BY OutermostIs

LEMMA LastStays ==
  ASSUME Grows, NEW i \in Nat \ {0}, NEW j \in 0 .. Len(text)
  PROVE  /\ LeadsNot(i, j)' /\ i <= j => LeadsNot(i, j)
         /\ LeadsNot(i, j) /\ i <= j => LeadsNot(i, j)'
         /\ Outermost(i, j) # {} => Last(i, j)' = Last(i, j)
         /\ CommaOf(i, j)' = CommaOf(i, j)
<1>0. j \in Nat /\ i \in Nat
  BY DEF Grows
<1>1. Outermost(i, j)' = Outermost(i, j) /\ Commas(i, j)' = Commas(i, j)
  BY TextStays
<1>2. \A n \in i .. j : text'[n] = text[n]
  BY DEF Grows
<1>3. Outermost(i, j) \subseteq i .. j
  BY <1>0, OutermostIs
<1>4. /\ LeadsNot(i, j)' /\ i <= j => LeadsNot(i, j)
      /\ LeadsNot(i, j) /\ i <= j => LeadsNot(i, j)'
  <2>1. i <= j => i \in i .. j
    BY <1>0
  <2> QED BY <1>1, <1>2, <1>3, <2>1, Zenon DEF LeadsNot
<1>5. CommaOf(i, j)' = CommaOf(i, j)
  BY <1>1, Zenon DEF CommaOf
<1>6. ASSUME Outermost(i, j) # {} PROVE Last(i, j)' = Last(i, j)
  <2>2. (\A a, b \in Nat : Outermost(a, b) # {} => IsLast(Last(a, b), a, b))'
    BY LastIs, PTL
  <2>3. PICK k : k = Last(i, j)'
    OBVIOUS
  <2>4. IsLast(k, i, j)'
    BY <1>0, <1>1, <1>6, <2>2, <2>3
  <2>5. IsLast(k, i, j)
    BY <1>1, <1>2, <1>3, <2>4 DEF IsLast, AppliedLast
  <2> QED BY <1>0, <2>3, <2>5, OutermostIs
<1> QED BY <1>4, <1>5, <1>6

LEMMA RowsBodyIsNext == (\A a, b \in Int : BodyCases(a, b))'
  BY RowsBodyIs, PTL

LEMMA RowsBodyStays ==
  ASSUME Grows, NEW i \in Nat \ {0}, NEW j \in 0 .. Len(text), NEW g, NEW h,
         \A s \in Within(i, j) : g[s] = h[s]
  PROVE  RowsBody(g, i, j)' = RowsBody(h, i, j)
<1>0. i \in Int /\ j \in Int /\ j \in Nat /\ \A n \in i .. j : text'[n] = text[n]
  BY DEF Grows
<1>1. BodyCases(i, j)
  BY <1>0, RowsBodyIs
<1>2. BodyCases(i, j)'
  <2>1. (\A a, b \in Int : BodyCases(a, b))'
    BY RowsBodyIsNext
  <2> QED BY <1>0, <2>1
<1>3. CASE i > j
  BY <1>1, <1>2, <1>3, Zenon DEF BodyCases
<1>4. CASE i <= j /\ LeadsNot(i, j)
  <2>1. LeadsNot(i, j)'
    BY <1>4, LastStays
  <2>2. <<i + 1, j>> \in Within(i, j)
    BY <1>0, <1>4, CallsAreWithin
  <2> QED BY <1>1, <1>2, <1>4, <2>1, <2>2, Zenon DEF BodyCases
<1>5. CASE i <= j /\ ~LeadsNot(i, j) /\ Outermost(i, j) # {}
  <2>1. ~LeadsNot(i, j)' /\ Outermost(i, j)' # {} /\ Last(i, j)' = Last(i, j)
    BY <1>5, LastStays, TextStays
  <2>2. PICK k \in i .. j : k = Last(i, j)
    BY <1>0, <1>5, OutermostIs DEF IsLast
  <2>3. g[<<i, k - 1>>] = h[<<i, k - 1>>] /\ g[<<k + 1, j>>] = h[<<k + 1, j>>]
    BY <1>0, <1>5, CallsAreWithin
  <2>4. /\ RowsBody(h, i, j) = AroundInfix(h, i, j, k)
        /\ RowsBody(g, i, j)' = AroundInfix(g, i, j, k)'
    BY <1>1, <1>2, <1>5, <2>1, <2>2, Zenon DEF BodyCases
  <2>5. text'[k] = text[k] /\ (k < j => text'[k + 1] = text[k + 1])
    BY <1>0, <2>2
  <2>6. NullRow(k, j)' = NullRow(k, j)
    BY <2>5, Zenon DEF NullRow
  <2>7. AroundInfix(g, i, j, k)' = AroundInfix(h, i, j, k)
    BY <2>3, <2>5, <2>6, Zenon DEF AroundInfix
  <2> QED BY <2>4, <2>7
<1>6. CASE i <= j /\ ~LeadsNot(i, j) /\ Outermost(i, j) = {}
  <2>1. ~LeadsNot(i, j)' /\ Outermost(i, j)' = {}
    BY <1>6, LastStays, TextStays
  <2>2. /\ RowsBody(h, i, j) = ByFirst(h, i, j)
        /\ RowsBody(g, i, j)' = ByFirst(g, i, j)'
    BY <1>1, <1>2, <1>6, <2>1, Zenon DEF BodyCases
  <2>3. /\ text'[i] = text[i] /\ text'[j] = text[j]
        /\ i + 2 <= j => text'[i + 2] = text[i + 2]
    BY <1>0, <1>6
  <2>4. CommaOf(i, j)' = CommaOf(i, j) /\ Commas(i, j)' = Commas(i, j)
    BY LastStays, TextStays
  <2>5. g[<<i + 1, j>>] = h[<<i + 1, j>>] /\ g[<<i + 1, j - 1>>] = h[<<i + 1, j - 1>>]
    BY <1>0, <1>6, CallsAreWithin
  <2>6. i + 2 <= j => g[<<i + 4, j - 1>>] = h[<<i + 4, j - 1>>]
    BY <1>0, <1>6, CallsAreWithin
  <2>7. Commas(i, j) # {} => /\ g[<<i + 2, CommaOf(i, j) - 1>>] = h[<<i + 2, CommaOf(i, j) - 1>>]
                             /\ g[<<CommaOf(i, j) + 1, j - 1>>] = h[<<CommaOf(i, j) + 1, j - 1>>]
    <3>1. Commas(i, j) # {} => CommaOf(i, j) \in i .. j
      BY <1>0, OutermostIs
    <3> QED BY <1>0, <1>6, <3>1, CallsAreWithin
  <2>8. ByFirst(g, i, j)' = ByFirst(h, i, j)
    BY <2>3, <2>4, <2>5, <2>6, <2>7 DEF ByFirst, Functions
  <2> QED BY <2>2, <2>8
<1>7. i > j \/ i <= j
  BY <1>0
<1> QED BY <1>3, <1>4, <1>5, <1>6, <1>7, Zenon

LEMMA RowsUnfoldAll ==
  text \in Seq(Terminals) =>
    \E g : /\ g = RowsOfMySQL
           /\ \A i \in 1 .. Len(text) + 4, j \in 0 .. Len(text) : g[<<i, j>>] = RowsBody(g, i, j)
  BY RowsUnfold, Zenon

LEMMA RowsStay ==
  ASSUME Grows
  PROVE  \A i \in 1 .. Len(text) + 4, j \in 0 .. Len(text) :
           RowsOfMySQL'[<<i, j>>] = RowsOfMySQL[<<i, j>>]
<1>0. text \in Seq(Terminals) /\ text' \in Seq(Terminals) /\ Len(text) <= Len(text')
  BY DEF Grows
<1>1. PICK n \in Nat : n = Len(text)
  BY <1>0
<1>2. PICK h : /\ h = RowsOfMySQL
               /\ \A i \in 1 .. Len(text) + 4, j \in 0 .. Len(text) : h[<<i, j>>] = RowsBody(h, i, j)
  BY <1>0, RowsUnfoldAll, Zenon
<1>3. PICK g : /\ g = RowsOfMySQL'
               /\ \A i \in 1 .. Len(text') + 4, j \in 0 .. Len(text') : g[<<i, j>>] = RowsBody(g, i, j)'
  <2>1. (text \in Seq(Terminals) =>
          \E g : /\ g = RowsOfMySQL
                 /\ \A i \in 1 .. Len(text) + 4, j \in 0 .. Len(text) : g[<<i, j>>] = RowsBody(g, i, j))'
    BY RowsUnfoldAll, PTL
  <2> QED BY <1>0, <2>1, Zenon
<1> DEFINE Same(i, j) == g[<<i, j>>] = h[<<i, j>>]
           G == {m \in 0 .. n : \A i \in 1 .. n + 4, j \in 0 .. n : j - i < m => Same(i, j)}
<1>4. ASSUME NEW i \in 1 .. n + 4, NEW j \in 0 .. n, \A s \in Within(i, j) : i <= j => g[s] = h[s]
      PROVE  Same(i, j)
  <2>0. i \in Nat \ {0} /\ j \in 0 .. Len(text) /\ j \in Nat
    BY <1>1
  <2>1. g[<<i, j>>] = RowsBody(g, i, j)' /\ h[<<i, j>>] = RowsBody(h, i, j)
    BY <1>0, <1>1, <1>2, <1>3
  <2>2. CASE i <= j
    <3>1. RowsBody(g, i, j)' = RowsBody(h, i, j)
      BY <1>4, <2>0, <2>2, RowsBodyStays
    <3> QED BY <2>1, <3>1
  <2>3. CASE i > j
    <3>1. BodyCases(i, j)
      BY <2>0, RowsBodyIs
    <3>2. (\A a, b \in Int : BodyCases(a, b))'
      BY RowsBodyIsNext
    <3>3. BodyCases(i, j)'
      BY <2>0, <3>2
    <3> QED BY <2>1, <2>3, <3>1, <3>3, Zenon DEF BodyCases
  <2> QED BY <2>0, <2>2, <2>3
<1>5. 0 \in G
  <2>1. ASSUME NEW i \in 1 .. n + 4, NEW j \in 0 .. n, j - i < 0 PROVE Same(i, j)
    <3>1. ~(i <= j)
      BY <1>1, <2>1
    <3> HIDE DEF Same
    <3> QED BY <1>4, <3>1
  <2> HIDE DEF Same
  <2> QED BY <1>1, <2>1
<1>6. ASSUME NEW m \in 1 .. n, m - 1 \in G PROVE m \in G
  <2>1. ASSUME NEW i \in 1 .. n + 4, NEW j \in 0 .. n, j - i < m PROVE Same(i, j)
    <3>1. ASSUME NEW s \in Within(i, j), i <= j PROVE g[s] = h[s]
      <4>1. PICK a \in i .. j + 2, b \in 0 .. j : s = <<a, b>> /\ b - a < j - i
        BY DEF Within
      <4>2. a \in 1 .. n + 4 /\ b \in 0 .. n /\ b - a < m - 1
        BY <1>1, <2>1, <3>1, <4>1
      <4>3. Same(a, b)
        <5> HIDE DEF Same
        <5> QED BY <1>6, <4>2
      <4> QED BY <4>1, <4>3
    <3> HIDE DEF Same
    <3> QED BY <1>4, <3>1
  <2>2. m \in 0 .. n
    BY <1>1
  <2> HIDE DEF Same
  <2> QED BY <2>1, <2>2
<1>7. \A m \in 0 .. n : m \in G
  <2> HIDE DEF G
  <2> QED BY <1>1, <1>5, <1>6, UpTo
<1>8. \A i \in 1 .. n + 4, j \in 0 .. n : j - i < n
  BY <1>1
<1>9. \A i \in 1 .. n + 4, j \in 0 .. n : Same(i, j)
  <2>1. n \in G
    BY <1>1, <1>7
  <2> HIDE DEF Same
  <2> QED BY <1>8, <2>1
<1> QED BY <1>1, <1>2, <1>3, <1>9

-----------------------------------------------------------------------------
(* What is printed                                                           *)

LEMMA PrintUnfoldsAll ==
  NodesOK => \E f : f = print /\ \A p \in 0 .. Len(nodes) : f[p] = Printed(f, p)
  BY PrintUnfolds, Zenon

\* A node that is added changes nothing about the others.
LEMMA PrintStays ==
  ASSUME NodesOK, NodesOK', Len(nodes) <= Len(nodes'),
         \A p \in 1 .. Len(nodes) : nodes'[p] = nodes[p]
  PROVE  \A p \in 1 .. Len(nodes) : print'[p] = print[p]
<1>1. PICK n \in Nat : n = Len(nodes)
  BY DEF NodesOK
<1>2. PICK h : h = print /\ \A p \in 0 .. Len(nodes) : h[p] = Printed(h, p)
  BY PrintUnfoldsAll
<1>3. PICK g : g = print' /\ \A p \in 0 .. Len(nodes') : g[p] = Printed(g, p)'
  <2>1. (NodesOK => \E f : f = print /\ \A p \in 0 .. Len(nodes) : f[p] = Printed(f, p))'
    BY PrintUnfoldsAll, PTL
  <2> QED BY <2>1, Zenon
<1>4. \A p \in 1 .. n : p \in 0 .. Len(nodes) /\ p \in 0 .. Len(nodes')
  <2>1. Len(nodes') \in Nat
    BY DEF NodesOK
  <2> QED BY <1>1, <2>1
<1> DEFINE G == {k \in 0 .. n : \A p \in 1 .. k : g[p] = h[p]}
<1>5. 0 \in G
  BY <1>1
<1>6. ASSUME NEW k \in 1 .. n, k - 1 \in G PROVE k \in G
  <2>1. \A p \in 1 .. (k - 1) : g[p] = h[p]
    BY <1>6
  <2>2. Printed(g, k)' = Printed(g, k)
    <3>1. nodes'[k] = nodes[k]
      BY <1>1
    <3>2. Printed(g, k) = PrintedNode(g, k, nodes[k]) /\ Printed(g, k)' = PrintedNode(g, k, nodes'[k])
      BY Zenon DEF Printed
    <3> QED BY <3>1, <3>2
  <2>3. Printed(g, k) = Printed(h, k)
    <3>1. k \in 1 .. Len(nodes) /\ Labels \subseteq Labels
      BY <1>1
    <3> QED BY <2>1, <3>1, PrintedFollows
  <2>4. g[k] = h[k]
    BY <1>2, <1>3, <1>4, <2>2, <2>3
  <2>5. \A p \in 1 .. k : p \in 1 .. (k - 1) \/ p = k
    OBVIOUS
  <2>6. k \in 0 .. n
    BY <1>1
  <2> QED BY <2>1, <2>4, <2>5, <2>6
<1>7. \A k \in 0 .. n : k \in G
  <2> HIDE DEF G
  <2> QED BY <1>1, <1>5, <1>6, UpTo
<1>8. n \in 0 .. n
  BY <1>1
<1> QED BY <1>1, <1>2, <1>3, <1>7, <1>8

\* What is printed of a node, by the member it is made with.
LEMMA PrintOf ==
  ASSUME NodesOK, NEW p \in 1 .. Len(nodes)
  PROVE  /\ \A op \in Leaves : \A val : nodes[p] = Leaf(op, val) => print[p] = Literal(op, val)
         /\ \A op \in Infix \cup Functions : \A l, r :
              nodes[p] = init_cond(l, op, r) /\ l # 0 => print[p] = Row(op) \o print[l] \o print[r]
         /\ \A r : nodes[p] = init_cond(0, "-", r) => print[p] = Row("NEGATION") \o print[r]
         /\ \A op \in {"NOT", "!"} : \A l, r : nodes[p] = init_cond(l, op, r) => print[p] = Row(op) \o print[l]
         /\ \A l, val : nodes[p] = WithArg("IS", "is", l, val) =>
              print[p] = Row("IS") \o print[l] \o Row(IF val THEN "NULL" ELSE "NOT_NULL")
         /\ \A l, val : nodes[p] = WithArg("INTERVAL", "interval", l, val) =>
              print[p] = Row("INTERVAL") \o print[l] \o Row(val)
         /\ \A l, val : nodes[p] = WithArg("EXTRACT", "extract", l, val) =>
              print[p] = Row("EXTRACT") \o Row(val) \o print[l]
<1>1. p \in 0 .. Len(nodes) /\ p # 0
  BY DEF NodesOK
<1> DEFINE ce == nodes[p]
<1>3. ~(p = Null \/ ce.member # MemberRead(ce.op))
  BY <1>1 DEF NodesOK, Readable, Null
<1>4. print[p] =
        CASE ce.op \in Leaves -> Literal(ce.op, ce.val)
          [] ce.op = "IS" ->
               Row("IS") \o print[ce.left] \o Row(IF ce.val THEN "NULL" ELSE "NOT_NULL")
          [] ce.op = "INTERVAL" -> Row("INTERVAL") \o print[ce.left] \o Row(ce.val)
          [] ce.op = "EXTRACT" -> Row("EXTRACT") \o Row(ce.val) \o print[ce.left]
          [] ce.op = "-" /\ ce.left = Null -> Row("NEGATION") \o print[ce.right]
          [] ce.op \in {"NOT", "!"} -> Row(ce.op) \o print[ce.left]
          [] OTHER -> Row(ce.op) \o print[ce.left] \o print[ce.right]
  <2>1. print[p] = Printed(print, p)
    BY <1>1, PrintUnfolds
  <2> QED BY <1>3, <2>1, Zenon DEF Printed, PrintedNode
<1> HIDE DEF ce
<1>5. ASSUME NEW op \in Leaves, NEW val, ce = Leaf(op, val) PROVE print[p] = Literal(op, val)
  <2>1. ce.op = op /\ ce.val = val
    BY <1>5 DEF Leaf, Node
  <2> QED BY <1>4, <2>1 DEF Leaves
<1>6. ASSUME NEW op, NEW l, NEW r, ce = init_cond(l, op, r) PROVE ce.op = op /\ ce.left = l /\ ce.right = r
  BY <1>6 DEF init_cond, Node
<1>7. ASSUME NEW op, NEW member, NEW l, NEW val, ce = WithArg(op, member, l, val)
      PROVE  ce.op = op /\ ce.left = l /\ ce.val = val
  BY <1>7 DEF WithArg, Node
<1>8. ASSUME NEW op \in Infix \cup Functions, NEW l, NEW r, ce = init_cond(l, op, r), l # 0
      PROVE  print[p] = Row(op) \o print[l] \o print[r]
  <2>1. ce.op = op /\ ce.left = l /\ ce.right = r
    BY <1>6, <1>8
  <2>2. op \notin Leaves \cup {"IS", "INTERVAL", "EXTRACT", "NOT", "!"}
    BY DEF Infix, Functions, Leaves
  <2> QED BY <1>4, <1>8, <2>1, <2>2 DEF Null
<1>9. ASSUME NEW r, ce = init_cond(0, "-", r) PROVE print[p] = Row("NEGATION") \o print[r]
  <2>1. ce.op = "-" /\ ce.left = 0 /\ ce.right = r
    BY <1>6, <1>9
  <2> QED BY <1>4, <2>1 DEF Null, Leaves
<1>10. ASSUME NEW op \in {"NOT", "!"}, NEW l, NEW r, ce = init_cond(l, op, r)
       PROVE  print[p] = Row(op) \o print[l]
  <2>1. ce.op = op /\ ce.left = l /\ ce.right = r
    BY <1>6, <1>10
  <2> QED BY <1>4, <2>1 DEF Leaves
<1>11. ASSUME NEW l, NEW val, ce = WithArg("IS", "is", l, val)
       PROVE  print[p] = Row("IS") \o print[l] \o Row(IF val THEN "NULL" ELSE "NOT_NULL")
  <2>1. ce.op = "IS" /\ ce.left = l /\ ce.val = val
    BY <1>7, <1>11
  <2>2. print[p] = Row("IS") \o print[ce.left] \o Row(IF ce.val THEN "NULL" ELSE "NOT_NULL")
    <3>1. PICK last : last = Row(IF ce.val THEN "NULL" ELSE "NOT_NULL")
      OBVIOUS
    <3>2. ce.op \notin Leaves
      BY <2>1 DEF Leaves
    <3> QED BY <1>4, <2>1, <3>1, <3>2
  <2> QED BY <2>1, <2>2, Zenon
<1>12. ASSUME NEW l, NEW val, ce = WithArg("INTERVAL", "interval", l, val)
       PROVE  print[p] = Row("INTERVAL") \o print[l] \o Row(val)
  <2>1. ce.op = "INTERVAL" /\ ce.left = l /\ ce.val = val
    BY <1>7, <1>12
  <2> QED BY <1>4, <2>1 DEF Leaves
<1>13. ASSUME NEW l, NEW val, ce = WithArg("EXTRACT", "extract", l, val)
       PROVE  print[p] = Row("EXTRACT") \o Row(val) \o print[l]
  <2>1. ce.op = "EXTRACT" /\ ce.left = l /\ ce.val = val
    BY <1>7, <1>13
  <2> QED BY <1>4, <2>1 DEF Leaves
<1>14. /\ \A op \in Leaves : \A val : ce = Leaf(op, val) => print[p] = Literal(op, val)
       /\ \A op \in Infix \cup Functions : \A l, r :
            ce = init_cond(l, op, r) /\ l # 0 => print[p] = Row(op) \o print[l] \o print[r]
  BY <1>5, <1>8, Zenon
<1>15. /\ \A r : ce = init_cond(0, "-", r) => print[p] = Row("NEGATION") \o print[r]
       /\ \A op \in {"NOT", "!"} : \A l, r : ce = init_cond(l, op, r) => print[p] = Row(op) \o print[l]
  BY <1>9, <1>10, Zenon
<1>16. /\ \A l, val : ce = WithArg("IS", "is", l, val) =>
            print[p] = Row("IS") \o print[l] \o Row(IF val THEN "NULL" ELSE "NOT_NULL")
       /\ \A l, val : ce = WithArg("INTERVAL", "interval", l, val) =>
            print[p] = Row("INTERVAL") \o print[l] \o Row(val)
       /\ \A l, val : ce = WithArg("EXTRACT", "extract", l, val) =>
            print[p] = Row("EXTRACT") \o Row(val) \o print[l]
  BY <1>11, <1>12, <1>13, Zenon
<1> QED BY <1>14, <1>15, <1>16, Zenon DEF ce

-----------------------------------------------------------------------------
(* The span of an expression                                                 *)

\* Tokens i .. j can be an expression: their parentheses match, a comma is inside
\* of some, the first is no infix operator and behind the last one may stand.
Expr(i, j) ==
  /\ i \in 1 .. Len(text) /\ j \in i .. Len(text)
  /\ Depth(i, j) = 0 /\ ~IsInfix(i) /\ text[j] \in Enders
  /\ \A n \in i .. j : Depth(i, n) >= 0 /\ (text[n] = Comma => Depth(i, n) >= 1)

\* All operators outside of parentheses bind stronger than l; as strong as l, and
\* no NOT before them takes what follows for itself.
Stronger(i, j, l) == \A n \in Outermost(i, j) : Level(text[n]) > l
Binds(i, j, l) ==
  /\ \A n \in Outermost(i, j) : Level(text[n]) >= l
  /\ text[i] = "NOT" => l <= 4

LEMMA ExprIs ==
  ASSUME text \in Seq(Terminals), NEW i, NEW j, Expr(i, j)
  PROVE  /\ i \in Nat \ {0} /\ i \in Int /\ j \in Int /\ j \in Nat /\ i <= j /\ j <= Len(text) /\ Len(text) \in Nat
         /\ \A n \in i .. j : n \in Nat \ {0} /\ n \in Int /\ text[n] \in Terminals
<1>1. i \in 1 .. Len(text) /\ j \in i .. Len(text) /\ Len(text) \in Nat
  BY DEF Expr
<1>2. \A n \in 1 .. Len(text) : text[n] \in Terminals
  OBVIOUS
<1>3. \A n \in i .. j : n \in 1 .. Len(text) /\ n \in Nat \ {0} /\ n \in Int
  BY <1>1
<1> QED BY <1>1, <1>2, <1>3

LEMMA DepthIsInt == \A i, j \in Int : \A n \in i .. j : Depth(i, n) \in Int
<1>1. \A i, j \in Int : \A n \in i .. j : n \in Int
  OBVIOUS
<1> QED BY <1>1, DepthStep

\* How MySQL reads it.
LEMMA ReadingIs ==
  ASSUME text \in Seq(Terminals), NEW i, NEW j, Expr(i, j)
  PROVE  /\ LeadsNot(i, j) => RowsOfMySQL[<<i, j>>] = Row("NOT") \o RowsOfMySQL[<<i + 1, j>>]
         /\ \A k : IsLast(k, i, j) /\ ~LeadsNot(i, j) =>
              RowsOfMySQL[<<i, j>>] = AroundInfix(RowsOfMySQL, i, j, k)
         /\ Outermost(i, j) = {} /\ text[i] # "NOT" =>
              RowsOfMySQL[<<i, j>>] = ByFirst(RowsOfMySQL, i, j)
<1>1. i \in Nat /\ i \in Int /\ j \in Int /\ j \in Nat /\ i <= j
  BY ExprIs
<1>2. RowsOfMySQL[<<i, j>>] = RowsBody(RowsOfMySQL, i, j)
  <2>1. i \in 1 .. Len(text) + 4 /\ j \in 0 .. Len(text)
    BY DEF Expr
  <2> QED BY <2>1, RowsUnfold
<1>3. BodyCases(i, j)
  BY <1>1, RowsBodyIs
<1>4. \A k : IsLast(k, i, j) => k = Last(i, j) /\ Outermost(i, j) # {}
  BY <1>1, OutermostIs DEF IsLast
<1>5. LeadsNot(i, j) => text[i] = "NOT"
  BY DEF LeadsNot
<1> QED BY <1>1, <1>2, <1>3, <1>4, <1>5, Zenon DEF BodyCases

\* Behind d open parentheses everything of an expression is deeper.
LEMMA DepthInside ==
  ASSUME text \in Seq(Terminals), NEW i \in Nat \ {0}, NEW a, NEW b, Expr(a, b), i <= a
  PROVE  /\ \A n \in a .. b : /\ Depth(i, n) = Depth(i, a - 1) + Depth(a, n)
                              /\ Depth(i, n) >= Depth(i, a - 1)
                              /\ text[n] = Comma => Depth(i, n) > Depth(i, a - 1)
         /\ Depth(i, b) = Depth(i, a - 1)
<1>1. a \in Int /\ b \in Int /\ a <= b /\ \A n \in a .. b : n \in Int
  BY ExprIs
<1>2. \A n \in a .. b : Depth(i, n) = Depth(i, a - 1) + Depth(a, n)
  <2> SUFFICES ASSUME NEW n \in a .. b PROVE Depth(i, n) = Depth(i, a - 1) + Depth(a, n)
    OBVIOUS
  <2>1. PICK m \in Int : m = a - 1 /\ i <= m + 1 /\ m + 1 = a /\ m <= n /\ n \in Int /\ i \in Int
    BY <1>1
  <2>2. Depth(i, n) = Depth(i, m) + Depth(m + 1, n)
    BY <2>1, DepthIs
  <2> QED BY <2>1, <2>2
<1>3. \A n \in a .. b : /\ Depth(a, n) >= 0 /\ Depth(a, n) \in Int /\ Depth(i, a - 1) \in Int
                        /\ text[n] = Comma => Depth(a, n) >= 1
  <2>1. \A n \in a .. b : Depth(a, n) >= 0 /\ (text[n] = Comma => Depth(a, n) >= 1)
    BY DEF Expr
  <2>2. i \in Int /\ a - 1 \in Int
    BY <1>1
  <2>3. \A n \in a .. b : Depth(a, n) \in Int /\ Depth(i, a - 1) \in Int
    BY <1>1, <2>2, DepthStep
  <2> QED BY <2>1, <2>3
<1>4. Depth(a, b) = 0 /\ b \in a .. b
  BY <1>1 DEF Expr
<1> QED BY <1>2, <1>3, <1>4

\* Tokens in parentheses are not outermost.
LEMMA NoneOutermost ==
  ASSUME NEW i \in Nat, NEW j \in Nat, \A n \in i .. j : IsInfix(n) => Depth(i, n) # 0
  PROVE  Outermost(i, j) = {}
  BY DEF Outermost

\* What begins and ends with the tokens of an expression and has infix operators and
\* commas only in parentheses.
LEMMA Bracketed ==
  ASSUME text \in Seq(Terminals), NEW i \in Nat \ {0}, NEW j \in i .. Len(text),
         ~IsInfix(i), text[j] \in Enders, Depth(i, j) = 0,
         \A n \in i .. j - 1 : /\ Depth(i, n) >= 0
                               /\ IsInfix(n) \/ text[n] = Comma => Depth(i, n) >= 1
  PROVE  /\ Expr(i, j) /\ Outermost(i, j) = {}
         /\ text[i] # "NOT" => RowsOfMySQL[<<i, j>>] = ByFirst(RowsOfMySQL, i, j)
<1>1. i \in 1 .. Len(text) /\ j \in Nat /\ i \in Nat
  OBVIOUS
<1>2. \A n \in i .. j : n = j \/ n \in i .. j - 1
  OBVIOUS
<1>3. ~IsInfix(j) /\ text[j] # Comma
  <2>1. text[j] \notin Infixes /\ text[j] # Comma
    BY TokenClasses, CommaIs
  <2> QED BY <1>1, <2>1, InfixIs
<1>4. Outermost(i, j) = {}
  <2>1. \A n \in i .. j : IsInfix(n) => Depth(i, n) # 0
    BY <1>2, <1>3
  <2> QED BY <1>1, <2>1, NoneOutermost
<1>5. Expr(i, j)
  <2>1. \A n \in i .. j : Depth(i, n) >= 0 /\ (text[n] = Comma => Depth(i, n) >= 1)
    BY <1>2, <1>3
  <2> QED BY <1>1, <2>1 DEF Expr
<1> QED BY <1>4, <1>5, ReadingIs

LEMMA LeafReads ==
  ASSUME text \in Seq(Terminals), NEW i \in 1 .. Len(text), text[i] \in Leaves
  PROVE  /\ Expr(i, i) /\ Outermost(i, i) = {}
         /\ RowsOfMySQL[<<i, i>>] = Row(text[i])
<1>1. i \in Int /\ i \in Nat \ {0} /\ i \in i .. Len(text) /\ i .. i - 1 = {}
  OBVIOUS
<1>2. ~IsInfix(i) /\ text[i] \in Enders
  BY DEF IsInfix, Infix, Leaves, Enders
<1>3. Depth(i, i) = 0
  BY <1>1, AddsIs, DepthOf, TokenClasses
<1>4. text[i] \notin Functions \cup {"NOT", "-", "!", "(", "INTERVAL", "EXTRACT"}
  BY DEF Leaves, Functions
<1>5. Expr(i, i) /\ Outermost(i, i) = {} /\ RowsOfMySQL[<<i, i>>] = ByFirst(RowsOfMySQL, i, i)
  BY <1>1, <1>2, <1>3, <1>4, Bracketed
<1>6. ByFirst(RowsOfMySQL, i, i) = Row(text[i])
  BY <1>4 DEF ByFirst
<1> QED BY <1>5, <1>6

LEMMA ParenthesesRead ==
  ASSUME text \in Seq(Terminals), NEW i \in Nat \ {0}, NEW j \in Nat, Expr(i + 1, j - 1), j <= Len(text),
         text[i] = "(", text[j] = ")"
  PROVE  /\ Expr(i, j) /\ Outermost(i, j) = {}
         /\ RowsOfMySQL[<<i, j>>] = RowsOfMySQL[<<i + 1, j - 1>>]
<1>1. i + 1 <= j - 1 /\ i \in Int /\ j \in Int /\ Len(text) \in Nat /\ j \in i .. Len(text)
  <2>1. i + 1 <= j - 1 /\ Len(text) \in Nat
    BY ExprIs
  <2> QED BY <2>1
<1>2. Depth(i, i) = 1
  <2>1. Adds(i) = 1
    BY AddsIs
  <2> QED BY <1>1, <2>1, DepthOf
<1>3. (\A n \in i + 1 .. j - 1 : Depth(i, n) >= 1) /\ Depth(i, j - 1) = 1
  <2>1. i + 1 - 1 = i /\ i <= i + 1
    BY <1>1
  <2>2. /\ \A n \in i + 1 .. j - 1 : Depth(i, n) >= Depth(i, i + 1 - 1)
        /\ Depth(i, j - 1) = Depth(i, i + 1 - 1)
    BY <2>1, DepthInside
  <2> QED BY <1>2, <2>1, <2>2
<1>4. Depth(i, j) = 0
  <2>1. Adds(j) = -1
    BY <1>1, AddsIs
  <2>2. Depth(i, j) = Depth(i, j - 1) + Adds(j)
    BY <1>1, DepthStep
  <2> QED BY <1>3, <2>1, <2>2
<1>5. \A n \in i .. j - 1 : n = i \/ n \in i + 1 .. j - 1
  BY <1>1
<1>6. \A n \in i .. j - 1 : Depth(i, n) >= 1 /\ Depth(i, n) >= 0
  <2>1. \A n \in i .. j - 1 : Depth(i, n) >= 1
    BY <1>2, <1>3, <1>5
  <2> QED BY <1>1, <2>1, DepthIsInt
<1>7. ~IsInfix(i) /\ text[j] \in Enders /\ text[i] # "NOT"
  BY DEF IsInfix, Infix, Enders
<1>8. /\ Expr(i, j) /\ Outermost(i, j) = {}
      /\ RowsOfMySQL[<<i, j>>] = ByFirst(RowsOfMySQL, i, j)
  BY <1>1, <1>4, <1>6, <1>7, Bracketed
<1>9. ByFirst(RowsOfMySQL, i, j) = RowsOfMySQL[<<i + 1, j - 1>>]
  BY DEF ByFirst, Functions
<1> QED BY <1>8, <1>9

LEMMA IntervalReads ==
  ASSUME text \in Seq(Terminals), NEW i \in Nat \ {0}, NEW j \in Nat, Expr(i + 1, j - 1), j <= Len(text),
         text[i] = "INTERVAL", text[j] \in Units
  PROVE  /\ Expr(i, j) /\ Outermost(i, j) = {}
         /\ RowsOfMySQL[<<i, j>>] =
              Row("INTERVAL") \o RowsOfMySQL[<<i + 1, j - 1>>] \o Row(text[j])
<1>1. i + 1 <= j - 1 /\ i \in Int /\ j \in Int /\ Len(text) \in Nat /\ j \in i .. Len(text)
  <2>1. i + 1 <= j - 1 /\ Len(text) \in Nat
    BY ExprIs
  <2> QED BY <2>1
<1>2. Depth(i, i) = 1
  <2>1. Adds(i) = 1
    BY AddsIs
  <2> QED BY <1>1, <2>1, DepthOf
<1>3. (\A n \in i + 1 .. j - 1 : Depth(i, n) >= 1) /\ Depth(i, j - 1) = 1
  <2>1. i + 1 - 1 = i /\ i <= i + 1
    BY <1>1
  <2>2. /\ \A n \in i + 1 .. j - 1 : Depth(i, n) >= Depth(i, i + 1 - 1)
        /\ Depth(i, j - 1) = Depth(i, i + 1 - 1)
    BY <2>1, DepthInside
  <2> QED BY <1>2, <2>1, <2>2
<1>4. Depth(i, j) = 0
  <2>1. text[j - 1] # "("
    BY DEF Expr, Enders, Leaves, Units
  <2>2. Adds(j) = -1
    BY <1>1, <2>1, AddsIs
  <2>3. Depth(i, j) = Depth(i, j - 1) + Adds(j)
    BY <1>1, DepthStep
  <2> QED BY <1>3, <2>2, <2>3
<1>5. \A n \in i .. j - 1 : n = i \/ n \in i + 1 .. j - 1
  BY <1>1
<1>6. \A n \in i .. j - 1 : Depth(i, n) >= 1 /\ Depth(i, n) >= 0
  <2>1. \A n \in i .. j - 1 : Depth(i, n) >= 1
    BY <1>2, <1>3, <1>5
  <2> QED BY <1>1, <2>1, DepthIsInt
<1>7. ~IsInfix(i) /\ text[j] \in Enders /\ text[i] # "NOT"
  BY DEF IsInfix, Infix, Enders
<1>8. /\ Expr(i, j) /\ Outermost(i, j) = {}
      /\ RowsOfMySQL[<<i, j>>] = ByFirst(RowsOfMySQL, i, j)
  BY <1>1, <1>4, <1>6, <1>7, Bracketed
<1>9. ByFirst(RowsOfMySQL, i, j) =
        Row("INTERVAL") \o RowsOfMySQL[<<i + 1, j - 1>>] \o Row(text[j])
  BY DEF ByFirst, Functions
<1> QED BY <1>8, <1>9

\* DATE_ADD(a .. c - 1, c + 1 .. j - 1).
LEMMA DateReads ==
  ASSUME text \in Seq(Terminals), NEW i \in Nat \ {0}, NEW c \in Nat, NEW j \in Nat,
         Expr(i + 2, c - 1), Expr(c + 1, j - 1), j <= Len(text),
         text[i] \in Functions, text[i + 1] = "(", text[c] = Comma, text[j] = ")"
  PROVE  /\ Expr(i, j) /\ Outermost(i, j) = {}
         /\ RowsOfMySQL[<<i, j>>] =
              Row(text[i]) \o RowsOfMySQL[<<i + 2, c - 1>>] \o RowsOfMySQL[<<c + 1, j - 1>>]
<1>1. /\ i + 2 <= c - 1 /\ c + 1 <= j - 1 /\ i \in Int /\ c \in Int /\ j \in Int /\ Len(text) \in Nat
      /\ j \in i .. Len(text)
  <2>1. i + 2 <= c - 1 /\ c + 1 <= j - 1 /\ Len(text) \in Nat
    BY ExprIs
  <2> QED BY <2>1
<1>2. Depth(i, i) = 0
  <2>1. Adds(i) = 0
    BY AddsIs, TokenClasses
  <2> QED BY <1>1, <2>1, DepthOf
<1>3. Depth(i, i + 1) = 1
  <2>1. Adds(i + 1) = 1
    BY AddsIs
  <2>2. Depth(i, i + 1) = Depth(i, i + 1 - 1) + Adds(i + 1)
    BY <1>1, DepthStep
  <2>3. i + 1 - 1 = i
    BY <1>1
  <2> QED BY <1>2, <2>1, <2>2, <2>3
<1>4. /\ \A n \in i + 2 .. c - 1 : Depth(i, n) >= 1 /\ (text[n] = Comma => Depth(i, n) > 1)
      /\ Depth(i, c - 1) = 1
  <2>1. PICK a, b : a = i + 2 /\ b = c - 1
    OBVIOUS
  <2>2. a - 1 = i + 1 /\ i <= a /\ Expr(a, b)
    BY <1>1, <2>1
  <2>3. /\ \A n \in a .. b : Depth(i, n) >= Depth(i, a - 1)
                             /\ (text[n] = Comma => Depth(i, n) > Depth(i, a - 1))
        /\ Depth(i, b) = Depth(i, a - 1)
    BY <2>2, DepthInside
  <2> QED BY <1>3, <2>1, <2>2, <2>3
<1>5. Depth(i, c) = 1
  <2>1. Adds(c) = 0
    BY <1>1, AddsIs, TokenClasses
  <2>2. Depth(i, c) = Depth(i, c - 1) + Adds(c)
    BY <1>1, DepthStep
  <2> QED BY <1>4, <2>1, <2>2
<1>6. /\ \A n \in c + 1 .. j - 1 : Depth(i, n) >= 1 /\ (text[n] = Comma => Depth(i, n) > 1)
      /\ Depth(i, j - 1) = 1
  <2>1. c + 1 - 1 = c /\ i <= c + 1 /\ c + 1 \in Int /\ j - 1 \in Int
    BY <1>1
  <2>2. /\ \A n \in c + 1 .. j - 1 : Depth(i, n) >= Depth(i, c + 1 - 1)
                                     /\ (text[n] = Comma => Depth(i, n) > Depth(i, c + 1 - 1))
        /\ Depth(i, j - 1) = Depth(i, c + 1 - 1)
    BY <2>1, DepthInside
  <2> QED BY <1>5, <2>1, <2>2
<1>7. Depth(i, j) = 0
  <2>1. Adds(j) = -1
    BY <1>1, AddsIs
  <2>2. Depth(i, j) = Depth(i, j - 1) + Adds(j)
    BY <1>1, DepthStep
  <2> QED BY <1>6, <2>1, <2>2
<1>8. \A n \in i .. j : n = i \/ n = i + 1 \/ n \in i + 2 .. c - 1 \/ n = c \/ n \in c + 1 .. j - 1 \/ n = j
  BY <1>1
<1>9. ~IsInfix(i) /\ text[j] \in Enders /\ text[i] # "NOT"
  BY DEF IsInfix, Infix, Enders, Functions
<1>10. text[i] # Comma /\ text[i + 1] # Comma /\ text[j] # Comma
  <2>1. Comma \notin Functions \cup {"(", ")"}
    BY Zenon DEF Functions, Comma
  <2> QED BY <2>1
<1>11. \A n \in i .. j - 1 : /\ Depth(i, n) >= 0
                             /\ IsInfix(n) \/ text[n] = Comma => Depth(i, n) >= 1
  <2>1. \A n \in i .. j - 1 : n = i \/ Depth(i, n) >= 1
    BY <1>1, <1>3, <1>4, <1>5, <1>6, <1>8
  <2>2. \A n \in i .. j - 1 : Depth(i, n) \in Int
    BY <1>1, DepthIsInt
  <2> QED BY <1>2, <1>9, <1>10, <2>1, <2>2
<1>12. /\ Expr(i, j) /\ Outermost(i, j) = {}
       /\ RowsOfMySQL[<<i, j>>] = ByFirst(RowsOfMySQL, i, j)
  BY <1>1, <1>7, <1>9, <1>11, Bracketed
<1>13. Commas(i, j) = {c}
  <2>1. \A n \in i .. j : text[n] = Comma /\ Depth(i, n) = 1 => n = c
    BY <1>4, <1>6, <1>8, <1>10, SMTT(30)
  <2>2. c \in i .. j
    BY <1>1
  <2> QED BY <1>5, <2>1, <2>2, CommaIs
<1>14. CommaOf(i, j) = c /\ Commas(i, j) # {}
  <2>1. CommaOf(i, j) \in Commas(i, j)
    BY <1>1, <1>13, OutermostIs
  <2> QED BY <1>13, <2>1
<1>15. ByFirst(RowsOfMySQL, i, j) =
         Row(text[i]) \o RowsOfMySQL[<<i + 2, c - 1>>] \o RowsOfMySQL[<<c + 1, j - 1>>]
  BY <1>14 DEF ByFirst, Functions
<1> QED BY <1>12, <1>15

\* EXTRACT(unit FROM i + 4 .. j - 1).
LEMMA ExtractReads ==
  ASSUME text \in Seq(Terminals), NEW i \in Nat \ {0}, NEW j \in Nat,
         Expr(i + 4, j - 1), j <= Len(text), text[i] = "EXTRACT", text[i + 1] = "(",
         text[i + 2] \in Units, text[i + 3] = "FROM", text[j] = ")"
  PROVE  /\ Expr(i, j) /\ Outermost(i, j) = {}
         /\ RowsOfMySQL[<<i, j>>] = Row("EXTRACT") \o Row(text[i + 2]) \o RowsOfMySQL[<<i + 4, j - 1>>]
<1>1. i + 4 <= j - 1 /\ i \in Int /\ j \in Int /\ Len(text) \in Nat /\ j \in i .. Len(text)
  <2>1. i + 4 <= j - 1 /\ Len(text) \in Nat
    BY ExprIs
  <2> QED BY <2>1
<1>2. Adds(i) = 0 /\ Adds(i + 1) = 1 /\ Adds(i + 2) = 0 /\ Adds(i + 3) = 0 /\ Adds(j) = -1
  <2>1. Adds(i) = 0 /\ Adds(i + 3) = 0
    BY AddsIs, TokenClasses, SMTT(30)
  <2>2. Adds(i + 1) = 1
    BY AddsIs
  <2>3. i + 2 - 1 = i + 1 /\ i + 2 > 1 /\ i + 2 \in Nat \ {0}
    BY <1>1
  <2>4. Adds(i + 2) = 0
    BY <2>3, AddsIs
  <2>5. Adds(j) = -1
    BY <1>1, AddsIs
  <2> QED BY <2>1, <2>2, <2>4, <2>5
<1>3. Depth(i, i) = 0 /\ Depth(i, i + 1) = 1 /\ Depth(i, i + 2) = 1 /\ Depth(i, i + 3) = 1
  <2>1. Depth(i, i) = 0
    BY <1>1, <1>2, DepthOf
  <2>2. i + 1 - 1 = i /\ i + 2 - 1 = i + 1 /\ i + 3 - 1 = i + 2
    BY <1>1
  <2>3. Depth(i, i + 1) = Depth(i, i + 1 - 1) + Adds(i + 1)
    BY <1>1, DepthStep
  <2>4. Depth(i, i + 2) = Depth(i, i + 2 - 1) + Adds(i + 2)
    BY <1>1, DepthStep
  <2>5. Depth(i, i + 3) = Depth(i, i + 3 - 1) + Adds(i + 3)
    BY <1>1, DepthStep
  <2> QED BY <1>2, <2>1, <2>2, <2>3, <2>4, <2>5
<1>4. (\A n \in i + 4 .. j - 1 : Depth(i, n) >= 1) /\ Depth(i, j - 1) = 1
  <2>1. i + 4 - 1 = i + 3 /\ i <= i + 4 /\ i + 4 \in Int /\ j - 1 \in Int
    BY <1>1
  <2>2. /\ \A n \in i + 4 .. j - 1 : Depth(i, n) >= Depth(i, i + 4 - 1)
        /\ Depth(i, j - 1) = Depth(i, i + 4 - 1)
    BY <2>1, DepthInside
  <2> QED BY <1>3, <2>1, <2>2
<1>5. Depth(i, j) = 0
  <2>1. Depth(i, j) = Depth(i, j - 1) + Adds(j)
    BY <1>1, DepthStep
  <2> QED BY <1>2, <1>4, <2>1
<1>6. \A n \in i .. j - 1 : n = i \/ n = i + 1 \/ n = i + 2 \/ n = i + 3 \/ n \in i + 4 .. j - 1
  BY <1>1
<1>7. ~IsInfix(i) /\ text[j] \in Enders /\ text[i] # "NOT"
  BY DEF IsInfix, Infix, Enders
<1>8. text[i] # Comma
  <2>1. Comma # "EXTRACT"
    BY Zenon DEF Comma
  <2> QED BY <2>1
<1>9. \A n \in i .. j - 1 : /\ Depth(i, n) >= 0
                            /\ IsInfix(n) \/ text[n] = Comma => Depth(i, n) >= 1
  <2>1. \A n \in i .. j - 1 : n = i \/ Depth(i, n) >= 1
    BY <1>3, <1>4, <1>6
  <2>2. \A n \in i .. j - 1 : Depth(i, n) \in Int
    BY <1>1, DepthIsInt
  <2> QED BY <1>3, <1>7, <1>8, <2>1, <2>2
<1>10. /\ Expr(i, j) /\ Outermost(i, j) = {}
       /\ RowsOfMySQL[<<i, j>>] = ByFirst(RowsOfMySQL, i, j)
  BY <1>1, <1>5, <1>7, <1>9, Bracketed
<1>11. ByFirst(RowsOfMySQL, i, j) = Row("EXTRACT") \o Row(text[i + 2]) \o RowsOfMySQL[<<i + 4, j - 1>>]
  <2>1. i + 2 <= j
    BY <1>1
  <2> QED BY <2>1 DEF ByFirst, Functions
<1> QED BY <1>10, <1>11

LEMMA LevelIs ==
  \A op \in Infixes : Strength(op) = Level(op) /\ Level(op) \in 1 .. 11 /\ Level(op) \in Int
<1>1. \A l \in 1 .. 11 : l \in Int
  OBVIOUS
<1> QED BY <1>1, StrengthIsLevel, Zenon

\* A prefix before an expression.
BehindPrefix(i, j) == Expr(i + 1, j) /\ text[i] \in Prefixes /\ ~IsInfix(i)
ReadsPrefix(i, j) ==
  /\ Expr(i, j) /\ Outermost(i, j) = Outermost(i + 1, j)
  /\ text[i] = "NOT" /\ Stronger(i + 1, j, 4) =>
       RowsOfMySQL[<<i, j>>] = Row("NOT") \o RowsOfMySQL[<<i + 1, j>>]
  /\ text[i] = "-" /\ Outermost(i + 1, j) = {} =>
       RowsOfMySQL[<<i, j>>] = Negated(RowsOfMySQL[<<i + 1, j>>])
  /\ text[i] = "!" /\ Outermost(i + 1, j) = {} =>
       RowsOfMySQL[<<i, j>>] = Row("!") \o RowsOfMySQL[<<i + 1, j>>]

LEMMA PrefixReads ==
  ASSUME text \in Seq(Terminals), NEW i \in Nat \ {0}, NEW j \in Nat, BehindPrefix(i, j)
  PROVE  ReadsPrefix(i, j)
<1> SUFFICES ASSUME Expr(i + 1, j), text[i] \in Prefixes, ~IsInfix(i)
             PROVE  ReadsPrefix(i, j)
  BY Zenon DEF BehindPrefix
<1>1. /\ i + 1 <= j /\ j <= Len(text) /\ Len(text) \in Nat /\ i \in Int /\ j \in Int /\ i \in Nat
      /\ i \in 1 .. Len(text) /\ j \in i .. Len(text) /\ j \in i + 1 .. j
  <2>1. i + 1 <= j /\ j <= Len(text) /\ Len(text) \in Nat
    BY ExprIs
  <2> QED BY <2>1
<1>2. Adds(i) = 0 /\ text[i] # Comma
  <2>1. Adds(i) = 0
    BY AddsIs, TokenClasses
  <2> QED BY <2>1, CommaIs
<1>3. \A n \in i .. j : n = i \/ n \in i + 1 .. j
  BY <1>1
<1>4. Depth(i, i) = 0
  BY <1>1, <1>2, DepthOf
<1>5. \A n \in i + 1 .. j : Depth(i, n) = Depth(i + 1, n)
  <2> SUFFICES ASSUME NEW n \in i + 1 .. j PROVE Depth(i, n) = Depth(i + 1, n)
    OBVIOUS
  <2>1. n \in Int /\ i <= n /\ i + 1 \in Int
    BY <1>1
  <2>2. Depth(i, n) = Adds(i) + Depth(i + 1, n) /\ Depth(i + 1, n) \in Int
    BY <1>1, <2>1, DepthStep
  <2> QED BY <1>2, <2>2
<1>6. Expr(i, j)
  <2>1. /\ Depth(i + 1, j) = 0 /\ text[j] \in Enders
        /\ \A n \in i + 1 .. j : Depth(i + 1, n) >= 0 /\ (text[n] = Comma => Depth(i + 1, n) >= 1)
    BY DEF Expr
  <2>2. \A n \in i .. j : Depth(i, n) >= 0 /\ (text[n] = Comma => Depth(i, n) >= 1)
    BY <1>2, <1>3, <1>4, <1>5, <2>1
  <2>3. Depth(i, j) = 0
    BY <1>1, <1>5, <2>1
  <2> QED BY <1>1, <2>1, <2>2, <2>3 DEF Expr
<1>7. Outermost(i, j) = Outermost(i + 1, j)
  <2>1. \A n : n \in i .. j /\ IsInfix(n) /\ Depth(i, n) = 0
               <=> n \in i + 1 .. j /\ IsInfix(n) /\ Depth(i + 1, n) = 0
    <3>1. \A n : n \in i + 1 .. j => n \in i .. j
      BY <1>1
    <3> QED BY <1>3, <1>5, <3>1
  <2> QED BY <2>1 DEF Outermost
<1>8. /\ LeadsNot(i, j) => RowsOfMySQL[<<i, j>>] = Row("NOT") \o RowsOfMySQL[<<i + 1, j>>]
      /\ Outermost(i, j) = {} /\ text[i] # "NOT" =>
           RowsOfMySQL[<<i, j>>] = ByFirst(RowsOfMySQL, i, j)
  BY <1>6, ReadingIs
<1>9. text[i] = "NOT" /\ Stronger(i + 1, j, 4) => LeadsNot(i, j)
  <2>1. \A n \in Outermost(i, j) : text[n] \in Infixes
    BY <1>1, OutermostIs
  <2> QED BY <1>7, <2>1, StrengthIsLevel DEF Stronger, LeadsNot
<1>10. /\ text[i] = "-" => ByFirst(RowsOfMySQL, i, j) = Negated(RowsOfMySQL[<<i + 1, j>>])
       /\ text[i] = "!" => ByFirst(RowsOfMySQL, i, j) = Row("!") \o RowsOfMySQL[<<i + 1, j>>]
  BY DEF ByFirst, Functions
<1> QED BY <1>6, <1>7, <1>8, <1>9, <1>10 DEF ReadsPrefix

\* An infix operator m behind an expression.
LEMMA BehindExpression ==
  ASSUME text \in Seq(Terminals), NEW i, NEW m \in Nat, Expr(i, m - 1), text[m] \in Infixes
  PROVE  /\ IsInfix(m) /\ Depth(i, m) = 0 /\ i < m /\ i \in Nat \ {0}
         /\ \A n \in i .. m : n = m \/ n \in i .. m - 1
<1>1. i <= m - 1 /\ i \in Nat \ {0} /\ i \in Int /\ m \in Int
  BY ExprIs
<1>2. text[m - 1] \in Enders /\ Depth(i, m - 1) = 0
  BY DEF Expr
<1>3. IsInfix(m)
  BY <1>1, <1>2, InfixIs
<1>4. Depth(i, m) = 0
  <2>1. m \in Nat \ {0} /\ i <= m
    BY <1>1
  <2>2. Adds(m) = 0
    BY <2>1, AddsIs, TokenClasses
  <2>3. Depth(i, m) = Depth(i, m - 1) + Adds(m)
    BY <1>1, <2>1, DepthStep
  <2> QED BY <1>2, <2>2, <2>3
<1> QED BY <1>1, <1>3, <1>4

\* Two operands and the operator m between them.
AroundOperator(i, m, j) ==
  /\ Expr(i, m - 1) /\ Expr(m + 1, j) /\ text[m] \in Infix
  /\ Binds(i, m - 1, Level(text[m])) /\ Stronger(m + 1, j, Level(text[m]))
ReadsAround(i, m, j) ==
  /\ Expr(i, j)
  /\ Outermost(i, j) = Outermost(i, m - 1) \cup {m} \cup Outermost(m + 1, j)
  /\ RowsOfMySQL[<<i, j>>] = Row(text[m]) \o RowsOfMySQL[<<i, m - 1>>] \o RowsOfMySQL[<<m + 1, j>>]

LEMMA InfixReads ==
  ASSUME text \in Seq(Terminals), NEW i, NEW m \in Nat, NEW j, AroundOperator(i, m, j)
  PROVE  ReadsAround(i, m, j)
<1>0. /\ Expr(i, m - 1) /\ Expr(m + 1, j) /\ text[m] \in Infix
      /\ Binds(i, m - 1, Level(text[m])) /\ Stronger(m + 1, j, Level(text[m]))
  BY DEF AroundOperator
<1> USE <1>0
<1>1. text[m] \in Infixes /\ text[m] # "IS"
  BY DEF Infixes, Infix
<1>2. /\ IsInfix(m) /\ Depth(i, m) = 0 /\ i < m /\ i \in Nat \ {0} /\ i \in Int /\ i \in Nat
      /\ \A n \in i .. m : n = m \/ n \in i .. m - 1
  <2>1. /\ IsInfix(m) /\ Depth(i, m) = 0 /\ i < m /\ i \in Nat \ {0}
        /\ \A n \in i .. m : n = m \/ n \in i .. m - 1
    BY <1>1, BehindExpression, Zenon
  <2> QED BY <2>1
<1>3. /\ m + 1 <= j /\ j <= Len(text) /\ Len(text) \in Nat /\ j \in Int /\ j \in Nat /\ j \in m + 1 .. j
      /\ i \in 1 .. Len(text) /\ j \in i .. Len(text)
  <2>1. m + 1 <= j /\ j <= Len(text) /\ Len(text) \in Nat /\ j \in Int
    BY ExprIs
  <2> QED BY <1>2, <2>1
<1>4. \A n \in i .. j : n \in i .. m - 1 \/ n = m \/ n \in m + 1 .. j
  BY <1>2, <1>3
<1>5. \A n \in m + 1 .. j : Depth(i, n) = Depth(m + 1, n)
  <2> SUFFICES ASSUME NEW n \in m + 1 .. j PROVE Depth(i, n) = Depth(m + 1, n)
    OBVIOUS
  <2>1. n \in Int /\ m <= n /\ m + 1 \in Int /\ i <= m + 1 /\ m \in Int
    BY <1>2, <1>3
  <2>2. Depth(i, n) = Depth(i, m) + Depth(m + 1, n) /\ Depth(m + 1, n) \in Int
    BY <1>2, <2>1, DepthStep
  <2> QED BY <1>2, <2>2
<1>6. Expr(i, j)
  <2>1. /\ ~IsInfix(i)
        /\ \A n \in i .. m - 1 : Depth(i, n) >= 0 /\ (text[n] = Comma => Depth(i, n) >= 1)
    BY DEF Expr
  <2>2. /\ Depth(m + 1, j) = 0 /\ text[j] \in Enders
        /\ \A n \in m + 1 .. j : Depth(m + 1, n) >= 0 /\ (text[n] = Comma => Depth(m + 1, n) >= 1)
    BY DEF Expr
  <2>3. text[m] # Comma
    BY <1>1, CommaIs
  <2>4. \A n \in i .. j : Depth(i, n) >= 0 /\ (text[n] = Comma => Depth(i, n) >= 1)
    BY <1>2, <1>4, <1>5, <2>1, <2>2, <2>3
  <2>5. Depth(i, j) = 0
    BY <1>3, <1>5, <2>2
  <2> QED BY <1>3, <2>1, <2>2, <2>4, <2>5 DEF Expr
<1>7. Outermost(i, j) = Outermost(i, m - 1) \cup {m} \cup Outermost(m + 1, j)
  <2>1. \A n : n \in i .. j /\ IsInfix(n) /\ Depth(i, n) = 0 <=>
               \/ n \in i .. m - 1 /\ IsInfix(n) /\ Depth(i, n) = 0
               \/ n = m
               \/ n \in m + 1 .. j /\ IsInfix(n) /\ Depth(m + 1, n) = 0
    <3>1. (\A n : n \in i .. m - 1 => n \in i .. j) /\ (\A n : n \in m + 1 .. j => n \in i .. j) /\ m \in i .. j
      BY <1>2, <1>3
    <3> QED BY <1>2, <1>4, <1>5, <3>1
  <2> QED BY <2>1 DEF Outermost
<1>8. \A n \in Outermost(i, j) : text[n] \in Infixes /\ n \in Nat
  <2>1. \A n \in i .. j : n \in Nat
    BY <1>2
  <2> QED BY <1>2, <1>3, <2>1, OutermostIs
<1>9. IsLast(m, i, j)
  <2>1. \A n \in Outermost(i, m - 1) : Level(text[m]) <= Level(text[n]) /\ n <= m
    <3>1. Outermost(i, m - 1) \subseteq i .. m - 1
      BY DEF Outermost
    <3>2. \A n \in i .. m - 1 : n <= m
      BY <1>2
    <3>3. \A n \in Outermost(i, m - 1) : Level(text[n]) >= Level(text[m])
      BY DEF Binds
    <3>4. \A n \in Outermost(i, m - 1) : Level(text[n]) \in Int /\ Level(text[m]) \in Int
      BY <1>1, <1>7, <1>8, LevelIs, Zenon
    <3> QED BY <3>1, <3>2, <3>3, <3>4
  <2>2. \A n \in Outermost(m + 1, j) : Level(text[m]) < Level(text[n])
    <3>1. \A n \in Outermost(m + 1, j) : Level(text[n]) > Level(text[m])
      BY DEF Stronger
    <3>2. \A n \in Outermost(m + 1, j) : Level(text[n]) \in Int /\ Level(text[m]) \in Int
      BY <1>1, <1>7, <1>8, LevelIs, Zenon
    <3> QED BY <3>1, <3>2
  <2>3. \A n \in Outermost(i, j) : /\ Strength(text[n]) = Level(text[n]) /\ Strength(text[m]) = Level(text[m])
                                   /\ Level(text[n]) \in Int /\ Level(text[m]) \in Int
    BY <1>1, <1>8, LevelIs, Zenon
  <2>4. AppliedLast(m, Outermost(i, j))
    BY <1>7, <2>1, <2>2, <2>3 DEF AppliedLast
  <2> QED BY <1>7, <2>4 DEF IsLast
<1>10. ~LeadsNot(i, j)
  <2>1. text[i] = "NOT" => Level(text[m]) <= 4
    BY DEF Binds
  <2>2. Strength(text[m]) = Level(text[m]) /\ Level(text[m]) \in 1 .. 11 /\ Level(text[m]) # 4 /\ Strength("NOT") = 4
    BY <1>1, StrengthIsLevel
  <2>3. LeadsNot(i, j) => text[i] = "NOT" /\ Strength(text[m]) > Strength("NOT")
    BY <1>7 DEF LeadsNot
  <2> QED BY <2>1, <2>2, <2>3
<1>11. RowsOfMySQL[<<i, j>>] = AroundInfix(RowsOfMySQL, i, j, m)
  BY <1>6, <1>9, <1>10, ReadingIs
<1>12. AroundInfix(RowsOfMySQL, i, j, m) =
         Row(text[m]) \o RowsOfMySQL[<<i, m - 1>>] \o RowsOfMySQL[<<m + 1, j>>]
  BY <1>1 DEF AroundInfix
<1> QED BY <1>6, <1>7, <1>11, <1>12 DEF ReadsAround

\* IS NULL and IS NOT NULL behind an expression.
BehindIs(i, m, j) ==
  /\ Expr(i, m - 1) /\ text[m] = "IS" /\ Binds(i, m - 1, 5)
  /\ j = m + 1 \/ (j = m + 2 /\ text[m + 1] = "NOT")
  /\ text[j] = "NULL" /\ j <= Len(text)
ReadsIs(i, m, j) ==
  /\ Expr(i, j) /\ Outermost(i, j) = Outermost(i, m - 1) \cup {m}
  /\ RowsOfMySQL[<<i, j>>] =
       Row("IS") \o RowsOfMySQL[<<i, m - 1>>] \o Row(IF j = m + 1 THEN "NULL" ELSE "NOT_NULL")

LEMMA IsReads ==
  ASSUME text \in Seq(Terminals), NEW i, NEW m \in Nat, NEW j \in Nat, BehindIs(i, m, j)
  PROVE  ReadsIs(i, m, j)
<1>0. /\ Expr(i, m - 1) /\ text[m] = "IS" /\ Binds(i, m - 1, 5)
      /\ j = m + 1 \/ (j = m + 2 /\ text[m + 1] = "NOT")
      /\ text[j] = "NULL" /\ j <= Len(text)
  BY DEF BehindIs
<1> USE <1>0
<1>1. text[m] \in Infixes /\ Level(text[m]) = 5
  BY StrengthIsLevel DEF Infixes, Level
<1>2. /\ IsInfix(m) /\ Depth(i, m) = 0 /\ i < m /\ i \in Nat \ {0} /\ i \in Int /\ i \in Nat /\ m \in Int
      /\ \A n \in i .. m : n = m \/ n \in i .. m - 1
  <2>1. /\ IsInfix(m) /\ Depth(i, m) = 0 /\ i < m /\ i \in Nat \ {0}
        /\ \A n \in i .. m : n = m \/ n \in i .. m - 1
    BY <1>1, BehindExpression, Zenon
  <2> QED BY <2>1
<1>3. i \in 1 .. Len(text) /\ j \in i .. Len(text) /\ j \in m + 1 .. j /\ j \in Int
  <2>1. Len(text) \in Nat
    OBVIOUS
  <2> QED BY <1>2, <2>1
<1>4. \A n \in i .. j : n \in i .. m - 1 \/ n = m \/ n \in m + 1 .. j
  BY <1>2, <1>3
<1>5. \A n \in m + 1 .. j : /\ text[n] \in {"NOT", "NULL"} /\ n \in Nat \ {0} /\ n \in Int
                            /\ n = j \/ (n = m + 1 /\ j = m + 2)
  BY <1>2
<1>6. \A n \in m + 1 .. j : text[n] # Comma /\ ~IsInfix(n) /\ Adds(n) = 0
  <2> SUFFICES ASSUME NEW n \in m + 1 .. j PROVE text[n] # Comma /\ ~IsInfix(n) /\ Adds(n) = 0
    OBVIOUS
  <2>1. text[n] # Comma
    BY <1>5, CommaIs
  <2>2. ~IsInfix(n)
    BY <1>5 DEF IsInfix, Infix
  <2>3. Adds(n) = 0
    BY <1>5, AddsIs, TokenClasses DEF Prefixes
  <2> QED BY <2>1, <2>2, <2>3
<1>7. \A n \in m + 1 .. j : Depth(i, n) = 0
  <2>1. Depth(i, m + 1) = 0
    <3>1. m + 1 \in Int /\ i <= m + 1 /\ m + 1 \in m + 1 .. j /\ m + 1 - 1 = m
      BY <1>2, <1>3
    <3>2. Depth(i, m + 1) = Depth(i, m + 1 - 1) + Adds(m + 1)
      BY <1>2, <3>1, DepthStep
    <3> QED BY <1>2, <1>6, <3>1, <3>2
  <2>2. j = m + 2 => Depth(i, m + 2) = 0
    <3>1. m + 2 \in Int /\ i <= m + 2 /\ m + 2 - 1 = m + 1
      BY <1>2, <1>3
    <3>2. Depth(i, m + 2) = Depth(i, m + 2 - 1) + Adds(m + 2)
      BY <1>2, <3>1, DepthStep
    <3> QED BY <1>3, <1>6, <2>1, <3>1, <3>2
  <2> QED BY <1>5, <2>1, <2>2
<1>8. Expr(i, j)
  <2>1. /\ ~IsInfix(i)
        /\ \A n \in i .. m - 1 : Depth(i, n) >= 0 /\ (text[n] = Comma => Depth(i, n) >= 1)
    BY DEF Expr
  <2>2. text[m] # Comma
    BY <1>1, CommaIs
  <2>3. \A n \in i .. j : Depth(i, n) >= 0 /\ (text[n] = Comma => Depth(i, n) >= 1)
    BY <1>2, <1>4, <1>6, <1>7, <2>1, <2>2
  <2>4. Depth(i, j) = 0 /\ text[j] \in Enders
    BY <1>3, <1>7 DEF Enders
  <2> QED BY <1>3, <2>1, <2>3, <2>4 DEF Expr
<1>9. Outermost(i, j) = Outermost(i, m - 1) \cup {m}
  <2>1. \A n : n \in i .. j /\ IsInfix(n) /\ Depth(i, n) = 0 <=>
               \/ n \in i .. m - 1 /\ IsInfix(n) /\ Depth(i, n) = 0
               \/ n = m
    <3>1. (\A n : n \in i .. m - 1 => n \in i .. j) /\ m \in i .. j
      BY <1>2, <1>3
    <3> QED BY <1>2, <1>4, <1>6, <3>1
  <2> QED BY <2>1 DEF Outermost
<1>10. \A n \in Outermost(i, j) : text[n] \in Infixes /\ n \in Nat
  <2>1. \A n \in i .. j : n \in Nat
    BY <1>2
  <2> QED BY <1>2, <1>3, <2>1, OutermostIs
<1>11. IsLast(m, i, j)
  <2>1. Outermost(i, m - 1) \subseteq i .. m - 1
    BY DEF Outermost
  <2>2. \A n \in i .. m - 1 : n <= m
    BY <1>2
  <2>3. \A n \in Outermost(i, m - 1) : Level(text[n]) >= 5
    BY DEF Binds
  <2>4. \A n \in Outermost(i, j) : Strength(text[n]) = Level(text[n]) /\ Strength(text[m]) = 5 /\ Level(text[n]) \in Int
    BY <1>1, <1>10, LevelIs, StrengthIsLevel, Zenon
  <2>5. AppliedLast(m, Outermost(i, j))
    BY <1>2, <1>9, <2>1, <2>2, <2>3, <2>4 DEF AppliedLast
  <2> QED BY <1>9, <2>5 DEF IsLast
<1>12. ~LeadsNot(i, j)
  <2>1. text[i] # "NOT"
    BY DEF Binds
  <2> QED BY <2>1 DEF LeadsNot
<1>13. RowsOfMySQL[<<i, j>>] = AroundInfix(RowsOfMySQL, i, j, m)
  BY <1>8, <1>11, <1>12, ReadingIs
<1>14. AroundInfix(RowsOfMySQL, i, j, m) = Row("IS") \o RowsOfMySQL[<<i, m - 1>>] \o NullRow(m, j)
  BY DEF AroundInfix
<1>15. NullRow(m, j) = Row(IF j = m + 1 THEN "NULL" ELSE "NOT_NULL")
  <2>1. CASE j = m + 1
    <3>1. text[m + 1] # "NOT"
      BY <2>1
    <3> QED BY <2>1, <3>1 DEF NullRow
  <2>2. CASE j = m + 2 /\ text[m + 1] = "NOT"
    <3>1. m < j /\ j # m + 1
      BY <2>2
    <3> QED BY <2>2, <3>1 DEF NullRow
  <2> QED BY <2>1, <2>2
<1> QED BY <1>8, <1>9, <1>13, <1>14, <1>15 DEF ReadsIs

-----------------------------------------------------------------------------
(* What was read as an expression stays one                                  *)

\* An expression no operator that follows can take apart, but for one that MySQL
\* does not have behind IS NULL.
Quiet(i, j) ==
  /\ text[i] # "NOT"
  /\ Outermost(i, j) = {} \/ (text[j] = "NULL" /\ Binds(i, j, 5))

\* Tokens i .. j are an expression, and the tree p is printed as MySQL reads it.
AsMySQL(i, j, p) == Expr(i, j) /\ print[p] = RowsOfMySQL[<<i, j>>]

\* Tokens are read, and nodes are added.
Extends ==
  /\ Grows /\ NodesOK /\ NodesOK' /\ Len(nodes) <= Len(nodes')
  /\ \A p \in 1 .. Len(nodes) : nodes'[p] = nodes[p]

LEMMA SpanStays ==
  ASSUME Grows, NEW i, NEW j, Expr(i, j)
  PROVE  /\ Expr(i, j)' /\ RowsOfMySQL'[<<i, j>>] = RowsOfMySQL[<<i, j>>]
         /\ \A l : Stronger(i, j, l) => Stronger(i, j, l)'
         /\ \A l : Binds(i, j, l) => Binds(i, j, l)'
         /\ Quiet(i, j) => Quiet(i, j)'
<1>1. text \in Seq(Terminals)
  BY DEF Grows
<1>2. /\ i \in Nat \ {0} /\ i \in Int /\ j \in Int /\ j \in Nat /\ i <= j /\ j <= Len(text) /\ Len(text) \in Nat
      /\ \A n \in i .. j : n \in Nat \ {0} /\ n \in Int
  BY <1>1, ExprIs
<1>3. /\ i \in 1 .. Len(text) /\ j \in 1 .. Len(text) /\ j \in 0 .. Len(text) /\ i \in 1 .. Len(text) + 4
      /\ \A n \in i .. j : n \in 1 .. Len(text) /\ n \in 0 .. Len(text)
  BY <1>2
<1>4. /\ \A n \in i .. j : text'[n] = text[n] /\ Depth(i, n)' = Depth(i, n)
      /\ text'[i] = text[i] /\ text'[j] = text[j] /\ Depth(i, j)' = Depth(i, j)
  <2>1. \A n \in 1 .. Len(text) : text'[n] = text[n]
    BY DEF Grows
  <2>2. \A n \in i .. j : Depth(i, n)' = Depth(i, n)
    BY <1>2, <1>3, TextStays, Zenon
  <2>3. Depth(i, j)' = Depth(i, j)
    BY <1>2, <1>3, TextStays, Zenon
  <2> QED BY <1>3, <2>1, <2>2, <2>3
<1>5. Outermost(i, j)' = Outermost(i, j) /\ (IsInfix(i)' <=> IsInfix(i))
  BY <1>2, <1>3, TextStays, Zenon
<1>6. \A n \in Outermost(i, j) : text'[n] = text[n]
  BY <1>4 DEF Outermost
<1>7. Expr(i, j)'
  <2>1. i \in 1 .. Len(text') /\ j \in i .. Len(text')
    <3>1. Len(text) <= Len(text') /\ Len(text') \in Nat
      BY DEF Grows
    <3> QED BY <1>2, <3>1
  <2>2. /\ Depth(i, j) = 0 /\ ~IsInfix(i) /\ text[j] \in Enders
        /\ \A n \in i .. j : Depth(i, n) >= 0 /\ (text[n] = Comma => Depth(i, n) >= 1)
    BY DEF Expr
  <2>3. /\ Depth(i, j)' = 0 /\ ~IsInfix(i)' /\ text'[j] \in Enders
        /\ \A n \in i .. j : Depth(i, n)' >= 0 /\ (text'[n] = Comma => Depth(i, n)' >= 1)
    BY <1>4, <1>5, <2>2
  <2> QED BY <2>1, <2>3 DEF Expr
<1>8. RowsOfMySQL'[<<i, j>>] = RowsOfMySQL[<<i, j>>]
  BY <1>3, RowsStay
<1>9. \A l : Stronger(i, j, l) => Stronger(i, j, l)'
  BY <1>5, <1>6 DEF Stronger
<1>10. \A l : Binds(i, j, l) => Binds(i, j, l)'
  BY <1>4, <1>5, <1>6 DEF Binds
<1>11. Quiet(i, j) => Quiet(i, j)'
  BY <1>4, <1>5, <1>10 DEF Quiet
<1> QED BY <1>7, <1>8, <1>9, <1>10, <1>11

LEMMA AsMySQLStays ==
  ASSUME Extends, NEW i, NEW j, NEW p \in 1 .. Len(nodes), AsMySQL(i, j, p)
  PROVE  AsMySQL(i, j, p)'
<1>1. print'[p] = print[p]
  BY PrintStays DEF Extends
<1>2. Expr(i, j)' /\ RowsOfMySQL'[<<i, j>>] = RowsOfMySQL[<<i, j>>]
  BY SpanStays DEF Extends, AsMySQL
<1> QED BY <1>1, <1>2 DEF AsMySQL

\* What MySQL does not have, or reads otherwise, is not mended by what follows.
LEMMA ExceptionsStay ==
  ASSUME Grows
  PROVE  NotInMySQL \/ NegatesProduct => NotInMySQL' \/ NegatesProduct'
<1>1. /\ text \in Seq(Terminals) /\ text' \in Seq(Terminals) /\ Len(text) <= Len(text')
      /\ \A k \in 1 .. Len(text) : text'[k] = text[k]
  BY DEF Grows
<1>2. DOMAIN text = 1 .. Len(text) /\ DOMAIN text' = 1 .. Len(text') /\ Len(text) \in Nat /\ Len(text') \in Nat
  BY <1>1
<1>3. \A S : \A k : k \in Tokens(S) <=> k \in 1 .. Len(text) /\ text[k] \in S
  BY <1>2 DEF Tokens
<1>4. \A S : \A k : k \in Tokens(S)' <=> k \in 1 .. Len(text') /\ text'[k] \in S
  BY <1>2 DEF Tokens
<1>5. \A S : \A k \in Tokens(S) : k \in Tokens(S)'
  BY <1>1, <1>2, <1>3, <1>4
<1>6. ASSUME NotInMySQL PROVE NotInMySQL'
  <2>1. CASE \E k \in Tokens({"NOT"}) : k > 1 /\ text[k - 1] \in (Infix \cup {"!"}) \ {"OR", "XOR", "AND"}
    <3>1. PICK k \in Tokens({"NOT"}) : k > 1 /\ text[k - 1] \in (Infix \cup {"!"}) \ {"OR", "XOR", "AND"}
      BY <2>1
    <3>2. k \in 1 .. Len(text)
      BY <1>3
    <3>3. k - 1 \in 1 .. Len(text)
      BY <1>2, <3>1, <3>2
    <3>4. text'[k - 1] = text[k - 1] /\ k \in Tokens({"NOT"})'
      BY <1>1, <1>5, <3>3
    <3>5. \E n \in Tokens({"NOT"})' : n > 1 /\ text'[n - 1] \in (Infix \cup {"!"}) \ {"OR", "XOR", "AND"}
      BY <3>1, <3>4, Zenon
    <3> QED BY <3>5, Zenon DEF NotInMySQL
  <2>2. CASE \E k \in Tokens({"NULL"}) :
               k < Len(text) /\ text[k + 1] \in Infix /\ Strength(text[k + 1]) > Strength("IS")
    <3>1. PICK k \in Tokens({"NULL"}) :
               k < Len(text) /\ text[k + 1] \in Infix /\ Strength(text[k + 1]) > Strength("IS")
      BY <2>2
    <3>2. k \in 1 .. Len(text)
      BY <1>3
    <3>3. k + 1 \in 1 .. Len(text) /\ k < Len(text')
      BY <1>1, <1>2, <3>1, <3>2
    <3>4. text'[k + 1] = text[k + 1] /\ k \in Tokens({"NULL"})'
      BY <1>1, <1>5, <3>3
    <3>5. \E n \in Tokens({"NULL"})' :
            n < Len(text') /\ text'[n + 1] \in Infix /\ Strength(text'[n + 1]) > Strength("IS")
      BY <3>1, <3>3, <3>4, Zenon
    <3> QED BY <3>5, Zenon DEF NotInMySQL
  <2> QED BY <1>6, <2>1, <2>2, Zenon DEF NotInMySQL
<1>7. ASSUME NegatesProduct PROVE NegatesProduct'
  <2>1. PICK i \in DOMAIN text, j \in DOMAIN text :
               i < j /\ text[i] = "-" /\ ~IsInfix(i) /\ text[j] \in {"*", "/", "%", "^"}
    BY <1>7 DEF NegatesProduct
  <2>2. i \in DOMAIN text' /\ j \in DOMAIN text' /\ i \in 1 .. Len(text) /\ j \in 1 .. Len(text)
    BY <1>1, <1>2
  <2>3. text'[i] = text[i] /\ text'[j] = text[j] /\ ~IsInfix(i)'
    BY <1>1, <2>1, <2>2, TextStays
  <2> QED BY <2>1, <2>2, <2>3 DEF NegatesProduct
<1> QED BY <1>6, <1>7

-----------------------------------------------------------------------------
(* Where the symbols on the stack come from                                  *)

Read == IF look \in {"NONE", "END"} THEN Len(text) ELSE Len(text) - 1
Openings == {"DATE_ADD(", "DATE_SUB(", "EXTRACT("}
Closers == Leaves \cup {")", "NULL"}

\* The token a symbol was.
TokenOf(sym, t) ==
  CASE sym = "unit" -> t \in Units
    [] sym = "IS_NOT" -> t = "NOT"
    [] sym \in Openings -> t = "("
    [] OTHER -> t = sym /\ t \notin Units

\* Symbol m of s continues a production that symbols before it begin.
Viable(s, m) ==
  \E q \in Productions : \E n \in 1 .. Len(q) :
    n <= m /\ \A k \in 1 .. n : s[m - n + k].sym = q[k]

\* Symbol m of s stands behind the one before it, in the text as well.
Chained(s, m) ==
  /\ 1 <= s[m].begin /\ s[m].begin <= s[m].end
  /\ s[m].sym # "E" => s[m].begin = s[m].end /\ Viable(s, m)
  /\ m < Len(s) => /\ s[m + 1].begin = s[m].end + 1
                   /\ s[m].sym \notin Closers /\ (s[m].sym = "unit" => s[m + 1].sym = "FROM")

\* A symbol was read from the text.
Lies(e) ==
  /\ e.end <= Read
  /\ e.sym # "E" => TokenOf(e.sym, text[e.begin])
  /\ e.sym = "unit" => e.val = text[e.begin]

\* The stack is what was read, symbol behind symbol.
Placed ==
  /\ look \notin {"NONE", "END"} => Len(text) > 0 /\ text[Len(text)] = look
  /\ IF stack = <<>> THEN Read = 0 ELSE stack[1].begin = 1 /\ stack[Len(stack)].end = Read
  /\ \A m \in 1 .. Len(stack) : Chained(stack, m) /\ Lies(stack[m])

-----------------------------------------------------------------------------
(* What stands where in a production                                         *)

Function(f) == <<f, Opening(f), "E", Comma, "E", ")">>

LEMMA OpeningIs == \A f \in Functions \cup {"EXTRACT"} : Opening(f) \in Openings
  BY DEF Functions, Opening, Openings

LEMMA ProductionsAreAll ==
  ASSUME NEW q \in Productions
  PROVE  \/ \E leaf \in Leaves : q = <<leaf>>
         \/ \E op \in Infix : q = <<"E", op, "E">>
         \/ \E op \in Prefixes : q = <<op, "E">>
         \/ \E f \in Functions : q = Function(f)
         \/ q = <<"(", "E", ")">> \/ q = <<"E", "IS", "NULL">> \/ q = <<"E", "IS", "IS_NOT", "NULL">>
         \/ q = <<"INTERVAL", "E", "unit">> \/ q = <<"EXTRACT", "EXTRACT(", "unit", "FROM", "E", ")">>
  BY Zenon DEF Productions, Function, Functions, Comma, Prefixes

LEMMA ProductionsContain ==
  /\ \A leaf \in Leaves : <<leaf>> \in Productions
  /\ \A op \in Infix : <<"E", op, "E">> \in Productions
  /\ \A op \in Prefixes : <<op, "E">> \in Productions
  BY Zenon DEF Productions, Prefixes

\* What may follow a symbol in a production.
LEMMA ProductionsGoOn ==
  ASSUME NEW q \in Productions, NEW n \in 1 .. Len(q)
  PROVE  /\ q[n] \in Closers => n = Len(q)
         /\ q[n] = "unit" /\ n < Len(q) => q[n + 1] = "FROM"
         /\ q[1] # "FROM"
         /\ q[n] \in Infix \cup Prefixes => \/ n = 2 /\ q = <<"E", q[n], "E">>
                                            \/ n = 1 /\ q = <<q[n], "E">>
         /\ q[n] \in {"IS", "IS_NOT"} => n < Len(q) /\ q[1] = "E" /\ q[2] = "IS"
         /\ q[n] \in Symbols
<1>1. CASE \E leaf \in Leaves : q = <<leaf>>
  <2>1. PICK leaf \in Leaves : q = <<leaf>>
    BY <1>1
  <2>2. n = 1 /\ Len(q) = 1 /\ q[1] = leaf
    BY <2>1
  <2>3. leaf \notin Infix \cup Prefixes \cup {"unit", "FROM", "IS", "IS_NOT"}
    BY DEF Leaves, Infix, Prefixes
  <2>4. leaf \in Symbols
    BY Zenon DEF Symbols, Terminals
  <2> QED BY <2>2, <2>3, <2>4
<1>2. CASE \E op \in Infix : q = <<"E", op, "E">>
  <2>1. PICK op \in Infix : q = <<"E", op, "E">>
    BY <1>2
  <2>2. Len(q) = 3 /\ q[1] = "E" /\ q[2] = op /\ q[3] = "E" /\ n \in 1 .. 3
    BY <2>1
  <2>3. op \notin Closers \cup {"unit", "IS", "IS_NOT", "E"}
    BY DEF Leaves, Infix, Closers
  <2>4. "E" \notin Closers \cup Infix \cup Prefixes \cup {"unit", "FROM", "IS", "IS_NOT"}
    BY DEF Closers, Leaves, Infix, Prefixes
  <2>5. op \in Symbols /\ "E" \in Symbols
    BY Zenon DEF Symbols, Terminals
  <2>6. n = 1 \/ n = 2 \/ n = 3
    BY <2>2
  <2> QED BY <2>1, <2>2, <2>3, <2>4, <2>5, <2>6
<1>3. CASE \E op \in Prefixes : q = <<op, "E">>
  <2>1. PICK op \in Prefixes : q = <<op, "E">>
    BY <1>3
  <2>2. Len(q) = 2 /\ q[1] = op /\ q[2] = "E" /\ n \in 1 .. 2
    BY <2>1
  <2>3. op \notin Closers \cup {"unit", "IS", "IS_NOT", "E", "FROM"}
    BY DEF Leaves, Prefixes, Closers
  <2>4. "E" \notin Closers \cup Infix \cup Prefixes \cup {"unit", "FROM", "IS", "IS_NOT"}
    BY DEF Closers, Leaves, Infix, Prefixes
  <2>5. op \in Symbols /\ "E" \in Symbols
    BY Zenon DEF Symbols, Terminals, Prefixes, Infix
  <2>6. n = 1 \/ n = 2
    BY <2>2
  <2> QED BY <2>1, <2>2, <2>3, <2>4, <2>5, <2>6
<1>4. CASE \E f \in Functions : q = Function(f)
  <2>1. PICK f \in Functions : q = Function(f)
    BY <1>4
  <2>2. PICK open : open = Opening(f)
    OBVIOUS
  <2>3. q = <<f, open, "E", Comma, "E", ")">>
    BY <2>1, <2>2 DEF Function
  <2>4. /\ Len(q) = 6 /\ n \in 1 .. 6 /\ q[1] = f /\ q[2] = open /\ q[3] = "E" /\ q[4] = Comma
        /\ q[5] = "E" /\ q[6] = ")"
    BY <2>3
  <2>5. n = 1 \/ n = 2 \/ n = 3 \/ n = 4 \/ n = 5 \/ n = 6
    BY <2>4
  <2>6. f \notin Closers \cup Infix \cup Prefixes \cup {"unit", "FROM", "IS", "IS_NOT"}
    BY DEF Functions, Closers, Leaves, Infix, Prefixes
  <2>7. "E" \notin Closers \cup Infix \cup Prefixes \cup {"unit", "FROM", "IS", "IS_NOT"}
    BY DEF Closers, Leaves, Infix, Prefixes
  <2>8. open \in Openings
    BY <2>2, OpeningIs
  <2>9. open \notin Closers \cup Infix \cup Prefixes \cup {"unit", "FROM", "IS", "IS_NOT"}
    BY <2>8 DEF Openings, Closers, Leaves, Infix, Prefixes
  <2>10. Comma \notin Closers \cup Infix \cup Prefixes \cup {"unit", "FROM", "IS", "IS_NOT"}
    BY Zenon DEF Comma, Closers, Leaves, Infix, Prefixes
  <2>11. ")" \notin Infix \cup Prefixes \cup {"unit", "FROM", "IS", "IS_NOT"}
    BY DEF Infix, Prefixes
  <2>12. f \in Symbols /\ "E" \in Symbols /\ Comma \in Symbols /\ ")" \in Symbols /\ open \in Symbols
    BY <2>8, Zenon DEF Symbols, Terminals, Functions, Comma, Openings
  <2> QED BY <2>4, <2>5, <2>6, <2>7, <2>9, <2>10, <2>11, <2>12
<1>5. CASE q = <<"(", "E", ")">> \/ q = <<"E", "IS", "NULL">> \/ q = <<"INTERVAL", "E", "unit">>
  <2>1. /\ Len(q) = 3 /\ n \in 1 .. 3 /\ q[1] \in {"(", "E", "INTERVAL"} /\ q[2] \in {"E", "IS"}
        /\ q[2] = "IS" => q[1] = "E"
        /\ q[3] \in {")", "NULL", "unit"}
    <3>1. CASE q = <<"(", "E", ")">>
      BY <3>1
    <3>2. CASE q = <<"E", "IS", "NULL">>
      BY <3>2
    <3>3. CASE q = <<"INTERVAL", "E", "unit">>
      BY <3>3
    <3> QED BY <1>5, <3>1, <3>2, <3>3
  <2>2. n = 1 \/ n = 2 \/ n = 3
    BY <2>1
  <2>3. \A sym \in {"(", "E", "INTERVAL"} :
          sym \notin Closers \cup Infix \cup Prefixes \cup {"unit", "FROM", "IS", "IS_NOT"}
    BY DEF Closers, Leaves, Infix, Prefixes
  <2>4. \A sym \in {"E", "IS"} : sym \notin Closers \cup Infix \cup Prefixes \cup {"unit", "FROM", "IS_NOT"}
    BY DEF Closers, Leaves, Infix, Prefixes
  <2>5. \A sym \in {")", "NULL", "unit"} : sym \notin Infix \cup Prefixes \cup {"FROM", "IS", "IS_NOT"}
    BY DEF Infix, Prefixes
  <2>6. q[n] \in Symbols
    <3>1. q[n] \in {"(", "E", "INTERVAL", "IS", ")", "NULL", "unit"}
      BY <2>1, <2>2
    <3>2. {"(", "E", "INTERVAL", "IS", ")", "NULL", "unit"} \subseteq Symbols
      BY Zenon DEF Symbols, Terminals
    <3> QED BY <3>1, <3>2
  <2> QED BY <2>1, <2>2, <2>3, <2>4, <2>5, <2>6
<1>6. CASE q = <<"E", "IS", "IS_NOT", "NULL">>
  <2>1. /\ Len(q) = 4 /\ n \in 1 .. 4 /\ q[1] = "E" /\ q[2] = "IS" /\ q[3] = "IS_NOT" /\ q[4] = "NULL"
    BY <1>6
  <2>2. n = 1 \/ n = 2 \/ n = 3 \/ n = 4
    BY <2>1
  <2>3. \A sym \in {"E", "IS", "IS_NOT"} : sym \notin Closers \cup Infix \cup Prefixes \cup {"unit", "FROM"}
    BY DEF Closers, Leaves, Infix, Prefixes
  <2>4. "NULL" \notin Infix \cup Prefixes \cup {"unit", "FROM", "IS", "IS_NOT"}
    BY DEF Infix, Prefixes
  <2>5. {"E", "IS", "IS_NOT", "NULL"} \subseteq Symbols
    BY Zenon DEF Symbols, Terminals
  <2> QED BY <2>1, <2>2, <2>3, <2>4, <2>5
<1>7. CASE q = <<"EXTRACT", "EXTRACT(", "unit", "FROM", "E", ")">>
  <2>1. /\ Len(q) = 6 /\ n \in 1 .. 6 /\ q[1] = "EXTRACT" /\ q[2] = "EXTRACT(" /\ q[3] = "unit"
        /\ q[4] = "FROM" /\ q[5] = "E" /\ q[6] = ")"
    BY <1>7
  <2>2. n = 1 \/ n = 2 \/ n = 3 \/ n = 4 \/ n = 5 \/ n = 6
    BY <2>1
  <2>3. \A sym \in {"EXTRACT", "EXTRACT(", "unit", "FROM", "E"} :
          sym \notin Closers \cup Infix \cup Prefixes \cup {"IS", "IS_NOT"}
    BY DEF Closers, Leaves, Infix, Prefixes
  <2>4. ")" \notin Infix \cup Prefixes \cup {"unit", "FROM", "IS", "IS_NOT"}
    BY DEF Infix, Prefixes
  <2>5. {"EXTRACT", "EXTRACT(", "unit", "FROM", "E", ")"} \subseteq Symbols
    BY Zenon DEF Symbols, Terminals
  <2> QED BY <2>1, <2>2, <2>3, <2>4, <2>5
<1> QED BY <1>1, <1>2, <1>3, <1>4, <1>5, <1>6, <1>7, ProductionsAreAll

\* A production on top of the stack is reduced with, or one that is longer.
LEMMA HandleIsLongest ==
  ASSUME NEW q \in Productions, EndsWith(Len(q), q)
  PROVE  Handles # {} /\ Len(q) <= Len(Handle)
<1>1. q \in Handles /\ \A r \in Handles : r \in Productions
  BY DEF Handles
<1>2. PICK L : L = {Len(r) : r \in Handles}
  OBVIOUS
<1>3. L \subseteq 0 .. 6 /\ L # {}
  <2>1. \A r \in Handles : Len(r) \in 0 .. 6
    BY <1>1, ProductionsAreShort
  <2> QED BY <1>1, <1>2, <2>1
<1>4. PICK m \in L : \A j \in L : j <= m
  BY <1>3, GreatestNat
<1>5. PICK h \in Handles : Len(h) = m
  BY <1>2
<1>6. \A r \in Handles : Len(r) <= Len(h)
  BY <1>2, <1>4, <1>5
<1>7. \A r \in Handles : Len(r) <= Len(Handle)
  BY <1>5, <1>6 DEF Handle
<1> QED BY <1>1, <1>7

-----------------------------------------------------------------------------
(* Operators take from each other no more than MySQL lets them               *)

\* Expression m of s: what the operators beside it leave it.
Operand(s, m) ==
  LET i == s[m].begin
      j == s[m].end
      IsBehind == m > 1 /\ s[m - 1].sym \in Infix \cup Prefixes
  IN  /\ AsMySQL(i, j, s[m].val)
      /\ IsBehind => Stronger(i, j, Level(s[m - 1].sym))
      /\ m < Len(s) /\ s[m + 1].sym \in Infixes =>
           /\ Binds(i, j, Level(s[m + 1].sym))
           /\ IsBehind => Level(s[m - 1].sym) < Level(s[m + 1].sym)

\* Expression i .. j on top of the stack, whatever the lookahead will be or is.
Waits(i, j) ==
  \/ Quiet(i, j)
  \/ look # "NONE" /\ (look \in Infixes => Binds(i, j, Level(look)))

\* Every expression on the stack is a tree of the right structure and a whole operand
\* of the operators beside it.
Ranked ==
  \A m \in 1 .. Len(stack) : stack[m].sym = "E" =>
    /\ Operand(stack, m)
    /\ m = Len(stack) => Waits(stack[m].begin, stack[m].end)

\* What is accepted is one expression.
Accepted ==
  parse_result = 0 =>
    Len(stack) = 1 /\ stack[1].sym = "E" /\ where_expression = stack[1].val /\ look = "END"

\* The inductive invariant.  Where a NOT or a minus is read in another way (see
\* ConditionAsMySQL) there is nothing to say of the trees.
ConditionOK == CondOK /\ Placed /\ (NotInMySQL \/ NegatesProduct \/ Ranked) /\ Accepted

-----------------------------------------------------------------------------
(* The places of the symbols                                                 *)

LEMMA ReadIs ==
  ASSUME CondOK, Placed
  PROVE  /\ Read \in Nat /\ Read <= Len(text) /\ Len(text) \in Nat
         /\ look \in {"NONE", "END"} => Read = Len(text)
         /\ look \notin {"NONE", "END"} => Read = Len(text) - 1 /\ text[Len(text)] = look
<1>1. Len(text) \in Nat /\ (look \notin {"NONE", "END"} => Len(text) > 0 /\ text[Len(text)] = look)
  BY DEF CondOK, Placed
<1> QED BY <1>1 DEF Read

LEMMA SymbolIs ==
  ASSUME CondOK, Placed, NEW m \in 1 .. Len(stack)
  PROVE  /\ stack[m] \in Entries /\ stack[m].sym \in Symbols
         /\ stack[m].begin \in 1 .. Len(text) /\ stack[m].begin \in Nat \ {0} /\ stack[m].end \in Nat
         /\ stack[m].begin <= stack[m].end /\ stack[m].end <= Read /\ stack[m].end <= Len(text)
         /\ Fits(stack[m].sym, stack[m].val, Len(nodes))
<1>1. stack[m] \in Entries /\ Fits(stack[m].sym, stack[m].val, Len(nodes))
  BY DEF CondOK, StackOK
<1>2. stack[m].begin \in Nat /\ stack[m].end \in Nat /\ stack[m].sym \in Symbols
  BY <1>1 DEF Entries
<1>3. 1 <= stack[m].begin /\ stack[m].begin <= stack[m].end /\ stack[m].end <= Read
  BY DEF Placed, Chained, Lies
<1>4. Read \in Nat /\ Read <= Len(text) /\ Len(text) \in Nat
  BY ReadIs
<1> QED BY <1>1, <1>2, <1>3, <1>4

LEMMA ChainedStays ==
  ASSUME NEW s, NEW t, NEW m \in Nat \ {0}, \A i \in 1 .. m : t[i] = s[i], Chained(s, m),
         m < Len(t) => /\ t[m + 1].begin = t[m].end + 1
                       /\ t[m].sym \notin Closers /\ (t[m].sym = "unit" => t[m + 1].sym = "FROM")
  PROVE  Chained(t, m)
<1>1. t[m] = s[m]
  OBVIOUS
<1>2. Viable(s, m) => Viable(t, m)
  <2> SUFFICES ASSUME Viable(s, m) PROVE Viable(t, m)
    OBVIOUS
  <2>1. PICK q \in Productions : \E n \in 1 .. Len(q) : n <= m /\ \A k \in 1 .. n : s[m - n + k].sym = q[k]
    BY DEF Viable
  <2>2. PICK n \in 1 .. Len(q) : n <= m /\ \A k \in 1 .. n : s[m - n + k].sym = q[k]
    BY <2>1
  <2>3. \A k \in 1 .. n : m - n + k \in 1 .. m
    BY <2>2, ProductionsAreShort
  <2>4. \A k \in 1 .. n : t[m - n + k].sym = q[k]
    BY <2>2, <2>3
  <2> QED BY <2>2, <2>4 DEF Viable
<1> QED BY <1>1, <1>2 DEF Chained

LEMMA ReadTokenPlaced ==
  ASSUME CondOK, Placed, ReadToken
  PROVE  Placed' /\ Grows /\ Read' = Read
<1>1. Len(text) \in Nat /\ text \in Seq(Terminals) /\ look = "NONE" /\ Read = Len(text) /\ stack' = stack
  BY DEF CondOK, ReadToken, Read
<1>2. \/ look' \in Terminals /\ text' = Append(text, look')
      \/ look' = "END" /\ text' = text
  BY LanguagesAssumption DEF ReadToken, CondOK
<1>3. /\ text' \in Seq(Terminals) /\ Len(text') \in Nat /\ Len(text) <= Len(text') /\ Read' = Len(text)
      /\ \A k \in 1 .. Len(text) : text'[k] = text[k]
      /\ look' \notin {"NONE", "END"} => Len(text') > 0 /\ text'[Len(text')] = look'
  <2>1. CASE look' \in Terminals /\ text' = Append(text, look')
    <3>1. look' \notin {"NONE", "END"}
      BY <2>1, TokensAre
    <3>2. /\ text' \in Seq(Terminals) /\ Len(text') = Len(text) + 1
          /\ \A k \in 1 .. Len(text) : text'[k] = text[k]
          /\ text'[Len(text')] = look'
      BY <1>1, <2>1
    <3>3. Read' = Len(text') - 1
      BY <3>1 DEF Read
    <3> QED BY <1>1, <3>2, <3>3
  <2>2. CASE look' = "END" /\ text' = text
    BY <1>1, <2>2 DEF Read
  <2> QED BY <1>2, <2>1, <2>2
<1>4. Grows
  BY <1>1, <1>3 DEF Grows
<1>5. \A m \in 1 .. Len(stack) : Chained(stack, m) /\ Lies(stack[m])'
  <2> SUFFICES ASSUME NEW m \in 1 .. Len(stack) PROVE Chained(stack, m) /\ Lies(stack[m])'
    OBVIOUS
  <2>1. stack[m].begin \in 1 .. Len(text) /\ stack'[m] = stack[m]
    BY <1>1, SymbolIs
  <2>2. text'[stack[m].begin] = text[stack[m].begin]
    BY <1>3, <2>1
  <2>3. Chained(stack, m) /\ Lies(stack[m])
    BY DEF Placed
  <2> QED BY <1>1, <1>3, <2>1, <2>2, <2>3 DEF Lies
<1>6. IF stack' = <<>> THEN Read' = 0 ELSE stack'[1].begin = 1 /\ stack'[Len(stack')].end = Read'
  BY <1>1, <1>3 DEF Placed
<1>7. PICK s : s = stack
  OBVIOUS
<1>8. stack' = s /\ \A m \in 1 .. Len(s) : Chained(s, m) /\ Lies(s[m])'
  BY <1>1, <1>5, <1>7
<1> QED BY <1>1, <1>3, <1>4, <1>6, <1>8 DEF Placed

\* What stands on top of the stack when a token is shifted.
LEMMA TopIsOpen ==
  ASSUME CondOK, Placed, ~Reducible, stack # <<>>
  PROVE  /\ stack[Len(stack)].sym \notin Closers
         /\ stack[Len(stack)].sym = "unit" => \A sym : CanShift(sym) => sym = "FROM"
<1>1. PICK l \in Nat : l = Len(stack)
  BY DEF CondOK, StackOK
<1>2. l \in 1 .. Len(stack) /\ l > 0
  BY <1>1 DEF CondOK, StackOK
<1>3. PICK top : top = stack[l].sym
  OBVIOUS
<1>4. Chained(stack, l)
  BY <1>2 DEF Placed
<1>5. top \notin Closers
  <2> SUFFICES ASSUME top \in Closers PROVE FALSE
    OBVIOUS
  <2>1. top # "E"
    BY DEF Closers, Leaves
  <2>2. Viable(stack, l)
    BY <1>3, <1>4, <2>1 DEF Chained
  <2>3. PICK q \in Productions : \E n \in 1 .. Len(q) : n <= l /\ \A k \in 1 .. n : stack[l - n + k].sym = q[k]
    BY <2>2 DEF Viable
  <2>4. PICK n \in 1 .. Len(q) : n <= l /\ \A k \in 1 .. n : stack[l - n + k].sym = q[k]
    BY <2>3
  <2>5. Len(q) \in 1 .. 6 /\ n \in 1 .. n /\ l - n + n = l
    BY <1>1, ProductionsAreShort
  <2>6. q[n] = top
    BY <1>3, <2>4, <2>5
  <2>7. n = Len(q)
    BY <2>6, ProductionsGoOn
  <2>8. EndsWith(Len(q), q)
    BY <1>1, <2>4, <2>7 DEF EndsWith
  <2>9. Handles # {}
    BY <2>8, HandleIsLongest
  <2>10. Handle[Len(Handle)] = top
    <3>1. PICK h : h = Handle
      OBVIOUS
    <3>2. h \in Productions /\ EndsWith(Len(h), h)
      BY <2>9, <3>1, HandleIs
    <3>3. PICK z \in 1 .. 6 : z = Len(h)
      BY <3>2, ProductionsAreShort
    <3>4. z \in 1 .. z /\ l - z + z = l
      BY <1>1
    <3>5. stack[l - z + z].sym = h[z]
      BY <1>1, <3>2, <3>3, <3>4 DEF EndsWith
    <3> QED BY <1>3, <3>1, <3>3, <3>4, <3>5
  <2>11. Reducible
    BY <2>1, <2>9, <2>10 DEF Reducible
  <2> QED BY <2>11
<1>6. ASSUME top = "unit", NEW sym, CanShift(sym) PROVE sym = "FROM"
  <2>1. ASSUME NEW a \in Awaited PROVE a = "FROM"
    <3>1. PICK q \in Productions : a \in {q[n + 1] : n \in {m \in 1 .. (Len(q) - 1) : EndsWith(m, q)}}
      BY Zenon DEF Awaited
    <3>2. PICK n \in 1 .. (Len(q) - 1) : EndsWith(n, q) /\ a = q[n + 1]
      BY <3>1
    <3>3. n \in 1 .. Len(q) /\ n < Len(q) /\ n \in 1 .. n /\ Len(stack) - n + n = l
      BY <1>1, ProductionsAreShort
    <3>4. q[n] = "unit"
      BY <1>3, <1>6, <3>2, <3>3 DEF EndsWith
    <3> QED BY <3>2, <3>3, <3>4, ProductionsGoOn
  <2>2. "E" \notin Awaited
    BY <2>1
  <2> QED BY <1>6, <2>1, <2>2 DEF CanShift
<1> QED BY <1>1, <1>3, <1>5, <1>6

\* The token of a symbol that is shifted.
LEMMA ShiftedWas ==
  ASSUME NEW token \in Terminals
  PROVE  TokenOf(Shifted(token), token) /\ Shifted(token) # "E"
<1>1. token \notin Openings \cup {"unit", "IS_NOT", "E"}
  BY Zenon DEF Terminals, Leaves, Units, Infix, Openings
<1>2. CASE token \in Units
  BY <1>2 DEF Shifted, TokenOf, Units, Openings
<1>3. CASE token \notin Units /\ token = "(" /\ Top \in {"DATE_ADD", "DATE_SUB", "EXTRACT"}
  <2>1. Shifted(token) = Opening(Top) /\ Opening(Top) \in Openings
    BY <1>3, OpeningIs DEF Shifted, Functions
  <2> QED BY <1>3, <2>1 DEF TokenOf, Openings
<1>4. CASE token \notin Units /\ token = "NOT" /\ Top = "IS"
  BY <1>4 DEF Shifted, TokenOf, Units, Openings
<1>5. CASE /\ token \notin Units
           /\ ~(token = "(" /\ Top \in {"DATE_ADD", "DATE_SUB", "EXTRACT"}) /\ ~(token = "NOT" /\ Top = "IS")
  <2>1. Shifted(token) = token
    BY <1>5 DEF Shifted
  <2> QED BY <1>1, <1>5, <2>1 DEF TokenOf
<1> QED BY <1>2, <1>3, <1>4, <1>5

LEMMA ShiftPlaced ==
  ASSUME CondOK, Placed, Shift
  PROVE  Placed' /\ Grows
<1>1. PICK s : s = stack
  OBVIOUS
<1>2. PICK l \in Nat : l = Len(s) /\ s \in Seq(Entries)
  BY <1>1 DEF CondOK, StackOK
<1>3. PICK r \in Nat : r = Len(text) /\ Read = r - 1 /\ text[r] = look /\ r <= Len(text)
  BY ReadIs DEF Shift
<1>4. PICK c : c = Symbol(Shifted(look), IF look \in Leaves THEN 1 ELSE look, r, r)
  OBVIOUS
<1>5. c.sym = Shifted(look) /\ c.begin = r /\ c.end = r
  BY <1>4 DEF Symbol
<1>6. stack' = Append(s, c) /\ look' = "NONE" /\ text' = text /\ ~Reducible /\ CanShift(c.sym)
  BY <1>1, <1>3, <1>4, <1>5 DEF Shift
<1>7. look \in Terminals
  BY DEF CondOK, Shift
<1>8. TokenOf(c.sym, look) /\ c.sym # "E"
  BY <1>5, <1>7, ShiftedWas
<1>9. r >= 1
  BY <1>3, ReadIs
<1>10. PICK t : t = Append(s, c)
  OBVIOUS
<1>11. Len(t) = l + 1 /\ t[l + 1] = c /\ \A i \in 1 .. l : t[i] = s[i]
  BY <1>2, <1>10
<1>12. Viable(t, l + 1)
  <2>1. CASE c.sym \in Awaited
    <3>1. PICK q \in Productions : c.sym \in {q[n + 1] : n \in {m \in 1 .. (Len(q) - 1) : EndsWith(m, q)}}
      BY <2>1, Zenon DEF Awaited
    <3>2. PICK n \in 1 .. (Len(q) - 1) : EndsWith(n, q) /\ c.sym = q[n + 1]
      BY <3>1
    <3>3. PICK a \in Nat : a = n + 1 /\ n \in Nat
      BY ProductionsAreShort
    <3>4. a \in 1 .. Len(q)
      BY <3>3, ProductionsAreShort
    <3>5. n <= l /\ \A k \in 1 .. n : s[l - n + k].sym = q[k]
      BY <1>1, <1>2, <3>2 DEF EndsWith
    <3>6. \A k \in 1 .. a : t[l + 1 - a + k].sym = q[k]
      <4> SUFFICES ASSUME NEW k \in 1 .. a PROVE t[l + 1 - a + k].sym = q[k]
        OBVIOUS
      <4>1. CASE k = a
        <5>1. l + 1 - a + k = l + 1
          BY <3>3, <4>1
        <5> QED BY <1>11, <3>2, <3>3, <4>1, <5>1
      <4>2. CASE k # a
        <5>1. l + 1 - a + k = l - n + k /\ l - n + k \in 1 .. l /\ k \in 1 .. n
          <6>1. n \in Nat /\ a = n + 1 /\ n <= l
            BY <3>3, <3>5
          <6> QED BY <4>2, <6>1
        <5> QED BY <1>11, <3>5, <5>1
      <4> QED BY <4>1, <4>2
    <3>7. a <= l + 1
      BY <3>3, <3>5
    <3> QED BY <3>4, <3>6, <3>7 DEF Viable
  <2>2. CASE \E q \in Productions : q[1] = c.sym
    <3>1. PICK q \in Productions : q[1] = c.sym
      BY <2>2
    <3>2. 1 \in 1 .. Len(q) /\ 1 <= l + 1 /\ \A k \in 1 .. 1 : l + 1 - 1 + k = l + 1 /\ k = 1
      BY ProductionsAreShort
    <3>3. \A k \in 1 .. 1 : t[l + 1 - 1 + k].sym = q[k]
      BY <1>11, <3>1, <3>2
    <3> QED BY <3>2, <3>3 DEF Viable
  <2> QED BY <1>6, <2>1, <2>2 DEF CanShift
<1>13. Chained(t, l + 1)
  <2>1. ~(l + 1 < Len(t))
    BY <1>11
  <2> QED BY <1>5, <1>9, <1>11, <1>12, <2>1 DEF Chained
<1>14. ASSUME NEW m \in 1 .. l PROVE Chained(t, m)
  <2>1. Chained(s, m) /\ m \in Nat \ {0} /\ \A i \in 1 .. m : t[i] = s[i]
    BY <1>1, <1>2, <1>11 DEF Placed
  <2>2. CASE m < l
    <3>1. m + 1 \in 1 .. l /\ m < Len(s)
      BY <1>2, <2>2
    <3>2. t[m + 1] = s[m + 1] /\ t[m] = s[m]
      BY <1>11, <3>1
    <3>3. /\ s[m + 1].begin = s[m].end + 1
          /\ s[m].sym \notin Closers /\ (s[m].sym = "unit" => s[m + 1].sym = "FROM")
      BY <2>1, <3>1 DEF Chained
    <3> QED BY <2>1, <3>2, <3>3, ChainedStays
  <2>3. CASE m = l
    <3>1. s # <<>> /\ t[m] = s[m] /\ t[m + 1] = c
      BY <1>2, <1>11, <2>3
    <3>2. s[l].end = r - 1 /\ s[l].end + 1 = r
      BY <1>1, <1>2, <1>3, <3>1 DEF Placed
    <3>3. s[l].sym \notin Closers /\ (s[l].sym = "unit" => c.sym = "FROM")
      BY <1>1, <1>2, <1>6, <3>1, TopIsOpen
    <3> QED BY <1>5, <2>1, <2>3, <3>1, <3>2, <3>3, ChainedStays
  <2> QED BY <1>2, <2>2, <2>3
<1>15. Read' = r /\ text' = text
  BY <1>3, <1>6 DEF Read
<1>16. ASSUME NEW m \in 1 .. l + 1 PROVE Lies(t[m])'
  <2>1. CASE m = l + 1
    <3>1. t[m].end <= r /\ TokenOf(t[m].sym, text[t[m].begin]) /\ t[m] = c /\ text[t[m].begin] = look
      BY <1>3, <1>5, <1>8, <1>11, <2>1
    <3>2. ASSUME c.sym = "unit" PROVE c.val = look
      <4>1. look \in Units
        BY <1>8, <3>2 DEF TokenOf, Openings
      <4>2. look \notin Leaves
        BY <4>1 DEF Units, Leaves
      <4> QED BY <1>4, <4>2 DEF Symbol
    <3> QED BY <1>15, <3>1, <3>2 DEF Lies
  <2>2. CASE m \in 1 .. l
    <3>1. t[m] = stack[m] /\ m \in 1 .. Len(stack)
      BY <1>1, <1>2, <1>11, <2>2
    <3>2. Lies(t[m]) /\ t[m].end \in Nat /\ t[m].end <= Read
      BY <3>1, SymbolIs DEF Placed
    <3>3. t[m].end <= r
      BY <1>3, <3>2
    <3> QED BY <1>15, <3>2, <3>3 DEF Lies
  <2> QED BY <1>2, <2>1, <2>2
<1>17. t[1].begin = 1 /\ t[Len(t)].end = r /\ t # <<>>
  <2>1. t[Len(t)].end = r /\ t # <<>>
    BY <1>2, <1>5, <1>11
  <2>2. CASE l = 0
    <3>1. s = <<>>
      BY <1>2, <2>2, EmptySeq
    <3>2. r = 1
      BY <1>1, <1>3, <3>1 DEF Placed
    <3> QED BY <1>5, <1>11, <2>1, <2>2, <3>2
  <2>3. CASE l > 0
    <3>1. s # <<>> /\ t[1] = s[1]
      BY <1>2, <1>11, <2>3
    <3> QED BY <1>1, <2>1, <3>1 DEF Placed
  <2> QED BY <1>2, <2>2, <2>3
<1>18. \A m \in 1 .. Len(t) : Chained(t, m) /\ Lies(t[m])'
  <2>1. \A m \in 1 .. Len(t) : m \in 1 .. l + 1 /\ (m = l + 1 \/ m \in 1 .. l)
    BY <1>2, <1>11
  <2> QED BY <1>13, <1>14, <1>16, <2>1
<1>19. Grows
  BY <1>15 DEF Grows, CondOK
<1>20. stack' = t
  BY <1>6, <1>10
<1> QED BY <1>6, <1>15, <1>17, <1>18, <1>19, <1>20 DEF Placed

\* The symbols of a production lie behind each other.
LEMMA SpanIs ==
  ASSUME CondOK, Placed, NEW m \in 1 .. Len(stack)
  PROVE  \A n \in m .. Len(stack) : stack[m].begin <= stack[n].end
<1>1. PICK l \in Nat : l = Len(stack)
  BY DEF CondOK, StackOK
<1>2. PICK z \in Nat : z = l - m
  <2>1. l - m \in Nat
    BY <1>1
  <2> QED BY <2>1
<1>3. \A n \in 1 .. l : /\ stack[n].begin \in Nat /\ stack[n].end \in Nat /\ stack[n].begin <= stack[n].end
                        /\ n < l => stack[n + 1].begin = stack[n].end + 1
  <2> SUFFICES ASSUME NEW n \in 1 .. l
               PROVE  /\ stack[n].begin \in Nat /\ stack[n].end \in Nat /\ stack[n].begin <= stack[n].end
                      /\ n < l => stack[n + 1].begin = stack[n].end + 1
    OBVIOUS
  <2>1. stack[n].begin \in Nat \ {0} /\ stack[n].end \in Nat /\ stack[n].begin <= stack[n].end
    BY <1>1, SymbolIs
  <2>2. Chained(stack, n)
    BY <1>1 DEF Placed
  <2> QED BY <1>1, <2>1, <2>2 DEF Chained
<1> DEFINE G == {d \in 0 .. z : stack[m].begin <= stack[m + d].end}
<1>4. 0 \in G
  <2>1. m + 0 = m /\ 0 \in 0 .. z
    BY <1>2
  <2> QED BY <1>1, <1>3, <2>1
<1>5. ASSUME NEW d \in 1 .. z, d - 1 \in G PROVE d \in G
  <2>1. PICK n \in 1 .. l : n = m + (d - 1) /\ n < l /\ n + 1 = m + d /\ n + 1 \in 1 .. l /\ d \in 0 .. z
    BY <1>1, <1>2
  <2>2. stack[m].begin <= stack[n].end
    BY <1>5, <2>1
  <2>3. stack[n + 1].begin = stack[n].end + 1 /\ stack[n + 1].begin <= stack[n + 1].end
    BY <1>3, <2>1
  <2>4. stack[m].begin \in Nat /\ stack[n].end \in Nat /\ stack[n + 1].end \in Nat
    BY <1>1, <1>3, <2>1
  <2>5. stack[m].begin <= stack[n + 1].end
    <3>1. PICK first, last, next : first = stack[m].begin /\ last = stack[n].end /\ next = stack[n + 1].end
      OBVIOUS
    <3>2. first \in Nat /\ last \in Nat /\ next \in Nat /\ first <= last /\ last + 1 <= next
      BY <2>2, <2>3, <2>4, <3>1
    <3>3. first <= next
      BY <3>2
    <3> QED BY <3>1, <3>3
  <2> QED BY <2>1, <2>5
<1>6. \A d \in 0 .. z : d \in G
  <2> HIDE DEF G
  <2> QED BY <1>2, <1>4, <1>5, UpTo
<1>7. ASSUME NEW n \in m .. Len(stack) PROVE stack[m].begin <= stack[n].end
  <2>1. PICK d \in 0 .. z : n = m + d
    <3>1. n - m \in 0 .. z /\ n = m + (n - m)
      BY <1>1, <1>2
    <3> QED BY <3>1
  <2> QED BY <1>6, <2>1
<1> QED BY <1>7

\* The stack behind a reduction.
LEMMA ReducedIs ==
  ASSUME CondOK, NEW q, NEW v, NEW k, NEW c, Reduces(q, v, k, c)
  PROVE  /\ k \in Nat /\ stack' \in Seq(Entries) /\ Len(stack') = k + 1 /\ stack'[k + 1] = c
         /\ \A i \in 1 .. k : stack'[i] = stack[i] /\ i \in 1 .. Len(stack) /\ i < Len(stack)
         /\ k + 1 \in 1 .. Len(stack) /\ Len(stack) \in 1 .. Len(stack)
<1>1. PICK s : s = stack
  OBVIOUS
<1>2. PICK l \in Nat : l = Len(s) /\ s \in Seq(Entries)
  BY <1>1 DEF CondOK, StackOK
<1>3. PICK z \in 1 .. 6 : z = Len(q) /\ l = k + z /\ k \in 0 .. l /\ k \in Nat
  <2>1. Len(q) \in 1 .. 6 /\ k \in 0 .. Len(stack) /\ Len(stack) = k + Len(q)
    BY Zenon DEF Reduces
  <2>2. k \in Nat
    BY <1>1, <1>2, <2>1
  <2> QED BY <1>1, <1>2, <2>1, <2>2
<1>4. PICK u : u = SubSeq(s, 1, k)
  OBVIOUS
<1>5. u \in Seq(Entries) /\ Len(u) = k /\ \A i \in 1 .. k : u[i] = s[i] /\ i \in 1 .. Len(s)
  BY <1>2, <1>3, <1>4, KeptIs
<1>6. stack' = Append(u, c) /\ c \in Entries
  BY <1>1, <1>4 DEF Reduces
<1>7. PICK t : t = Append(u, c)
  OBVIOUS
<1>8. t \in Seq(Entries) /\ Len(t) = k + 1 /\ t[k + 1] = c /\ \A i \in 1 .. k : t[i] = u[i]
  BY <1>3, <1>5, <1>6, <1>7
<1>9. k + 1 \in 1 .. l /\ l \in 1 .. l /\ \A i \in 1 .. k : i < l
  BY <1>3
<1> QED BY <1>1, <1>2, <1>3, <1>5, <1>6, <1>7, <1>8, <1>9

LEMMA ReducePlaced ==
  ASSUME CondOK, Placed, Reduce, NEW q, NEW v, NEW k, NEW c, Reduces(q, v, k, c)
  PROVE  Placed'
<1>1. PICK s : s = stack
  OBVIOUS
<1>2. PICK t : t = stack'
  OBVIOUS
<1>3. PICK l \in Nat : l = Len(s) /\ s \in Seq(Entries)
  BY <1>1 DEF CondOK, StackOK
<1>4. /\ k \in Nat /\ Len(t) = k + 1 /\ t[k + 1] = c
      /\ \A i \in 1 .. k : t[i] = s[i] /\ i \in 1 .. l /\ i < l
      /\ k + 1 \in 1 .. l /\ l \in 1 .. l
  BY <1>1, <1>2, <1>3, ReducedIs
<1>5. text' = text /\ look' = look /\ Read' = Read
  BY DEF Reduce, Read
<1>6. /\ q \in Productions /\ c.sym = "E" /\ c.begin = s[k + 1].begin /\ c.end = s[l].end
      /\ s[k + 1].sym = q[1]
  <2>1. /\ q \in Productions /\ c.sym = "E" /\ c.begin = s[k + 1].begin /\ c.end = s[l].end
        /\ \A i \in 1 .. Len(q) : s[k + i].sym = q[i]
    <3>1. /\ q \in Productions /\ c.sym = "E" /\ c.begin = stack[k + 1].begin /\ c.end = stack[Len(stack)].end
          /\ \A i \in 1 .. Len(q) : stack[k + i].sym = q[i]
      BY Zenon DEF Reduces
    <3> QED BY <1>1, <1>3, <3>1
  <2>2. 1 \in 1 .. Len(q)
    <3>1. q \in Productions
      BY <2>1
    <3>2. Len(q) \in 1 .. 6
      BY <3>1, ProductionsAreShort
    <3> QED BY <3>2
  <2> QED BY <2>1, <2>2
<1>7. \A m \in 1 .. l : Chained(s, m) /\ Lies(s[m])
  BY <1>1, <1>3 DEF Placed
<1>8. Chained(t, k + 1) /\ Lies(c)
  <2>1. c.begin <= c.end
    <3>1. l \in k + 1 .. Len(stack) /\ k + 1 \in 1 .. Len(stack)
      BY <1>1, <1>3, <1>4
    <3> QED BY <1>1, <1>6, <3>1, SpanIs
  <2>2. 1 <= c.begin
    BY <1>4, <1>6, <1>7 DEF Chained
  <2>3. ~(k + 1 < Len(t))
    BY <1>4
  <2>4. Chained(t, k + 1)
    BY <1>4, <1>6, <2>1, <2>2, <2>3 DEF Chained
  <2>5. Lies(c)
    BY <1>4, <1>6, <1>7 DEF Lies
  <2> QED BY <2>4, <2>5
<1>9. ASSUME NEW m \in 1 .. k PROVE Chained(t, m) /\ Lies(t[m])
  <2>1. t[m] = s[m] /\ Chained(s, m) /\ Lies(s[m]) /\ m < l
    BY <1>4, <1>7
  <2>2. /\ s[m + 1].begin = s[m].end + 1
        /\ s[m].sym \notin Closers /\ (s[m].sym = "unit" => s[m + 1].sym = "FROM")
    BY <1>3, <2>1 DEF Chained
  <2>3. \A i \in 1 .. m : i \in 1 .. k /\ t[i] = s[i]
    BY <1>4
  <2>4. CASE m = k
    <3>1. s[m].sym # "unit"
      <4>1. 1 \in 1 .. Len(q)
        BY <1>6, ProductionsAreShort
      <4>2. q[1] # "FROM"
        BY <1>6, <4>1, ProductionsGoOn
      <4> QED BY <1>6, <2>2, <2>4, <4>2
    <3>2. t[m + 1].begin = s[m].end + 1
      BY <1>4, <1>6, <2>2, <2>4
    <3>3. Chained(t, m)
      BY <2>1, <2>2, <2>3, <3>1, <3>2, ChainedStays
    <3> QED BY <2>1, <3>3
  <2>5. CASE m # k
    <3>1. m + 1 \in 1 .. k
      BY <1>4, <2>5
    <3>2. t[m + 1] = s[m + 1]
      BY <1>4, <3>1
    <3>3. Chained(t, m)
      BY <2>1, <2>2, <2>3, <3>2, ChainedStays
    <3> QED BY <2>1, <3>3
  <2> QED BY <2>4, <2>5
<1>10. \A m \in 1 .. Len(t) : Chained(t, m) /\ Lies(t[m])
  <2>1. \A m \in 1 .. Len(t) : m \in 1 .. k \/ m = k + 1
    BY <1>4
  <2> QED BY <1>4, <1>8, <1>9, <2>1
<1>11. \A e : Lies(e)' <=> Lies(e)
  BY <1>5 DEF Lies
<1>12. t # <<>> /\ t[1].begin = 1 /\ t[Len(t)].end = Read
  <2>1. s # <<>> /\ s[1].begin = 1 /\ s[l].end = Read
    <3>1. s # <<>>
      BY <1>3, <1>4
    <3> QED BY <1>1, <1>3, <3>1 DEF Placed
  <2>2. t # <<>>
    <3>1. t \in Seq(Entries)
      BY <1>2, ReducedIs
    <3> QED BY <1>4, <3>1, EmptySeq
  <2>3. t[Len(t)].end = Read
    BY <1>4, <1>6, <2>1
  <2>4. CASE k = 0
    BY <1>4, <1>6, <2>1, <2>2, <2>3, <2>4
  <2>5. CASE k # 0
    <3>1. 1 \in 1 .. k
      BY <1>4, <2>5
    <3> QED BY <1>4, <2>1, <2>2, <2>3, <3>1
  <2> QED BY <2>4, <2>5
<1>13. stack' = t /\ look' \notin {"NONE", "END"} => Len(text') > 0 /\ text'[Len(text')] = look'
  BY <1>2, <1>5 DEF Placed
<1>14. \A m \in 1 .. Len(t) : Chained(t, m) /\ Lies(t[m])'
  BY <1>10, <1>11
<1> QED BY <1>2, <1>5, <1>12, <1>13, <1>14 DEF Placed

-----------------------------------------------------------------------------
(* Reading and shifting leave what was read                                  *)

LEMMA OperandStays ==
  ASSUME Extends, NEW s, NEW t, NEW m \in Nat \ {0}, t[m] = s[m], m > 1 => t[m - 1] = s[m - 1],
         s[m].val \in 1 .. Len(nodes), Operand(s, m),
         m < Len(t) /\ t[m + 1].sym \in Infixes =>
           /\ Binds(s[m].begin, s[m].end, Level(t[m + 1].sym))
           /\ m > 1 /\ s[m - 1].sym \in Infix \cup Prefixes => Level(s[m - 1].sym) < Level(t[m + 1].sym)
  PROVE  Operand(t, m)'
<1>1. PICK i, j, p : i = s[m].begin /\ j = s[m].end /\ p = s[m].val
  OBVIOUS
<1>2. PICK below, above : below = s[m - 1].sym /\ above = t[m + 1].sym
  OBVIOUS
<1>3. /\ AsMySQL(i, j, p) /\ p \in 1 .. Len(nodes)
      /\ m > 1 /\ below \in Infix \cup Prefixes => Stronger(i, j, Level(below))
  BY <1>1, <1>2 DEF Operand
<1>4. AsMySQL(i, j, p)'
  BY <1>3, AsMySQLStays
<1>5. Grows /\ Expr(i, j)
  BY <1>3 DEF Extends, AsMySQL
<1>6. /\ \A l : Stronger(i, j, l) => Stronger(i, j, l)'
      /\ \A l : Binds(i, j, l) => Binds(i, j, l)'
  BY <1>5, SpanStays
<1>7. /\ m > 1 /\ below \in Infix \cup Prefixes => Stronger(i, j, Level(below))'
      /\ m < Len(t) /\ above \in Infixes =>
           /\ Binds(i, j, Level(above))'
           /\ m > 1 /\ below \in Infix \cup Prefixes => Level(below) < Level(above)
  BY <1>1, <1>2, <1>3, <1>6
<1>8. /\ t[m].begin = i /\ t[m].end = j /\ t[m].val = p /\ t[m + 1].sym = above
      /\ m > 1 => t[m - 1].sym = below
  BY <1>1, <1>2
<1> QED BY <1>4, <1>7, <1>8 DEF Operand

\* The operator below an expression on top of the stack is that of the production
\* that would be reduced.
LEMMA OperatorIsBelow ==
  ASSUME CondOK, Placed, NEW l \in Nat, l = Len(stack), l > 1, stack[l].sym = "E",
         NEW op \in Infix \cup Prefixes, stack[l - 1].sym = op
  PROVE  Handles # {} /\ Handle[Len(Handle)] = "E" /\ Operator(Handle) = op
<1>1. PICK b \in 1 .. l : b = l - 1
  OBVIOUS
<1>2. op # "E"
  BY DEF Infix, Prefixes
<1>3. Viable(stack, b)
  BY <1>1, <1>2 DEF Placed, Chained
<1>4. PICK q \in Productions : \E n \in 1 .. Len(q) : n <= b /\ \A i \in 1 .. n : stack[b - n + i].sym = q[i]
  BY <1>3 DEF Viable
<1>5. PICK n \in 1 .. Len(q) : n <= b /\ \A i \in 1 .. n : stack[b - n + i].sym = q[i]
  BY <1>4
<1>6. q[n] = op
  <2>1. Len(q) \in 1 .. 6
    BY ProductionsAreShort
  <2>2. n \in 1 .. n /\ b - n + n = b
    BY <2>1
  <2> QED BY <1>1, <1>5, <2>2
<1>7. \/ n = 2 /\ q = <<"E", op, "E">>
      \/ n = 1 /\ q = <<op, "E">>
  BY <1>6, ProductionsGoOn
<1>8. EndsWith(Len(q), q) /\ Len(q) >= 2
  <2>1. CASE n = 2 /\ q = <<"E", op, "E">>
    <3>1. Len(q) = 3 /\ q[1] = "E" /\ q[2] = op /\ q[3] = "E"
      BY <2>1
    <3>2. b - 2 + 1 = l - 3 + 1 /\ l - 3 + 2 = l - 1 /\ l - 3 + 3 = l /\ 3 <= l /\ 1 \in 1 .. n
      BY <1>1, <1>5, <2>1
    <3>3. stack[l - 3 + 1].sym = "E"
      BY <1>5, <2>1, <3>1, <3>2
    <3>4. \A i \in 1 .. 3 : i = 1 \/ i = 2 \/ i = 3
      OBVIOUS
    <3>5. \A i \in 1 .. 3 : stack[l - 3 + i].sym = q[i]
      BY <3>1, <3>2, <3>3, <3>4
    <3> QED BY <3>1, <3>2, <3>5 DEF EndsWith
  <2>2. CASE n = 1 /\ q = <<op, "E">>
    <3>1. Len(q) = 2 /\ q[1] = op /\ q[2] = "E"
      BY <2>2
    <3>2. l - 2 + 1 = l - 1 /\ l - 2 + 2 = l /\ 2 <= l
      OBVIOUS
    <3>3. \A i \in 1 .. 2 : i = 1 \/ i = 2
      OBVIOUS
    <3>4. \A i \in 1 .. 2 : stack[l - 2 + i].sym = q[i]
      BY <3>1, <3>2, <3>3
    <3> QED BY <3>1, <3>2, <3>4 DEF EndsWith
  <2> QED BY <1>7, <2>1, <2>2
<1>9. Handles # {} /\ Len(Handle) >= Len(q)
  BY <1>8, HandleIsLongest
<1>10. PICK h : h = Handle
  OBVIOUS
<1>11. h \in Productions /\ EndsWith(Len(h), h)
  BY <1>9, <1>10, HandleIs
<1>12. PICK z \in 1 .. 6 : z = Len(h) /\ z >= 2
  <2>1. Len(h) \in 1 .. 6 /\ Len(q) \in 1 .. 6
    BY <1>11, ProductionsAreShort
  <2>2. Len(h) >= Len(q) /\ Len(q) >= 2
    BY <1>8, <1>9, <1>10
  <2>3. Len(h) >= 2
    BY <2>1, <2>2
  <2> QED BY <2>1, <2>3
<1>13. z \in 1 .. z /\ z - 1 \in 1 .. z /\ l - z + z = l /\ l - z + (z - 1) = l - 1
  BY <1>12
<1>14. \A i \in 1 .. z : stack[l - z + i].sym = h[i]
  BY <1>11, <1>12 DEF EndsWith
<1>15. h[z] = "E" /\ h[z - 1] = op
  <2>1. stack[l - z + z].sym = h[z] /\ stack[l - z + (z - 1)].sym = h[z - 1]
    BY <1>13, <1>14
  <2> QED BY <1>13, <2>1
<1> QED BY <1>9, <1>10, <1>12, <1>15 DEF Operator

LEMMA ReadTokenRanked ==
  ASSUME CondOK, CondOK', Placed, Ranked, ReadToken
  PROVE  Ranked'
<1>1. PICK s : s = stack
  OBVIOUS
<1>2. stack' = s /\ nodes' = nodes /\ look = "NONE"
  BY <1>1 DEF ReadToken
<1>3. Grows
  BY ReadTokenPlaced
<1>4. Extends
  BY <1>2, <1>3 DEF Extends, CondOK, NodesOK
<1>5. ASSUME NEW m \in 1 .. Len(s), s[m].sym = "E"
      PROVE  Operand(s, m)' /\ (m = Len(s) => Waits(s[m].begin, s[m].end)')
  <2>1. Operand(s, m) /\ (m = Len(s) => Waits(s[m].begin, s[m].end))
    BY <1>1, <1>5 DEF Ranked
  <2>2. s[m].val \in 1 .. Len(nodes) /\ m \in Nat \ {0}
    BY <1>1, <1>5 DEF CondOK, StackOK, Fits
  <2>3. m < Len(s) /\ s[m + 1].sym \in Infixes =>
          /\ Binds(s[m].begin, s[m].end, Level(s[m + 1].sym))
          /\ m > 1 /\ s[m - 1].sym \in Infix \cup Prefixes => Level(s[m - 1].sym) < Level(s[m + 1].sym)
    BY <2>1 DEF Operand
  <2>4. Operand(s, m)'
    BY <1>4, <2>1, <2>2, <2>3, OperandStays
  <2>5. ASSUME m = Len(s) PROVE Waits(s[m].begin, s[m].end)'
    <3>1. PICK i, j : i = s[m].begin /\ j = s[m].end
      OBVIOUS
    <3>2. Quiet(i, j) /\ Expr(i, j)
      BY <1>2, <2>1, <2>5, <3>1 DEF Waits, Operand, AsMySQL
    <3>3. Quiet(i, j)'
      BY <1>3, <3>2, SpanStays
    <3> QED BY <3>1, <3>3 DEF Waits
  <2> QED BY <2>4, <2>5
<1> QED BY <1>2, <1>5 DEF Ranked

\* The operator that follows the expression on top of the stack leaves it whole.
LEMMA ShiftBinds ==
  ASSUME CondOK, Placed, Ranked, Shift, ~NotInMySQL, look \in Infixes,
         NEW l \in 1 .. Len(stack), l = Len(stack), stack[l].sym = "E"
  PROVE  /\ Binds(stack[l].begin, stack[l].end, Level(look))
         /\ l > 1 /\ stack[l - 1].sym \in Infix \cup Prefixes => Level(stack[l - 1].sym) < Level(look)
<1>1. PICK i, j : i = stack[l].begin /\ j = stack[l].end
  OBVIOUS
<1>2. look # "NONE" /\ look # "END" /\ ~Reducible
  BY DEF Shift
<1>3. AsMySQL(i, j, stack[l].val) /\ Waits(i, j)
  BY <1>1 DEF Ranked, Operand
<1>4. Expr(i, j) /\ text \in Seq(Terminals) /\ Level(look) \in Int
  BY <1>3, LevelIs DEF AsMySQL, CondOK
<1>5. i \in Nat /\ j \in Nat /\ \A n \in Outermost(i, j) : Level(text[n]) \in Int
  <2>1. i \in Nat /\ j \in Nat
    BY <1>4, ExprIs
  <2> QED BY <2>1, OutermostIs, LevelIs
<1>6. Binds(i, j, Level(look))
  <2>1. CASE Outermost(i, j) = {} /\ text[i] # "NOT"
    BY <2>1 DEF Binds
  <2>2. CASE text[i] # "NOT" /\ text[j] = "NULL" /\ Binds(i, j, 5)
    <3>1. CASE Level(look) <= 5
      <4>1. \A n \in Outermost(i, j) : Level(text[n]) >= 5
        BY <2>2 DEF Binds
      <4>2. \A n \in Outermost(i, j) : Level(text[n]) >= Level(look)
        BY <1>4, <1>5, <3>1, <4>1
      <4> QED BY <2>2, <4>2 DEF Binds
    <3>2. CASE Level(look) > 5
      <4>1. look # "IS"
        BY <3>2 DEF Level
      <4>2. look \in Infix /\ Strength(look) > Strength("IS")
        BY <3>2, <4>1, LevelIs, StrengthIsLevel DEF Infixes
      <4>3. j = Len(text) - 1 /\ Len(text) \in Nat /\ text[Len(text)] = look
        <5>1. Read = Len(text) - 1 /\ Len(text) \in Nat /\ text[Len(text)] = look
          BY <1>2, ReadIs
        <5>2. stack # <<>>
          OBVIOUS
        <5>3. stack[Len(stack)].end = Read
          BY <5>2 DEF Placed
        <5> QED BY <1>1, <5>1, <5>3
      <4>4. j \in Tokens({"NULL"})
        <5>1. j \in DOMAIN text
          BY <1>4, ExprIs
        <5> QED BY <2>2, <5>1 DEF Tokens
      <4>5. j < Len(text) /\ text[j + 1] = look
        BY <4>3
      <4>6. NotInMySQL
        BY <4>2, <4>4, <4>5, Zenon DEF NotInMySQL
      <4> QED BY <4>6
    <3> QED BY <1>4, <3>1, <3>2
  <2>3. CASE Binds(i, j, Level(look))
    BY <2>3
  <2> QED BY <1>2, <1>3, <2>1, <2>2, <2>3 DEF Waits, Quiet
<1>7. ASSUME l > 1, stack[l - 1].sym \in Infix \cup Prefixes PROVE Level(stack[l - 1].sym) < Level(look)
  <2>1. PICK op \in Infix \cup Prefixes : op = stack[l - 1].sym
    BY <1>7
  <2>2. l \in Nat
    OBVIOUS
  <2>3. Handles # {} /\ Handle[Len(Handle)] = "E" /\ Operator(Handle) = op
    BY <1>7, <2>1, <2>2, OperatorIsBelow
  <2>4. ~(Level(op) >= Level(look))
    BY <1>2, <2>3 DEF Reducible
  <2>5. Level(op) \in Int
    <3>1. op \in Infixes \/ op = "NOT" \/ op = "!"
      BY DEF Infixes, Infix, Prefixes
    <3> QED BY <3>1, LevelIs, StrengthIsLevel
  <2> QED BY <1>4, <2>1, <2>4, <2>5
<1> QED BY <1>1, <1>6, <1>7

LEMMA ShiftRanked ==
  ASSUME CondOK, CondOK', Placed, Ranked, Shift, ~NotInMySQL
  PROVE  Ranked'
<1>1. PICK s : s = stack
  OBVIOUS
<1>2. PICK l \in Nat : l = Len(s) /\ s \in Seq(Entries)
  BY <1>1 DEF CondOK, StackOK
<1>3. PICK c : c = Symbol(Shifted(look), IF look \in Leaves THEN 1 ELSE look, Len(text), Len(text))
  OBVIOUS
<1>4. PICK t : t = Append(s, c)
  OBVIOUS
<1>5. stack' = t /\ nodes' = nodes
  BY <1>1, <1>3, <1>4 DEF Shift
<1>6. Len(t) = l + 1 /\ t[l + 1] = c /\ \A i \in 1 .. l : t[i] = s[i]
  BY <1>2, <1>4
<1>7. look \in Terminals
  BY DEF Shift, CondOK
<1>8. c.sym = Shifted(look) /\ TokenOf(c.sym, look) /\ c.sym # "E"
  BY <1>3, <1>7, ShiftedWas DEF Symbol
<1>9. c.sym \in Infixes => c.sym = look
  BY <1>8 DEF TokenOf, Infixes, Infix, Openings
<1>10. Extends
  <2>1. Grows
    BY ShiftPlaced
  <2> QED BY <1>5, <2>1 DEF Extends, CondOK, NodesOK
<1>11. ASSUME NEW m \in 1 .. l + 1, t[m].sym = "E" PROVE Operand(t, m)' /\ m # l + 1
  <2>1. m \in 1 .. l /\ m # l + 1 /\ m \in Nat \ {0} /\ m \in 1 .. Len(stack)
    BY <1>1, <1>2, <1>6, <1>8, <1>11
  <2>2. t[m] = s[m] /\ (m > 1 => t[m - 1] = s[m - 1])
    <3>1. m > 1 => m - 1 \in 1 .. l
      BY <2>1
    <3> QED BY <1>6, <2>1, <3>1
  <2>3. s[m].sym = "E" /\ Operand(s, m)
    BY <1>1, <1>11, <2>1, <2>2 DEF Ranked
  <2>4. s[m].val \in 1 .. Len(nodes)
    BY <1>1, <2>1, <2>3 DEF CondOK, StackOK, Fits
  <2>5. m < Len(t) /\ t[m + 1].sym \in Infixes =>
          /\ Binds(s[m].begin, s[m].end, Level(t[m + 1].sym))
          /\ m > 1 /\ s[m - 1].sym \in Infix \cup Prefixes => Level(s[m - 1].sym) < Level(t[m + 1].sym)
    <3>1. CASE m < l
      <4>1. m + 1 \in 1 .. l /\ m < Len(s)
        BY <1>2, <2>1, <3>1
      <4>2. t[m + 1] = s[m + 1]
        BY <1>6, <4>1
      <4> QED BY <2>3, <4>1, <4>2 DEF Operand
    <3>2. CASE m = l
      <4>1. t[m + 1] = c
        BY <1>6, <3>2
      <4>2. ASSUME c.sym \in Infixes
            PROVE  /\ Binds(s[m].begin, s[m].end, Level(c.sym))
                   /\ m > 1 /\ s[m - 1].sym \in Infix \cup Prefixes => Level(s[m - 1].sym) < Level(c.sym)
        <5>1. look \in Infixes /\ c.sym = look /\ m = Len(stack)
          BY <1>1, <1>2, <1>9, <3>2, <4>2
        <5> QED BY <1>1, <2>1, <2>3, <5>1, ShiftBinds
      <4> QED BY <4>1, <4>2
    <3> QED BY <2>1, <3>1, <3>2
  <2>6. Operand(t, m)'
    BY <1>10, <2>1, <2>2, <2>3, <2>4, <2>5, OperandStays
  <2> QED BY <2>1, <2>6
<1> QED BY <1>5, <1>6, <1>11 DEF Ranked

-----------------------------------------------------------------------------
(* What a production is reduced from                                         *)

\* The symbols of q, from b[i] to e[i] each, with the values v.
Spanned(q, v, b, e) ==
  \A i \in 1 .. Len(q) :
    /\ b[i] \in Nat \ {0} /\ e[i] \in Nat /\ b[i] <= e[i] /\ e[i] <= Len(text)
    /\ i < Len(q) => b[i + 1] = e[i] + 1
    /\ q[i] # "E" => b[i] = e[i] /\ TokenOf(q[i], text[b[i]])
    /\ q[i] = "unit" => v[i] = text[b[i]]
    /\ q[i] = "E" =>
         /\ AsMySQL(b[i], e[i], v[i])
         /\ i > 1 /\ q[i - 1] \in Infix \cup Prefixes => Stronger(b[i], e[i], Level(q[i - 1]))
         /\ i < Len(q) /\ q[i + 1] \in Infixes => Binds(b[i], e[i], Level(q[i + 1]))

IsOperand(k) == k >= 1 /\ stack[k].sym \in Infix \cup Prefixes

\* What stands before token i, symbol k of the stack.
Follows(k, i) ==
  /\ k = 0 => i = 1
  /\ k > 0 /\ stack[k].sym # "E" =>
       i > 1 /\ TokenOf(stack[k].sym, text[i - 1]) /\ stack[k].sym \notin Closers \cup {"unit"}

\* The reduction of q, with the symbols below and the lookahead behind it.
Context(q, v, k, b, e) ==
  /\ q \in Productions /\ Spanned(q, v, b, e) /\ Follows(k, b[1]) /\ k \in Nat
  /\ k > 0 => stack[k].sym \in Symbols
  /\ IsOperand(k) /\ q[1] = "E" /\ q[2] \in Infixes => Level(stack[k].sym) < Level(q[2])
  /\ q = <<"-", "E">> => k = 0 \/ stack[k].sym # "E"
  /\ q[Len(q)] = "E" => look # "NONE" /\ (look \in Infixes => Level(Operator(q)) >= Level(look))

LEMMA BeginsWithExpression ==
  ASSUME NEW q \in Productions, q[1] = "E"
  PROVE  Len(q) >= 2 /\ q[2] \in Infixes
<1>1. CASE \E leaf \in Leaves : q = <<leaf>>
  BY <1>1 DEF Leaves
<1>2. CASE \E op \in Infix : q = <<"E", op, "E">>
  <2>1. PICK op \in Infix : q = <<"E", op, "E">>
    BY <1>2
  <2> QED BY <2>1 DEF Infixes
<1>3. CASE \E op \in Prefixes : q = <<op, "E">>
  BY <1>3 DEF Prefixes
<1>4. CASE \E f \in Functions : q = Function(f)
  <2>1. PICK f \in Functions : q = Function(f)
    BY <1>4
  <2>2. q[1] = f
    BY <2>1 DEF Function
  <2> QED BY <2>2 DEF Functions
<1>5. CASE q = <<"(", "E", ")">> \/ q = <<"INTERVAL", "E", "unit">>
           \/ q = <<"EXTRACT", "EXTRACT(", "unit", "FROM", "E", ")">>
  BY <1>5
<1>6. CASE q = <<"E", "IS", "NULL">> \/ q = <<"E", "IS", "IS_NOT", "NULL">>
  BY <1>6 DEF Infixes
<1> QED BY <1>1, <1>2, <1>3, <1>4, <1>5, <1>6, ProductionsAreAll

LEMMA ContextIs ==
  ASSUME CondOK, Placed, Ranked, Reduce, NEW q, NEW v, NEW k, NEW c, Reduces(q, v, k, c)
  PROVE  \E b, e : Context(q, v, k, b, e) /\ c.begin = b[1] /\ c.end = e[Len(q)]
<1>1. PICK s : s = stack
  OBVIOUS
<1>2. PICK l \in Nat : l = Len(s) /\ s \in Seq(Entries)
  BY <1>1 DEF CondOK, StackOK
<1>3. PICK z \in 1 .. 6 : z = Len(q)
  BY Zenon DEF Reduces
<1>4. /\ q = Handle /\ q \in Productions /\ k \in 0 .. l /\ l = k + z
      /\ \A i \in 1 .. z : k + i \in 1 .. l /\ s[k + i].sym = q[i] /\ v[i] = s[k + i].val
      /\ c.begin = s[k + 1].begin /\ c.end = s[l].end
  <2>1. /\ q = Handle /\ q \in Productions /\ k \in 0 .. Len(stack) /\ Len(stack) = k + Len(q)
        /\ \A i \in 1 .. Len(q) : k + i \in 1 .. Len(stack) /\ stack[k + i].sym = q[i] /\ v[i] = stack[k + i].val
        /\ c.begin = stack[k + 1].begin /\ c.end = stack[Len(stack)].end
    BY Zenon DEF Reduces
  <2> QED BY <1>1, <1>2, <1>3, <2>1
<1>5. k \in Nat /\ k < l
  BY <1>4
<1>6. PICK b, e : /\ b = [i \in 1 .. z |-> s[k + i].begin]
                  /\ e = [i \in 1 .. z |-> s[k + i].end]
  OBVIOUS
<1>7. \A m \in 1 .. l : /\ Chained(s, m) /\ Lies(s[m]) /\ s[m].sym \in Symbols
                        /\ s[m].begin \in Nat \ {0} /\ s[m].end \in Nat
                        /\ s[m].begin <= s[m].end /\ s[m].end <= Len(text)
  BY <1>1, <1>2, SymbolIs DEF Placed
<1>8. \A m \in 1 .. l : s[m].sym = "E" => Operand(s, m)
  BY <1>1, <1>2 DEF Ranked
<1>9. ASSUME NEW i \in 1 .. z
      PROVE  /\ b[i] \in Nat \ {0} /\ e[i] \in Nat /\ b[i] <= e[i] /\ e[i] <= Len(text)
             /\ i < z => b[i + 1] = e[i] + 1
             /\ q[i] # "E" => b[i] = e[i] /\ TokenOf(q[i], text[b[i]])
             /\ q[i] = "unit" => v[i] = text[b[i]]
             /\ q[i] = "E" =>
                  /\ AsMySQL(b[i], e[i], v[i])
                  /\ i > 1 /\ q[i - 1] \in Infix \cup Prefixes => Stronger(b[i], e[i], Level(q[i - 1]))
                  /\ i < z /\ q[i + 1] \in Infixes => Binds(b[i], e[i], Level(q[i + 1]))
  <2>1. PICK m \in 1 .. l : m = k + i
    BY <1>4
  <2>2. b[i] = s[m].begin /\ e[i] = s[m].end /\ q[i] = s[m].sym /\ v[i] = s[m].val
    BY <1>4, <1>6, <2>1
  <2>3. i > 1 => q[i - 1] = s[m - 1].sym /\ m > 1
    <3>1. i > 1 => i - 1 \in 1 .. z /\ k + (i - 1) = m - 1 /\ m > 1
      BY <1>5, <2>1
    <3> QED BY <1>4, <3>1
  <2>4. i < z => b[i + 1] = s[m + 1].begin /\ q[i + 1] = s[m + 1].sym /\ m < l
    <3>1. i < z => i + 1 \in 1 .. z /\ k + (i + 1) = m + 1 /\ m < l
      BY <1>4, <1>5, <2>1
    <3> QED BY <1>4, <1>6, <3>1
  <2>5. s[m].sym = "E" => Operand(s, m)
    BY <1>8
  <2>6. Chained(s, m) /\ Lies(s[m])
    BY <1>7
  <2>7. q[i] = "E" =>
          /\ AsMySQL(b[i], e[i], v[i])
          /\ i > 1 /\ q[i - 1] \in Infix \cup Prefixes => Stronger(b[i], e[i], Level(q[i - 1]))
          /\ i < z /\ q[i + 1] \in Infixes => Binds(b[i], e[i], Level(q[i + 1]))
    BY <1>2, <2>2, <2>3, <2>4, <2>5 DEF Operand
  <2>8. /\ i < z => b[i + 1] = e[i] + 1
        /\ q[i] # "E" => b[i] = e[i] /\ TokenOf(q[i], text[b[i]])
        /\ q[i] = "unit" => v[i] = text[b[i]]
    BY <1>2, <2>2, <2>4, <2>6 DEF Chained, Lies
  <2>9. b[i] \in Nat \ {0} /\ e[i] \in Nat /\ b[i] <= e[i] /\ e[i] <= Len(text)
    BY <1>7, <2>2
  <2> QED BY <2>7, <2>8, <2>9
<1>10. Spanned(q, v, b, e)
  BY <1>3, <1>9 DEF Spanned
<1>11. 1 \in 1 .. z /\ z \in 1 .. z /\ k + z = l /\ b[1] = s[k + 1].begin /\ e[z] = s[l].end /\ s[k + 1].sym = q[1]
       /\ k + 1 \in 1 .. l
  <2>1. 1 \in 1 .. z /\ z \in 1 .. z /\ k + z = l
    BY <1>4
  <2> QED BY <1>4, <1>6, <2>1
<1>12. Follows(k, b[1])
  <2>1. CASE k = 0
    <3>1. s # <<>>
      BY <1>2, <1>5
    <3>2. s[1].begin = 1
      BY <1>1, <3>1 DEF Placed
    <3> QED BY <1>11, <2>1, <3>2 DEF Follows
  <2>2. CASE k > 0
    <3>1. k \in 1 .. l /\ k < Len(s)
      BY <1>2, <1>5, <2>2
    <3>2. Chained(s, k) /\ Lies(s[k]) /\ s[k].end \in Nat /\ s[k].begin \in Nat \ {0}
      BY <1>7, <3>1
    <3>3. b[1] = s[k].end + 1 /\ s[k].sym \notin Closers /\ (s[k].sym = "unit" => s[k + 1].sym = "FROM")
      BY <1>11, <3>1, <3>2 DEF Chained
    <3>4. q[1] # "FROM"
      BY <1>3, <1>4, <1>11, ProductionsGoOn
    <3>5. ASSUME s[k].sym # "E" PROVE b[1] > 1 /\ TokenOf(s[k].sym, text[b[1] - 1])
      <4>1. s[k].begin = s[k].end /\ TokenOf(s[k].sym, text[s[k].begin])
        BY <3>2, <3>5 DEF Chained, Lies
      <4>2. b[1] - 1 = s[k].begin /\ b[1] > 1
        BY <3>2, <3>3, <4>1
      <4> QED BY <4>1, <4>2
    <3> QED BY <1>1, <1>11, <2>2, <3>3, <3>4, <3>5 DEF Follows
  <2> QED BY <1>5, <2>1, <2>2
<1>13. k > 0 => stack[k].sym \in Symbols
  <2>1. k > 0 => k \in 1 .. l
    BY <1>5
  <2> QED BY <1>1, <1>7, <2>1
<1>14. IsOperand(k) /\ q[1] = "E" /\ q[2] \in Infixes => Level(stack[k].sym) < Level(q[2])
  <2> SUFFICES ASSUME IsOperand(k), q[1] = "E", q[2] \in Infixes PROVE Level(stack[k].sym) < Level(q[2])
    OBVIOUS
  <2>1. z >= 2
    BY <1>3, <1>4, BeginsWithExpression
  <2>2. PICK m \in 1 .. l : m = k + 1 /\ m < l /\ m > 1 /\ m - 1 = k /\ m + 1 = k + 2 /\ 2 \in 1 .. z
    <3>1. k >= 1
      BY DEF IsOperand
    <3>2. PICK m \in 1 .. l : m = k + 1
      BY <1>11
    <3>3. m < l /\ m > 1 /\ m - 1 = k /\ m + 1 = k + 2 /\ 2 \in 1 .. z
      BY <1>4, <1>5, <2>1, <3>1, <3>2
    <3> QED BY <3>2, <3>3
  <2>3. s[m].sym = "E" /\ s[m + 1].sym = q[2]
    BY <1>4, <1>11, <2>2
  <2>4. Operand(s, m)
    BY <1>8, <2>3
  <2>5. s[m - 1].sym \in Infix \cup Prefixes
    BY <1>1, <2>2 DEF IsOperand
  <2>6. Level(s[m - 1].sym) < Level(s[m + 1].sym)
    BY <1>2, <2>2, <2>3, <2>4, <2>5 DEF Operand
  <2> QED BY <1>1, <2>2, <2>3, <2>6
<1>15. q = <<"-", "E">> => k = 0 \/ stack[k].sym # "E"
  <2> SUFFICES ASSUME q = <<"-", "E">>, k > 0, stack[k].sym = "E" PROVE FALSE
    BY <1>5
  <2>1. z = 2 /\ q[1] = "-" /\ q[2] = "E" /\ 2 \in 1 .. z
    BY <1>3
  <2>2. s[k].sym = "E" /\ s[k + 1].sym = "-" /\ s[k + 2].sym = "E" /\ l = k + 2
    BY <1>1, <1>4, <1>11, <2>1
  <2>3. PICK p : p = <<"E", "-", "E">>
    OBVIOUS
  <2>4. p \in Productions
    BY <2>3, ProductionsContain DEF Infix
  <2>5. Len(p) = 3 /\ p[1] = "E" /\ p[2] = "-" /\ p[3] = "E"
    BY <2>3
  <2>6. l - 3 + 1 = k /\ l - 3 + 2 = k + 1 /\ l - 3 + 3 = k + 2 /\ 3 <= l
    BY <1>5, <2>2
  <2>7. \A i \in 1 .. 3 : i = 1 \/ i = 2 \/ i = 3
    OBVIOUS
  <2>8. \A i \in 1 .. 3 : s[l - 3 + i].sym = p[i]
    BY <2>2, <2>5, <2>6, <2>7
  <2>9. EndsWith(Len(p), p)
    BY <1>1, <1>2, <2>5, <2>6, <2>8 DEF EndsWith
  <2>10. Len(p) <= Len(q)
    BY <1>4, <2>4, <2>9, HandleIsLongest
  <2> QED BY <1>3, <2>1, <2>5, <2>10
<1>16. q[z] = "E" => look # "NONE" /\ (look \in Infixes => Level(Operator(q)) >= Level(look))
  <2>1. Reducible
    BY DEF Reduce
  <2> QED BY <1>3, <1>4, <2>1 DEF Reducible, Infixes
<1>17. Context(q, v, k, b, e)
  BY <1>3, <1>4, <1>5, <1>10, <1>12, <1>13, <1>14, <1>15, <1>16 DEF Context
<1> QED BY <1>3, <1>4, <1>11, <1>17

-----------------------------------------------------------------------------
(* What a production is read as                                              *)

Compound == Openings \cup {"unit", "IS_NOT"}

LEMMA TokenIs ==
  /\ \A sym, t : sym \notin Compound /\ TokenOf(sym, t) => t = sym
  /\ \A sym, t : sym \in Openings /\ TokenOf(sym, t) => t = "("
  /\ \A t : TokenOf("unit", t) => t \in Units
  /\ \A t : TokenOf("IS_NOT", t) => t = "NOT"
  BY DEF TokenOf, Openings, Compound

\* Symbol n of a production.
SpanAt(q, v, b, e, n) ==
  /\ b[n] \in Nat \ {0} /\ b[n] \in Int /\ e[n] \in Nat /\ e[n] \in Int
  /\ b[n] <= e[n] /\ e[n] <= Len(text)
  /\ n < Len(q) => b[n + 1] = e[n] + 1
  /\ q[n] # "E" => b[n] = e[n]
  /\ q[n] # "E" /\ q[n] \notin Compound => text[b[n]] = q[n]
  /\ q[n] \in Openings => text[b[n]] = "("
  /\ q[n] = "unit" => text[b[n]] \in Units /\ v[n] = text[b[n]]
  /\ q[n] = "IS_NOT" => text[b[n]] = "NOT"
  /\ q[n] = "E" => AsMySQL(b[n], e[n], v[n])

LEMMA SpanOf ==
  ASSUME NEW q, NEW v, NEW k, NEW b, NEW e, Context(q, v, k, b, e), NEW n \in 1 .. Len(q)
  PROVE  SpanAt(q, v, b, e, n)
<1>1. /\ b[n] \in Nat \ {0} /\ e[n] \in Nat /\ b[n] <= e[n] /\ e[n] <= Len(text)
      /\ n < Len(q) => b[n + 1] = e[n] + 1
      /\ q[n] # "E" => b[n] = e[n] /\ TokenOf(q[n], text[b[n]])
      /\ q[n] = "unit" => v[n] = text[b[n]]
      /\ q[n] = "E" => AsMySQL(b[n], e[n], v[n])
  BY Zenon DEF Context, Spanned
<1>2. b[n] \in Int /\ e[n] \in Int
  BY <1>1
<1>3. q[n] \in Openings \cup {"unit", "IS_NOT"} => q[n] # "E"
  BY DEF Openings
<1>4. /\ q[n] # "E" /\ q[n] \notin Compound => text[b[n]] = q[n]
      /\ q[n] \in Openings => text[b[n]] = "("
      /\ q[n] = "unit" => text[b[n]] \in Units
      /\ q[n] = "IS_NOT" => text[b[n]] = "NOT"
  <2>1. q[n] # "E" /\ q[n] \notin Compound => text[b[n]] = q[n]
    BY <1>1, TokenIs, Zenon
  <2>2. q[n] \in Openings => text[b[n]] = "("
    BY <1>1, <1>3, TokenIs, Zenon
  <2>3. q[n] = "unit" => text[b[n]] \in Units
    BY <1>1, <1>3, TokenIs, Zenon
  <2>4. q[n] = "IS_NOT" => text[b[n]] = "NOT"
    BY <1>1, <1>3, TokenIs, Zenon
  <2> QED BY <2>1, <2>2, <2>3, <2>4
<1> QED BY <1>1, <1>2, <1>4 DEF SpanAt

LEMMA SpansOf ==
  ASSUME NEW q, NEW v, NEW k, NEW b, NEW e, Context(q, v, k, b, e)
  PROVE  \A n \in 1 .. Len(q) : SpanAt(q, v, b, e, n)
  BY SpanOf, Zenon

\* The expression i .. j can stand on the k symbols below it, and MySQL reads rows.
Reduced(k, i, j, rows) ==
  /\ Expr(i, j) /\ RowsOfMySQL[<<i, j>>] = rows
  /\ IsOperand(k) => Stronger(i, j, Level(stack[k].sym))
  /\ Waits(i, j)

LEMMA OutermostIsEmpty ==
  ASSUME NEW k, NEW i, NEW j, NEW rows, Expr(i, j), RowsOfMySQL[<<i, j>>] = rows,
         Outermost(i, j) = {}, text[i] # "NOT"
  PROVE  Reduced(k, i, j, rows)
  BY DEF Reduced, Stronger, Waits, Quiet

LEMMA LeafReduced ==
  ASSUME text \in Seq(Terminals), NEW q, NEW v, NEW k, NEW b, NEW e, Context(q, v, k, b, e),
         NEW leaf \in Leaves, q = <<leaf>>
  PROVE  Reduced(k, b[1], e[1], Row(leaf))
<1>1. Len(q) = 1 /\ q[1] = leaf /\ 1 \in 1 .. Len(q)
  OBVIOUS
<1>2. leaf # "E" /\ leaf \notin Compound /\ leaf # "NOT"
  BY DEF Leaves, Openings, Compound
<1>3. b[1] \in Nat \ {0} /\ b[1] = e[1] /\ e[1] <= Len(text) /\ text[b[1]] = leaf
  <2>1. SpanAt(q, v, b, e, 1)
    BY <1>1, SpansOf, Zenon
  <2> QED BY <1>1, <1>2, <2>1 DEF SpanAt
<1>4. PICK i \in 1 .. Len(text) : i = b[1] /\ i = e[1]
  BY <1>3
<1>5. Expr(i, i) /\ Outermost(i, i) = {} /\ RowsOfMySQL[<<i, i>>] = Row(leaf)
  BY <1>3, <1>4, LeafReads
<1> QED BY <1>2, <1>3, <1>4, <1>5, OutermostIsEmpty

LEMMA ParenthesesReduced ==
  ASSUME text \in Seq(Terminals), NEW q, NEW v, NEW k, NEW b, NEW e, Context(q, v, k, b, e),
         q = <<"(", "E", ")">>
  PROVE  Reduced(k, b[1], e[3], print[v[2]])
<1>1. Len(q) = 3 /\ q[1] = "(" /\ q[2] = "E" /\ q[3] = ")"
  OBVIOUS
<1>2. {"(", ")"} \cap Compound = {}
  BY DEF Compound, Openings
<1>3. /\ b[1] \in Nat \ {0} /\ e[1] = b[1] /\ b[1 + 1] = e[1] + 1 /\ b[2 + 1] = e[2] + 1 /\ b[3] = e[3]
      /\ e[2] \in Int /\ e[3] \in Nat /\ e[3] <= Len(text) /\ text[b[1]] = "(" /\ text[b[3]] = ")"
      /\ AsMySQL(b[2], e[2], v[2])
  <2>1. 1 \in 1 .. Len(q) /\ 2 \in 1 .. Len(q) /\ 3 \in 1 .. Len(q)
    BY <1>1
  <2>2. SpanAt(q, v, b, e, 1) /\ SpanAt(q, v, b, e, 2) /\ SpanAt(q, v, b, e, 3)
    BY <2>1, SpansOf, Zenon
  <2> QED BY <1>1, <1>2, <2>2 DEF SpanAt
<1>4. PICK i \in Nat \ {0} : i = b[1]
  BY <1>3
<1>5. PICK j \in Nat : j = e[3]
  BY <1>3
<1>6. b[2] = i + 1 /\ e[2] = j - 1
  BY <1>3, <1>4, <1>5
<1>7. text[i] = "(" /\ text[j] = ")" /\ j <= Len(text) /\ AsMySQL(i + 1, j - 1, v[2])
  BY <1>3, <1>4, <1>5, <1>6
<1>8. Expr(i, j) /\ Outermost(i, j) = {} /\ RowsOfMySQL[<<i, j>>] = print[v[2]]
  BY <1>7, ParenthesesRead DEF AsMySQL
<1>9. text[i] # "NOT"
  BY <1>7
<1> QED BY <1>4, <1>5, <1>8, <1>9, OutermostIsEmpty

LEMMA IntervalReduced ==
  ASSUME text \in Seq(Terminals), NEW q, NEW v, NEW k, NEW b, NEW e, Context(q, v, k, b, e),
         q = <<"INTERVAL", "E", "unit">>
  PROVE  Reduced(k, b[1], e[3], Row("INTERVAL") \o print[v[2]] \o Row(v[3]))
<1>1. Len(q) = 3 /\ q[1] = "INTERVAL" /\ q[2] = "E" /\ q[3] = "unit"
  OBVIOUS
<1>2. "INTERVAL" \notin Compound
  BY DEF Compound, Openings
<1>3. /\ b[1] \in Nat \ {0} /\ e[1] = b[1] /\ b[1 + 1] = e[1] + 1 /\ b[2 + 1] = e[2] + 1 /\ b[3] = e[3]
      /\ e[2] \in Int /\ e[3] \in Nat /\ e[3] <= Len(text) /\ text[b[1]] = "INTERVAL"
      /\ text[b[3]] \in Units /\ v[3] = text[b[3]] /\ AsMySQL(b[2], e[2], v[2])
  <2>1. 1 \in 1 .. Len(q) /\ 2 \in 1 .. Len(q) /\ 3 \in 1 .. Len(q)
    BY <1>1
  <2>2. SpanAt(q, v, b, e, 1) /\ SpanAt(q, v, b, e, 2) /\ SpanAt(q, v, b, e, 3)
    BY <2>1, SpansOf, Zenon
  <2> QED BY <1>1, <1>2, <2>2 DEF SpanAt
<1>4. PICK i \in Nat \ {0} : i = b[1]
  BY <1>3
<1>5. PICK j \in Nat : j = e[3]
  BY <1>3
<1>6. b[2] = i + 1 /\ e[2] = j - 1
  BY <1>3, <1>4, <1>5
<1>7. /\ text[i] = "INTERVAL" /\ text[j] \in Units /\ text[j] = v[3] /\ j <= Len(text)
      /\ AsMySQL(i + 1, j - 1, v[2])
  BY <1>3, <1>4, <1>5, <1>6
<1>8. /\ Expr(i, j) /\ Outermost(i, j) = {}
      /\ RowsOfMySQL[<<i, j>>] = Row("INTERVAL") \o print[v[2]] \o Row(v[3])
  BY <1>7, IntervalReads DEF AsMySQL
<1>9. text[i] # "NOT"
  BY <1>7
<1> QED BY <1>4, <1>5, <1>8, <1>9, OutermostIsEmpty

LEMMA FunctionReduced ==
  ASSUME text \in Seq(Terminals), NEW q, NEW v, NEW k, NEW b, NEW e, Context(q, v, k, b, e),
         NEW f \in Functions, q = Function(f)
  PROVE  Reduced(k, b[1], e[6], Row(f) \o print[v[3]] \o print[v[5]])
<1>1. Len(q) = 6 /\ q[1] = f /\ q[2] = Opening(f) /\ q[3] = "E" /\ q[4] = Comma /\ q[5] = "E" /\ q[6] = ")"
  BY DEF Function
<1>2. /\ f # "E" /\ f # "NOT" /\ f \notin Compound /\ ")" \notin Compound
      /\ Opening(f) \in Openings /\ Opening(f) # "E" /\ Comma # "E" /\ Comma \notin Compound
  <2>1. f # "E" /\ f # "NOT" /\ f \notin Compound /\ ")" \notin Compound
    BY DEF Functions, Openings, Compound
  <2>2. Opening(f) \in Openings
    BY OpeningIs
  <2>3. Opening(f) # "E"
    BY <2>2 DEF Openings
  <2>4. Comma # "E" /\ Comma \notin Compound
    BY Zenon DEF Comma, Openings, Compound
  <2> QED BY <2>1, <2>2, <2>3, <2>4
<1>3. /\ SpanAt(q, v, b, e, 1) /\ SpanAt(q, v, b, e, 2) /\ SpanAt(q, v, b, e, 3)
      /\ SpanAt(q, v, b, e, 4) /\ SpanAt(q, v, b, e, 5) /\ SpanAt(q, v, b, e, 6)
  <2>1. /\ 1 \in 1 .. Len(q) /\ 2 \in 1 .. Len(q) /\ 3 \in 1 .. Len(q)
        /\ 4 \in 1 .. Len(q) /\ 5 \in 1 .. Len(q) /\ 6 \in 1 .. Len(q)
    BY <1>1
  <2> QED BY <2>1, SpansOf, Zenon
<1>4. /\ b[1] = e[1] /\ text[b[1]] = f /\ b[2] = e[2] /\ text[b[2]] = "("
      /\ AsMySQL(b[3], e[3], v[3]) /\ b[4] = e[4] /\ text[b[4]] = Comma
      /\ AsMySQL(b[5], e[5], v[5]) /\ b[6] = e[6] /\ text[b[6]] = ")"
  <2>1. b[1] = e[1] /\ text[b[1]] = f
    BY <1>1, <1>2, <1>3 DEF SpanAt
  <2>2. b[2] = e[2] /\ text[b[2]] = "("
    BY <1>1, <1>2, <1>3 DEF SpanAt
  <2>3. AsMySQL(b[3], e[3], v[3]) /\ AsMySQL(b[5], e[5], v[5])
    BY <1>1, <1>3 DEF SpanAt
  <2>4. b[4] = e[4] /\ text[b[4]] = Comma
    BY <1>1, <1>2, <1>3 DEF SpanAt
  <2>5. b[6] = e[6] /\ text[b[6]] = ")"
    BY <1>1, <1>2, <1>3 DEF SpanAt
  <2> QED BY <2>1, <2>2, <2>3, <2>4, <2>5
<1>5. /\ b[1 + 1] = e[1] + 1 /\ b[2 + 1] = e[2] + 1 /\ b[3 + 1] = e[3] + 1 /\ b[4 + 1] = e[4] + 1
      /\ b[5 + 1] = e[5] + 1
      /\ b[1] \in Nat \ {0} /\ b[4] \in Nat /\ e[6] \in Nat /\ e[3] \in Int /\ e[5] \in Int /\ e[6] <= Len(text)
  <2>1. Len(q) = 6
    BY <1>1
  <2>2. b[1 + 1] = e[1] + 1 /\ b[2 + 1] = e[2] + 1 /\ b[3 + 1] = e[3] + 1
    BY <1>3, <2>1 DEF SpanAt
  <2>3. b[4 + 1] = e[4] + 1 /\ b[5 + 1] = e[5] + 1
    BY <1>3, <2>1 DEF SpanAt
  <2>4. b[1] \in Nat \ {0} /\ b[4] \in Nat /\ e[6] \in Nat /\ e[3] \in Int /\ e[5] \in Int /\ e[6] <= Len(text)
    BY <1>3 DEF SpanAt
  <2> QED BY <2>2, <2>3, <2>4
<1>6. PICK i \in Nat \ {0} : i = b[1]
  BY <1>5
<1>7. PICK c \in Nat : c = b[4]
  BY <1>5
<1>8. PICK j \in Nat : j = e[6]
  BY <1>5
<1>9. b[2] = i + 1
  BY <1>4, <1>5, <1>6
<1>10. b[3] = i + 2
  BY <1>4, <1>5, <1>6, <1>9
<1>11. e[3] = c - 1 /\ b[5] = c + 1
  BY <1>4, <1>5, <1>7, SMTT(30)
<1>12. e[5] = j - 1
  BY <1>4, <1>5, <1>8
<1>13. text[i] = f /\ text[i + 1] = "(" /\ text[c] = Comma /\ text[j] = ")" /\ j <= Len(text)
  BY <1>4, <1>5, <1>6, <1>7, <1>8, <1>9
<1>14. AsMySQL(i + 2, c - 1, v[3]) /\ AsMySQL(c + 1, j - 1, v[5])
  BY <1>4, <1>10, <1>11, <1>12
<1>15. /\ Expr(i, j) /\ Outermost(i, j) = {}
       /\ RowsOfMySQL[<<i, j>>] = Row(f) \o print[v[3]] \o print[v[5]]
  <2>1. /\ Expr(i + 2, c - 1) /\ Expr(c + 1, j - 1)
        /\ print[v[3]] = RowsOfMySQL[<<i + 2, c - 1>>] /\ print[v[5]] = RowsOfMySQL[<<c + 1, j - 1>>]
    BY <1>14 DEF AsMySQL
  <2>2. text[i] \in Functions
    BY <1>13
  <2>3. /\ Expr(i, j) /\ Outermost(i, j) = {}
        /\ RowsOfMySQL[<<i, j>>] =
             Row(text[i]) \o RowsOfMySQL[<<i + 2, c - 1>>] \o RowsOfMySQL[<<c + 1, j - 1>>]
    BY <1>13, <2>1, <2>2, DateReads, Zenon
  <2> QED BY <1>13, <2>1, <2>3
<1>16. text[i] # "NOT"
  BY <1>2, <1>13
<1> QED BY <1>6, <1>8, <1>15, <1>16, OutermostIsEmpty

LEMMA ExtractReduced ==
  ASSUME text \in Seq(Terminals), NEW q, NEW v, NEW k, NEW b, NEW e, Context(q, v, k, b, e),
         q = <<"EXTRACT", "EXTRACT(", "unit", "FROM", "E", ")">>
  PROVE  Reduced(k, b[1], e[6], Row("EXTRACT") \o Row(v[3]) \o print[v[5]])
<1>1. /\ Len(q) = 6 /\ q[1] = "EXTRACT" /\ q[2] = "EXTRACT(" /\ q[3] = "unit" /\ q[4] = "FROM" /\ q[5] = "E"
      /\ q[6] = ")"
  OBVIOUS
<1>0. /\ SpanAt(q, v, b, e, 1) /\ SpanAt(q, v, b, e, 2) /\ SpanAt(q, v, b, e, 3)
      /\ SpanAt(q, v, b, e, 4) /\ SpanAt(q, v, b, e, 5) /\ SpanAt(q, v, b, e, 6)
  <2>1. /\ 1 \in 1 .. Len(q) /\ 2 \in 1 .. Len(q) /\ 3 \in 1 .. Len(q)
        /\ 4 \in 1 .. Len(q) /\ 5 \in 1 .. Len(q) /\ 6 \in 1 .. Len(q)
    BY <1>1
  <2> QED BY <2>1, SpansOf, Zenon
<1>2. {"EXTRACT", "FROM", ")"} \cap Compound = {} /\ "EXTRACT(" \in Openings
  BY DEF Openings, Compound
<1>3. /\ b[1] = e[1] /\ text[b[1]] = "EXTRACT" /\ b[2] = e[2] /\ text[b[2]] = "("
      /\ b[3] = e[3] /\ text[b[3]] \in Units /\ v[3] = text[b[3]] /\ b[4] = e[4] /\ text[b[4]] = "FROM"
      /\ AsMySQL(b[5], e[5], v[5]) /\ b[6] = e[6] /\ text[b[6]] = ")"
  <2>2. b[1] = e[1] /\ text[b[1]] = "EXTRACT" /\ b[2] = e[2] /\ text[b[2]] = "("
    BY <1>1, <1>2, <1>0 DEF SpanAt
  <2>3. b[3] = e[3] /\ text[b[3]] \in Units /\ v[3] = text[b[3]]
    BY <1>1, <1>0 DEF SpanAt
  <2>4. b[4] = e[4] /\ text[b[4]] = "FROM" /\ b[6] = e[6] /\ text[b[6]] = ")"
    BY <1>1, <1>2, <1>0 DEF SpanAt
  <2>5. AsMySQL(b[5], e[5], v[5])
    BY <1>1, <1>0 DEF SpanAt
  <2> QED BY <2>2, <2>3, <2>4, <2>5
<1>4. /\ b[1 + 1] = e[1] + 1 /\ b[2 + 1] = e[2] + 1 /\ b[3 + 1] = e[3] + 1 /\ b[4 + 1] = e[4] + 1
      /\ b[5 + 1] = e[5] + 1
      /\ b[1] \in Nat \ {0} /\ e[6] \in Nat /\ e[5] \in Int /\ e[6] <= Len(text)
  BY <1>1, <1>0 DEF SpanAt
<1>5. PICK i \in Nat \ {0} : i = b[1]
  BY <1>4
<1>6. PICK j \in Nat : j = e[6]
  BY <1>4
<1>7. b[2] = i + 1
  BY <1>3, <1>4, <1>5
<1>8. b[3] = i + 2
  BY <1>3, <1>4, <1>7
<1>9. b[4] = i + 3
  BY <1>3, <1>4, <1>8
<1>10. b[5] = i + 4 /\ e[5] = j - 1
  BY <1>3, <1>4, <1>6, <1>9, SMTT(30)
<1>11. /\ text[i] = "EXTRACT" /\ text[i + 1] = "(" /\ text[i + 2] \in Units /\ text[i + 2] = v[3]
       /\ text[i + 3] = "FROM" /\ text[j] = ")" /\ j <= Len(text)
  BY <1>3, <1>4, <1>5, <1>6, <1>7, <1>8, <1>9
<1>12. AsMySQL(i + 4, j - 1, v[5])
  BY <1>3, <1>10
<1>13. /\ Expr(i, j) /\ Outermost(i, j) = {}
       /\ RowsOfMySQL[<<i, j>>] = Row("EXTRACT") \o Row(v[3]) \o print[v[5]]
  BY <1>11, <1>12, ExtractReads DEF AsMySQL
<1>14. text[i] # "NOT"
  BY <1>11
<1> QED BY <1>5, <1>6, <1>13, <1>14, OutermostIsEmpty

-----------------------------------------------------------------------------
(* The operator of a production and what is outermost in its operands        *)

LEMMA PrefixLevels ==
  /\ Level("NOT") = 4 /\ Level("-") = 9 /\ Level("!") = 12 /\ Level("IS") = 5
  /\ Level("OR") = 1 /\ Level("XOR") = 2 /\ Level("AND") = 3
  BY DEF Level

\* What binds stronger than l.
LEMMA OutermostHasLevels ==
  ASSUME text \in Seq(Terminals), NEW i, NEW j, Expr(i, j)
  PROVE  \A n \in Outermost(i, j) : /\ text[n] \in Infixes /\ Level(text[n]) \in Int /\ Level(text[n]) \in 1 .. 11
                                    /\ n \in i .. j
<1>1. i \in 1 .. Len(text) /\ j \in i .. Len(text)
  BY DEF Expr
<1>2. \A n \in Outermost(i, j) : text[n] \in Infixes /\ n \in i .. j
  <2>1. i \in Int /\ j \in Int /\ i \in Nat /\ \A n \in i .. j : n \in Nat
    BY <1>1
  <2> QED BY <1>1, <2>1, OutermostIs DEF Outermost
<1> QED BY <1>2, LevelIs, Zenon

LEMMA IsReduced ==
  ASSUME text \in Seq(Terminals), NEW q, NEW v, NEW k, NEW b, NEW e, Context(q, v, k, b, e),
         q = <<"E", "IS", "NULL">> \/ q = <<"E", "IS", "IS_NOT", "NULL">>
  PROVE  Reduced(k, b[1], e[Len(q)],
                 Row("IS") \o print[v[1]] \o Row(IF q[3] = "NULL" THEN "NULL" ELSE "NOT_NULL"))
<1>1. PICK z : z = Len(q)
  OBVIOUS
<1>2. /\ q[1] = "E" /\ q[2] = "IS" /\ q[z] = "NULL" /\ z \in {3, 4}
      /\ z = 3 => q[3] = "NULL"
      /\ z = 4 => q[3] = "IS_NOT"
  <2>1. CASE q = <<"E", "IS", "NULL">>
    BY <1>1, <2>1
  <2>2. CASE q = <<"E", "IS", "IS_NOT", "NULL">>
    BY <1>1, <2>2
  <2> QED BY <2>1, <2>2
<1>3. "IS" \notin Compound /\ "NULL" \notin Compound /\ "IS" \in Infixes
  BY DEF Compound, Openings, Infixes
<1>4. /\ SpanAt(q, v, b, e, 1) /\ SpanAt(q, v, b, e, 2) /\ SpanAt(q, v, b, e, 3) /\ SpanAt(q, v, b, e, z)
      /\ 1 \in 1 .. Len(q) /\ 1 < Len(q)
  <2>1. 1 \in 1 .. Len(q) /\ 2 \in 1 .. Len(q) /\ 3 \in 1 .. Len(q) /\ z \in 1 .. Len(q) /\ 1 < Len(q)
    BY <1>1, <1>2
  <2> QED BY <2>1, SpansOf, Zenon
<1>5. Binds(b[1], e[1], 5)
  <2>1. q[1 + 1] \in Infixes
    BY <1>2, <1>3
  <2>2. Binds(b[1], e[1], Level(q[1 + 1]))
    BY <1>2, <1>4, <2>1, Zenon DEF Context, Spanned
  <2>3. Level(q[1 + 1]) = 5
    BY <1>2, PrefixLevels
  <2> QED BY <2>2, <2>3
<1>6. AsMySQL(b[1], e[1], v[1]) /\ text[b[2]] = "IS" /\ text[b[z]] = "NULL" /\ b[2] = e[2] /\ b[z] = e[z]
  <2>1. AsMySQL(b[1], e[1], v[1])
    BY <1>2, <1>4 DEF SpanAt
  <2>2. text[b[2]] = "IS" /\ b[2] = e[2]
    BY <1>2, <1>3, <1>4 DEF SpanAt
  <2>3. text[b[z]] = "NULL" /\ b[z] = e[z]
    BY <1>2, <1>3, <1>4 DEF SpanAt
  <2> QED BY <2>1, <2>2, <2>3
<1>7. /\ b[1 + 1] = e[1] + 1 /\ b[2 + 1] = e[2] + 1
      /\ e[1] \in Int /\ b[2] \in Nat /\ b[3] \in Int /\ e[z] \in Nat /\ e[z] <= Len(text)
  BY <1>1, <1>2, <1>4 DEF SpanAt
<1>8. z = 4 => text[b[3]] = "NOT" /\ b[3] = e[3] /\ b[3 + 1] = e[3] + 1
  BY <1>1, <1>2, <1>4 DEF SpanAt
<1>9. PICK m \in Nat : m = b[2] /\ e[1] = m - 1
  BY <1>7
<1>10. PICK j \in Nat : j = e[z] /\ j <= Len(text) /\ text[j] = "NULL"
  BY <1>6, <1>7
<1>11. b[3] = m + 1
  BY <1>6, <1>7, <1>9
<1>12. (z = 3 /\ j = m + 1) \/ (z = 4 /\ j = m + 2 /\ text[m + 1] = "NOT")
  <2>1. CASE z = 3
    BY <1>6, <1>10, <1>11, <2>1
  <2>2. CASE z = 4
    <3>1. b[4] = m + 2
      BY <1>8, <1>11, <2>2
    <3> QED BY <1>6, <1>8, <1>10, <1>11, <2>2, <3>1
  <2> QED BY <1>2, <2>1, <2>2
<1>13. PICK i : i = b[1]
  OBVIOUS
<1>14. Expr(i, m - 1) /\ print[v[1]] = RowsOfMySQL[<<i, m - 1>>] /\ Binds(i, m - 1, 5) /\ text[m] = "IS"
  BY <1>5, <1>6, <1>9, <1>13 DEF AsMySQL
<1>15. /\ Expr(i, j) /\ Outermost(i, j) = Outermost(i, m - 1) \cup {m}
       /\ RowsOfMySQL[<<i, j>>] =
            Row("IS") \o RowsOfMySQL[<<i, m - 1>>] \o Row(IF j = m + 1 THEN "NULL" ELSE "NOT_NULL")
  <2>1. BehindIs(i, m, j)
    BY <1>10, <1>12, <1>14 DEF BehindIs
  <2> QED BY <2>1, IsReads DEF ReadsIs
<1>16. RowsOfMySQL[<<i, j>>] = Row("IS") \o print[v[1]] \o Row(IF q[3] = "NULL" THEN "NULL" ELSE "NOT_NULL")
  <2>1. j = m + 1 <=> q[3] = "NULL"
    BY <1>2, <1>12
  <2> QED BY <1>14, <1>15, <2>1
<1>17. Binds(i, j, 5)
  BY <1>14, <1>15, PrefixLevels DEF Binds
<1>18. text[i] # "NOT"
  BY <1>14 DEF Binds
<1>19. Waits(i, j)
  BY <1>10, <1>17, <1>18 DEF Waits, Quiet
<1>20. IsOperand(k) => Stronger(i, j, Level(stack[k].sym))
  <2> SUFFICES ASSUME IsOperand(k) PROVE Stronger(i, j, Level(stack[k].sym))
    OBVIOUS
  <2>1. Level(stack[k].sym) < 5
    BY <1>2, <1>3, PrefixLevels DEF Context
  <2>2. \A n \in Outermost(i, j) : Level(text[n]) >= 5 /\ Level(text[n]) \in Int
    BY <1>15, <1>17, OutermostHasLevels DEF Binds
  <2>3. Level(stack[k].sym) \in Int
    BY PrefixLevels, LevelIs DEF IsOperand, Infixes, Prefixes
  <2> QED BY <2>1, <2>2, <2>3 DEF Stronger
<1> QED BY <1>1, <1>10, <1>13, <1>15, <1>16, <1>19, <1>20 DEF Reduced

LEMMA InfixReduced ==
  ASSUME text \in Seq(Terminals), NEW q, NEW v, NEW k, NEW b, NEW e, Context(q, v, k, b, e),
         NEW op \in Infix, q = <<"E", op, "E">>
  PROVE  Reduced(k, b[1], e[3], Row(op) \o print[v[1]] \o print[v[3]])
<1>1. Len(q) = 3 /\ q[1] = "E" /\ q[2] = op /\ q[3] = "E"
  OBVIOUS
<1>2. op \notin Compound /\ op # "E" /\ op \in Infixes /\ op \in Infix \cup Prefixes
  BY DEF Infix, Compound, Openings, Infixes
<1>3. /\ SpanAt(q, v, b, e, 1) /\ SpanAt(q, v, b, e, 2) /\ SpanAt(q, v, b, e, 3)
      /\ 1 \in 1 .. Len(q) /\ 3 \in 1 .. Len(q) /\ 1 < Len(q) /\ 3 > 1
  <2>1. 1 \in 1 .. Len(q) /\ 2 \in 1 .. Len(q) /\ 3 \in 1 .. Len(q) /\ 1 < Len(q) /\ 3 > 1
    BY <1>1
  <2> QED BY <2>1, SpansOf, Zenon
<1>4. Binds(b[1], e[1], Level(op)) /\ Stronger(b[3], e[3], Level(op))
  <2>1. q[1 + 1] = op /\ q[3 - 1] = op
    BY <1>1
  <2>2. Binds(b[1], e[1], Level(q[1 + 1]))
    BY <1>1, <1>2, <1>3, <2>1, Zenon DEF Context, Spanned
  <2>3. Stronger(b[3], e[3], Level(q[3 - 1]))
    BY <1>1, <1>2, <1>3, <2>1, Zenon DEF Context, Spanned
  <2> QED BY <2>1, <2>2, <2>3
<1>5. /\ AsMySQL(b[1], e[1], v[1]) /\ AsMySQL(b[3], e[3], v[3]) /\ text[b[2]] = op /\ b[2] = e[2]
      /\ b[1 + 1] = e[1] + 1 /\ b[2 + 1] = e[2] + 1 /\ e[1] \in Int /\ b[2] \in Nat
  BY <1>1, <1>2, <1>3 DEF SpanAt
<1>6. PICK m \in Nat : m = b[2] /\ e[1] = m - 1 /\ b[3] = m + 1
  BY <1>5
<1>7. PICK i, j : i = b[1] /\ j = e[3]
  OBVIOUS
<1>8. /\ Expr(i, m - 1) /\ Expr(m + 1, j) /\ text[m] = op
      /\ Binds(i, m - 1, Level(op)) /\ Stronger(m + 1, j, Level(op))
      /\ print[v[1]] = RowsOfMySQL[<<i, m - 1>>] /\ print[v[3]] = RowsOfMySQL[<<m + 1, j>>]
  BY <1>4, <1>5, <1>6, <1>7 DEF AsMySQL
<1>9. /\ Expr(i, j) /\ Outermost(i, j) = Outermost(i, m - 1) \cup {m} \cup Outermost(m + 1, j)
      /\ RowsOfMySQL[<<i, j>>] = Row(op) \o print[v[1]] \o print[v[3]]
  <2>1. ReadsAround(i, m, j)
    <3>1. AroundOperator(i, m, j)
      BY <1>8 DEF AroundOperator
    <3> QED BY <3>1, InfixReads
  <2> QED BY <1>8, <2>1 DEF ReadsAround
<1>10. \A n \in Outermost(i, j) : Level(text[n]) \in Int
  BY <1>9, OutermostHasLevels
<1>11. Level(op) \in 1 .. 11 /\ Level(op) \in Int
  BY <1>2, LevelIs, Zenon
<1>12. \A n \in Outermost(i, j) : Level(text[n]) >= Level(op)
  BY <1>8, <1>9, <1>10, <1>11 DEF Binds, Stronger
<1>13. text[i] = "NOT" => Level(op) <= 4
  BY <1>8 DEF Binds
<1>14. Waits(i, j)
  <2>1. Operator(q) = op
    BY <1>1 DEF Operator
  <2>2. look # "NONE" /\ (look \in Infixes => Level(op) >= Level(look))
    BY <1>1, <2>1 DEF Context
  <2>3. look \in Infixes => Level(look) \in Int
    BY LevelIs, Zenon
  <2>4. look \in Infixes => Binds(i, j, Level(look))
    BY <1>10, <1>11, <1>12, <1>13, <2>2, <2>3 DEF Binds
  <2> QED BY <2>2, <2>4 DEF Waits
<1>15. IsOperand(k) => Stronger(i, j, Level(stack[k].sym))
  <2> SUFFICES ASSUME IsOperand(k) PROVE Stronger(i, j, Level(stack[k].sym))
    OBVIOUS
  <2>1. Level(stack[k].sym) < Level(op)
    BY <1>1, <1>2 DEF Context
  <2>3. Level(stack[k].sym) \in Int
    BY PrefixLevels, LevelIs DEF IsOperand, Infixes, Prefixes
  <2> QED BY <1>10, <1>11, <1>12, <2>1, <2>3 DEF Stronger
<1> QED BY <1>7, <1>9, <1>14, <1>15 DEF Reduced

\* The prefix and its operand.
LEMMA PrefixIs ==
  ASSUME text \in Seq(Terminals), NEW q, NEW v, NEW k, NEW b, NEW e, Context(q, v, k, b, e),
         NEW op \in Prefixes, q = <<op, "E">>
  PROVE  \E i \in Nat \ {0} : \E j \in Nat :
           /\ i = b[1] /\ j = e[2] /\ text[i] = op /\ i <= Len(text) /\ AsMySQL(i + 1, j, v[2])
           /\ Stronger(i + 1, j, Level(op)) /\ ~IsInfix(i)
           /\ look # "NONE" /\ (look \in Infixes => Level(op) >= Level(look))
<1>1. Len(q) = 2 /\ q[1] = op /\ q[2] = "E"
  OBVIOUS
<1>2. op \notin Compound /\ op # "E" /\ op \in Infix \cup Prefixes
  BY DEF Prefixes, Compound, Openings
<1>3. /\ SpanAt(q, v, b, e, 1) /\ SpanAt(q, v, b, e, 2) /\ 1 \in 1 .. Len(q) /\ 2 \in 1 .. Len(q) /\ 2 > 1
  <2>1. 1 \in 1 .. Len(q) /\ 2 \in 1 .. Len(q) /\ 2 > 1
    BY <1>1
  <2> QED BY <2>1, SpansOf, Zenon
<1>4. Stronger(b[2], e[2], Level(op))
  <2>1. q[2 - 1] = op
    BY <1>1
  <2>2. Stronger(b[2], e[2], Level(q[2 - 1]))
    BY <1>1, <1>2, <1>3, <2>1, Zenon DEF Context, Spanned
  <2> QED BY <2>1, <2>2
<1>5. /\ AsMySQL(b[2], e[2], v[2]) /\ text[b[1]] = op /\ b[1] = e[1]
      /\ b[1 + 1] = e[1] + 1 /\ b[1] \in Nat \ {0} /\ e[2] \in Nat /\ e[1] <= Len(text)
  BY <1>1, <1>2, <1>3 DEF SpanAt
<1>6. PICK i \in Nat \ {0} : i = b[1] /\ b[2] = i + 1
  BY <1>5
<1>7. ~IsInfix(i)
  <2>1. CASE op # "-"
    <3>1. text[i] \notin Infix \cup {"IS"}
      BY <1>5, <1>6, <2>1 DEF Prefixes, Infix
    <3> QED BY <3>1 DEF IsInfix
  <2>2. CASE op = "-"
    <3>1. (k = 0 \/ stack[k].sym # "E") /\ Follows(k, i) /\ k \in Nat
      BY <1>6, <2>2 DEF Context
    <3>2. CASE k = 0
      <4>1. i = 1
        BY <3>1, <3>2 DEF Follows
      <4> QED BY <4>1 DEF IsInfix
    <3>3. CASE k > 0
      <4>1. /\ i > 1 /\ TokenOf(stack[k].sym, text[i - 1]) /\ stack[k].sym \notin Closers \cup {"unit"}
        BY <3>1, <3>3 DEF Follows
      <4>2. \A sym, t : TokenOf(sym, t) /\ sym \notin Closers \cup {"unit"} =>
                          t \notin Leaves \cup Units \cup {")", "NULL"}
        <5> SUFFICES ASSUME NEW sym, NEW t, TokenOf(sym, t), sym \notin Closers \cup {"unit"}
                     PROVE  t \notin Leaves \cup Units \cup {")", "NULL"}
          OBVIOUS
        <5>1. CASE sym \in Openings
          BY <5>1, TokenIs DEF Leaves, Units
        <5>2. CASE sym = "IS_NOT"
          BY <5>2, TokenIs DEF Leaves, Units
        <5>3. CASE sym \notin Compound
          <6>1. t = sym /\ t \notin Units
            BY <5>3 DEF TokenOf, Compound, Openings
          <6> QED BY <6>1 DEF Closers
        <5> QED BY <5>1, <5>2, <5>3 DEF Compound
      <4> QED BY <4>1, <4>2 DEF IsInfix
    <3> QED BY <3>1, <3>2, <3>3
  <2> QED BY <2>1, <2>2
<1>8. look # "NONE" /\ (look \in Infixes => Level(op) >= Level(look))
  <2>1. Operator(q) = op
    BY <1>1 DEF Operator
  <2> QED BY <1>1, <2>1 DEF Context
<1>9. text[i] = op /\ i <= Len(text) /\ AsMySQL(i + 1, e[2], v[2]) /\ Stronger(i + 1, e[2], Level(op))
  BY <1>4, <1>5, <1>6
<1> QED BY <1>5, <1>6, <1>7, <1>8, <1>9

LEMMA NotReduced ==
  ASSUME text \in Seq(Terminals), NEW q, NEW v, NEW k, NEW b, NEW e, Context(q, v, k, b, e),
         q = <<"NOT", "E">>, ~NotInMySQL
  PROVE  Reduced(k, b[1], e[2], Row("NOT") \o print[v[2]])
<1>1. "NOT" \in Prefixes
  BY DEF Prefixes
<1>2. PICK i \in Nat \ {0}, j \in Nat :
        /\ i = b[1] /\ j = e[2] /\ text[i] = "NOT" /\ i <= Len(text) /\ AsMySQL(i + 1, j, v[2])
        /\ Stronger(i + 1, j, Level("NOT")) /\ ~IsInfix(i)
        /\ look # "NONE" /\ (look \in Infixes => Level("NOT") >= Level(look))
  BY <1>1, PrefixIs
<1>3. Expr(i + 1, j) /\ print[v[2]] = RowsOfMySQL[<<i + 1, j>>] /\ Stronger(i + 1, j, 4)
  BY <1>2, PrefixLevels DEF AsMySQL
<1>4. /\ Expr(i, j) /\ Outermost(i, j) = Outermost(i + 1, j)
      /\ RowsOfMySQL[<<i, j>>] = Row("NOT") \o print[v[2]]
  <2>1. BehindPrefix(i, j)
    BY <1>1, <1>2, <1>3 DEF BehindPrefix
  <2>2. ReadsPrefix(i, j)
    BY <2>1, PrefixReads
  <2> QED BY <1>2, <1>3, <2>2 DEF ReadsPrefix
<1>5. \A n \in Outermost(i, j) : Level(text[n]) \in Int /\ Level(text[n]) > 4
  BY <1>3, <1>4, OutermostHasLevels DEF Stronger
<1>6. Waits(i, j)
  <2>1. look \in Infixes => Level(look) \in Int /\ Level(look) <= 4
    <3>1. look \in Infixes => Level(look) \in Int
      BY LevelIs, Zenon
    <3> QED BY <1>2, <3>1, PrefixLevels
  <2>2. look \in Infixes => Binds(i, j, Level(look))
    BY <1>5, <2>1 DEF Binds
  <2> QED BY <1>2, <2>2 DEF Waits
<1>7. IsOperand(k) => Stronger(i, j, Level(stack[k].sym))
  <2> SUFFICES ASSUME IsOperand(k) PROVE Stronger(i, j, Level(stack[k].sym))
    OBVIOUS
  <2>1. CASE stack[k].sym \in {"OR", "XOR", "AND", "NOT"}
    <3>1. Level(stack[k].sym) \in Int /\ Level(stack[k].sym) <= 4
      BY <2>1, PrefixLevels
    <3> QED BY <1>5, <3>1 DEF Stronger
  <2>2. CASE stack[k].sym \notin {"OR", "XOR", "AND", "NOT"}
    <3>1. stack[k].sym \in (Infix \cup {"!"}) \ {"OR", "XOR", "AND"}
      BY <2>2 DEF IsOperand, Prefixes, Infix
    <3>2. stack[k].sym # "E" /\ stack[k].sym \notin Compound
      BY <3>1 DEF Infix, Compound, Openings
    <3>3. Follows(k, i) /\ k > 0
      BY <1>2 DEF Context, IsOperand
    <3>4. i > 1 /\ TokenOf(stack[k].sym, text[i - 1])
      BY <3>2, <3>3 DEF Follows
    <3>5. text[i - 1] = stack[k].sym
      BY <3>2, <3>4, TokenIs, Zenon
    <3>6. i \in Tokens({"NOT"})
      BY <1>2 DEF Tokens
    <3>7. text[i - 1] \in (Infix \cup {"!"}) \ {"OR", "XOR", "AND"}
      BY <3>1, <3>5
    <3>8. NotInMySQL
      BY <3>4, <3>6, <3>7, Zenon DEF NotInMySQL
    <3> QED BY <3>8
  <2> QED BY <2>1, <2>2
<1> QED BY <1>2, <1>4, <1>6, <1>7 DEF Reduced

LEMMA MinusReduced ==
  ASSUME text \in Seq(Terminals), NEW q, NEW v, NEW k, NEW b, NEW e, Context(q, v, k, b, e),
         q = <<"-", "E">>, ~NegatesProduct
  PROVE  Reduced(k, b[1], e[2], Negated(print[v[2]]))
<1>1. "-" \in Prefixes
  BY DEF Prefixes
<1>2. PICK i \in Nat \ {0}, j \in Nat :
        /\ i = b[1] /\ j = e[2] /\ text[i] = "-" /\ i <= Len(text) /\ AsMySQL(i + 1, j, v[2])
        /\ Stronger(i + 1, j, Level("-")) /\ ~IsInfix(i)
  BY <1>1, PrefixIs
<1>3. Expr(i + 1, j) /\ print[v[2]] = RowsOfMySQL[<<i + 1, j>>] /\ Stronger(i + 1, j, 9)
  BY <1>2, PrefixLevels DEF AsMySQL
<1>4. Outermost(i + 1, j) = {}
  <2> SUFFICES ASSUME NEW n \in Outermost(i + 1, j) PROVE FALSE
    OBVIOUS
  <2>1. text[n] \in Infixes /\ Level(text[n]) > 9 /\ n \in i + 1 .. j
    BY <1>3, OutermostHasLevels DEF Stronger
  <2>2. text[n] \in {"*", "/", "%", "^"}
    BY <2>1 DEF Infixes, Infix, Level
  <2>3. i \in DOMAIN text /\ n \in DOMAIN text /\ i < n
    <3>1. j <= Len(text) /\ Len(text) \in Nat
      BY <1>3, ExprIs
    <3> QED BY <1>2, <2>1, <3>1
  <2> QED BY <1>2, <2>2, <2>3 DEF NegatesProduct
<1>5. /\ Expr(i, j) /\ Outermost(i, j) = {} /\ RowsOfMySQL[<<i, j>>] = Negated(print[v[2]])
  <2>1. BehindPrefix(i, j)
    BY <1>1, <1>2, <1>3 DEF BehindPrefix
  <2>2. ReadsPrefix(i, j)
    BY <2>1, PrefixReads
  <2> QED BY <1>2, <1>3, <1>4, <2>2 DEF ReadsPrefix
<1>6. text[i] # "NOT"
  BY <1>2
<1> QED BY <1>2, <1>5, <1>6, OutermostIsEmpty

LEMMA BangReduced ==
  ASSUME text \in Seq(Terminals), NEW q, NEW v, NEW k, NEW b, NEW e, Context(q, v, k, b, e),
         q = <<"!", "E">>
  PROVE  Reduced(k, b[1], e[2], Row("!") \o print[v[2]])
<1>1. "!" \in Prefixes
  BY DEF Prefixes
<1>2. PICK i \in Nat \ {0}, j \in Nat :
        /\ i = b[1] /\ j = e[2] /\ text[i] = "!" /\ i <= Len(text) /\ AsMySQL(i + 1, j, v[2])
        /\ Stronger(i + 1, j, Level("!")) /\ ~IsInfix(i)
  BY <1>1, PrefixIs
<1>3. Expr(i + 1, j) /\ print[v[2]] = RowsOfMySQL[<<i + 1, j>>] /\ Stronger(i + 1, j, 12)
  BY <1>2, PrefixLevels DEF AsMySQL
<1>4. Outermost(i + 1, j) = {}
  <2>1. PICK h : h = i + 1
    OBVIOUS
  <2>2. Expr(h, j) /\ Stronger(h, j, 12)
    BY <1>3, <2>1
  <2>3. \A n \in Outermost(h, j) : Level(text[n]) \in 1 .. 11
    BY <2>2, OutermostHasLevels, Zenon
  <2>4. \A n \in Outermost(h, j) : Level(text[n]) > 12
    BY <2>2 DEF Stronger
  <2> QED BY <2>1, <2>3, <2>4
<1>5. /\ Expr(i, j) /\ Outermost(i, j) = {} /\ RowsOfMySQL[<<i, j>>] = Row("!") \o print[v[2]]
  <2>1. BehindPrefix(i, j)
    BY <1>1, <1>2, <1>3 DEF BehindPrefix
  <2>2. ReadsPrefix(i, j)
    BY <2>1, PrefixReads
  <2> QED BY <1>2, <1>3, <1>4, <2>2 DEF ReadsPrefix
<1>6. text[i] # "NOT"
  BY <1>2
<1> QED BY <1>2, <1>5, <1>6, OutermostIsEmpty

-----------------------------------------------------------------------------
(* What the node of a production prints                                      *)

NullRows(null) == Row(IF null THEN "NULL" ELSE "NOT_NULL")

\* PrintOf, for any function f that is print of node p, made as ce.
PrintCases(f, ce, p) ==
  /\ \A op \in Leaves : \A val : ce = Leaf(op, val) => f[p] = Literal(op, val)
  /\ \A op \in Infix \cup Functions : \A l, r :
       ce = init_cond(l, op, r) /\ l # 0 => f[p] = Row(op) \o f[l] \o f[r]
  /\ \A r : ce = init_cond(0, "-", r) => f[p] = Row("NEGATION") \o f[r]
  /\ \A op \in {"NOT", "!"} : \A l, r : ce = init_cond(l, op, r) => f[p] = Row(op) \o f[l]
  /\ \A l, val : ce = WithArg("IS", "is", l, val) =>
       f[p] = Row("IS") \o f[l] \o NullRows(val)
  /\ \A l, val : ce = WithArg("INTERVAL", "interval", l, val) =>
       f[p] = Row("INTERVAL") \o f[l] \o Row(val)
  /\ \A l, val : ce = WithArg("EXTRACT", "extract", l, val) =>
       f[p] = Row("EXTRACT") \o Row(val) \o f[l]

LEMMA PrintOfAll ==
  NodesOK => \E f : f = print /\ \A p \in 1 .. Len(nodes) : PrintCases(f, nodes[p], p)
<1> SUFFICES ASSUME NodesOK, NEW p \in 1 .. Len(nodes) PROVE PrintCases(print, nodes[p], p)
  OBVIOUS
<1> QED BY PrintOf, Zenon DEF PrintCases, NullRows

\* The production q with the values v makes node p, and g prints it and the nodes
\* there were.
Makes(q, v, g, p) ==
  /\ NodesOK /\ q \in Productions /\ ValuesFit(q, v, Len(nodes)) /\ PrintCases(g, Built(q, v), p)
  /\ \A n \in 1 .. Len(nodes) : g[n] = print[n]

LEMMA NodeIsAdded ==
  ASSUME CondOK, CondOK', NEW q, NEW v, NEW k, NEW c, Reduces(q, v, k, c), q[1] # "("
  PROVE  \E g : g = print' /\ Makes(q, v, g, c.val)
<1>1. PICK n \in Nat : n = Len(nodes) /\ nodes \in Seq(Cells)
  BY DEF CondOK, NodesOK
<1>2. PICK ce : ce = Built(q, v)
  OBVIOUS
<1>3. q \in Productions /\ ValuesFit(q, v, n) /\ c.val = n + 1 /\ nodes' = Append(nodes, ce)
  BY <1>1, <1>2, Zenon DEF Reduces
<1>4. PICK t : t = nodes'
  OBVIOUS
<1>5. Len(t) = n + 1 /\ t[n + 1] = ce /\ \A p \in 1 .. n : t[p] = nodes[p]
  BY <1>1, <1>3, <1>4
<1>6. NodesOK /\ NodesOK'
  BY DEF CondOK
<1>7. PICK g : g = print' /\ \A p \in 1 .. Len(t) : PrintCases(g, t[p], p)
  <2>1. (NodesOK => \E f : f = print /\ \A p \in 1 .. Len(nodes) : PrintCases(f, nodes[p], p))'
    BY PrintOfAll, PTL
  <2>2. \E f : f = print' /\ \A p \in 1 .. Len(nodes') : PrintCases(f, nodes'[p], p)
    BY <1>6, <2>1, Zenon
  <2> QED BY <1>4, <2>2, Zenon
<1>8. PrintCases(g, ce, n + 1)
  <2>1. n + 1 \in 1 .. Len(t)
    BY <1>1, <1>5
  <2> QED BY <1>5, <1>7, <2>1
<1>9. \A p \in 1 .. n : g[p] = print[p]
  <2>1. Len(nodes) <= Len(nodes') /\ \A p \in 1 .. Len(nodes) : nodes'[p] = nodes[p]
    BY <1>1, <1>4, <1>5
  <2> QED BY <1>1, <1>6, <1>7, <2>1, PrintStays
<1> QED BY <1>1, <1>2, <1>3, <1>6, <1>7, <1>8, <1>9, Zenon DEF Makes

Joined(a, b, c) == a \o b \o c

LEMMA LeafMade ==
  ASSUME NEW q, NEW v, NEW g, NEW p, Makes(q, v, g, p), NEW leaf \in Leaves, q = <<leaf>>
  PROVE  g[p] = Row(leaf)
<1>1. q[1] = leaf /\ 1 \in DOMAIN q
  OBVIOUS
<1>2. v[1] = 1
  BY <1>1 DEF Makes, ValuesFit, Fits
<1>3. Built(q, v) = Leaf(leaf, 1)
  BY <1>1, <1>2 DEF Built, Leaves
<1>4. g[p] = Literal(leaf, 1)
  BY <1>3, Zenon DEF Makes, PrintCases
<1> QED BY <1>4 DEF Literal

LEMMA InfixMade ==
  ASSUME NEW q, NEW v, NEW g, NEW p, Makes(q, v, g, p), NEW op \in Infix, q = <<"E", op, "E">>
  PROVE  g[p] = Joined(Row(op), print[v[1]], print[v[3]])
<1>1. q[1] = "E" /\ q[2] = op /\ q[3] = "E" /\ op # "IS" /\ 1 \in DOMAIN q /\ 3 \in DOMAIN q
  BY DEF Infix
<1>2. v[1] \in 1 .. Len(nodes) /\ v[3] \in 1 .. Len(nodes) /\ Len(nodes) \in Nat
  BY <1>1 DEF Makes, ValuesFit, Fits, NodesOK
<1>3. PICK l, r : l = v[1] /\ r = v[3]
  OBVIOUS
<1>4. Built(q, v) = init_cond(l, op, r)
  BY <1>1, <1>3 DEF Built, Leaves
<1>5. l # 0
  BY <1>2, <1>3
<1>6. g[p] = Row(op) \o g[l] \o g[r]
  <2>1. \A o \in Infix \cup Functions : \A x, y :
          Built(q, v) = init_cond(x, o, y) /\ x # 0 => g[p] = Row(o) \o g[x] \o g[y]
    BY Zenon DEF Makes, PrintCases
  <2>2. op \in Infix \cup Functions
    OBVIOUS
  <2> QED BY <1>4, <1>5, <2>1, <2>2, Zenon
<1> QED BY <1>2, <1>3, <1>6 DEF Makes, Joined

LEMMA NotMade ==
  ASSUME NEW q, NEW v, NEW g, NEW p, Makes(q, v, g, p), NEW op \in {"NOT", "!"}, q = <<op, "E">>
  PROVE  g[p] = Row(op) \o print[v[2]]
<1>1. q[1] = op /\ q[2] = "E" /\ 2 \in DOMAIN q
  OBVIOUS
<1>2. v[2] \in 1 .. Len(nodes)
  BY <1>1 DEF Makes, ValuesFit, Fits
<1>3. PICK a : a = v[2]
  OBVIOUS
<1>4. Built(q, v) = Prefixed(op, a)
  BY <1>1, <1>3 DEF Built, Leaves
<1>5. Prefixed(op, a) = init_cond(a, op, 0)
  BY DEF Prefixed, Null
<1>6. g[p] = Row(op) \o g[a]
  BY <1>4, <1>5, Zenon DEF Makes, PrintCases
<1> QED BY <1>2, <1>3, <1>6 DEF Makes

LEMMA FunctionMade ==
  ASSUME NEW q, NEW v, NEW g, NEW p, Makes(q, v, g, p), NEW f \in Functions, q = Function(f)
  PROVE  g[p] = Joined(Row(f), print[v[3]], print[v[5]])
<1>1. q[1] = f /\ q[3] = "E" /\ q[5] = "E" /\ 3 \in DOMAIN q /\ 5 \in DOMAIN q
  BY DEF Function
<1>2. v[3] \in 1 .. Len(nodes) /\ v[5] \in 1 .. Len(nodes) /\ Len(nodes) \in Nat
  BY <1>1 DEF Makes, ValuesFit, Fits, NodesOK
<1>3. PICK l, r : l = v[3] /\ r = v[5]
  OBVIOUS
<1>4. Built(q, v) = init_cond(l, f, r)
  <2>1. f \notin Leaves /\ f \notin {"-", "NOT", "!", "INTERVAL"} /\ f \in {"DATE_ADD", "DATE_SUB"}
    BY DEF Functions, Leaves
  <2> QED BY <1>1, <1>3, <2>1 DEF Built
<1>5. l # 0
  BY <1>2, <1>3
<1>6. g[p] = Row(f) \o g[l] \o g[r]
  <2>1. \A o \in Infix \cup Functions : \A x, y :
          Built(q, v) = init_cond(x, o, y) /\ x # 0 => g[p] = Row(o) \o g[x] \o g[y]
    BY Zenon DEF Makes, PrintCases
  <2>2. f \in Infix \cup Functions
    OBVIOUS
  <2> QED BY <1>4, <1>5, <2>1, <2>2, Zenon
<1> QED BY <1>2, <1>3, <1>6 DEF Makes, Joined

LEMMA IsMade ==
  ASSUME NEW q, NEW v, NEW g, NEW p, Makes(q, v, g, p),
         q = <<"E", "IS", "NULL">> \/ q = <<"E", "IS", "IS_NOT", "NULL">>
  PROVE  g[p] = Joined(Row("IS"), print[v[1]], Row(IF q[3] = "NULL" THEN "NULL" ELSE "NOT_NULL"))
<1>1. q[1] = "E" /\ q[2] = "IS" /\ 1 \in DOMAIN q
  OBVIOUS
<1>2. v[1] \in 1 .. Len(nodes)
  BY <1>1 DEF Makes, ValuesFit, Fits
<1>3. PICK l, val : l = v[1] /\ val = (q[3] = "NULL")
  OBVIOUS
<1>4. Built(q, v) = WithArg("IS", "is", l, val)
  <2>1. Built(q, v) = WithArg("IS", "is", v[1], q[3] = "NULL")
    BY <1>1 DEF Built, Leaves
  <2> QED BY <1>3, <2>1, Zenon
<1>5. g[p] = Row("IS") \o g[l] \o NullRows(val)
  BY <1>4, Zenon DEF Makes, PrintCases
<1>6. NullRows(val) = Row(IF q[3] = "NULL" THEN "NULL" ELSE "NOT_NULL")
  BY <1>3, Zenon DEF NullRows
<1>7. g[l] = print[v[1]]
  BY <1>2, <1>3, Zenon DEF Makes
<1> QED BY <1>5, <1>6, <1>7, Zenon DEF Joined

LEMMA IntervalMade ==
  ASSUME NEW q, NEW v, NEW g, NEW p, Makes(q, v, g, p), q = <<"INTERVAL", "E", "unit">>
  PROVE  g[p] = Joined(Row("INTERVAL"), print[v[2]], Row(v[3]))
<1>1. q[1] = "INTERVAL" /\ q[2] = "E" /\ 2 \in DOMAIN q
  OBVIOUS
<1>2. v[2] \in 1 .. Len(nodes)
  BY <1>1 DEF Makes, ValuesFit, Fits
<1>3. PICK l, val : l = v[2] /\ val = v[3]
  OBVIOUS
<1>4. Built(q, v) = WithArg("INTERVAL", "interval", l, val)
  BY <1>1, <1>3 DEF Built, Leaves
<1>5. g[p] = Row("INTERVAL") \o g[l] \o Row(val)
  BY <1>4, Zenon DEF Makes, PrintCases
<1> QED BY <1>2, <1>3, <1>5 DEF Makes, Joined

LEMMA ExtractMade ==
  ASSUME NEW q, NEW v, NEW g, NEW p, Makes(q, v, g, p),
         q = <<"EXTRACT", "EXTRACT(", "unit", "FROM", "E", ")">>
  PROVE  g[p] = Joined(Row("EXTRACT"), Row(v[3]), print[v[5]])
<1>1. q[1] = "EXTRACT" /\ q[5] = "E" /\ 5 \in DOMAIN q
  OBVIOUS
<1>2. v[5] \in 1 .. Len(nodes)
  BY <1>1 DEF Makes, ValuesFit, Fits
<1>3. PICK l, val : l = v[5] /\ val = v[3]
  OBVIOUS
<1>4. Built(q, v) = WithArg("EXTRACT", "extract", l, val)
  BY <1>1, <1>3 DEF Built, Leaves
<1>5. g[p] = Row("EXTRACT") \o Row(val) \o g[l]
  BY <1>4, Zenon DEF Makes, PrintCases
<1> QED BY <1>2, <1>3, <1>5 DEF Makes, Joined

-----------------------------------------------------------------------------
(* The minus                                                                 *)

\* Rows that begin with the label l.
Begins(rows, l) == rows \in Seq(Labels) /\ Len(rows) >= 1 /\ rows[1] = l

LEMMA BeginsWith ==
  /\ \A l \in Labels : Begins(Row(l), l)
  /\ \A s, t \in Seq(Labels) : \A l : Begins(s, l) => Begins(s \o t, l)
  /\ \A s : \A l : Begins(s, l) /\ l \notin {"INT", "negative_INT"} =>
              s # Row("INT") /\ s # Row("negative_INT")
<1>1. \A l \in Labels : Begins(Row(l), l)
  BY DEF Begins, Row
<1>2. ASSUME NEW s \in Seq(Labels), NEW t \in Seq(Labels), NEW l, Begins(s, l) PROVE Begins(s \o t, l)
  <2>1. PICK u : u = s \o t
    OBVIOUS
  <2>2. u \in Seq(Labels) /\ Len(u) = Len(s) + Len(t) /\ \A i \in 1 .. Len(s) : u[i] = s[i]
    BY <2>1, ConcatProperties
  <2>3. Len(s) \in Nat /\ Len(t) \in Nat /\ Len(s) >= 1 /\ s[1] = l
    BY <1>2 DEF Begins
  <2>4. 1 \in 1 .. Len(s) /\ Len(u) >= 1
    BY <2>2, <2>3
  <2> QED BY <2>1, <2>2, <2>3, <2>4 DEF Begins
<1>3. Row("INT")[1] = "INT" /\ Row("negative_INT")[1] = "negative_INT"
  BY DEF Row
<1> QED BY <1>1, <1>2, <1>3 DEF Begins

LEMMA BeginsStill ==
  ASSUME NEW s \in Seq(Labels), NEW t \in Seq(Labels), NEW l, Begins(s, l)
  PROVE  Begins(s \o t, l)
  BY BeginsWith, Zenon

\* Only an integer is printed as one.
LEMMA FirstRow ==
  ASSUME NodesOK, NEW p \in 1 .. Len(nodes), nodes[p].op # "INT"
  PROVE  print[p] # Row("INT") /\ print[p] # Row("negative_INT")
<1>1. PICK n \in Nat : n = Len(nodes) /\ p \in 1 .. n /\ p \in 0 .. Len(nodes) /\ p # 0
  BY DEF NodesOK
<1>2. PICK ce : ce = nodes[p]
  OBVIOUS
<1>3. ce \in Cells /\ Readable(ce, p) /\ ce.op \in Ops /\ ce.op # "INT"
  <2>1. ce \in Cells /\ Readable(ce, p)
    BY <1>2 DEF NodesOK
  <2> QED BY <1>2, <2>1 DEF Cells
<1>4. \A i \in 1 .. p - 1 : print[i] \in Seq(Labels)
  <2>1. \A i \in 1 .. p - 1 : i \in 1 .. Len(nodes)
    BY <1>1
  <2> QED BY <2>1, PrintIsClean
<1>5. p # Null /\ ~(ce.member # MemberRead(ce.op))
  BY <1>1, <1>3 DEF Null, Readable
<1>6. print[p] =
        CASE ce.op \in Leaves -> Literal(ce.op, ce.val)
          [] ce.op = "IS" ->
               Row("IS") \o print[ce.left] \o Row(IF ce.val THEN "NULL" ELSE "NOT_NULL")
          [] ce.op = "INTERVAL" -> Row("INTERVAL") \o print[ce.left] \o Row(ce.val)
          [] ce.op = "EXTRACT" -> Row("EXTRACT") \o Row(ce.val) \o print[ce.left]
          [] ce.op = "-" /\ ce.left = Null -> Row("NEGATION") \o print[ce.right]
          [] ce.op \in {"NOT", "!"} -> Row(ce.op) \o print[ce.left]
          [] OTHER -> Row(ce.op) \o print[ce.left] \o print[ce.right]
  <2>1. print[p] = Printed(print, p)
    BY <1>1, PrintUnfolds
  <2> QED BY <1>2, <1>5, <2>1, Zenon DEF Printed, PrintedNode
<1>7. ce.op \notin {"INT", "negative_INT"} /\ ce.op \in Labels
  <2>1. "negative_INT" \notin Ops
    BY Zenon DEF Ops, Leaves, Infix
  <2> QED BY <1>3, <2>1, LabelsAre
<1>8. \A s, t \in Seq(Labels) : s \o t \in Seq(Labels)
  BY ConcatProperties
<1>9. ASSUME NEW s \in Seq(Labels), NEW l \in Labels PROVE Begins(Row(l) \o s, l) /\ Row(l) \o s \in Seq(Labels)
  BY BeginsWith, RowsAre DEF Begins
<1>10. CASE ce.op \in Leaves
  <2>1. ce.val = 1
    BY <1>3, <1>10 DEF Readable
  <2>2. print[p] = Row(ce.op)
    <3>1. print[p] = Literal(ce.op, ce.val)
      BY <1>6, <1>10 DEF Leaves
    <3> QED BY <2>1, <3>1 DEF Literal
  <2> QED BY <1>7, <2>2, BeginsWith
<1>11. CASE ce.op = "IS"
  <2>1. ce.left \in 1 .. p - 1 /\ ce.op \notin Leaves
    BY <1>3, <1>11 DEF Readable, OneArg, Leaves
  <2>2. PICK t : t = Row(IF ce.val THEN "NULL" ELSE "NOT_NULL")
    OBVIOUS
  <2>3. t \in Seq(Labels)
    BY <2>2, LabelsAre, RowsAre, Zenon
  <2>4. print[p] = Row(ce.op) \o print[ce.left] \o t
    BY <1>6, <1>11, <2>1, <2>2
  <2>5. Begins(Row(ce.op) \o print[ce.left], ce.op) /\ Row(ce.op) \o print[ce.left] \in Seq(Labels)
    BY <1>4, <1>7, <1>9, <2>1
  <2>6. Begins(print[p], ce.op)
    <3>1. PICK head, tail : head = Row(ce.op) \o print[ce.left] /\ tail = t
      OBVIOUS
    <3>2. head \in Seq(Labels) /\ tail \in Seq(Labels) /\ Begins(head, ce.op) /\ print[p] = head \o tail
      BY <2>3, <2>4, <2>5, <3>1
    <3> QED BY <3>2, BeginsStill
  <2> QED BY <1>7, <2>6, BeginsWith
<1>12. CASE ce.op = "INTERVAL"
  <2>1. ce.left \in 1 .. p - 1 /\ ce.val \in Units /\ ce.op \notin Leaves
    BY <1>3, <1>12 DEF Readable, OneArg, Leaves
  <2>2. Row(ce.val) \in Seq(Labels)
    BY <2>1, LabelsAre, RowsAre
  <2>4. print[p] = Row(ce.op) \o print[ce.left] \o Row(ce.val)
    BY <1>6, <1>12, <2>1
  <2>5. Begins(Row(ce.op) \o print[ce.left], ce.op) /\ Row(ce.op) \o print[ce.left] \in Seq(Labels)
    BY <1>4, <1>7, <1>9, <2>1
  <2>6. Begins(print[p], ce.op)
    <3>1. PICK head, tail : head = Row(ce.op) \o print[ce.left] /\ tail = Row(ce.val)
      OBVIOUS
    <3>2. head \in Seq(Labels) /\ tail \in Seq(Labels) /\ Begins(head, ce.op) /\ print[p] = head \o tail
      BY <2>2, <2>4, <2>5, <3>1
    <3> QED BY <3>2, BeginsStill
  <2> QED BY <1>7, <2>6, BeginsWith
<1>13. CASE ce.op = "EXTRACT"
  <2>1. ce.left \in 1 .. p - 1 /\ ce.val \in Units /\ ce.op \notin Leaves
    BY <1>3, <1>13 DEF Readable, OneArg, Leaves
  <2>2. Row(ce.val) \in Seq(Labels)
    BY <2>1, LabelsAre, RowsAre
  <2>4. print[p] = Row(ce.op) \o Row(ce.val) \o print[ce.left]
    BY <1>6, <1>13, <2>1
  <2>5. Begins(Row(ce.op) \o Row(ce.val), ce.op) /\ Row(ce.op) \o Row(ce.val) \in Seq(Labels)
    BY <1>7, <1>9, <2>2
  <2>6. Begins(print[p], ce.op)
    <3>1. PICK head, tail : head = Row(ce.op) \o Row(ce.val) /\ tail = print[ce.left]
      OBVIOUS
    <3>2. head \in Seq(Labels) /\ tail \in Seq(Labels) /\ Begins(head, ce.op) /\ print[p] = head \o tail
      BY <1>4, <2>1, <2>4, <2>5, <3>1
    <3> QED BY <3>2, BeginsStill
  <2> QED BY <1>7, <2>6, BeginsWith
<1>14. CASE ce.op = "-" /\ ce.left = Null
  <2>1. ce.right \in 1 .. p - 1 /\ ce.op \notin Leaves
    BY <1>3, <1>14 DEF Readable, Leaves
  <2>2. print[p] = Row("NEGATION") \o print[ce.right]
    BY <1>6, <1>14, <2>1
  <2>3. Begins(print[p], "NEGATION")
    BY <1>4, <1>9, <2>1, <2>2, LabelsAre
  <2> QED BY <2>3, BeginsWith
<1>15. CASE ce.op \in {"NOT", "!"}
  <2>1. ce.left \in 1 .. p - 1 /\ ce.op \notin Leaves
    BY <1>3, <1>15 DEF Readable, OneArg, Leaves
  <2>2. print[p] = Row(ce.op) \o print[ce.left]
    BY <1>6, <1>15, <2>1
  <2>3. Begins(print[p], ce.op)
    BY <1>4, <1>7, <1>9, <2>1, <2>2
  <2> QED BY <1>7, <2>3, BeginsWith
<1>16. CASE /\ ce.op \notin Leaves /\ ce.op \notin {"IS", "INTERVAL", "EXTRACT", "NOT", "!"}
            /\ ~(ce.op = "-" /\ ce.left = Null)
  <2>1. ce.left \in 1 .. p - 1 /\ ce.right \in 1 .. p - 1
    <3>1. CASE ce.op = "-"
      BY <1>1, <1>3, <1>16, <3>1 DEF Readable, Null
    <3>2. CASE ce.op # "-"
      <4>1. ce.op \in TwoArgs
        BY <1>3, <1>16, <3>2, ZenonT(30) DEF Ops, TwoArgs
      <4> QED BY <1>3, <4>1 DEF Readable
    <3> QED BY <3>1, <3>2
  <2>2. print[p] = Row(ce.op) \o print[ce.left] \o print[ce.right]
    BY <1>6, <1>16
  <2>3. Begins(Row(ce.op) \o print[ce.left], ce.op) /\ Row(ce.op) \o print[ce.left] \in Seq(Labels)
    BY <1>4, <1>7, <1>9, <2>1
  <2>4. Begins(print[p], ce.op)
    <3>1. PICK head, tail : head = Row(ce.op) \o print[ce.left] /\ tail = print[ce.right]
      OBVIOUS
    <3>2. head \in Seq(Labels) /\ tail \in Seq(Labels) /\ Begins(head, ce.op) /\ print[p] = head \o tail
      BY <1>4, <2>1, <2>2, <2>3, <3>1
    <3> QED BY <3>2, BeginsStill
  <2> QED BY <1>7, <2>4, BeginsWith
<1> QED BY <1>10, <1>11, <1>12, <1>13, <1>14, <1>15, <1>16

LEMMA MinusMade ==
  ASSUME NEW q, NEW v, NEW g, NEW p, Makes(q, v, g, p), q = <<"-", "E">>
  PROVE  g[p] = Negated(print[v[2]])
<1>1. q[1] = "-" /\ q[2] = "E" /\ 2 \in DOMAIN q
  OBVIOUS
<1>2. PICK a : a = v[2]
  OBVIOUS
<1>3. a \in 1 .. Len(nodes) /\ NodesOK /\ g[a] = print[a]
  <2>1. a \in 1 .. Len(nodes)
    BY <1>1, <1>2 DEF Makes, ValuesFit, Fits
  <2> QED BY <2>1 DEF Makes
<1>4. Built(q, v) = Prefixed("-", a)
  BY <1>1, <1>2 DEF Built, Leaves
<1>5. CASE nodes[a].op = "INT"
  <2>1. PICK val : val = nodes[a].val
    OBVIOUS
  <2>2. val \in {1, -1}
    BY <1>3, <1>5, <2>1 DEF NodesOK, Readable, Leaves
  <2>3. Built(q, v) = Leaf("INT", -val) /\ "INT" \in Leaves
    BY <1>4, <1>5, <2>1 DEF Prefixed, Leaves
  <2>4. g[p] = Literal("INT", -val)
    BY <2>3, Zenon DEF Makes, PrintCases
  <2>5. print[a] = Literal("INT", val)
    <3>1. nodes[a] \in Cells /\ nodes[a].member = MemberRead("INT") /\ a \in 0 .. Len(nodes) /\ a # Null
      BY <1>3, <1>5 DEF NodesOK, Readable, Null
    <3>2. print[a] = Printed(print, a)
      BY <1>3, <3>1, PrintUnfolds
    <3> QED BY <1>5, <2>1, <2>3, <3>1, <3>2 DEF Printed, PrintedNode
  <2>6. Literal("INT", 1) = Row("INT") /\ Literal("INT", -1) = Row("negative_INT")
    BY DEF Literal
  <2>7. Row("INT") # Row("negative_INT")
    BY DEF Row
  <2>8. Negated(Row("INT")) = Row("negative_INT") /\ Negated(Row("negative_INT")) = Row("INT")
    BY <2>7, Zenon DEF Negated
  <2>9. (val = 1 /\ -val = -1) \/ (val = -1 /\ -val = 1)
    BY <2>2
  <2> QED BY <1>2, <2>4, <2>5, <2>6, <2>8, <2>9
<1>6. CASE nodes[a].op # "INT"
  <2>1. Built(q, v) = init_cond(0, "-", a)
    BY <1>4, <1>6 DEF Prefixed, Null
  <2>2. g[p] = Row("NEGATION") \o g[a]
    BY <2>1, Zenon DEF Makes, PrintCases
  <2>3. Negated(print[a]) = Row("NEGATION") \o print[a]
    BY <1>3, <1>6, FirstRow DEF Negated
  <2> QED BY <1>2, <1>3, <2>2, <2>3
<1> QED BY <1>5, <1>6

\* The tree of a reduced production is printed as MySQL reads its tokens.
LEMMA ReducedAsMySQL ==
  ASSUME CondOK, CondOK', ~NotInMySQL, ~NegatesProduct, NEW q, NEW v, NEW k, NEW c, Reduces(q, v, k, c),
         NEW b, NEW e, Context(q, v, k, b, e)
  PROVE  \E g : g = print' /\ Reduced(k, b[1], e[Len(q)], g[c.val])
<1>1. text \in Seq(Terminals) /\ q \in Productions
  BY DEF CondOK, Reduces
<1>2. CASE q[1] = "("
  <2>1. q = <<"(", "E", ")">>
    BY <1>1, <1>2, ParenthesesAre
  <2>2. Len(q) = 3 /\ q[2] = "E" /\ 2 \in DOMAIN q
    BY <2>1
  <2>3. Reduced(k, b[1], e[3], print[v[2]])
    BY <1>1, <2>1, ParenthesesReduced
  <2>4. ValuesFit(q, v, Len(nodes)) /\ c.val = v[2] /\ nodes' = nodes
    BY <1>2, Zenon DEF Reduces
  <2>5. v[2] \in 1 .. Len(nodes)
    BY <2>2, <2>4 DEF ValuesFit, Fits
  <2>6. PICK g : g = print'
    OBVIOUS
  <2>7. g[v[2]] = print[v[2]]
    <3>1. NodesOK /\ NodesOK' /\ Len(nodes) \in Nat
      BY DEF CondOK, NodesOK
    <3>2. Len(nodes) <= Len(nodes') /\ \A p \in 1 .. Len(nodes) : nodes'[p] = nodes[p]
      BY <2>4, <3>1
    <3> QED BY <2>5, <2>6, <3>1, <3>2, PrintStays
  <2> QED BY <2>2, <2>3, <2>4, <2>6, <2>7
<1>3. CASE q[1] # "("
  <2>0. PICK g : g = print' /\ Makes(q, v, g, c.val)
    BY <1>3, NodeIsAdded, Zenon
  <2>0a. PICK p : p = c.val
    OBVIOUS
  <2> SUFFICES Reduced(k, b[1], e[Len(q)], g[p])
    BY <2>0, <2>0a
  <2>1. Makes(q, v, g, p)
    BY <2>0, <2>0a
  <2>2. CASE \E leaf \in Leaves : q = <<leaf>>
    <3>1. PICK leaf \in Leaves : q = <<leaf>>
      BY <2>2
    <3>2. Len(q) = 1
      BY <3>1
    <3>3. Reduced(k, b[1], e[1], Row(leaf))
      BY <1>1, <3>1, LeafReduced, Zenon
    <3>4. g[p] = Row(leaf)
      BY <2>1, <3>1, LeafMade
    <3> QED BY <3>2, <3>3, <3>4
  <2>3. CASE \E op \in Infix : q = <<"E", op, "E">>
    <3>1. PICK op \in Infix : q = <<"E", op, "E">>
      BY <2>3
    <3>2. Len(q) = 3
      BY <3>1
    <3>3. Reduced(k, b[1], e[3], Row(op) \o print[v[1]] \o print[v[3]])
      BY <1>1, <3>1, InfixReduced, Zenon
    <3>4. g[p] = Row(op) \o print[v[1]] \o print[v[3]]
      <4>1. g[p] = Joined(Row(op), print[v[1]], print[v[3]])
        BY <2>1, <3>1, InfixMade
      <4> QED BY <4>1 DEF Joined
    <3> QED BY <3>2, <3>3, <3>4
  <2>4. CASE q = <<"NOT", "E">>
    <3>1. Len(q) = 2
      BY <2>4
    <3>2. Reduced(k, b[1], e[2], Row("NOT") \o print[v[2]])
      BY <1>1, <2>4, NotReduced, Zenon
    <3>3. g[p] = Row("NOT") \o print[v[2]]
      <4>1. "NOT" \in {"NOT", "!"}
        OBVIOUS
      <4> QED BY <2>1, <2>4, <4>1, NotMade
    <3> QED BY <3>1, <3>2, <3>3
  <2>5. CASE q = <<"!", "E">>
    <3>1. Len(q) = 2
      BY <2>5
    <3>2. Reduced(k, b[1], e[2], Row("!") \o print[v[2]])
      BY <1>1, <2>5, BangReduced, Zenon
    <3>3. g[p] = Row("!") \o print[v[2]]
      <4>1. "!" \in {"NOT", "!"}
        OBVIOUS
      <4> QED BY <2>1, <2>5, <4>1, NotMade
    <3> QED BY <3>1, <3>2, <3>3
  <2>6. CASE q = <<"-", "E">>
    <3>1. Len(q) = 2
      BY <2>6
    <3>2. Reduced(k, b[1], e[2], Negated(print[v[2]]))
      BY <1>1, <2>6, MinusReduced, Zenon
    <3>3. g[p] = Negated(print[v[2]])
      BY <2>1, <2>6, MinusMade
    <3> QED BY <3>1, <3>2, <3>3
  <2>7. CASE \E f \in Functions : q = Function(f)
    <3>1. PICK f \in Functions : q = Function(f)
      BY <2>7
    <3>2. Len(q) = 6
      BY <3>1 DEF Function
    <3>3. Reduced(k, b[1], e[6], Row(f) \o print[v[3]] \o print[v[5]])
      BY <1>1, <3>1, FunctionReduced, Zenon
    <3>4. g[p] = Row(f) \o print[v[3]] \o print[v[5]]
      <4>1. g[p] = Joined(Row(f), print[v[3]], print[v[5]])
        BY <2>1, <3>1, FunctionMade
      <4> QED BY <4>1 DEF Joined
    <3> QED BY <3>2, <3>3, <3>4
  <2>8. CASE q = <<"E", "IS", "NULL">> \/ q = <<"E", "IS", "IS_NOT", "NULL">>
    <3>1. Reduced(k, b[1], e[Len(q)],
                  Row("IS") \o print[v[1]] \o Row(IF q[3] = "NULL" THEN "NULL" ELSE "NOT_NULL"))
      BY <1>1, <2>8, IsReduced, Zenon
    <3>2. g[p] = Row("IS") \o print[v[1]] \o Row(IF q[3] = "NULL" THEN "NULL" ELSE "NOT_NULL")
      <4>1. g[p] = Joined(Row("IS"), print[v[1]], Row(IF q[3] = "NULL" THEN "NULL" ELSE "NOT_NULL"))
        BY <2>1, <2>8, IsMade
      <4> QED BY <4>1 DEF Joined
    <3> QED BY <3>1, <3>2, Zenon
  <2>9. CASE q = <<"INTERVAL", "E", "unit">>
    <3>1. Len(q) = 3
      BY <2>9
    <3>2. Reduced(k, b[1], e[3], Row("INTERVAL") \o print[v[2]] \o Row(v[3]))
      BY <1>1, <2>9, IntervalReduced, Zenon
    <3>3. g[p] = Row("INTERVAL") \o print[v[2]] \o Row(v[3])
      <4>1. g[p] = Joined(Row("INTERVAL"), print[v[2]], Row(v[3]))
        BY <2>1, <2>9, IntervalMade
      <4> QED BY <4>1 DEF Joined
    <3> QED BY <3>1, <3>2, <3>3
  <2>10. CASE q = <<"EXTRACT", "EXTRACT(", "unit", "FROM", "E", ")">>
    <3>1. Len(q) = 6
      BY <2>10
    <3>2. Reduced(k, b[1], e[6], Row("EXTRACT") \o Row(v[3]) \o print[v[5]])
      BY <1>1, <2>10, ExtractReduced, Zenon
    <3>3. g[p] = Row("EXTRACT") \o Row(v[3]) \o print[v[5]]
      <4>1. g[p] = Joined(Row("EXTRACT"), Row(v[3]), print[v[5]])
        BY <2>1, <2>10, ExtractMade
      <4> QED BY <4>1 DEF Joined
    <3> QED BY <3>1, <3>2, <3>3
  <2>11. q # <<"(", "E", ")">>
    BY <1>3
  <2>12. \A op \in Prefixes : op = "-" \/ op = "NOT" \/ op = "!"
    BY DEF Prefixes
  <2> QED BY <1>1, <2>2, <2>3, <2>4, <2>5, <2>6, <2>7, <2>8, <2>9, <2>10, <2>11, <2>12,
             ProductionsAreAll, Zenon
<1> QED BY <1>2, <1>3

LEMMA ReduceRanked ==
  ASSUME CondOK, CondOK', Placed, Ranked, Reduce, ~NotInMySQL, ~NegatesProduct
  PROVE  Ranked'
<1>1. PICK q, v, k, c : Reduces(q, v, k, c)
  BY ReduceIs
<1>2. PICK b, e : Context(q, v, k, b, e) /\ c.begin = b[1] /\ c.end = e[Len(q)]
  BY <1>1, ContextIs
<1>3. PICK i, j : i = b[1] /\ j = e[Len(q)]
  OBVIOUS
<1>4. PICK g : g = print' /\ Reduced(k, i, j, g[c.val])
  BY <1>1, <1>2, <1>3, ReducedAsMySQL, Zenon
<1>5. PICK s : s = stack
  OBVIOUS
<1>6. PICK t : t = stack'
  OBVIOUS
<1>7. PICK l \in Nat : l = Len(s)
  BY <1>5 DEF CondOK, StackOK
<1>8. /\ k \in Nat /\ Len(t) = k + 1 /\ t[k + 1] = c
      /\ \A m \in 1 .. k : t[m] = s[m] /\ m \in 1 .. l /\ m < l
  BY <1>1, <1>5, <1>6, <1>7, ReducedIs
<1>9. text' = text /\ look' = look /\ c.sym = "E"
  <2>1. c.sym = "E"
    BY <1>1, Zenon DEF Reduces
  <2> QED BY <2>1 DEF Reduce
<1>10. Grows /\ NodesOK /\ NodesOK'
  BY <1>9 DEF Grows, CondOK
<1>11. Extends
  <2>1. Len(nodes) <= Len(nodes') /\ \A p \in 1 .. Len(nodes) : nodes'[p] = nodes[p]
    <3>1. nodes \in Seq(Cells) /\ Len(nodes) \in Nat
      BY <1>10 DEF NodesOK
    <3>2. PICK ce : ce = Built(q, v)
      OBVIOUS
    <3>3. nodes' = nodes \/ nodes' = Append(nodes, ce)
      BY <1>1, <3>2, Zenon DEF Reduces
    <3> QED BY <3>1, <3>3
  <2> QED BY <1>10, <2>1 DEF Extends
<1>12. Expr(i, j) /\ Expr(i, j)' /\ RowsOfMySQL'[<<i, j>>] = g[c.val] /\ AsMySQL(i, j, c.val)'
  <2>1. Expr(i, j) /\ RowsOfMySQL[<<i, j>>] = g[c.val]
    BY <1>4 DEF Reduced
  <2>2. Expr(i, j)' /\ RowsOfMySQL'[<<i, j>>] = g[c.val]
    BY <1>10, <2>1, SpanStays
  <2> QED BY <1>4, <2>1, <2>2 DEF AsMySQL
<1>13. /\ \A r : Stronger(i, j, r) => Stronger(i, j, r)'
       /\ \A r : Binds(i, j, r) => Binds(i, j, r)'
       /\ Quiet(i, j) => Quiet(i, j)'
  BY <1>10, <1>12, SpanStays
<1>14. Waits(i, j)'
  BY <1>4, <1>9, <1>13 DEF Reduced, Waits
<1>15. Operand(t, k + 1)'
  <2>1. ASSUME k + 1 > 1, t[(k + 1) - 1].sym \in Infix \cup Prefixes
        PROVE  Stronger(i, j, Level(t[(k + 1) - 1].sym))'
    <3>1. (k + 1) - 1 = k /\ k \in 1 .. k
      BY <1>8, <2>1
    <3>2. t[k] = s[k]
      BY <1>8, <3>1
    <3>3. PICK r : r = Level(t[(k + 1) - 1].sym)
      OBVIOUS
    <3>4. IsOperand(k) /\ r = Level(stack[k].sym)
      BY <1>5, <2>1, <3>1, <3>2, <3>3 DEF IsOperand
    <3>5. Stronger(i, j, r)
      BY <1>4, <3>4 DEF Reduced
    <3>6. Stronger(i, j, r)'
      BY <1>13, <3>5
    <3> QED BY <3>3, <3>6
  <2>2. ~(k + 1 < Len(t))
    BY <1>8
  <2>3. t[k + 1].begin = i /\ t[k + 1].end = j /\ t[k + 1].val = c.val
    BY <1>2, <1>3, <1>8
  <2> QED BY <1>12, <2>1, <2>2, <2>3 DEF Operand
<1>16. ASSUME NEW m \in 1 .. k, t[m].sym = "E" PROVE Operand(t, m)'
  <2>1. m \in Nat \ {0} /\ m \in 1 .. Len(stack) /\ t[m] = s[m] /\ (m > 1 => t[m - 1] = s[m - 1])
    <3>1. m > 1 => m - 1 \in 1 .. k
      BY <1>8
    <3> QED BY <1>5, <1>7, <1>8, <3>1
  <2>2. s[m].sym = "E" /\ Operand(s, m) /\ s[m].val \in 1 .. Len(nodes)
    BY <1>5, <1>16, <2>1 DEF Ranked, CondOK, StackOK, Fits
  <2>3. m < Len(t) /\ t[m + 1].sym \in Infixes =>
          /\ Binds(s[m].begin, s[m].end, Level(t[m + 1].sym))
          /\ m > 1 /\ s[m - 1].sym \in Infix \cup Prefixes => Level(s[m - 1].sym) < Level(t[m + 1].sym)
    <3>1. CASE m = k
      <4>1. t[m + 1].sym = "E" /\ "E" \notin Infixes
        BY <1>8, <1>9, <3>1 DEF Infixes, Infix
      <4> QED BY <4>1
    <3>2. CASE m # k
      <4>1. m + 1 \in 1 .. k /\ m < Len(s)
        BY <1>7, <1>8, <3>2
      <4>2. t[m + 1] = s[m + 1]
        BY <1>8, <4>1
      <4> QED BY <2>2, <4>1, <4>2 DEF Operand
    <3> QED BY <3>1, <3>2
  <2> QED BY <1>11, <2>1, <2>2, <2>3, OperandStays
<1>17. ASSUME NEW m \in 1 .. Len(t), t[m].sym = "E"
       PROVE  Operand(t, m)' /\ (m = Len(t) => Waits(t[m].begin, t[m].end)')
  <2>1. m \in 1 .. k \/ m = k + 1
    BY <1>8
  <2>2. CASE m = k + 1
    BY <1>2, <1>3, <1>8, <1>14, <1>15, <2>2
  <2>3. CASE m \in 1 .. k
    BY <1>8, <1>16, <1>17, <2>3
  <2> QED BY <2>1, <2>2, <2>3
<1> QED BY <1>6, <1>17 DEF Ranked

-----------------------------------------------------------------------------
(* The condition that is accepted                                            *)

LEMMA InitIsPlaced ==
  ASSUME Init
  PROVE  ConditionOK
<1>1. CondOK
  BY InitIsOK
<1>2. text = <<>> /\ look = "NONE" /\ stack = <<>> /\ parse_result = -1
  BY DEF Init
<1>3. Len(stack) = 0 /\ Read = 0
  BY <1>2 DEF Read
<1>4. Placed
  BY <1>2, <1>3 DEF Placed
<1>5. Ranked
  BY <1>3 DEF Ranked
<1>6. Accepted
  BY <1>2 DEF Accepted
<1> QED BY <1>1, <1>4, <1>5, <1>6 DEF ConditionOK

LEMMA GrowsIfUnchanged ==
  ASSUME CondOK, text' = text
  PROVE  Grows
<1>1. text \in Seq(Terminals)
  BY DEF CondOK
<1> QED BY <1>1 DEF Grows

LEMMA ReadTokenKeeps ==
  ASSUME ConditionOK, ReadToken
  PROVE  ConditionOK'
<1>1. CondOK /\ CondOK' /\ Placed
  BY ReadTokenIsOK DEF ConditionOK
<1>2. Placed' /\ Grows
  BY <1>1, ReadTokenPlaced
<1>3. NotInMySQL \/ NegatesProduct => NotInMySQL' \/ NegatesProduct'
  BY <1>2, ExceptionsStay
<1>4. Ranked => Ranked'
  BY <1>1, ReadTokenRanked
<1>5. Accepted'
  <2>1. parse_result' # 0
    BY DEF ReadToken, Running
  <2> QED BY <2>1 DEF Accepted
<1> QED BY <1>1, <1>2, <1>3, <1>4, <1>5 DEF ConditionOK

LEMMA ShiftKeeps ==
  ASSUME ConditionOK, Shift
  PROVE  ConditionOK'
<1>1. CondOK /\ CondOK' /\ Placed
  BY ShiftIsOK DEF ConditionOK
<1>2. Placed' /\ Grows
  BY <1>1, ShiftPlaced
<1>3. NotInMySQL \/ NegatesProduct => NotInMySQL' \/ NegatesProduct'
  BY <1>2, ExceptionsStay
<1>4. Ranked /\ ~NotInMySQL => Ranked'
  BY <1>1, ShiftRanked
<1>5. Accepted'
  <2>1. parse_result' # 0
    BY DEF Shift, Running
  <2> QED BY <2>1 DEF Accepted
<1> QED BY <1>1, <1>2, <1>3, <1>4, <1>5 DEF ConditionOK

LEMMA ReduceKeeps ==
  ASSUME ConditionOK, Reduce
  PROVE  ConditionOK'
<1>1. CondOK /\ CondOK' /\ Placed
  BY ReduceIsOK DEF ConditionOK
<1>2. Placed'
  BY <1>1, ReduceIs, ReducePlaced
<1>3. NotInMySQL \/ NegatesProduct => NotInMySQL' \/ NegatesProduct'
  <2>1. text' = text
    BY DEF Reduce
  <2> QED BY <1>1, <2>1, GrowsIfUnchanged, ExceptionsStay
<1>4. Ranked /\ ~NotInMySQL /\ ~NegatesProduct => Ranked'
  BY <1>1, ReduceRanked
<1>5. Accepted'
  <2>1. parse_result' # 0
    BY DEF Reduce, Running
  <2> QED BY <2>1 DEF Accepted
<1> QED BY <1>1, <1>2, <1>3, <1>4, <1>5 DEF ConditionOK

\* The trees, the symbols and the text stay.
LEMMA StillPlaced ==
  ASSUME CondOK, CondOK', text' = text, look' = look, stack' = stack, nodes' = nodes
  PROVE  /\ Placed => Placed'
         /\ Ranked => Ranked'
         /\ NotInMySQL \/ NegatesProduct => NotInMySQL' \/ NegatesProduct'
<1>1. Placed => Placed'
  <2>1. Read' = Read
    BY DEF Read
  <2>2. \A e : Lies(e)' <=> Lies(e)
    BY <2>1 DEF Lies
  <2> SUFFICES ASSUME Placed PROVE Placed'
    OBVIOUS
  <2>3. PICK s : s = stack
    OBVIOUS
  <2>4. \A m \in 1 .. Len(s) : Chained(s, m) /\ Lies(s[m])
    BY <2>3 DEF Placed
  <2>5. \A m \in 1 .. Len(s) : Chained(s, m) /\ Lies(s[m])'
    BY <2>2, <2>4
  <2>6. /\ look \notin {"NONE", "END"} => Len(text) > 0 /\ text[Len(text)] = look
        /\ IF s = <<>> THEN Read = 0 ELSE s[1].begin = 1 /\ s[Len(s)].end = Read
    BY <2>3 DEF Placed
  <2>7. stack' = s
    BY <2>3
  <2> QED BY <2>1, <2>5, <2>6, <2>7 DEF Placed
<1>2. Grows
  BY GrowsIfUnchanged
<1>3. Extends
  <2>1. NodesOK /\ NodesOK' /\ Len(nodes) <= Len(nodes')
    BY DEF CondOK, NodesOK
  <2> QED BY <1>2, <2>1 DEF Extends
<1>4. Ranked => Ranked'
  <2> SUFFICES ASSUME Ranked PROVE Ranked'
    OBVIOUS
  <2>1. PICK s : s = stack
    OBVIOUS
  <2>2. ASSUME NEW m \in 1 .. Len(s), s[m].sym = "E"
        PROVE  Operand(s, m)' /\ (m = Len(s) => Waits(s[m].begin, s[m].end)')
    <3>1. Operand(s, m) /\ (m = Len(s) => Waits(s[m].begin, s[m].end))
      BY <2>1, <2>2 DEF Ranked
    <3>2. s[m].val \in 1 .. Len(nodes) /\ m \in Nat \ {0}
      BY <2>1, <2>2 DEF CondOK, StackOK, Fits
    <3>3. m < Len(s) /\ s[m + 1].sym \in Infixes =>
            /\ Binds(s[m].begin, s[m].end, Level(s[m + 1].sym))
            /\ m > 1 /\ s[m - 1].sym \in Infix \cup Prefixes => Level(s[m - 1].sym) < Level(s[m + 1].sym)
      BY <3>1 DEF Operand
    <3>4. Operand(s, m)'
      BY <1>3, <3>1, <3>2, <3>3, OperandStays
    <3>5. ASSUME m = Len(s) PROVE Waits(s[m].begin, s[m].end)'
      <4>1. PICK i, j : i = s[m].begin /\ j = s[m].end
        OBVIOUS
      <4>2. Waits(i, j) /\ Expr(i, j)
        BY <3>1, <3>5, <4>1 DEF Operand, AsMySQL
      <4>3. Waits(i, j)'
        BY <1>2, <4>2, SpanStays DEF Waits
      <4> QED BY <4>1, <4>3
    <3> QED BY <3>4, <3>5
  <2>3. stack' = s
    BY <2>1
  <2> QED BY <2>2, <2>3 DEF Ranked
<1> QED BY <1>1, <1>2, <1>4, ExceptionsStay

LEMMA AcceptKeeps ==
  ASSUME ConditionOK, Accept
  PROVE  ConditionOK'
<1>1. CondOK /\ CondOK'
  BY AcceptIsOK DEF ConditionOK
<1>2. text' = text /\ look' = look /\ stack' = stack /\ nodes' = nodes
  BY DEF Accept
<1>3. Accepted'
  <2>1. look = "END" /\ where_expression' = stack[1].val /\ Len(stack) = 1 /\ EndsWith(1, <<"E">>)
    BY DEF Accept, Whole
  <2>2. 1 \in 1 .. 1 /\ <<"E">>[1] = "E" /\ Len(stack) - 1 + 1 = 1
    BY <2>1
  <2>3. stack[1].sym = "E"
    BY <2>1, <2>2 DEF EndsWith
  <2> QED BY <1>2, <2>1, <2>3 DEF Accepted
<1> QED BY <1>1, <1>2, <1>3, StillPlaced DEF ConditionOK

LEMMA RestKeeps ==
  ASSUME ConditionOK, CondOK', Reject \/ UNCHANGED vars
  PROVE  ConditionOK'
<1>1. CondOK /\ Accepted
  BY DEF ConditionOK
<1>2. /\ text' = text /\ look' = look /\ stack' = stack /\ nodes' = nodes
      /\ where_expression' = where_expression /\ (parse_result' = 0 => parse_result = 0)
  BY DEF Reject, vars
<1>3. Accepted'
  BY <1>1, <1>2 DEF Accepted
<1> QED BY <1>1, <1>2, <1>3, StillPlaced DEF ConditionOK

LEMMA AcceptedIsAsMySQL == ConditionOK => ConditionAsMySQL
<1> SUFFICES ASSUME ConditionOK, parse_result = 0, ~NotInMySQL, ~NegatesProduct
             PROVE  print[where_expression] = RowsOfMySQL[<<1, Len(text)>>]
  BY DEF ConditionAsMySQL
<1>1. /\ Len(stack) = 1 /\ stack[1].sym = "E" /\ where_expression = stack[1].val /\ look = "END"
      /\ CondOK /\ Placed /\ Ranked
  BY DEF ConditionOK, Accepted
<1>2. 1 \in 1 .. Len(stack) /\ stack # <<>>
  BY <1>1
<1>3. stack[1].begin = 1 /\ stack[1].end = Len(text)
  BY <1>1, <1>2 DEF Placed, Read
<1>4. AsMySQL(stack[1].begin, stack[1].end, stack[1].val)
  BY <1>1, <1>2 DEF Ranked, Operand
<1> QED BY <1>1, <1>3, <1>4 DEF AsMySQL

\* However the operators of all levels, prefixes, parentheses and functions are
\* mixed, the tree of an accepted condition prints as MySQL reads its tokens.
THEOREM ConditionsAlwaysAsMySQL ==
  Spec => []ConditionAsMySQL
<1>1. ASSUME ConditionOK, CondOK', [Next]_vars PROVE ConditionOK'
  BY <1>1, ReadTokenKeeps, ShiftKeeps, ReduceKeeps, AcceptKeeps, RestKeeps DEF Next
<1>2. Spec => []CondOK
  BY CondOKIsInvariant
<1>3. Spec => []ConditionOK
  BY <1>1, <1>2, InitIsPlaced, PTL DEF Spec
<1> QED
  BY <1>3, AcceptedIsAsMySQL, PTL

=============================================================================
