------------------------------ MODULE AggExprs ------------------------------
(* The high-level API of AggregationAPICompiler (AggregationAPICompiler.cpp, *)
(* lines 54-271): the caller builds, in status PROGRAMMING, a table of       *)
(* symbolic expressions and a table of aggregates over them.  An `Expr*` is  *)
(* an index into m_exprs, NULL is 0, and the indices of m_constants and      *)
(* m_aggs are 1-based where the code's are 0-based.                          *)
(*                                                                           *)
(* The member `usage` of an expression is a sequence of its own, parallel to *)
(* m_exprs, because it is the only member that changes after new_expr; the   *)
(* members program_usage and has_been_compiled belong to the compiler and    *)
(* are declared in AggCompiler.                                              *)
EXTENDS Integers, Sequences, FiniteSets

CONSTANTS
  Columns,       \* what the callback column_name_to_idx returns, except -1
  Literals,      \* the integers a caller passes to ConstantInteger
  LongMax,       \* LONG_MAX: a long int is in -LongMax-1 .. LongMax
  Ops,           \* the arithmetic operations the caller uses
  AggTypes,      \* the aggregate functions the caller uses
  MaxExprs,      \* bound on the number of expressions a caller builds
  MaxAggs,       \* bound on the number of aggregates
  MaxConstants   \* bound on the number of constants

ArithOps == {"Add", "Minus", "Mul", "Div", "Rem"}
AggFunctions == {"Sum", "Min", "Max", "Count"}
Long == (-LongMax - 1) .. LongMax

ASSUME OpsAssumption == Ops \subseteq ArithOps /\ AggTypes \subseteq AggFunctions
ASSUME LongAssumption == LongMax \in Nat \ {0} /\ Literals \subseteq Long
ASSUME BoundsAssumption == {MaxExprs, MaxAggs, MaxConstants} \subseteq Nat

VARIABLES
  m_status,      \* PROGRAMMING, COMPILING, COMPILED or FAILED
  m_exprs,       \* the expressions: operation, operands, order of evaluation
  usage,         \* the reference count of each expression
  m_aggs,        \* the aggregates asked for, in order
  m_constants,   \* the pool of integer constants
  ret,           \* the handle the last API call returned
  fault          \* the process was stopped by an arithmetic trap (SIGFPE)

exprVars == <<m_status, m_exprs, usage, m_aggs, m_constants, ret, fault>>

NULL == 0
Handles == 1 .. Len(m_exprs)
First(S) == CHOOSE k \in S : \A j \in S : k <= j
MaxOf(x, y) == IF x >= y THEN x ELSE y

-----------------------------------------------------------------------------
(* Arithmetic of `long int` as the build (g++ at -O0) executes it: overflow  *)
(* wraps, division truncates, a zero divisor and LONG_MIN / -1 trap.         *)

Wrap(n) == ((n + LongMax + 1) % (2 * LongMax + 2)) - LongMax - 1

Magnitude(n) == IF n < 0 THEN -n ELSE n

Quotient(x, y) ==
  IF (x < 0) = (y < 0) THEN Magnitude(x) \div Magnitude(y)
                       ELSE -(Magnitude(x) \div Magnitude(y))

Traps(op, x, y) ==
  op \in {"Div", "Rem"} /\ (y = 0 \/ (x = -LongMax - 1 /\ y = -1))

Apply(op, x, y) ==
  CASE op = "Add"   -> Wrap(x + y)
    [] op = "Minus" -> Wrap(x - y)
    [] op = "Mul"   -> Wrap(x * y)
    [] op = "Div"   -> Quotient(x, y)
    [] op = "Rem"   -> x - y * Quotient(x, y)

-----------------------------------------------------------------------------
(* new_expr                                                                  *)

\* Mutant of EstRegs: the operand held in a register is not counted.
EstRegsForgetsHeldOperand(left, right) ==
  MaxOf(m_exprs[left].est_regs, m_exprs[right].est_regs)

EstRegs(left, right) ==
  LET l == m_exprs[left].est_regs
      e == m_exprs[right].est_regs
  IN  IF left = right THEN l
      ELSE IF l >= e THEN MaxOf(l, e + 1) ELSE MaxOf(l + 1, e)

Leaf(op, idx) ==
  [op |-> op, left |-> NULL, right |-> NULL, idx |-> idx,
   est_regs |-> 1, eval_left_first |-> FALSE]

Arithmetic(op, left, right) ==
  [op |-> op, left |-> left, right |-> right, idx |-> 0,
   est_regs |-> EstRegs(left, right),
   eval_left_first |-> m_exprs[left].est_regs >= m_exprs[right].est_regs]

\* Mutant of SameExpr: operands are compared as a set, as if every operation
\* were commutative.
SameExprCommutative(e, other) ==
  /\ e.op = other.op /\ e.idx = other.idx
  /\ {e.left, e.right} = {other.left, other.right}

SameExpr(e, other) ==
  /\ e.op = other.op /\ e.left = other.left
  /\ e.right = other.right /\ e.idx = other.idx

\* Mutant of Matching: only the newest row is compared.
MatchingNewest(e) == {k \in Handles : k = Len(m_exprs) /\ SameExpr(e, m_exprs[k])}

Matching(e) == {k \in Handles : SameExpr(e, m_exprs[k])}

\* Mutant of Referenced: an expression used twice by one node is counted once.
ReferencedOnce(e) ==
  [k \in Handles |-> IF k \in {e.left, e.right} THEN usage[k] + 1 ELSE usage[k]]

Referenced(e) ==
  [k \in Handles |->
     usage[k] + (IF k = e.left THEN 1 ELSE 0) + (IF k = e.right THEN 1 ELSE 0)]

\* Deduplicate e, or append it and count it as a user of its operands.
Intern(e) ==
  \/ /\ Matching(e) # {}
     /\ ret' = First(Matching(e))
     /\ UNCHANGED <<m_exprs, usage>>
  \/ /\ Matching(e) = {}
     /\ Len(m_exprs) < MaxExprs
     /\ m_exprs' = Append(m_exprs, e)
     /\ usage' = Append(Referenced(e), 0)
     /\ ret' = Len(m_exprs) + 1

IsConstant(k) == m_exprs[k].op = "LoadConstantInt"
ConstantOf(k) == m_constants[m_exprs[k].idx]

\* Constant folding: the result is a new constant, even if its value is
\* already in the pool.
Fold(op, left, right) ==
  LET x == ConstantOf(left)
      y == ConstantOf(right)
  IN  \/ /\ Traps(op, x, y)
         /\ fault' = TRUE
         /\ UNCHANGED <<m_exprs, usage, m_constants, ret>>
      \/ /\ ~Traps(op, x, y)
         /\ Len(m_constants) < MaxConstants
         /\ m_constants' = Append(m_constants, Apply(op, x, y))
         /\ Intern(Leaf("LoadConstantInt", Len(m_constants) + 1))
         /\ UNCHANGED fault

-----------------------------------------------------------------------------
(* The calls of the high-level API.  In status FAILED every call but         *)
(* ConstantInteger returns at once and changes nothing.  The overloads that  *)
(* take column names are a Load followed by the call on expressions.         *)

Programming == m_status = "PROGRAMMING" /\ ~fault

Init ==
  /\ m_status = "PROGRAMMING"
  /\ m_exprs = <<>>
  /\ usage = <<>>
  /\ m_aggs = <<>>
  /\ m_constants = <<>>
  /\ ret = NULL
  /\ fault = FALSE

Load(col) ==
  /\ Programming
  /\ Intern(Leaf("Load", col))
  /\ UNCHANGED <<m_status, m_aggs, m_constants, fault>>

\* The callback answers -1: no such column.
LoadUnknown ==
  /\ Programming
  /\ m_status' = "FAILED"
  /\ ret' = NULL
  /\ UNCHANGED <<m_exprs, usage, m_aggs, m_constants, fault>>

\* Mutant of PoolIndex: the size is taken for the index of the last item.
PoolIndexPastEnd(v) ==
  LET known == {k \in 1 .. Len(m_constants) : m_constants[k] = v}
  IN  IF known # {} THEN First(known) ELSE Len(m_constants) + 2

\* Index in the pool of the constant v, the next free one if it is not there.
PoolIndex(v) ==
  LET known == {k \in 1 .. Len(m_constants) : m_constants[k] = v}
  IN  IF known # {} THEN First(known) ELSE Len(m_constants) + 1

\* The pool grows even in status FAILED, which only new_expr tests.
ConstantInteger(v) ==
  /\ m_status \in {"PROGRAMMING", "FAILED"} /\ ~fault
  /\ PoolIndex(v) <= MaxConstants
  /\ m_constants' = IF PoolIndex(v) > Len(m_constants)
                    THEN Append(m_constants, v) ELSE m_constants
  /\ \/ /\ m_status = "PROGRAMMING"
        /\ Intern(Leaf("LoadConstantInt", PoolIndex(v)))
     \/ /\ m_status = "FAILED"
        /\ ret' = NULL
        /\ UNCHANGED <<m_exprs, usage>>
  /\ UNCHANGED <<m_status, m_aggs, fault>>

\* Add, Minus, Mul, Div and Rem.
Arith(op, left, right) ==
  /\ Programming
  /\ \/ /\ IsConstant(left) /\ IsConstant(right)
        /\ Fold(op, left, right)
     \/ /\ ~(IsConstant(left) /\ IsConstant(right))
        /\ Intern(Arithmetic(op, left, right))
        /\ UNCHANGED <<m_constants, fault>>
  /\ UNCHANGED <<m_status, m_aggs>>

SameAgg(a, other) == a.agg_type = other.agg_type /\ a.expr = other.expr

CountedAgg(k) == [usage EXCEPT ![k] = @ + 1]

\* Sum, Min, Max and Count: an aggregate already asked for is not repeated.
Aggregate(type, k) ==
  /\ Programming
  /\ LET agg == [agg_type |-> type, expr |-> k]
     IN  \/ /\ \E i \in 1 .. Len(m_aggs) : SameAgg(agg, m_aggs[i])
            /\ UNCHANGED <<usage, m_aggs>>
         \/ /\ \A i \in 1 .. Len(m_aggs) : ~SameAgg(agg, m_aggs[i])
            /\ Len(m_aggs) < MaxAggs
            /\ usage' = CountedAgg(k)
            /\ m_aggs' = Append(m_aggs, agg)
  /\ UNCHANGED <<m_status, m_exprs, m_constants, ret, fault>>

Next ==
  \/ \E col \in Columns : Load(col)
  \/ LoadUnknown
  \/ \E v \in Literals : ConstantInteger(v)
  \/ \E op \in Ops, left, right \in Handles : Arith(op, left, right)
  \/ \E type \in AggTypes, k \in Handles : Aggregate(type, k)

Spec == Init /\ [][Next]_exprVars

-----------------------------------------------------------------------------
(* Properties                                                                *)

\* The type and the shape of a row of m_exprs at index k, with n constants in
\* the pool: leaves have no operands, the operands of an operation are older
\* rows, and no operation has two constant operands (new_expr folds those).
Node == [op : ArithOps \cup {"Load", "LoadConstantInt"},
         left : Nat, right : Nat, idx : Columns \cup Nat,
         est_regs : Nat \ {0}, eval_left_first : BOOLEAN]

RowOK(e, k, n) ==
  \/ e.op = "Load" /\ e.idx \in Columns /\ e.left = NULL /\ e.right = NULL
  \/ /\ e.op = "LoadConstantInt" /\ e.idx \in 1 .. n
     /\ e.left = NULL /\ e.right = NULL
  \/ /\ e.op \in ArithOps /\ e.idx = 0
     /\ e.left \in 1 .. (k - 1) /\ e.right \in 1 .. (k - 1)
     /\ ~(IsConstant(e.left) /\ IsConstant(e.right))

\* Types of the tables of the high-level API, including that every operand,
\* aggregate and constant index is in its table (the has_item asserts of
\* new_expr and new_agg).
TypeOK ==
  /\ m_status \in {"PROGRAMMING", "COMPILING", "COMPILED", "FAILED"}
  /\ m_exprs \in Seq(Node) /\ \A k \in Handles : RowOK(m_exprs[k], k, Len(m_constants))
  /\ usage \in Seq(Nat) /\ Len(usage) = Len(m_exprs)
  /\ m_aggs \in Seq([agg_type : AggTypes, expr : Handles])
  /\ m_constants \in Seq(Long)
  /\ ret \in {NULL} \cup Handles
  /\ fault \in BOOLEAN

\* How often expression k is an operand or the argument of an aggregate.
References(k) ==
  Cardinality({n \in Handles : m_exprs[n].left = k})
  + Cardinality({n \in Handles : m_exprs[n].right = k})
  + Cardinality({i \in 1 .. Len(m_aggs) : m_aggs[i].expr = k})

\* "Reference count from Expr and AggExpr": whatever is shared, repeated or
\* folded, usage is the number of operand slots and aggregates that point to
\* the expression.  The compiler drops a register's value on its word.
UsageIsReferenceCount == \A k \in Handles : usage[k] = References(k)

NoTwinExprs ==
  \A j, k \in Handles : SameExpr(m_exprs[j], m_exprs[k]) => j = k

NoTwinAggs ==
  \A i, j \in 1 .. Len(m_aggs) : SameAgg(m_aggs[i], m_aggs[j]) => i = j

\* Deduplication: no two rows of m_exprs describe the same expression and no
\* two rows of m_aggs the same aggregate.  The compiler's asserts compare
\* pointers, so a twin would make them fail.
NoTwins == NoTwinExprs /\ NoTwinAggs

\* The value of every expression on a row of the table.  An operation that
\* would trap on the row has no value: 0 stands for it.
ValueOf(op, x, y) == IF Traps(op, x, y) THEN 0 ELSE Apply(op, x, y)

\* The value of row e of m_exprs, given the values v of the expressions.
RowValue(row, v, e) ==
  CASE e.op = "Load" -> row[e.idx]
    [] e.op = "LoadConstantInt" -> m_constants[e.idx]
    [] e.op \in ArithOps -> ValueOf(e.op, v[e.left], v[e.right])

Denotation(row) ==
  LET v[k \in Handles] == RowValue(row, v, m_exprs[k]) IN v

\* Whatever new_expr does with a request (fold it, return an older expression,
\* append a row), the handle it returns has on every row the value of the
\* requested operation on the operands' values.
HandleDenotesRequest ==
  [][\A op \in Ops, left, right \in Handles :
       Arith(op, left, right) /\ ~fault' =>
         \A row \in [Columns -> Long] :
           LET v == Denotation(row)
               w == Denotation(row)'
           IN  w[ret'] = ValueOf(op, v[left], v[right])]_exprVars

\* An expression whose operands need l and r registers claims what the cheaper
\* order of evaluation needs, and asks for that order.
CheapestOrder(e, l, r) ==
  /\ e.est_regs <= MaxOf(l, r + 1)
  /\ e.est_regs <= MaxOf(r, l + 1)
  /\ e.est_regs = IF e.eval_left_first THEN MaxOf(l, r + 1) ELSE MaxOf(r, l + 1)

\* est_regs is the smaller of the register counts of the two orders of
\* evaluation, and eval_left_first names an order that attains it.
EstRegsIsCheapestOrder ==
  \A k \in Handles :
    LET e == m_exprs[k]
    IN  e.op \in ArithOps /\ e.left # e.right =>
          CheapestOrder(e, m_exprs[e.left].est_regs, m_exprs[e.right].est_regs)

=============================================================================
