--------------------------- MODULE MCAggInterpreter ---------------------------
(* Programs and records for TLC: a BIGINT, a BIGINT UNSIGNED and a DOUBLE    *)
(* column on a machine with two registers and four-bit words.                *)
EXTENDS AggInterpreter

MCSchema ==
  <<[type |-> "BigInt", is_unsigned |-> FALSE],
    [type |-> "BigInt", is_unsigned |-> TRUE],
    [type |-> "Double", is_unsigned |-> FALSE]>>

\* -1, 3; 0, 9 and 2: negative, zero, above LLONG_MAX, a zero divisor.
MCRecords == {<<15, 9, 0>>, <<3, 9, 2>>, <<3, 0, 2>>, <<15, 2, -1>>}

Load(reg, col) ==
  [op |-> "LoadCol", reg |-> reg, col |-> col,
   type |-> MCSchema[col].type, is_unsigned |-> MCSchema[col].is_unsigned]
Calc(op, reg, reg2) == [op |-> op, reg |-> reg, reg2 |-> reg2]
Into(op, reg, agg, type) == [op |-> op, reg |-> reg, agg |-> agg, type |-> type]

TypeOf(x, y) == Wider(MCSchema[x].type, MCSchema[y].type)

\* select f(x op y) [group by the first columns]
OneAggregate ==
  {[gb_cols |-> gb, agg_types |-> <<IF f = "Count" THEN "BigInt" ELSE TypeOf(x, y)>>,
    code |-> <<Load(1, x), Load(2, y), Calc(op, 1, 2),
               Into(f, 1, 1, IF f = "Count" THEN "BigInt" ELSE TypeOf(x, y))>>]
   : gb \in {<<>>, <<1>>}, x \in 1 .. 3, y \in 1 .. 3, op \in ArithOps, f \in AggFunctions}

\* select sum(x op z), count((x op z) op2 y), a register reused and one left over
TwoAggregates ==
  {[gb_cols |-> gb, agg_types |-> <<TypeOf(x, 3), "BigInt">>,
    code |-> <<Load(1, x), Load(2, 3), Calc(op, 1, 2), Into("Sum", 1, 1, TypeOf(x, 3)),
               [op |-> "Store"], Load(2, y), Calc(op2, 2, 1), Into("Count", 2, 2, "BigInt")>>]
   : gb \in {<<>>, <<1, 2>>}, x \in 1 .. 3, y \in 1 .. 2,
     op \in {"Plus", "Div"}, op2 \in {"Mul", "Mod"}}

MCPrograms == OneAggregate \cup TwoAggregates
OtherColumns == {[p EXCEPT !.gb_cols = <<2>>] : p \in {q \in OneAggregate : q.gb_cols # <<>>}}
=============================================================================
