------------------------------ MODULE RegMachine ------------------------------
(* One arithmetic function of the interpreter, called on any two registers,  *)
(* against the arithmetic of whole numbers.                                  *)
EXTENDS RegArith

VARIABLES op, a, b, out

regVars == <<op, a, b, out>>

Ints == [type : {"BigInt"}, value : Bits, is_unsigned : BOOLEAN, is_null : {FALSE}]
Reals == [type : {"Double"}, value : Doubles, is_unsigned : {FALSE}, is_null : {FALSE}]
Nulls == [type : {"BigInt", "Double"}, value : {0}, is_unsigned : {FALSE}, is_null : {TRUE}]
Operands == Ints \cup Reals \cup Nulls

Uncalled == [ret |-> -3]

MachineInit ==
  /\ op \in ArithOps /\ a \in Operands /\ b \in Operands
  /\ out = Uncalled

Call ==
  /\ out = Uncalled
  /\ out' = RegOp(op, a, b)
  /\ UNCHANGED <<op, a, b>>

\* The result becomes the first operand of the next instruction.
Continue ==
  /\ out.ret \in {0, 1}
  /\ a' = out.reg
  /\ op' \in ArithOps
  /\ out' = Uncalled
  /\ UNCHANGED b

MachineNext == Call \/ Continue

MachineSpec == MachineInit /\ [][MachineNext]_regVars

-----------------------------------------------------------------------------
(* Properties                                                                *)

Exact(f, x, y) ==
  CASE f = "Plus"  -> x + y
    [] f = "Minus" -> x - y
    [] f = "Mul"   -> x * y
    [] f = "Div"   -> Truncated(x, y)
    [] f = "Mod"   -> x - y * Truncated(x, y)

\* The numbers a result can hold: it is unsigned if exactly one operand is.
Representable(n) ==
  IF FlagOf(a, b) THEN n \in 0 .. (Word - 1)
                  ELSE n \in (-LongLongMax - 1) .. LongLongMax

Called(f) ==
  /\ op = f /\ out # Uncalled
  /\ a \in Ints /\ b \in Ints
  /\ f \in {"Div", "Mod"} => b.value # 0

ExactResult == Exact(op, Value(a), Value(b))
Stored(n) == out.ret = 0 /\ Value(out.reg) = n /\ out.reg.is_unsigned = FlagOf(a, b)

WellTyped(r) ==
  /\ r \in Registers
  /\ r.type = "BigInt" => r.value \in Bits
  /\ r.type = "Double" => r.value \in Doubles

\* A register holds what its type allows, and so does every result.
RegTypeOK ==
  /\ op \in ArithOps /\ WellTyped(a) /\ WellTyped(b)
  /\ out # Uncalled => out.ret \in {-2, -1, 0, 1} /\ WellTyped(out.reg)

\* RegPlusReg stores the exact sum when the result's type can hold it and
\* fails otherwise, whatever the operands' signs and flags (interpreter.cc:58-113).
PlusIsExact ==
  Called("Plus") =>
    IF Representable(ExactResult) THEN Stored(ExactResult) ELSE out.ret = -1

\* RegMulReg finds every overflow through its halves, and refuses no product
\* but LLONG_MIN; a zero factor is a case of its own (interpreter.cc:259-360).
MulIsExact ==
  Called("Mul") /\ 0 \notin {a.value, b.value} =>
    IF Representable(ExactResult) /\ ExactResult # -LongLongMax - 1
    THEN Stored(ExactResult)
    ELSE \/ out.ret = -1
         \/ ExactResult = -LongLongMax - 1 /\ Stored(ExactResult) /\ 1 \in {a.value, b.value}

\* A difference, quotient or remainder its type can hold is stored exactly; the
\* two that are refused are the negative difference of two unsigned numbers
\* and LLONG_MIN / 1 (interpreter.cc:160-239, 405-486, 506-569).
RepresentableIsStored ==
  \A f \in {"Minus", "Div", "Mod"} :
    Called(f) /\ Representable(ExactResult) =>
      \/ Stored(ExactResult)
      \/ /\ out.ret = -1
         /\ \/ f = "Minus" /\ a.is_unsigned /\ b.is_unsigned /\ ExactResult < 0
            \/ f = "Div" /\ ExactResult = -LongLongMax - 1
=============================================================================
