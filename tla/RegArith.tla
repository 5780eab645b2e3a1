------------------------------- MODULE RegArith -------------------------------
(* The arithmetic of the aggregation interpreter (interpreter.cc, lines      *)
(* 29-814): what one instruction does to its register or result item.  The   *)
(* functions are called with `res' equal to the first operand, so each one   *)
(* maps its operands to [ret, reg]: its return value and the new register.   *)
(*                                                                           *)
(* A BIGINT is its bit pattern, a number below Word; is_unsigned says how to *)
(* read it.  A DOUBLE is a whole number of at most DoubleMax that has no     *)
(* more digits than a mantissa: enough to tell zero, order, rounding and     *)
(* overflow apart.  Fractions, infinities and NaN are left out.              *)
EXTENDS Integers

CONSTANTS
  LongLongMax,   \* LLONG_MAX: ULLONG_MAX is 2 * LongLongMax + 1
  HalfWord,      \* 2^32, the base of the multiplication by halves
  DoubleMax,     \* no finite double is larger
  Precision      \* 2^53: up to here every whole number is a double

Word == 2 * LongLongMax + 2

ASSUME WordAssumption ==
  LongLongMax \in Nat \ {0} /\ HalfWord \in Nat /\ HalfWord * HalfWord = Word
ASSUME DoubleAssumption ==
  DoubleMax \in Nat /\ DoubleMax >= Word /\ Precision \in Nat \ {0}

Abs(n) == IF n < 0 THEN -n ELSE n

\* The distance from one double to the next where the numbers are as large as n.
Ulp[n \in Nat] == IF n < Precision THEN 1 ELSE 2 * Ulp[n \div 2]

\* The double nearest to n, the one with an even mantissa if two are: the
\* conversions to double and the operations on doubles round to it.
Rounded(n) ==
  LET ulp  == Ulp[Abs(n)]
      down == Abs(n) \div ulp
      rest == 2 * (Abs(n) % ulp)
      nearest == ulp * IF rest > ulp \/ (rest = ulp /\ down % 2 = 1) THEN down + 1 ELSE down
  IN  IF Abs(n) <= Precision THEN n
      ELSE IF n < 0 THEN -nearest ELSE nearest

Bits == 0 .. (Word - 1)
Doubles == {n \in -DoubleMax .. DoubleMax : Rounded(n) = n}
Types == {"Unknown", "BigInt", "Double"}
Registers == [type : Types, value : Bits \cup Doubles,
              is_unsigned : BOOLEAN, is_null : BOOLEAN]

\* Mutant of Unsigned: numbers have no width.
UnsignedUnbounded(n) == IF n < 0 THEN n + Word ELSE n

\* static_cast<uint64_t>(n), and the same bits read as an int64_t.
Unsigned(n) == n % Word
Signed(bits) == IF bits > LongLongMax THEN bits - Word ELSE bits

\* The number a register or an item holds, exactly.
Value(r) ==
  IF r.type = "Double" \/ r.is_unsigned THEN r.value ELSE Signed(r.value)

\* The double an operand is converted to, if the other one is a double.
AsDouble(r) == IF r.type = "Double" THEN r.value ELSE Rounded(Value(r))

Truncated(x, y) ==
  IF (x < 0) = (y < 0) THEN Abs(x) \div Abs(y) ELSE -(Abs(x) \div Abs(y))

SetRegisterNull(reg) ==
  [reg EXCEPT !.is_null = TRUE, !.value = 0, !.is_unsigned = FALSE]

ResetRegister(reg) == SetRegisterNull([reg EXCEPT !.type = "Unknown"])

Succeed(reg) == [ret |-> 0, reg |-> reg]
Fail(reg) == [ret |-> -1, reg |-> reg]
IsNull(reg) == [ret |-> 1, reg |-> reg]
\* The division instruction itself stops the process.
Trap(reg) == [ret |-> -2, reg |-> reg]

IsNegative(r) == ~r.is_unsigned /\ r.value > LongLongMax

\* "Check if res_val is overflow": the result's flag is decided by the operands,
\* res_unsigned and `negative' are what is known about the value.
Refused(flag, res_unsigned, negative, bits) ==
  \/ flag /\ ~res_unsigned /\ negative
  \/ ~flag /\ res_unsigned /\ bits > LongLongMax

Checked(flag, res_unsigned, negative, bits, res) ==
  IF Refused(flag, res_unsigned, negative, bits)
  THEN Fail(res)
  ELSE Succeed([res EXCEPT !.type = "BigInt", !.value = bits, !.is_unsigned = flag])

FlagOf(a, b) == a.is_unsigned # b.is_unsigned

-----------------------------------------------------------------------------
(* BIGINT operands                                                           *)

TestIfSumOverflowsUint64(x, y) == x + y >= Word

\* Both operands are non-negative and one of them is unsigned.
Natural(a, b) ==
  /\ ~IsNegative(a) /\ ~IsNegative(b)
  /\ a.is_unsigned \/ b.is_unsigned

\* Mutant of SumWraps: two negative operands never overflow.
SumWrapsUnsigned(a, b) ==
  Natural(a, b) /\ TestIfSumOverflowsUint64(a.value, b.value)

SumWraps(a, b) ==
  \/ Natural(a, b) /\ TestIfSumOverflowsUint64(a.value, b.value)
  \/ /\ IsNegative(a) /\ IsNegative(b)
     /\ Unsigned(a.value + b.value) <= LongLongMax

SumUnsigned(a, b) ==
  \/ ~IsNegative(a) /\ ~IsNegative(b)
  \/ a.is_unsigned /\ a.value > LongLongMax
  \/ b.is_unsigned /\ b.value > LongLongMax

\* a + b, for RegPlusReg (res is the register a) and Sum (res is the item b).
PlusInts(a, b, res) ==
  LET bits == Unsigned(a.value + b.value)
  IN  IF SumWraps(a, b)
      THEN Fail(res)
      ELSE Checked(FlagOf(a, b), SumUnsigned(a, b), bits > LongLongMax, bits, res)

DifferenceWraps(a, b) ==
  LET bits == Unsigned(a.value - b.value)
  IN  \/ /\ a.is_unsigned /\ b.is_unsigned
         /\ a.value < b.value /\ bits <= LongLongMax
      \/ /\ a.is_unsigned /\ IsNegative(b)
         /\ TestIfSumOverflowsUint64(a.value, Unsigned(-b.value))
      \/ /\ ~a.is_unsigned /\ b.is_unsigned
         /\ \/ Unsigned(a.value + LongLongMax + 1) < b.value
            \/ /\ IsNegative(a) /\ Signed(b.value) > 0
               /\ bits <= LongLongMax

\* Mutant of DifferenceUnsigned: subtracting a negative number is forgotten.
DifferenceUnsignedForgetsSign(a, b) ==
  \/ a.is_unsigned /\ b.is_unsigned /\ a.value < b.value
  \/ a.is_unsigned /\ ~b.is_unsigned /\ a.value > b.value
  \/ ~a.is_unsigned /\ b.is_unsigned /\ ~IsNegative(a) /\ b.value > LongLongMax

DifferenceUnsigned(a, b) ==
  \/ a.is_unsigned /\ b.is_unsigned /\ a.value < b.value
  \/ a.is_unsigned /\ ~b.is_unsigned /\ (IsNegative(b) \/ a.value > b.value)
  \/ ~a.is_unsigned /\ b.is_unsigned /\ ~IsNegative(a) /\ b.value > LongLongMax

MinusInts(a, b) ==
  LET bits == Unsigned(a.value - b.value)
  IN  IF DifferenceWraps(a, b)
      THEN Fail(a)
      ELSE Checked(FlagOf(a, b), DifferenceUnsigned(a, b), bits > LongLongMax, bits, a)

\* The magnitude of an operand, as an uint64_t.
Size(r) == IF IsNegative(r) THEN Word - r.value ELSE r.value

\* Mutant of HalvesOverflow: the product of the two upper halves is dropped.
HalvesOverflowLate(x, y) ==
  (x \div HalfWord) * (y % HalfWord) + (x % HalfWord) * (y \div HalfWord) >= HalfWord

\* The schoolbook product of x and y in base HalfWord does not fit in a word.
HalvesOverflow(x, y) ==
  LET a0 == x % HalfWord   a1 == x \div HalfWord
      b0 == y % HalfWord   b1 == y \div HalfWord
      middle == a1 * b0 + a0 * b1
  IN  \/ a1 # 0 /\ b1 # 0
      \/ middle >= HalfWord
      \/ TestIfSumOverflowsUint64(middle * HalfWord, a0 * b0)

\* LLONG_MIN times 1 is stored as it is.
SmallestTimesOne(a, b) ==
  \/ IsNegative(a) /\ a.value = LongLongMax + 1 /\ b.value = 1
  \/ IsNegative(b) /\ b.value = LongLongMax + 1 /\ a.value = 1

SignsDiffer(a, b) == IsNegative(a) # IsNegative(b)

\* The bits of n or of -n, as an uint64_t.
Negated(yes, n) == IF yes THEN Unsigned(-n) ELSE n

MulInts(a, b) ==
  LET product == Size(a) * Size(b)
      bits == Negated(SignsDiffer(a, b), product)
  IN  IF a.value = 0 \/ b.value = 0
      THEN Succeed([a EXCEPT !.type = "BigInt"])
      ELSE IF SmallestTimesOne(a, b)
      THEN Checked(FlagOf(a, b), ~SignsDiffer(a, b), TRUE, LongLongMax + 1, a)
      ELSE IF \/ HalvesOverflow(Size(a), Size(b))
              \/ SignsDiffer(a, b) /\ product > LongLongMax
      THEN Fail(a)
      ELSE Checked(FlagOf(a, b), ~SignsDiffer(a, b), bits > LongLongMax, bits, a)

\* A negative result that is read as an uint64_t is never less than zero, so
\* `negative' is FALSE for a quotient and for a remainder.
DivInts(a, b) ==
  LET quotient == Size(a) \div Size(b)
  IN  IF b.value = 0
      THEN Trap(a)
      ELSE IF SignsDiffer(a, b) /\ quotient > LongLongMax
      THEN Fail(a)
      ELSE Checked(FlagOf(a, b), ~SignsDiffer(a, b), FALSE,
                   Negated(SignsDiffer(a, b), quotient), a)

ModInts(a, b) ==
  IF b.value = 0
  THEN Trap(a)
  ELSE Checked(FlagOf(a, b), ~IsNegative(a), FALSE,
               Negated(IsNegative(a), Size(a) % Size(b)), a)

-----------------------------------------------------------------------------
(* A DOUBLE operand                                                          *)

\* The result of an operation, unless it is too large.
Finite(number, is_unsigned, res) ==
  IF Rounded(number) \in Doubles
  THEN Succeed([res EXCEPT !.type = "Double", !.value = Rounded(number),
                           !.is_unsigned = is_unsigned])
  ELSE Fail(res)

\* A division by zero is NULL.
DividedByZero(a) == IsNull([SetRegisterNull(a) EXCEPT !.type = "Double"])

\* Only the sum resets the flag of its register.
DoubleOp(op, a, b) ==
  LET x == AsDouble(a)
      y == AsDouble(b)
  IN  CASE op = "Plus"  -> Finite(x + y, FALSE, a)
        [] op = "Minus" -> Finite(x - y, a.is_unsigned, a)
        [] op = "Mul"   -> Finite(x * y, a.is_unsigned, a)
        [] op = "Div"   -> IF y = 0 THEN DividedByZero(a)
                           ELSE Finite(Truncated(x, y), a.is_unsigned, a)
        [] op = "Mod"   -> IF y = 0 THEN DividedByZero(a)
                           ELSE Finite(x - y * Truncated(x, y), a.is_unsigned, a)

IntOp(op, a, b) ==
  CASE op = "Plus"  -> PlusInts(a, b, a)
    [] op = "Minus" -> MinusInts(a, b)
    [] op = "Mul"   -> MulInts(a, b)
    [] op = "Div"   -> DivInts(a, b)
    [] op = "Mod"   -> ModInts(a, b)

ArithOps == {"Plus", "Minus", "Mul", "Div", "Mod"}

\* RegPlusReg, RegMinusReg, RegMulReg, RegDivReg, RegModReg with res = a.
RegOp(op, a, b) ==
  IF a.is_null \/ b.is_null THEN IsNull(SetRegisterNull(a))
  ELSE IF "Double" \in {a.type, b.type} THEN DoubleOp(op, a, b)
  ELSE IntOp(op, a, b)

-----------------------------------------------------------------------------
(* Aggregate functions: a register into the result item of its group         *)

\* res->value and res->inited as they are after the lines that set a start
\* value, when this is the first value the item sees.
Started(res, start) ==
  IF res.inited THEN res ELSE [res EXCEPT !.value = start, !.inited = TRUE]

\* The item keeps its own value unless the register's is better.
Keep(res, better, a) == IF better THEN [res EXCEPT !.value = a.value] ELSE res

MinDoubles(a, res) == Keep(res, a.value < res.value, a)

MinInts(a, res) ==
  LET low  == Started(res, LongLongMax)
      high == Started(res, Word - 1)
  IN  CASE ~a.is_unsigned /\ ~res.is_unsigned ->
             Keep(low, Signed(a.value) < Signed(low.value), a)
        [] a.is_unsigned /\ res.is_unsigned -> Keep(high, a.value < high.value, a)
        [] a.is_unsigned /\ ~res.is_unsigned ->
             IF low.value > LongLongMax THEN low
             ELSE [Keep(low, a.value < low.value, a) EXCEPT !.is_unsigned = TRUE]
        [] ~a.is_unsigned /\ res.is_unsigned ->
             IF IsNegative(a) THEN [low EXCEPT !.value = a.value, !.is_unsigned = FALSE]
             ELSE Keep(low, a.value < low.value, a)

MaxDoubles(a, res) == Keep(res, a.value > res.value, a)

\* Mutant of MaxInts: the maximum of signed numbers starts at zero.
MaxIntsFromZero(a, res) ==
  LET zero == Started(res, 0)
  IN  IF a.is_unsigned THEN [Keep(zero, a.value > zero.value, a) EXCEPT !.is_unsigned = TRUE]
      ELSE Keep(zero, Signed(a.value) > Signed(zero.value), a)

MaxInts(a, res) ==
  LET least == Started(res, LongLongMax + 1)
      zero  == Started(res, 0)
  IN  CASE ~a.is_unsigned /\ ~res.is_unsigned ->
             Keep(least, Signed(a.value) > Signed(least.value), a)
        [] a.is_unsigned /\ res.is_unsigned -> Keep(zero, a.value > zero.value, a)
        [] a.is_unsigned /\ ~res.is_unsigned ->
             [Keep(zero, IsNegative(zero) \/ a.value > zero.value, a)
                EXCEPT !.is_unsigned = TRUE]
        \* what is stored here is the outcome of the comparison, 0 or 1
        [] ~a.is_unsigned /\ res.is_unsigned ->
             IF IsNegative(a) THEN zero
             ELSE [zero EXCEPT !.value = IF a.value > zero.value THEN 1 ELSE 0]

\* The asserts of the aggregate functions.
Accepts(op, a, res) ==
  CASE op = "Count" -> TRUE
    [] op = "Sum" -> "Double" \in {a.type, res.type} \/ {a.type, res.type} = {"BigInt"}
    [] op \in {"Max", "Min"} ->
         a.type \in {"BigInt", "Double"} /\ (a.is_null \/ a.type = res.type)

Count(a, res) ==
  Succeed([res EXCEPT !.value = Unsigned(res.value + 1), !.is_unsigned = TRUE])

Sum(a, res) ==
  IF "Double" \in {a.type, res.type}
  THEN Finite(AsDouble(a) + AsDouble(res), FALSE, res)
  ELSE PlusInts(a, res, res)

AggFunctions == {"Count", "Sum", "Max", "Min"}

AggOp(op, a, res) ==
  IF ~Accepts(op, a, res) THEN Fail(res)
  ELSE IF a.is_null THEN IsNull(res)
  ELSE CASE op = "Count" -> Count(a, res)
         [] op = "Sum" -> Sum(a, res)
         [] op = "Max" -> Succeed(IF a.type = "Double" THEN MaxDoubles(a, res)
                                                       ELSE MaxInts(a, res))
         [] op = "Min" -> Succeed(IF a.type = "Double" THEN MinDoubles(a, res)
                                                       ELSE MinInts(a, res))
=============================================================================
