------------------------ MODULE AggInterpreter_proofs ------------------------
(* Proofs about AggInterpreter, for every schema, every well-formed program, *)
(* every set of records and every word size, and first about the arithmetic  *)
(* it is built from (RegMachine, whose four variables play no further part): *)
(* whatever the operands' signs and flags, sums and products are exact or    *)
(* refused, and a result that its type can hold is never refused.            *)
EXTENDS AggInterpreter, RegMachine, RecursionTheorems, SequenceTheorems, TLAPS

-----------------------------------------------------------------------------
(* Arithmetic                                                                *)

\* Reducing a number of at most two words.
LEMMA Reduce ==
  ASSUME NEW x \in 0 .. (2 * Word - 1)
  PROVE  Unsigned(x) = IF x < Word THEN x ELSE x - Word
<1>1. Word \in Nat \ {0}
  BY WordAssumption DEF Word
<1>2. x % Word \in 0 .. (Word - 1) /\ x = Word * (x \div Word) + (x % Word)
  BY <1>1
<1>3. CASE x < Word
  BY <1>1, <1>3 DEF Unsigned
<1>4. CASE x >= Word
  <2>1. x - Word \in 0 .. (Word - 1)
    BY <1>1, <1>4
  <2>2. x \div Word = 1
    BY <1>1, <1>4, <1>2
  <2> QED
    BY <1>1, <1>2, <1>4, <2>2 DEF Unsigned
<1> QED
  BY <1>1, <1>3, <1>4

\* Division of a natural number, as the solvers know it.
LEMMA DivisionOfNat ==
  ASSUME NEW n \in Nat, NEW d \in Nat \ {0}
  PROVE  /\ n \div d \in Nat /\ n % d \in 0 .. (d - 1)
         /\ n = d * (n \div d) + (n % d)
         /\ n \div d <= n
<1>1. n \div d \in Int /\ n % d \in 0 .. (d - 1) /\ n = d * (n \div d) + (n % d)
  BY SMT
<1> DEFINE q == n \div d
<1> HIDE DEF q
<1>2. q >= 0
  <2>1. SUFFICES ASSUME q <= -1 PROVE FALSE
    BY <1>1 DEF q
  <2>2. d * q <= d * (-1)
    BY <1>1, <2>1 DEF q
  <2> QED
    BY <1>1, <2>2 DEF q
<1>3. q <= d * q
  BY <1>1, <1>2 DEF q
<1> QED
  BY <1>1, <1>2, <1>3 DEF q

\* What a BIGINT operand is made of.
LEMMA IntFacts ==
  ASSUME NEW x \in Ints
  PROVE  /\ LongLongMax \in Nat \ {0} /\ Word = 2 * LongLongMax + 2
         /\ x.value \in 0 .. (Word - 1) /\ x.is_unsigned \in BOOLEAN
         /\ x.type = "BigInt" /\ x.is_null = FALSE
         /\ Size(x) \in 0 .. (Word - 1)
         /\ Value(x) = IF IsNegative(x) THEN -Size(x) ELSE Size(x)
         /\ IsNegative(x) => x.is_unsigned = FALSE /\ Size(x) \in 1 .. (LongLongMax + 1)
         /\ ~IsNegative(x) /\ x.is_unsigned = FALSE => Size(x) <= LongLongMax
         /\ x.value = 0 <=> Size(x) = 0
<1>1. LongLongMax \in Nat \ {0} /\ Word = 2 * LongLongMax + 2
  BY WordAssumption DEF Word
<1>2. /\ x.value \in 0 .. (Word - 1) /\ x.is_unsigned \in BOOLEAN
      /\ x.type = "BigInt" /\ x.is_null = FALSE
  BY DEF Ints, Bits
<1>3. CASE IsNegative(x)
  <2>1. x.is_unsigned = FALSE /\ x.value > LongLongMax /\ Size(x) = Word - x.value
    BY <1>2, <1>3 DEF IsNegative, Size
  <2>2. Value(x) = x.value - Word
    BY <1>2, <2>1 DEF Value, Signed
  <2> QED
    BY <1>1, <1>2, <1>3, <2>1, <2>2
<1>4. CASE ~IsNegative(x)
  <2>1. Size(x) = x.value /\ (x.is_unsigned = FALSE => x.value <= LongLongMax)
    BY <1>1, <1>2, <1>4 DEF IsNegative, Size
  <2>2. Value(x) = x.value
    BY <1>1, <1>2, <2>1 DEF Value, Signed
  <2> QED
    BY <1>1, <1>2, <1>4, <2>1, <2>2
<1> QED
  BY <1>3, <1>4

\* Two BIGINT operands are never NULL, so RegOp is the function on integers.
LEMMA IntsOnly ==
  ASSUME NEW x \in Ints, NEW y \in Ints, NEW f \in ArithOps
  PROVE  RegOp(f, x, y) = IntOp(f, x, y)
  BY DEF RegOp, Ints

-----------------------------------------------------------------------------
(* The sum                                                                   *)

\* A sum is stored exactly if the result's type can hold it, and else refused.
LEMMA SumOfInts ==
  ASSUME NEW x \in Ints, NEW y \in Ints
  PROVE  LET res == PlusInts(x, y, x)
             exact == Value(x) + Value(y)
             fits == IF FlagOf(x, y) THEN exact \in 0 .. (Word - 1)
                                     ELSE exact \in (-LongLongMax - 1) .. LongLongMax
         IN  IF fits
             THEN res.ret = 0 /\ Value(res.reg) = exact /\ res.reg.is_unsigned = FlagOf(x, y)
             ELSE res.ret = -1
<1> DEFINE bits == Unsigned(x.value + y.value)
<1>1. /\ LongLongMax \in Nat \ {0} /\ Word = 2 * LongLongMax + 2
      /\ x.value \in 0 .. (Word - 1) /\ y.value \in 0 .. (Word - 1)
      /\ x.is_unsigned \in BOOLEAN /\ y.is_unsigned \in BOOLEAN /\ x.type = "BigInt"
  BY IntFacts
<1>2. bits = IF x.value + y.value < Word THEN x.value + y.value
                                         ELSE x.value + y.value - Word
  BY <1>1, Reduce
<1> QED
  BY <1>1, <1>2 DEF PlusInts, Checked, Refused, SumWraps, SumUnsigned, Natural, IsNegative,
     TestIfSumOverflowsUint64, Value, Signed, FlagOf, Fail, Succeed, Ints

-----------------------------------------------------------------------------
(* The product                                                               *)

\* The schoolbook product finds exactly the products that do not fit in a word.
LEMMA HalvesFindOverflow ==
  ASSUME NEW x \in 0 .. (Word - 1), NEW y \in 0 .. (Word - 1)
  PROVE  HalvesOverflow(x, y) <=> x * y >= Word
<1> DEFINE H == HalfWord
           a0 == x % H  a1 == x \div H
           b0 == y % H  b1 == y \div H
           middle == a1 * b0 + a0 * b1
<1>1. H \in Nat \ {0} /\ H * H = Word /\ Word \in Nat \ {0}
  BY WordAssumption DEF Word
<1> HIDE DEF H
<1>2. a0 \in 0 .. (H - 1) /\ a1 \in Nat /\ x = H * a1 + a0
  <2>1. x \in Nat
    BY <1>1
  <2> QED
    BY <1>1, <2>1, DivisionOfNat
<1>3. b0 \in 0 .. (H - 1) /\ b1 \in Nat /\ y = H * b1 + b0
  <2>1. y \in Nat
    BY <1>1
  <2> QED
    BY <1>1, <2>1, DivisionOfNat
<1>4. HalvesOverflow(x, y) <=>
        (a1 # 0 /\ b1 # 0) \/ middle >= H \/ middle * H + a0 * b0 >= Word
  BY DEF HalvesOverflow, TestIfSumOverflowsUint64, H
<1> HIDE DEF a0, a1, b0, b1
<1>5. a1 * b1 \in Nat /\ middle \in Nat /\ a0 * b0 \in Nat
  BY <1>1, <1>2, <1>3
<1>6. x * y = (H * H) * (a1 * b1) + H * middle + a0 * b0
  BY <1>1, <1>2, <1>3
<1> HIDE DEF middle
<1>7. CASE a1 # 0 /\ b1 # 0
  <2>1. a1 * b1 >= 1
    BY <1>2, <1>3, <1>7
  <2>2. Word * (a1 * b1) >= Word
    BY <1>1, <1>5, <2>1
  <2>3. H * middle \in Nat
    BY <1>1, <1>5
  <2> QED
    BY <1>1, <1>4, <1>5, <1>6, <1>7, <2>2, <2>3
<1>8. CASE a1 = 0 \/ b1 = 0
  <2>1. a1 * b1 = 0
    BY <1>2, <1>3, <1>8
  <2>2. x * y = H * middle + a0 * b0
    BY <1>1, <1>5, <1>6, <2>1
  <2>3. middle >= H => H * middle >= Word
    BY <1>1, <1>5
  <2>4. H * middle \in Nat /\ H * middle = middle * H
    BY <1>1, <1>5
  <2> QED
    BY <1>1, <1>4, <1>5, <1>8, <2>2, <2>3, <2>4
<1> QED
  BY <1>2, <1>3, <1>7, <1>8

\* The numbers a result of x and y can hold.
Fits(x, y, n) ==
  IF FlagOf(x, y) THEN n \in 0 .. (Word - 1) ELSE n \in (-LongLongMax - 1) .. LongLongMax

\* A result of x and y that is the number n.
Holds(res, x, y, n) ==
  res.ret = 0 /\ Value(res.reg) = n /\ res.reg.is_unsigned = FlagOf(x, y)

\* What the last check of all five functions does with the bits of a number.
LEMMA CheckedBits ==
  ASSUME NEW x \in Ints, NEW y \in Ints, NEW bits \in 0 .. (Word - 1),
         NEW res_unsigned \in BOOLEAN, NEW negative \in BOOLEAN
  PROVE  LET res == Checked(FlagOf(x, y), res_unsigned, negative, bits, x)
             n == IF FlagOf(x, y) THEN bits ELSE Signed(bits)
         IN  IF Refused(FlagOf(x, y), res_unsigned, negative, bits)
             THEN res.ret = -1
             ELSE Holds(res, x, y, n)
<1>1. x.type = "BigInt" /\ DOMAIN x = {"type", "value", "is_unsigned", "is_null"}
  BY DEF Ints
<1> DEFINE cell == [x EXCEPT !.type = "BigInt", !.value = bits, !.is_unsigned = FlagOf(x, y)]
<1>2. cell.type = "BigInt" /\ cell.value = bits /\ cell.is_unsigned = FlagOf(x, y)
  BY DEF Ints
<1>3. Value(cell) = IF FlagOf(x, y) THEN bits ELSE Signed(bits)
  BY <1>2 DEF Value
<1> QED
  BY <1>2, <1>3 DEF Checked, Holds, Fail, Succeed

\* The bits of a negative number.
LEMMA NegatedBits ==
  ASSUME NEW n \in 0 .. (Word - 1), NEW yes \in BOOLEAN
  PROVE  /\ Negated(yes, n) \in 0 .. (Word - 1)
         /\ yes /\ n # 0 => Negated(yes, n) = Word - n
         /\ n = 0 => Negated(yes, n) = 0
         /\ ~yes => Negated(yes, n) = n
<1>1. Word \in Nat \ {0}
  BY WordAssumption DEF Word
<1>2. (-n) % Word = IF n = 0 THEN 0 ELSE Word - n
  <2>1. (-n) % Word \in 0 .. (Word - 1) /\ -n = Word * ((-n) \div Word) + ((-n) % Word)
    BY <1>1
  <2> DEFINE q == (-n) \div Word
  <2>2. q \in Int
    BY <1>1
  <2> HIDE DEF q
  <2>3. CASE n = 0
    BY <1>1, <2>3
  <2>4. CASE n # 0
    <3>1. q < 0
      <4>1. SUFFICES ASSUME q >= 0 PROVE FALSE
        BY <2>2
      <4>2. Word * q >= 0
        BY <1>1, <2>2, <4>1
      <4> QED
        BY <1>1, <2>1, <2>4, <4>2 DEF q
    <3>2. q > -2
      <4>1. SUFFICES ASSUME q <= -2 PROVE FALSE
        BY <2>2
      <4>2. Word * q <= Word * (-2)
        BY <1>1, <2>2, <4>1
      <4> QED
        BY <1>1, <2>1, <4>2 DEF q
    <3>3. q = -1
      BY <2>2, <3>1, <3>2
    <3> QED
      BY <1>1, <2>1, <2>4, <3>3 DEF q
  <2> QED
    BY <2>3, <2>4
<1> QED
  BY <1>1, <1>2 DEF Negated, Unsigned

\* The sizes' product is that of the numbers, up to its sign.
LEMMA ProductOfSizes ==
  ASSUME NEW x \in Ints, NEW y \in Ints
  PROVE  /\ Size(x) * Size(y) \in Nat
         /\ Value(x) * Value(y) =
              IF SignsDiffer(x, y) THEN -(Size(x) * Size(y)) ELSE Size(x) * Size(y)
<1> DEFINE s == Size(x)  t == Size(y)
<1>1. /\ Value(x) = IF IsNegative(x) THEN -s ELSE s
      /\ Value(y) = IF IsNegative(y) THEN -t ELSE t
      /\ s \in Nat /\ t \in Nat
  <2>1. Word \in Nat
    BY WordAssumption DEF Word
  <2>2. s \in 0 .. (Word - 1) /\ Value(x) = IF IsNegative(x) THEN -s ELSE s
    BY IntFacts
  <2>3. t \in 0 .. (Word - 1) /\ Value(y) = IF IsNegative(y) THEN -t ELSE t
    BY IntFacts
  <2> QED
    BY <2>1, <2>2, <2>3
<1> HIDE DEF s, t
<1>2. (-s) * t = -(s * t) /\ s * (-t) = -(s * t) /\ (-s) * (-t) = s * t /\ s * t \in Nat
  BY <1>1
<1>3. IsNegative(x) \in BOOLEAN /\ IsNegative(y) \in BOOLEAN
  BY DEF IsNegative
<1> QED
  BY <1>1, <1>2, <1>3 DEF s, t, SignsDiffer

\* A product is stored exactly if the result's type can hold it, except that
\* LLONG_MIN is only stored as LLONG_MIN times 1.
LEMMA ProductOfInts ==
  ASSUME NEW x \in Ints, NEW y \in Ints, x.value # 0, y.value # 0
  PROVE  LET res == MulInts(x, y)
             exact == Value(x) * Value(y)
         IN  IF Fits(x, y, exact) /\ exact # -LongLongMax - 1
             THEN Holds(res, x, y, exact)
             ELSE \/ res.ret = -1
                  \/ /\ exact = -LongLongMax - 1 /\ Holds(res, x, y, exact)
                     /\ 1 \in {x.value, y.value}
<1> DEFINE P == Size(x) * Size(y)
           differ == SignsDiffer(x, y)
           flag == FlagOf(x, y)
           bits == Negated(differ, P)
<1>1. LongLongMax \in Nat \ {0} /\ Word = 2 * LongLongMax + 2
  BY WordAssumption DEF Word
<1>2. Size(x) \in 1 .. (Word - 1) /\ Size(y) \in 1 .. (Word - 1)
  <2>1. Size(x) \in 0 .. (Word - 1) /\ Size(y) \in 0 .. (Word - 1)
    BY IntFacts
  <2>2. Size(x) # 0 /\ Size(y) # 0
    BY IntFacts
  <2> QED
    BY <1>1, <2>1, <2>2
<1>3. P \in Nat \ {0}
  BY <1>1, <1>2
<1>4. Value(x) * Value(y) = IF differ THEN -P ELSE P
  BY ProductOfSizes
<1>5. HalvesOverflow(Size(x), Size(y)) <=> P >= Word
  BY <1>1, <1>2, HalvesFindOverflow
<1>6. SmallestTimesOne(x, y) => P = LongLongMax + 1 /\ differ /\ 1 \in {x.value, y.value}
  <2>1. ASSUME NEW r \in Ints, NEW o \in Ints, IsNegative(r), r.value = LongLongMax + 1, o.value = 1
        PROVE  Size(r) = LongLongMax + 1 /\ Size(o) = 1 /\ ~IsNegative(o)
    BY <1>1, <2>1 DEF Size, IsNegative
  <2>2. (LongLongMax + 1) * 1 = LongLongMax + 1 /\ 1 * (LongLongMax + 1) = LongLongMax + 1
    BY <1>1
  <2> QED
    BY <2>1, <2>2 DEF SmallestTimesOne, SignsDiffer
<1>7. flag \in BOOLEAN /\ differ \in BOOLEAN
  BY DEF FlagOf, SignsDiffer
<1>8. MulInts(x, y) =
        IF SmallestTimesOne(x, y) THEN Checked(flag, ~differ, TRUE, LongLongMax + 1, x)
        ELSE IF P >= Word \/ (differ /\ P > LongLongMax) THEN Fail(x)
        ELSE Checked(flag, ~differ, bits > LongLongMax, bits, x)
  BY <1>5 DEF MulInts
<1>9. Fits(x, y, Value(x) * Value(y)) <=>
        IF flag THEN ~differ /\ P < Word
                ELSE IF differ THEN P <= LongLongMax + 1 ELSE P <= LongLongMax
  BY <1>1, <1>3, <1>4, <1>7 DEF Fits
<1> HIDE DEF P, differ, flag, bits
<1>10. CASE SmallestTimesOne(x, y)
  <2>1. LongLongMax + 1 \in 0 .. (Word - 1) /\ Signed(LongLongMax + 1) = -LongLongMax - 1
    BY <1>1 DEF Signed
  <2>2. MulInts(x, y) = Checked(flag, ~differ, TRUE, LongLongMax + 1, x)
    BY <1>8, <1>10
  <2>3. Refused(flag, ~differ, TRUE, LongLongMax + 1) <=> flag
    BY <1>6, <1>7, <1>10 DEF Refused
  <2>4. (~differ) \in BOOLEAN /\ TRUE \in BOOLEAN
    BY <1>7
  <2>5. Value(x) * Value(y) = -LongLongMax - 1
    BY <1>1, <1>4, <1>6, <1>10
  <2>6. IF flag THEN MulInts(x, y).ret = -1
                ELSE Holds(MulInts(x, y), x, y, -LongLongMax - 1)
    BY <2>1, <2>2, <2>3, <2>4, CheckedBits DEF flag
  <2> QED
    BY <1>6, <1>7, <1>10, <2>5, <2>6
<1>11. CASE ~SmallestTimesOne(x, y) /\ (P >= Word \/ (differ /\ P > LongLongMax))
  <2>1. MulInts(x, y).ret = -1
    BY <1>8, <1>11 DEF Fail
  <2> QED
    BY <1>1, <1>3, <1>4, <1>7, <1>9, <1>11, <2>1
<1>12. CASE ~SmallestTimesOne(x, y) /\ P < Word /\ (differ => P <= LongLongMax)
  <2>1. P \in 0 .. (Word - 1)
    BY <1>1, <1>3, <1>12
  <2>2. bits \in 0 .. (Word - 1) /\ bits = IF differ THEN Word - P ELSE P
    BY <1>3, <1>7, <2>1, NegatedBits DEF bits
  <2>3. MulInts(x, y) = Checked(flag, ~differ, bits > LongLongMax, bits, x)
    BY <1>1, <1>3, <1>7, <1>8, <1>12
  <2>4. LET n == IF flag THEN bits ELSE Signed(bits)
        IN  IF Refused(flag, ~differ, bits > LongLongMax, bits)
            THEN MulInts(x, y).ret = -1 ELSE Holds(MulInts(x, y), x, y, n)
    <3>1. (~differ) \in BOOLEAN /\ (bits > LongLongMax) \in BOOLEAN
      BY <1>7
    <3> QED
      BY <2>2, <2>3, <3>1, CheckedBits DEF flag
  <2>5. Refused(flag, ~differ, bits > LongLongMax, bits) <=>
          IF flag THEN differ ELSE ~differ /\ P > LongLongMax
    BY <1>1, <1>3, <1>7, <1>12, <2>2 DEF Refused
  <2>6. ~flag /\ (differ \/ P <= LongLongMax) => Signed(bits) = IF differ THEN -P ELSE P
    BY <1>1, <1>3, <1>7, <1>12, <2>2 DEF Signed
  <2>7. Value(x) * Value(y) # -LongLongMax - 1
    BY <1>1, <1>3, <1>4, <1>7, <1>12
  <2> QED
    BY <1>1, <1>3, <1>4, <1>7, <1>9, <1>12, <2>2, <2>4, <2>5, <2>6, <2>7
<1> QED
  BY <1>1, <1>3, <1>7, <1>10, <1>11, <1>12

-----------------------------------------------------------------------------
(* Difference, quotient and remainder                                        *)

\* A difference that fits is stored, unless both operands are unsigned and it
\* is negative.
LEMMA DifferenceOfInts ==
  ASSUME NEW x \in Ints, NEW y \in Ints, Fits(x, y, Value(x) - Value(y))
  PROVE  \/ Holds(MinusInts(x, y), x, y, Value(x) - Value(y))
         \/ /\ MinusInts(x, y).ret = -1
            /\ x.is_unsigned /\ y.is_unsigned /\ Value(x) - Value(y) < 0
<1> DEFINE bits == Unsigned(x.value - y.value)
           opposite == Unsigned(-y.value)
           shifted == Unsigned(x.value + LongLongMax + 1)
<1>1. /\ LongLongMax \in Nat \ {0} /\ Word = 2 * LongLongMax + 2
      /\ x.value \in 0 .. (Word - 1) /\ y.value \in 0 .. (Word - 1)
      /\ x.is_unsigned \in BOOLEAN /\ y.is_unsigned \in BOOLEAN /\ x.type = "BigInt"
  BY IntFacts
<1>2. bits = IF x.value >= y.value THEN x.value - y.value ELSE x.value - y.value + Word
  <2>1. CASE x.value >= y.value
    <3>1. x.value - y.value \in 0 .. (2 * Word - 1) /\ x.value - y.value < Word
      BY <1>1, <2>1
    <3> QED
      BY <2>1, <3>1, Reduce
  <2>2. CASE x.value < y.value
    <3> DEFINE d == y.value - x.value
    <3>1. d \in 0 .. (Word - 1) /\ d # 0 /\ x.value - y.value = -d
      BY <1>1, <2>2
    <3> HIDE DEF d
    <3>2. Negated(TRUE, d) = Word - d
      BY <3>1, NegatedBits
    <3> QED
      BY <1>1, <2>2, <3>1, <3>2 DEF Negated
  <2> QED
    BY <1>1, <2>1, <2>2
<1>3. opposite = IF y.value = 0 THEN 0 ELSE Word - y.value
  <2>1. opposite = Negated(TRUE, y.value)
    BY DEF Negated
  <2> QED
    BY <1>1, <2>1, NegatedBits
<1>4. shifted = IF x.value <= LongLongMax THEN x.value + LongLongMax + 1
                                         ELSE x.value - LongLongMax - 1
  <2>1. x.value + LongLongMax + 1 \in 0 .. (2 * Word - 1)
    BY <1>1
  <2> QED
    BY <1>1, <2>1, Reduce
<1> QED
  BY <1>1, <1>2, <1>3, <1>4 DEF MinusInts, Checked, Refused, DifferenceWraps, Fits, Holds,
     DifferenceUnsigned, IsNegative, TestIfSumOverflowsUint64, Value, Signed, FlagOf, Fail,
     Succeed, Ints

\* The size of an operand is the absolute value of its number, and its sign.
LEMMA SizeIsAbs ==
  ASSUME NEW x \in Ints
  PROVE  /\ Value(x) \in Int /\ Abs(Value(x)) = Size(x) /\ Size(x) \in Nat
         /\ Value(x) < 0 <=> IsNegative(x)
<1>1. LongLongMax \in Nat \ {0} /\ Word = 2 * LongLongMax + 2
  BY WordAssumption DEF Word
<1>2. /\ Size(x) \in 0 .. (Word - 1)
      /\ Value(x) = IF IsNegative(x) THEN -Size(x) ELSE Size(x)
      /\ IsNegative(x) => Size(x) \in 1 .. (LongLongMax + 1)
  BY IntFacts
<1> QED
  BY <1>1, <1>2 DEF Abs

\* A quotient that fits is stored, unless it is LLONG_MIN.
LEMMA QuotientOfInts ==
  ASSUME NEW x \in Ints, NEW y \in Ints, y.value # 0,
         Fits(x, y, Truncated(Value(x), Value(y)))
  PROVE  \/ Holds(DivInts(x, y), x, y, Truncated(Value(x), Value(y)))
         \/ /\ DivInts(x, y).ret = -1
            /\ Truncated(Value(x), Value(y)) = -LongLongMax - 1
<1> DEFINE q == Size(x) \div Size(y)
           differ == SignsDiffer(x, y)
           flag == FlagOf(x, y)
           bits == Negated(differ, q)
           exact == Truncated(Value(x), Value(y))
<1>1. LongLongMax \in Nat \ {0} /\ Word = 2 * LongLongMax + 2
  BY WordAssumption DEF Word
<1>2. Size(x) \in 0 .. (Word - 1) /\ Size(y) \in Nat \ {0}
  BY IntFacts, SizeIsAbs
<1>3. q \in 0 .. (Word - 1)
  <2>1. Size(x) \in Nat
    BY <1>1, <1>2
  <2>2. q \in Nat /\ q <= Size(x)
    BY <1>2, <2>1, DivisionOfNat
  <2> QED
    BY <1>1, <1>2, <2>2
<1>4. exact = IF differ THEN -q ELSE q
  <2>1. ((Value(x) < 0) = (Value(y) < 0)) <=> ~differ
    <3>1. IsNegative(x) \in BOOLEAN /\ IsNegative(y) \in BOOLEAN
      BY DEF IsNegative
    <3>2. (Value(x) < 0 <=> IsNegative(x)) /\ (Value(y) < 0 <=> IsNegative(y))
      BY SizeIsAbs
    <3> QED
      BY <3>1, <3>2 DEF SignsDiffer
  <2>2. Abs(Value(x)) \div Abs(Value(y)) = q
    BY SizeIsAbs
  <2> QED
    BY <2>1, <2>2 DEF Truncated
<1>5. flag \in BOOLEAN /\ differ \in BOOLEAN
  BY DEF FlagOf, SignsDiffer
<1>6. DivInts(x, y) = IF differ /\ q > LongLongMax THEN Fail(x)
                      ELSE Checked(flag, ~differ, FALSE, bits, x)
  BY DEF DivInts
<1>7. IF flag THEN exact \in 0 .. (Word - 1) ELSE exact \in (-LongLongMax - 1) .. LongLongMax
  BY DEF Fits
<1> HIDE DEF q, differ, flag, bits, exact
<1>8. CASE differ /\ q > LongLongMax
  <2>1. DivInts(x, y).ret = -1
    BY <1>6, <1>8 DEF Fail
  <2>2. exact = -LongLongMax - 1
    BY <1>1, <1>3, <1>4, <1>5, <1>7, <1>8
  <2> QED
    BY <2>1, <2>2 DEF exact
<1>9. CASE ~(differ /\ q > LongLongMax)
  <2>1. /\ bits \in 0 .. (Word - 1)
        /\ bits = IF differ /\ q # 0 THEN Word - q ELSE q
    BY <1>3, <1>5, NegatedBits DEF bits
  <2>2. DivInts(x, y) = Checked(flag, ~differ, FALSE, bits, x)
    BY <1>6, <1>9
  <2>3. (~differ) \in BOOLEAN /\ FALSE \in BOOLEAN
    BY <1>5
  <2>4. IF Refused(flag, ~differ, FALSE, bits) THEN DivInts(x, y).ret = -1
        ELSE Holds(DivInts(x, y), x, y, IF flag THEN bits ELSE Signed(bits))
    BY <2>1, <2>2, <2>3, CheckedBits DEF flag
  <2>5. ~Refused(flag, ~differ, FALSE, bits)
    BY <1>1, <1>3, <1>4, <1>5, <1>7, <2>1 DEF Refused
  <2>6. (IF flag THEN bits ELSE Signed(bits)) = exact
    BY <1>1, <1>3, <1>4, <1>5, <1>7, <1>9, <2>1 DEF Signed
  <2> QED
    BY <2>4, <2>5, <2>6 DEF exact
<1> QED
  BY <1>8, <1>9

\* A remainder that fits is stored.
LEMMA RemainderOfInts ==
  ASSUME NEW x \in Ints, NEW y \in Ints, y.value # 0,
         Fits(x, y, Value(x) - Value(y) * Truncated(Value(x), Value(y)))
  PROVE  Holds(ModInts(x, y), x, y, Value(x) - Value(y) * Truncated(Value(x), Value(y)))
<1> DEFINE s == Size(x)  t == Size(y)
           q == s \div t
           r == s % t
           neg == IsNegative(x)
           flag == FlagOf(x, y)
           bits == Negated(neg, r)
           exact == Value(x) - Value(y) * Truncated(Value(x), Value(y))
<1>1. LongLongMax \in Nat \ {0} /\ Word = 2 * LongLongMax + 2
  BY WordAssumption DEF Word
<1>2. s \in 0 .. (Word - 1) /\ t \in Nat \ {0} /\ t \in 0 .. (Word - 1)
  BY IntFacts, SizeIsAbs
<1>3. q \in Nat /\ r \in 0 .. (t - 1) /\ s = t * q + r
  <2>1. s \in Nat
    BY <1>1, <1>2
  <2> QED
    BY <1>2, <2>1, DivisionOfNat
<1>4. flag \in BOOLEAN /\ neg \in BOOLEAN /\ IsNegative(y) \in BOOLEAN
  BY DEF FlagOf, IsNegative
<1>5. exact = IF neg THEN -r ELSE r
  <2> DEFINE T == Truncated(Value(x), Value(y))
             n == IsNegative(y)
  <2>1. T = IF neg = n THEN q ELSE -q
    <3>1. ((Value(x) < 0) = (Value(y) < 0)) <=> (neg = n)
      BY <1>4, SizeIsAbs
    <3>2. Abs(Value(x)) \div Abs(Value(y)) = q
      BY SizeIsAbs
    <3> QED
      BY <3>1, <3>2 DEF Truncated
  <2>2. Value(x) = (IF neg THEN -s ELSE s) /\ Value(y) = (IF n THEN -t ELSE t)
    BY IntFacts
  <2> HIDE DEF s, t, q, r, neg, n, T
  <2>3. /\ t * q \in Nat /\ (-t) * q = -(t * q)
        /\ t * (-q) = -(t * q) /\ (-t) * (-q) = t * q
    BY <1>2, <1>3
  <2>4. (IF n THEN -t ELSE t) * (IF neg = n THEN q ELSE -q) = IF neg THEN -(t * q) ELSE t * q
    BY <1>4, <2>3 DEF n
  <2>5. exact = (IF neg THEN -s ELSE s) - (IF neg THEN -(t * q) ELSE t * q)
    BY <2>1, <2>2, <2>4 DEF T
  <2>6. s \in Nat /\ r \in Nat
    BY <1>1, <1>2, <1>3
  <2> QED
    BY <1>3, <1>4, <2>3, <2>5, <2>6
<1>6. ModInts(x, y) = Checked(flag, ~neg, FALSE, bits, x)
  BY DEF ModInts
<1>7. IF flag THEN exact \in 0 .. (Word - 1) ELSE exact \in (-LongLongMax - 1) .. LongLongMax
  BY DEF Fits
<1>8. neg => s <= LongLongMax + 1
  <2>1. neg => s \in 1 .. (LongLongMax + 1)
    BY IntFacts
  <2> HIDE DEF s, neg
  <2> QED
    BY <1>1, <2>1
<1> HIDE DEF s, t, q, r, neg, flag, bits, exact
<1>9. r \in 0 .. (Word - 1) /\ r <= s
  <2>1. t * q \in Nat
    BY <1>2, <1>3
  <2> QED
    BY <1>1, <1>2, <1>3, <2>1
<1>10. /\ bits \in 0 .. (Word - 1)
       /\ bits = IF neg /\ r # 0 THEN Word - r ELSE r
  BY <1>4, <1>9, NegatedBits DEF bits
<1>11. (~neg) \in BOOLEAN /\ FALSE \in BOOLEAN
  BY <1>4
<1>12. IF Refused(flag, ~neg, FALSE, bits) THEN ModInts(x, y).ret = -1
       ELSE Holds(ModInts(x, y), x, y, IF flag THEN bits ELSE Signed(bits))
  BY <1>6, <1>10, <1>11, CheckedBits DEF flag
<1>13. ~Refused(flag, ~neg, FALSE, bits)
  BY <1>1, <1>4, <1>5, <1>7, <1>9, <1>10 DEF Refused
<1>14. (IF flag THEN bits ELSE Signed(bits)) = exact
  BY <1>1, <1>2, <1>4, <1>5, <1>7, <1>8, <1>9, <1>10 DEF Signed
<1> QED
  BY <1>12, <1>13, <1>14 DEF exact

-----------------------------------------------------------------------------
(* The machine                                                               *)

\* A register a program may calculate with.
Numeric(r) == WellTyped(r) /\ r.type \in {"BigInt", "Double"}

TypedOutcome(res) == res.ret \in {-2, -1, 0, 1} /\ Numeric(res.reg)

LEMMA Ranges ==
  /\ 0 \in Bits /\ 0 \in Doubles /\ DoubleMax \in Nat
  /\ LongLongMax \in Nat \ {0} /\ Word = 2 * LongLongMax + 2
  BY WordAssumption, DoubleAssumption DEF Word, Bits, Doubles, Rounded, Abs

LEMMA CheckedTyped ==
  ASSUME NEW x \in Ints, NEW bits \in Bits, NEW flag \in BOOLEAN,
         NEW res_unsigned, NEW negative
  PROVE  TypedOutcome(Checked(flag, res_unsigned, negative, bits, x))
<1> DEFINE cell == [x EXCEPT !.type = "BigInt", !.value = bits, !.is_unsigned = flag]
<1>1. Numeric(x)
  BY DEF Numeric, WellTyped, Registers, Types, Ints
<1>2. Numeric(cell)
  BY DEF Numeric, WellTyped, Registers, Types, Ints
<1> QED
  BY <1>1, <1>2 DEF TypedOutcome, Checked, Fail, Succeed

\* Functions on integers leave an integer of one word in the register.
LEMMA IntOpTyped ==
  ASSUME NEW x \in Ints, NEW y \in Ints, NEW f \in ArithOps
  PROVE  TypedOutcome(IntOp(f, x, y))
<1>1. /\ LongLongMax \in Nat \ {0} /\ Word = 2 * LongLongMax + 2 /\ Bits = 0 .. (Word - 1)
      /\ x.value \in 0 .. (Word - 1) /\ y.value \in 0 .. (Word - 1)
      /\ Size(x) \in 0 .. (Word - 1) /\ Size(y) \in 0 .. (Word - 1)
  BY IntFacts DEF Bits
<1>2. Numeric(x) /\ TypedOutcome(Fail(x)) /\ TypedOutcome(Trap(x))
  BY DEF Numeric, WellTyped, Registers, Types, Ints, TypedOutcome, Fail, Trap
<1>3. FlagOf(x, y) \in BOOLEAN /\ SignsDiffer(x, y) \in BOOLEAN /\ IsNegative(x) \in BOOLEAN
  BY DEF FlagOf, SignsDiffer, IsNegative
<1>4. \A n \in Int : Unsigned(n) \in Bits
  BY <1>1 DEF Unsigned
<1>5. TypedOutcome(PlusInts(x, y, x))
  <2>1. Unsigned(x.value + y.value) \in Bits
    <3>1. x.value + y.value \in Int
      BY <1>1
    <3> QED
      BY <1>4, <3>1
  <2> QED
    BY <1>2, <1>3, <2>1, CheckedTyped DEF PlusInts
<1>6. TypedOutcome(MinusInts(x, y))
  <2>1. Unsigned(x.value - y.value) \in Bits
    <3>1. x.value - y.value \in Int
      BY <1>1
    <3> QED
      BY <1>4, <3>1
  <2> QED
    BY <1>2, <1>3, <2>1, CheckedTyped DEF MinusInts
<1>7. TypedOutcome(MulInts(x, y))
  <2> DEFINE P == Size(x) * Size(y)
             bits == Negated(SignsDiffer(x, y), P)
  <2>1. HalvesOverflow(Size(x), Size(y)) <=> P >= Word
    BY <1>1, HalvesFindOverflow
  <2>2. P \in Nat
    BY <1>1
  <2>3. P < Word => bits \in Bits
    <3>1. P < Word => P \in 0 .. (Word - 1)
      BY <1>1, <2>2
    <3> QED
      BY <1>1, <1>3, <3>1, NegatedBits
  <2>4. LongLongMax + 1 \in Bits
    BY <1>1
  <2>5. TypedOutcome(Succeed([x EXCEPT !.type = "BigInt"]))
    BY DEF Numeric, WellTyped, Registers, Types, Ints, TypedOutcome, Succeed
  <2>6. TypedOutcome(Checked(FlagOf(x, y), ~SignsDiffer(x, y), TRUE, LongLongMax + 1, x))
    BY <1>3, <2>4, CheckedTyped
  <2>7. P < Word => TypedOutcome(Checked(FlagOf(x, y), ~SignsDiffer(x, y),
                                         bits > LongLongMax, bits, x))
    BY <1>3, <2>3, CheckedTyped
  <2>8. ~(P >= Word) => P < Word
    BY <1>1, <2>2
  <2> HIDE DEF P, bits
  <2> QED
    BY <1>2, <2>1, <2>5, <2>6, <2>7, <2>8 DEF MulInts, P, bits
<1>8. y.value # 0 => TypedOutcome(DivInts(x, y))
  <2> SUFFICES ASSUME y.value # 0 PROVE TypedOutcome(DivInts(x, y))
    OBVIOUS
  <2> DEFINE q == Size(x) \div Size(y)
  <2>1. q \in 0 .. (Word - 1)
    <3>1. Size(x) \in Nat /\ Size(y) \in Nat \ {0}
      <4>1. Size(y) # 0
        BY IntFacts
      <4> QED
        BY <1>1, <4>1
    <3>2. q \in Nat /\ q <= Size(x)
      BY <3>1, DivisionOfNat
    <3> QED
      BY <1>1, <3>2
  <2>2. Negated(SignsDiffer(x, y), q) \in Bits
    BY <1>1, <1>3, <2>1, NegatedBits
  <2> HIDE DEF q
  <2>3. TypedOutcome(Checked(FlagOf(x, y), ~SignsDiffer(x, y), FALSE,
                             Negated(SignsDiffer(x, y), q), x))
    BY <1>3, <2>2, CheckedTyped
  <2> QED
    BY <1>2, <2>3 DEF DivInts, q
<1>9. y.value # 0 => TypedOutcome(ModInts(x, y))
  <2> SUFFICES ASSUME y.value # 0 PROVE TypedOutcome(ModInts(x, y))
    OBVIOUS
  <2> DEFINE r == Size(x) % Size(y)
  <2>1. r \in 0 .. (Word - 1)
    <3>1. Size(x) \in Nat /\ Size(y) \in Nat \ {0}
      <4>1. Size(y) # 0
        BY IntFacts
      <4> QED
        BY <1>1, <4>1
    <3>2. r \in 0 .. (Size(y) - 1)
      BY <3>1, DivisionOfNat
    <3> QED
      BY <1>1, <3>2
  <2>2. Negated(IsNegative(x), r) \in Bits
    BY <1>1, <1>3, <2>1, NegatedBits
  <2> HIDE DEF r
  <2>3. TypedOutcome(Checked(FlagOf(x, y), ~IsNegative(x), FALSE, Negated(IsNegative(x), r), x))
    BY <1>3, <2>2, CheckedTyped
  <2> QED
    BY <1>2, <2>3 DEF ModInts, r
<1>10. y.value = 0 => TypedOutcome(DivInts(x, y)) /\ TypedOutcome(ModInts(x, y))
  BY <1>2 DEF DivInts, ModInts
<1> QED
  BY <1>5, <1>6, <1>7, <1>8, <1>9, <1>10 DEF IntOp, ArithOps

\* Every function leaves a well-typed register, NULL or not.
LEMMA RegOpTyped ==
  ASSUME NEW x, NEW y, Numeric(x), Numeric(y), NEW f \in ArithOps
  PROVE  TypedOutcome(RegOp(f, x, y))
<1>1. /\ x \in Registers /\ y \in Registers
      /\ x.type \in {"BigInt", "Double"} /\ y.type \in {"BigInt", "Double"}
  BY DEF Numeric, WellTyped
<1>2. CASE x.is_null \/ y.is_null
  <2>1. Numeric(SetRegisterNull(x))
    BY <1>1, Ranges DEF Numeric, WellTyped, Registers, SetRegisterNull
  <2> QED
    BY <1>2, <2>1 DEF RegOp, TypedOutcome, IsNull
<1>3. CASE ~(x.is_null \/ y.is_null) /\ "Double" \in {x.type, y.type}
  <2>1. ASSUME NEW n, NEW flag \in BOOLEAN PROVE TypedOutcome(Finite(n, flag, x))
    <3> DEFINE d == Rounded(n)
               cell == [x EXCEPT !.type = "Double", !.value = d, !.is_unsigned = flag]
    <3> HIDE DEF d
    <3>1. d \in Doubles => Numeric(cell)
      BY <1>1, <2>1 DEF Numeric, WellTyped, Registers, Types
    <3>2. Numeric(x)
      OBVIOUS
    <3> QED
      BY <3>1, <3>2 DEF Finite, Succeed, Fail, TypedOutcome, d
  <2>2. TypedOutcome(DividedByZero(x))
    BY <1>1, Ranges DEF DividedByZero, TypedOutcome, IsNull, SetRegisterNull, Numeric,
       WellTyped, Registers, Types
  <2>3. x.is_unsigned \in BOOLEAN
    BY <1>1 DEF Registers
  <2>4. TypedOutcome(DoubleOp(f, x, y))
    BY <2>1, <2>2, <2>3 DEF DoubleOp, ArithOps
  <2> QED
    BY <1>3, <2>4 DEF RegOp
<1>4. CASE ~(x.is_null \/ y.is_null) /\ "Double" \notin {x.type, y.type}
  <2>1. x \in Ints
    BY <1>1, <1>4 DEF Numeric, WellTyped, Registers, Ints
  <2>2. y \in Ints
    BY <1>1, <1>4 DEF Numeric, WellTyped, Registers, Ints
  <2> QED
    BY <1>4, <2>1, <2>2, IntOpTyped DEF RegOp
<1> QED
  BY <1>2, <1>3, <1>4

\* RegTypeOK, and registers are never of unknown type.
MachineTyped ==
  /\ op \in ArithOps /\ Numeric(a) /\ Numeric(b)
  /\ out # Uncalled => TypedOutcome(out)

\* Registers hold what their type allows through any sequence of instructions.
THEOREM RegTypesCorrect == MachineSpec => []RegTypeOK
<1>1. MachineInit => MachineTyped
  <2>1. \A r \in Operands : Numeric(r)
    BY Ranges DEF Operands, Ints, Reals, Nulls, Numeric, WellTyped, Registers, Types
  <2> QED
    BY <2>1 DEF MachineInit, MachineTyped
<1>2. MachineTyped /\ [MachineNext]_regVars => MachineTyped'
  <2> SUFFICES ASSUME MachineTyped, [MachineNext]_regVars PROVE MachineTyped'
    OBVIOUS
  <2>1. CASE Call
    <3>1. TypedOutcome(RegOp(op, a, b))
      BY RegOpTyped DEF MachineTyped
    <3> QED
      BY <2>1, <3>1 DEF Call, MachineTyped
  <2>2. CASE Continue
    <3>1. out # Uncalled
      BY <2>2 DEF Continue, Uncalled
    <3>2. Numeric(out.reg)
      BY <3>1 DEF MachineTyped, TypedOutcome
    <3> QED
      BY <2>2, <3>2 DEF Continue, MachineTyped
  <2>3. CASE UNCHANGED regVars
    BY <2>3 DEF regVars, MachineTyped
  <2> QED
    BY <2>1, <2>2, <2>3 DEF MachineNext
<1>3. MachineTyped => RegTypeOK
  BY DEF MachineTyped, RegTypeOK, TypedOutcome, Numeric, WellTyped
<1> QED
  BY <1>1, <1>2, <1>3, PTL DEF MachineSpec

\* The result, once there is one, is that of the call.
CalledWithOperands == out = Uncalled \/ (op \in ArithOps /\ out = RegOp(op, a, b))

LEMMA CallInvariant == MachineSpec => []CalledWithOperands
<1>1. MachineInit => CalledWithOperands
  BY DEF MachineInit, CalledWithOperands
<1>2. op \in ArithOps /\ CalledWithOperands /\ [MachineNext]_regVars => CalledWithOperands'
  BY DEF CalledWithOperands, MachineNext, Call, Continue, regVars
<1>3. MachineSpec => [](op \in ArithOps)
  <2>1. MachineInit => op \in ArithOps
    BY DEF MachineInit
  <2>2. op \in ArithOps /\ [MachineNext]_regVars => (op \in ArithOps)'
    BY DEF MachineNext, Call, Continue, regVars
  <2> QED
    BY <2>1, <2>2, PTL DEF MachineSpec
<1> QED
  BY <1>1, <1>2, <1>3, PTL DEF MachineSpec

\* RegPlusReg is exact, or fails where no exact result can be stored, for every
\* word size: the eight cases of signs and flags in interpreter.cc:65-100.
THEOREM PlusAlwaysExact == MachineSpec => []PlusIsExact
<1>1. CalledWithOperands => PlusIsExact
  <2> SUFFICES ASSUME CalledWithOperands, Called("Plus") PROVE
        IF Representable(ExactResult) THEN Stored(ExactResult) ELSE out.ret = -1
    BY DEF PlusIsExact
  <2>1. a \in Ints /\ b \in Ints /\ op = "Plus" /\ out = RegOp("Plus", a, b)
    BY DEF Called, CalledWithOperands
  <2>2. out = PlusInts(a, b, a)
    BY <2>1, IntsOnly DEF IntOp, ArithOps
  <2>3. ExactResult = Value(a) + Value(b)
    BY <2>1 DEF ExactResult, Exact
  <2> QED
    BY <2>1, <2>2, <2>3, SumOfInts DEF Representable, Stored
<1> QED
  BY <1>1, CallInvariant, PTL

\* RegMulReg finds every overflow through the halves of its operands, for every
\* word that is the square of its base (interpreter.cc:259-360).
THEOREM MulAlwaysExact == MachineSpec => []MulIsExact
<1>1. CalledWithOperands => MulIsExact
  <2> SUFFICES ASSUME CalledWithOperands, Called("Mul"), 0 \notin {a.value, b.value}
               PROVE  IF Representable(ExactResult) /\ ExactResult # -LongLongMax - 1
                      THEN Stored(ExactResult)
                      ELSE \/ out.ret = -1
                           \/ /\ ExactResult = -LongLongMax - 1 /\ Stored(ExactResult)
                              /\ 1 \in {a.value, b.value}
    BY DEF MulIsExact
  <2>1. a \in Ints /\ b \in Ints /\ op = "Mul" /\ out = RegOp("Mul", a, b)
    BY DEF Called, CalledWithOperands
  <2>2. out = MulInts(a, b)
    BY <2>1, IntsOnly DEF IntOp, ArithOps
  <2>3. ExactResult = Value(a) * Value(b)
    BY <2>1 DEF ExactResult, Exact
  <2>4. a.value # 0 /\ b.value # 0
    OBVIOUS
  <2>5. /\ Representable(ExactResult) <=> Fits(a, b, ExactResult)
        /\ Stored(ExactResult) <=> Holds(out, a, b, ExactResult)
    BY DEF Representable, Fits, Stored, Holds
  <2> QED
    BY <2>1, <2>2, <2>3, <2>4, <2>5, ProductOfInts
<1> QED
  BY <1>1, CallInvariant, PTL

\* What the result's type can hold is stored by RegMinusReg, RegDivReg and
\* RegModReg, with two exceptions (interpreter.cc:157-216, 407-455, 503-544).
THEOREM RepresentableAlwaysStored == MachineSpec => []RepresentableIsStored
<1>1. CalledWithOperands => RepresentableIsStored
  <2> SUFFICES ASSUME CalledWithOperands, NEW f \in {"Minus", "Div", "Mod"},
                      Called(f), Representable(ExactResult)
               PROVE  \/ Stored(ExactResult)
                      \/ /\ out.ret = -1
                         /\ \/ f = "Minus" /\ a.is_unsigned /\ b.is_unsigned /\ ExactResult < 0
                            \/ f = "Div" /\ ExactResult = -LongLongMax - 1
    BY DEF RepresentableIsStored
  <2>1. a \in Ints /\ b \in Ints /\ op = f /\ out = IntOp(f, a, b)
    BY IntsOnly DEF Called, CalledWithOperands
  <2>2. /\ Fits(a, b, ExactResult)
        /\ Holds(out, a, b, ExactResult) => Stored(ExactResult)
    BY DEF Representable, Fits, Stored, Holds
  <2>3. CASE f = "Minus"
    <3>1. out = MinusInts(a, b) /\ ExactResult = Value(a) - Value(b)
      BY <2>1, <2>3 DEF IntOp, ExactResult, Exact
    <3> QED
      BY <2>1, <2>2, <2>3, <3>1, DifferenceOfInts
  <2>4. CASE f = "Div"
    <3>1. out = DivInts(a, b) /\ ExactResult = Truncated(Value(a), Value(b)) /\ b.value # 0
      BY <2>1, <2>4 DEF IntOp, ExactResult, Exact, Called
    <3> QED
      BY <2>1, <2>2, <2>4, <3>1, QuotientOfInts
  <2>5. CASE f = "Mod"
    <3>1. /\ out = ModInts(a, b) /\ b.value # 0
          /\ ExactResult = Value(a) - Value(b) * Truncated(Value(a), Value(b))
      BY <2>1, <2>5 DEF IntOp, ExactResult, Exact, Called
    <3> QED
      BY <2>1, <2>2, <3>1, RemainderOfInts
  <2> QED
    BY <2>3, <2>4, <2>5
<1> QED
  BY <1>1, CallInvariant, PTL

-----------------------------------------------------------------------------
(* Programs                                                                  *)

CellValues(type) == IF type = "Double" THEN Doubles ELSE Bits

\* What a register holds, of known or unknown type.
GoodRegisters == {x \in Registers : x.value \in CellValues(x.type)}

\* A numeric register is one of known type.
LEMMA NumericFacts ==
  /\ \A x : Numeric(x) <=> x \in GoodRegisters /\ x.type \in NumericTypes
  /\ Cleared \in GoodRegisters /\ Cleared.type = "Unknown"
  BY Ranges DEF Numeric, WellTyped, GoodRegisters, CellValues, NumericTypes, Cleared,
                Registers, Types

\* The effect of an instruction on the static types.
StaticStep(types, i) ==
  IF i.op = "LoadCol" THEN [types EXCEPT ![i.reg] = i.type]
  ELSE IF i.op \in ArithOps
  THEN [types EXCEPT ![i.reg] = Wider(types[i.reg], types[i.reg2])]
  ELSE types

\* What a program consists of.
LEMMA ProgramFacts ==
  ASSUME NEW p \in Programs
  PROVE  /\ WellFormed(p) /\ p \in ProgramTexts /\ p.code \in Seq(Instructions)
         /\ Len(p.code) \in Nat /\ DOMAIN p.code = 1 .. Len(p.code)
         /\ \A k \in 1 .. Len(p.code) : p.code[k] \in Instructions /\ k - 1 \in 0 .. Len(p.code)
<1>1. WellFormed(p) /\ p \in ProgramTexts
  BY ProgramsAssumption DEF WellFormed
<1>2. p.code \in Seq(Instructions)
  BY <1>1 DEF ProgramTexts
<1> QED
  BY <1>1, <1>2

\* What an instruction of each kind consists of.
LEMMA InstructionFacts ==
  ASSUME NEW i \in Instructions
  PROVE  /\ i.op = "LoadCol" => i.reg \in Regs /\ i.col \in DOMAIN Schema /\ i.type \in NumericTypes
                                /\ i.is_unsigned \in BOOLEAN
         /\ i.op \in ArithOps => i.reg \in Regs /\ i.reg2 \in Regs
         /\ i.op \in AggFunctions => i.reg \in Regs /\ i.agg \in Nat /\ i.type \in NumericTypes
  BY DEF Instructions, ArithOps, AggFunctions

\* An instruction leaves types behind.
LEMMA StaticStepTyped ==
  ASSUME NEW t \in [Regs -> Types], NEW i \in Instructions
  PROVE  StaticStep(t, i) \in [Regs -> Types]
<1>1. \A u, v \in Types : Wider(u, v) \in Types
  BY DEF Wider, Types
<1>2. NumericTypes \subseteq Types
  BY DEF NumericTypes, Types
<1> QED
  BY <1>1, <1>2, InstructionFacts DEF StaticStep

\* The recursive definition of the static types, unfolded.
LEMMA StaticTypesUnfold ==
  ASSUME NEW code \in Seq(Instructions)
  PROVE  /\ StaticTypes(code) \in [0 .. Len(code) -> [Regs -> Types]]
         /\ StaticTypes(code)[0] = [r \in Regs |-> "Unknown"]
         /\ \A k \in 1 .. Len(code) :
              StaticTypes(code)[k] = StaticStep(StaticTypes(code)[k - 1], code[k])
<1> DEFINE n == Len(code)
           V == [Regs -> Types]
           start == [r \in Regs |-> "Unknown"]
           step == [k \in 1 .. n |-> [t \in V |-> StaticStep(t, code[k])]]
           Solves(f) ==
             f = [k \in 0 .. n |->
                    IF k = 0 THEN start
                    ELSE LET i == code[k]
                         IN  IF i.op = "LoadCol" THEN [f[k - 1] EXCEPT ![i.reg] = i.type]
                             ELSE IF i.op \in ArithOps
                             THEN [f[k - 1] EXCEPT ![i.reg] = Wider(@, f[k - 1][i.reg2])]
                             ELSE f[k - 1]]
<1>0. n \in Nat /\ \A k \in 1 .. n : code[k] \in Instructions
  OBVIOUS
<1>1. start \in V
  BY DEF Types
<1>2. step \in [1 .. n -> [V -> V]]
  <2>1. \A k \in 1 .. n, t \in V : StaticStep(t, code[k]) \in V
    BY <1>0, StaticStepTyped
  <2> HIDE DEF V
  <2> QED BY <2>1
<1>3. PICK f \in [0 .. n -> V] : Iterates(f, n, start, step)
  <2> HIDE DEF V, start, step, n
  <2> QED BY <1>0, <1>1, <1>2, IterationExists
<1>4. \A k \in 1 .. n : f[k - 1] \in V /\ f[k] = StaticStep(f[k - 1], code[k])
  <2> SUFFICES ASSUME NEW k \in 1 .. n
               PROVE  f[k - 1] \in V /\ f[k] = StaticStep(f[k - 1], code[k])
    OBVIOUS
  <2>1. k - 1 \in 0 .. n
    BY <1>0
  <2>2. f[k - 1] \in V
    <3> HIDE DEF V
    <3> QED BY <1>3, <2>1
  <2>3. f[k] = step[k][f[k - 1]]
    BY <1>3 DEF Iterates
  <2>4. \A t \in V : step[k][t] = StaticStep(t, code[k])
    <3> HIDE DEF V
    <3> QED OBVIOUS
  <2> HIDE DEF V, step
  <2> QED BY <2>2, <2>3, <2>4
<1>5. Solves(f)
  <2>1. f = [k \in 0 .. n |-> f[k]]
    BY <1>3
  <2>2. ASSUME NEW k \in 0 .. n, k # 0 PROVE k \in 1 .. n
    BY <2>2
  <2>3. ASSUME NEW g \in V, NEW i
        PROVE  (IF i.op \in ArithOps
                THEN [g EXCEPT ![i.reg] = Wider(@, g[i.reg2])] ELSE g)
             = (IF i.op \in ArithOps
                THEN [g EXCEPT ![i.reg] = Wider(g[i.reg], g[i.reg2])] ELSE g)
    OBVIOUS
  <2>4. ASSUME NEW k \in 0 .. n
        PROVE  f[k] = IF k = 0 THEN start
                      ELSE LET i == code[k]
                           IN  IF i.op = "LoadCol" THEN [f[k - 1] EXCEPT ![i.reg] = i.type]
                               ELSE IF i.op \in ArithOps
                               THEN [f[k - 1] EXCEPT ![i.reg] = Wider(@, f[k - 1][i.reg2])]
                               ELSE f[k - 1]
    <3>1. CASE k = 0
      BY <1>3, <3>1 DEF Iterates
    <3>2. CASE k # 0
      <4>1. k \in 1 .. n
        BY <3>2
      <4>2. f[k - 1] \in V /\ f[k] = StaticStep(f[k - 1], code[k])
        BY <1>4, <4>1
      <4> HIDE DEF V, n, start
      <4> QED BY <3>2, <4>2, <2>3 DEF StaticStep
    <3> QED BY <3>1, <3>2
  <2> HIDE DEF V, start
  <2> QED BY <2>1, <2>4
<1>6. StaticTypes(code) = (CHOOSE g : Solves(g))
  BY DEF StaticTypes
<1>7. Solves(StaticTypes(code))
  <2> HIDE DEF Solves
  <2> QED BY <1>5, <1>6
<1> DEFINE T == StaticTypes(code)
<1> HIDE DEF T
<1>8. T[0] = start
  <2>1. 0 \in 0 .. n
    BY <1>0
  <2> QED BY <1>7, <2>1 DEF T
<1>9. \A k \in 1 .. n : T[k] = LET i == code[k]
                         IN  IF i.op = "LoadCol" THEN [T[k - 1] EXCEPT ![i.reg] = i.type]
                             ELSE IF i.op \in ArithOps
                             THEN [T[k - 1] EXCEPT ![i.reg] = Wider(@, T[k - 1][i.reg2])]
                             ELSE T[k - 1]
  <2>1. \A k \in 1 .. n : k \in 0 .. n /\ k # 0
    BY <1>0
  <2> HIDE DEF start
  <2> QED BY <1>7, <2>1 DEF T
<1>10. DOMAIN T = 0 .. n
  BY <1>7 DEF T
<1>11. \A k \in 0 .. n : T[k] \in V /\ (k # 0 => T[k] = StaticStep(T[k - 1], code[k]))
  <2> DEFINE G == {k \in 0 .. n : T[k] \in V /\ (k # 0 => T[k] = StaticStep(T[k - 1], code[k]))}
  <2>1. 0 \in G
    <3>1. 0 \in 0 .. n
      BY <1>0
    <3> QED BY <1>1, <1>8, <3>1
  <2>2. ASSUME NEW k \in 1 .. n, k - 1 \in G PROVE k \in G
    <3>1. T[k - 1] \in V /\ k \in 0 .. n
      BY <2>2
    <3>2. T[k] = StaticStep(T[k - 1], code[k])
      BY <1>9, <3>1 DEF StaticStep
    <3>3. T[k] \in V
      <4>1. StaticStep(T[k - 1], code[k]) \in V
        BY <1>0, <3>1, StaticStepTyped
      <4> HIDE DEF V
      <4> QED BY <3>2, <4>1
    <3> QED BY <3>1, <3>2, <3>3
  <2>3. \A k \in 0 .. n : k \in G
    <3> HIDE DEF G
    <3> QED BY <1>0, <2>1, <2>2, UpTo
  <2> QED BY <2>3
<1>12. T \in [0 .. n -> V] /\ \A k \in 1 .. n : T[k] = StaticStep(T[k - 1], code[k])
  <2>1. \A k \in 1 .. n : k \in 0 .. n /\ k # 0
    BY <1>0
  <2>2. T = [k \in 0 .. n |-> T[k]]
    BY <1>7, <1>10 DEF T
  <2> HIDE DEF V
  <2> QED BY <1>11, <2>1, <2>2
<1> QED
  BY <1>8, <1>12 DEF T

\* What well-formedness says of one instruction.
LEMMA WellFormedFacts ==
  ASSUME NEW p \in Programs, NEW k \in 1 .. Len(p.code), NEW i, i = p.code[k],
         NEW static, static = StaticTypes(p.code)[k - 1]
  PROVE  /\ i \in Instructions /\ static \in [Regs -> Types]
         /\ StaticTypes(p.code)[k] = StaticStep(static, i)
         /\ i.op = "LoadCol" =>
              i.type = Schema[i.col].type /\ i.is_unsigned = Schema[i.col].is_unsigned
         /\ i.op \in ArithOps => static[i.reg] \in NumericTypes /\ static[i.reg2] \in NumericTypes
         /\ i.op \in AggFunctions =>
              /\ i.agg \in DOMAIN p.agg_types /\ i.type = p.agg_types[i.agg]
              /\ i.op = "Count" => i.type = "BigInt" /\ static[i.reg] # "Unknown"
              /\ i.op # "Count" => i.type = static[i.reg]
<1>1. /\ WellFormed(p) /\ p.code \in Seq(Instructions) /\ k \in DOMAIN p.code
      /\ i \in Instructions /\ k - 1 \in 0 .. Len(p.code)
  BY ProgramFacts
<1>2. static \in [Regs -> Types] /\ StaticTypes(p.code)[k] = StaticStep(static, i)
  BY <1>1, StaticTypesUnfold
<1>3. (CASE i.op = "LoadCol" ->
              i.type = Schema[i.col].type /\ i.is_unsigned = Schema[i.col].is_unsigned
        [] i.op \in ArithOps -> {static[i.reg], static[i.reg2]} \subseteq NumericTypes
        [] i.op \in AggFunctions ->
             /\ i.agg \in DOMAIN p.agg_types /\ i.type = p.agg_types[i.agg]
             /\ IF i.op = "Count" THEN i.type = "BigInt" /\ static[i.reg] # "Unknown"
                                  ELSE i.type = static[i.reg]
        [] OTHER -> TRUE)
  BY <1>1 DEF WellFormed
<1> QED
  BY <1>1, <1>2, <1>3 DEF ArithOps, AggFunctions

\* There is at least one column, and each is a number.
LEMMA SchemaFacts ==
  /\ DOMAIN Schema = 1 .. Len(Schema) /\ Len(Schema) \in Nat \ {0}
  /\ \A c \in DOMAIN Schema : Schema[c].type \in NumericTypes
<1> DEFINE Columns == [type : NumericTypes, is_unsigned : BOOLEAN]
<1>1. Schema \in Seq(Columns) /\ Schema # <<>>
  BY SchemaAssumption
<1> HIDE DEF Columns
<1>2. /\ DOMAIN Schema = 1 .. Len(Schema) /\ Len(Schema) \in Nat
      /\ \A c \in DOMAIN Schema : Schema[c] \in Columns
  BY <1>1
<1>3. Len(Schema) # 0
  BY <1>1, EmptySeq
<1> QED
  BY <1>2, <1>3 DEF Columns

\* What a record consists of.
LEMMA RecordFacts ==
  ASSUME NEW r \in Records
  PROVE  /\ r \in Seq(Bits \cup Doubles) /\ Len(r) = Len(Schema) /\ r # NoRecord
         /\ \A c \in DOMAIN Schema : r[c] \in CellValues(Schema[c].type)
<1>1. r \in Seq(Bits \cup Doubles) /\ Len(r) = Len(Schema)
  BY RecordsAssumption
<1>2. r # NoRecord
  BY <1>1, SchemaFacts DEF NoRecord
<1> QED
  BY <1>1, <1>2, RecordsAssumption DEF CellValues

\* What a LoadCol leaves in its register.
LoadedCell(i, r) ==
  [type |-> i.type, value |-> r[i.col], is_unsigned |-> i.is_unsigned, is_null |-> FALSE]

\* A loaded column is what its type allows.
LEMMA LoadedCellGood ==
  ASSUME NEW p \in Programs, NEW k \in 1 .. Len(p.code), p.code[k].op = "LoadCol",
         NEW r \in Records
  PROVE  LoadedCell(p.code[k], r) \in GoodRegisters
<1> DEFINE i == p.code[k]
<1>1. /\ i \in Instructions /\ i.op = "LoadCol" /\ i.type = Schema[i.col].type
      /\ i.col \in DOMAIN Schema /\ i.type \in NumericTypes /\ i.is_unsigned \in BOOLEAN
  BY WellFormedFacts, InstructionFacts
<1>2. r[i.col] \in CellValues(i.type)
  BY <1>1, RecordFacts
<1> HIDE DEF i
<1>3. LoadedCell(i, r) \in Registers
  BY <1>1, <1>2 DEF LoadedCell, Registers, CellValues, Types, NumericTypes
<1> QED
  BY <1>2, <1>3 DEF GoodRegisters, LoadedCell, i

-----------------------------------------------------------------------------
(* A fresh interpreter                                                       *)

\* FreshRun, for any code.
Fresh(code, r) ==
  LET regs[k \in 0 .. Len(code)] ==
        IF k = 0 THEN [x \in Regs |-> Cleared]
        ELSE LET i == code[k]
             IN  IF i.op = "LoadCol"
                 THEN [regs[k - 1] EXCEPT ![i.reg] =
                         [type |-> i.type, value |-> r[i.col],
                          is_unsigned |-> i.is_unsigned, is_null |-> FALSE]]
                 ELSE IF i.op \in ArithOps
                 THEN [regs[k - 1] EXCEPT ![i.reg] = RegOp(i.op, @, regs[k - 1][i.reg2]).reg]
                 ELSE regs[k - 1]
  IN  regs

\* The fresh registers do not depend on the state but through the program.
LEMMA FreshRunIsFresh == \A r : FreshRun(r) = Fresh(prog.code, r)
  BY DEF FreshRun, Fresh

\* The effect of an instruction on the registers.
FreshStep(regs, i, r) ==
  IF i.op = "LoadCol" THEN [regs EXCEPT ![i.reg] = LoadedCell(i, r)]
  ELSE IF i.op \in ArithOps
  THEN [regs EXCEPT ![i.reg] = RegOp(i.op, regs[i.reg], regs[i.reg2]).reg]
  ELSE regs

\* Registers that are known to be loaded hold numbers.
FreshGood(p, regs, k) ==
  /\ regs \in [Regs -> GoodRegisters]
  /\ \A x \in Regs : StaticTypes(p.code)[k][x] # "Unknown" => regs[x].type \in NumericTypes

\* One instruction of a fresh interpreter keeps loaded registers numeric.
LEMMA FreshStepGood ==
  ASSUME NEW p \in Programs, NEW r \in Records, NEW k \in 1 .. Len(p.code),
         NEW regs, FreshGood(p, regs, k - 1)
  PROVE  FreshGood(p, FreshStep(regs, p.code[k], r), k)
<1> DEFINE i == p.code[k]
           static == StaticTypes(p.code)[k - 1]
           new == FreshStep(regs, i, r)
<1>1. /\ i \in Instructions /\ static \in [Regs -> Types]
      /\ StaticTypes(p.code)[k] = StaticStep(static, i)
      /\ i.op \in ArithOps => static[i.reg] \in NumericTypes /\ static[i.reg2] \in NumericTypes
  BY WellFormedFacts
<1>2. regs \in [Regs -> GoodRegisters]
  BY DEF FreshGood
<1>3. \A x \in Regs : static[x] # "Unknown" => regs[x].type \in NumericTypes
  BY DEF FreshGood
<1>4. i.op = "LoadCol" => LoadedCell(i, r) \in GoodRegisters
  BY LoadedCellGood
<1> HIDE DEF i, static
<1>5. CASE i.op = "LoadCol"
  <2>1. i.reg \in Regs /\ i.type \in NumericTypes
    BY <1>1, <1>5, InstructionFacts
  <2>2. new = [regs EXCEPT ![i.reg] = LoadedCell(i, r)] /\ LoadedCell(i, r).type = i.type
    BY <1>5 DEF FreshStep, LoadedCell
  <2>3. new \in [Regs -> GoodRegisters]
    BY <1>2, <1>4, <1>5, <2>1, <2>2
  <2>4. StaticTypes(p.code)[k] = [static EXCEPT ![i.reg] = i.type]
    BY <1>1, <1>5 DEF StaticStep
  <2> HIDE DEF new
  <2>5. \A x \in Regs : StaticTypes(p.code)[k][x] # "Unknown" => new[x].type \in NumericTypes
    BY <1>1, <1>2, <1>3, <2>1, <2>2, <2>4
  <2> QED BY <2>3, <2>5 DEF FreshGood, new, i
<1>6. CASE i.op \in ArithOps
  <2>1. /\ i.reg \in Regs /\ i.reg2 \in Regs /\ i.op # "LoadCol"
        /\ static[i.reg] # "Unknown" /\ static[i.reg2] # "Unknown"
    BY <1>1, <1>6, InstructionFacts DEF ArithOps, NumericTypes
  <2>2. Numeric(regs[i.reg]) /\ Numeric(regs[i.reg2])
    BY <1>2, <1>3, <2>1, NumericFacts
  <2> DEFINE out1 == RegOp(i.op, regs[i.reg], regs[i.reg2]).reg
  <2>3. Numeric(out1)
    BY <1>6, <2>2, RegOpTyped DEF TypedOutcome
  <2>4. new = [regs EXCEPT ![i.reg] = out1]
    BY <1>6, <2>1 DEF FreshStep
  <2> HIDE DEF out1, new
  <2>5. out1 \in GoodRegisters /\ out1.type \in NumericTypes
    BY <2>3, NumericFacts
  <2>6. new \in [Regs -> GoodRegisters]
    BY <1>2, <2>1, <2>4, <2>5
  <2>7. StaticTypes(p.code)[k] = [static EXCEPT ![i.reg] = Wider(static[i.reg], static[i.reg2])]
    BY <1>1, <1>6, <2>1 DEF StaticStep
  <2>8. \A x \in Regs : StaticTypes(p.code)[k][x] # "Unknown" => new[x].type \in NumericTypes
    BY <1>1, <1>2, <1>3, <2>1, <2>4, <2>5, <2>7
  <2> QED BY <2>6, <2>8 DEF FreshGood, new, i
<1>7. CASE i.op # "LoadCol" /\ i.op \notin ArithOps
  <2>1. new = regs /\ StaticTypes(p.code)[k] = static
    BY <1>1, <1>7 DEF FreshStep, StaticStep
  <2> HIDE DEF new
  <2> QED BY <1>2, <1>3, <2>1 DEF FreshGood, new, i
<1> QED
  BY <1>5, <1>6, <1>7

\* The recursive definition of a fresh run, unfolded.
LEMMA FreshUnfold ==
  ASSUME NEW p \in Programs, NEW r \in Records
  PROVE  /\ Fresh(p.code, r)[0] = [x \in Regs |-> Cleared]
         /\ \A k \in 1 .. Len(p.code) :
              Fresh(p.code, r)[k] = FreshStep(Fresh(p.code, r)[k - 1], p.code[k], r)
         /\ \A k \in 0 .. Len(p.code) : FreshGood(p, Fresh(p.code, r)[k], k)
<1> DEFINE code == p.code
           n == Len(code)
           V == [Regs -> GoodRegisters]
           start == [x \in Regs |-> Cleared]
           step == [k \in 1 .. n |->
                     [v \in V |-> IF FreshStep(v, code[k], r) \in V
                                  THEN FreshStep(v, code[k], r) ELSE v]]
           Solves(f) ==
             f = [k \in 0 .. n |->
                   IF k = 0 THEN start
                   ELSE LET i == code[k]
                        IN  IF i.op = "LoadCol"
                            THEN [f[k - 1] EXCEPT ![i.reg] =
                                    [type |-> i.type, value |-> r[i.col],
                                     is_unsigned |-> i.is_unsigned, is_null |-> FALSE]]
                            ELSE IF i.op \in ArithOps
                            THEN [f[k - 1] EXCEPT ![i.reg] = RegOp(i.op, @, f[k - 1][i.reg2]).reg]
                            ELSE f[k - 1]]
<1>0. n \in Nat /\ \A k \in 1 .. n : code[k] \in Instructions /\ k - 1 \in 0 .. n
  BY ProgramFacts
<1>1. start \in V
  BY NumericFacts
<1>2. FreshGood(p, start, 0)
  <2>1. StaticTypes(code)[0] = [x \in Regs |-> "Unknown"]
    BY ProgramFacts, StaticTypesUnfold
  <2> QED BY <1>1, <2>1 DEF FreshGood
<1>3. step \in [1 .. n -> [V -> V]]
  <2> HIDE DEF V, n
  <2> QED OBVIOUS
<1>4. PICK f \in [0 .. n -> V] : Iterates(f, n, start, step)
  <2> HIDE DEF V, start, step, n
  <2> QED BY <1>0, <1>1, <1>3, IterationExists
<1>5. \A k \in 0 .. n : FreshGood(p, f[k], k) /\ (k # 0 => f[k] = FreshStep(f[k - 1], code[k], r))
  <2> DEFINE G == {k \in 0 .. n : FreshGood(p, f[k], k)
                                  /\ (k # 0 => f[k] = FreshStep(f[k - 1], code[k], r))}
  <2>1. 0 \in G
    <3>1. 0 \in 0 .. n /\ f[0] = start
      BY <1>0, <1>4 DEF Iterates
    <3> HIDE DEF start
    <3> QED BY <1>2, <3>1
  <2>2. ASSUME NEW k \in 1 .. n, k - 1 \in G PROVE k \in G
    <3>1. FreshGood(p, f[k - 1], k - 1) /\ k \in 0 .. n
      BY <2>2
    <3>2. FreshGood(p, FreshStep(f[k - 1], code[k], r), k)
      BY <3>1, FreshStepGood
    <3>3. f[k - 1] \in V /\ FreshStep(f[k - 1], code[k], r) \in V
      BY <3>1, <3>2 DEF FreshGood
    <3>4. f[k] = step[k][f[k - 1]]
      BY <1>4 DEF Iterates
    <3>5. f[k] = FreshStep(f[k - 1], code[k], r)
      <4> HIDE DEF V
      <4> QED BY <3>3, <3>4
    <3> QED BY <3>1, <3>2, <3>5
  <2>3. \A k \in 0 .. n : k \in G
    <3> HIDE DEF G
    <3> QED BY <1>0, <2>1, <2>2, UpTo
  <2> QED BY <2>3
<1>6. Solves(f)
  <2>1. f = [k \in 0 .. n |-> f[k]]
    BY <1>4
  <2>2. ASSUME NEW k \in 0 .. n
        PROVE  f[k] = IF k = 0 THEN start
                      ELSE LET i == code[k]
                           IN  IF i.op = "LoadCol"
                               THEN [f[k - 1] EXCEPT ![i.reg] =
                                       [type |-> i.type, value |-> r[i.col],
                                        is_unsigned |-> i.is_unsigned, is_null |-> FALSE]]
                               ELSE IF i.op \in ArithOps
                               THEN [f[k - 1] EXCEPT ![i.reg] =
                                       RegOp(i.op, @, f[k - 1][i.reg2]).reg]
                               ELSE f[k - 1]
    <3>1. CASE k = 0
      BY <1>4, <3>1 DEF Iterates
    <3>2. CASE k # 0
      <4>1. f[k] = FreshStep(f[k - 1], code[k], r) /\ f[k - 1] \in V /\ code[k] \in Instructions
        <5>1. k \in 1 .. n /\ k - 1 \in 0 .. n
          BY <3>2
        <5> QED BY <1>0, <1>5, <3>2, <5>1 DEF FreshGood
      <4> DEFINE g == f[k - 1]  i == code[k]
      <4>2. i.op \in ArithOps =>
              [g EXCEPT ![i.reg] = RegOp(i.op, @, g[i.reg2]).reg]
                = [g EXCEPT ![i.reg] = RegOp(i.op, g[i.reg], g[i.reg2]).reg]
        BY <4>1, InstructionFacts
      <4> HIDE DEF V, n, start
      <4> QED BY <3>2, <4>1, <4>2 DEF FreshStep, LoadedCell
    <3> QED BY <3>1, <3>2
  <2> HIDE DEF V, start
  <2> QED BY <2>1, <2>2
<1>7. Fresh(code, r) = (CHOOSE g : Solves(g))
  BY DEF Fresh
<1>8. Solves(Fresh(code, r))
  <2> HIDE DEF Solves
  <2> QED BY <1>6, <1>7
<1> DEFINE T == Fresh(code, r)
<1> HIDE DEF T
<1>9. T[0] = start
  <2>1. 0 \in 0 .. n
    BY <1>0
  <2> QED BY <1>8, <2>1 DEF T
<1>10. \A k \in 1 .. n : T[k] =
         LET i == code[k]
         IN  IF i.op = "LoadCol"
             THEN [T[k - 1] EXCEPT ![i.reg] =
                     [type |-> i.type, value |-> r[i.col],
                      is_unsigned |-> i.is_unsigned, is_null |-> FALSE]]
             ELSE IF i.op \in ArithOps
             THEN [T[k - 1] EXCEPT ![i.reg] = RegOp(i.op, @, T[k - 1][i.reg2]).reg]
             ELSE T[k - 1]
  <2>1. \A k \in 1 .. n : k \in 0 .. n /\ k # 0
    BY <1>0
  <2> HIDE DEF start
  <2> QED BY <1>8, <2>1 DEF T
<1>11. \A k \in 0 .. n : FreshGood(p, T[k], k) /\ (k # 0 => T[k] = FreshStep(T[k - 1], code[k], r))
  <2> DEFINE G == {k \in 0 .. n : FreshGood(p, T[k], k)
                                  /\ (k # 0 => T[k] = FreshStep(T[k - 1], code[k], r))}
  <2>1. 0 \in G
    <3>1. 0 \in 0 .. n
      BY <1>0
    <3> HIDE DEF start
    <3> QED BY <1>2, <1>9, <3>1
  <2>2. ASSUME NEW k \in 1 .. n, k - 1 \in G PROVE k \in G
    <3>1. FreshGood(p, T[k - 1], k - 1) /\ k \in 0 .. n /\ T[k - 1] \in V
      BY <2>2 DEF FreshGood
    <3> DEFINE g == T[k - 1]  i == code[k]
    <3>2. i.op \in ArithOps =>
            [g EXCEPT ![i.reg] = RegOp(i.op, @, g[i.reg2]).reg]
              = [g EXCEPT ![i.reg] = RegOp(i.op, g[i.reg], g[i.reg2]).reg]
      BY <1>0, <3>1, InstructionFacts
    <3>3. T[k] = FreshStep(T[k - 1], code[k], r)
      BY <1>10, <3>2 DEF FreshStep, LoadedCell
    <3>4. FreshGood(p, T[k], k)
      BY <3>1, <3>3, FreshStepGood
    <3> QED BY <3>1, <3>3, <3>4
  <2>3. \A k \in 0 .. n : k \in G
    <3> HIDE DEF G
    <3> QED BY <1>0, <2>1, <2>2, UpTo
  <2> QED BY <2>3
<1>12. \A k \in 1 .. n : k \in 0 .. n /\ k # 0
  BY <1>0
<1> QED
  BY <1>9, <1>11, <1>12 DEF T

-----------------------------------------------------------------------------
(* Aggregate functions                                                       *)

\* What a result item holds.
Items ==
  {x \in [type : NumericTypes, value : Bits \cup Doubles,
          is_unsigned : BOOLEAN, inited : BOOLEAN] : x.value \in CellValues(x.type)}

\* The operand of an aggregate function suits the item.
Suits(f, x, item) ==
  /\ Numeric(x) /\ item \in Items
  /\ f = "Count" => item.type = "BigInt"
  /\ f # "Count" => x.is_null \/ x.type = item.type

\* The result of an aggregate function is an item of the same type.
SameItem(res, item) ==
  /\ res.ret \in {-1, 0, 1}
  /\ res.reg \in Items /\ res.reg.type = item.type

\* The conversion to unsigned is a bit pattern.
LEMMA UnsignedBits == \A n \in Int : Unsigned(n) \in Bits
<1>1. Word \in Nat \ {0}
  BY WordAssumption DEF Word
<1> QED
  BY <1>1 DEF Unsigned, Bits

\* The parts of an item.
LEMMA ItemFacts ==
  ASSUME NEW item \in Items
  PROVE  /\ item.type \in NumericTypes /\ item.value \in CellValues(item.type)
         /\ item.is_unsigned \in BOOLEAN /\ item.inited \in BOOLEAN
  BY DEF Items

\* y is the item with these fields.
IsItem(y, type, value, is_unsigned, started) ==
  /\ y \in Items /\ y.type = type /\ y.value = value
  /\ y.is_unsigned = is_unsigned /\ y.inited = started

\* The ways an item is changed.
LEMMA ItemWith ==
  ASSUME NEW item \in Items, NEW v \in CellValues(item.type), NEW flag \in BOOLEAN
  PROVE  /\ IsItem(item, item.type, item.value, item.is_unsigned, item.inited)
         /\ IsItem([item EXCEPT !.value = v], item.type, v, item.is_unsigned, item.inited)
         /\ IsItem([item EXCEPT !.is_unsigned = flag],
                   item.type, item.value, flag, item.inited)
         /\ IsItem([item EXCEPT !.value = v, !.is_unsigned = flag],
                   item.type, v, flag, item.inited)
         /\ IsItem([item EXCEPT !.value = v, !.inited = TRUE],
                   item.type, v, item.is_unsigned, TRUE)
<1>1. /\ DOMAIN item = {"type", "value", "is_unsigned", "inited"}
      /\ item.type \in NumericTypes /\ item.value \in CellValues(item.type)
      /\ item.is_unsigned \in BOOLEAN /\ item.inited \in BOOLEAN
      /\ CellValues(item.type) \subseteq Bits \cup Doubles
  BY DEF Items, CellValues
<1>2. IsItem(item, item.type, item.value, item.is_unsigned, item.inited)
  BY DEF IsItem
<1>3. IsItem([item EXCEPT !.value = v], item.type, v, item.is_unsigned, item.inited)
  BY <1>1 DEF IsItem, Items
<1>4. IsItem([item EXCEPT !.is_unsigned = flag], item.type, item.value, flag, item.inited)
  BY <1>1 DEF IsItem, Items
<1>5. IsItem([item EXCEPT !.value = v, !.is_unsigned = flag], item.type, v, flag, item.inited)
  BY <1>1 DEF IsItem, Items
<1>6. IsItem([item EXCEPT !.value = v, !.inited = TRUE], item.type, v, item.is_unsigned, TRUE)
  BY <1>1 DEF IsItem, Items
<1> QED
  BY <1>2, <1>3, <1>4, <1>5, <1>6

\* An item whose type is assigned again.
LEMMA ItemTyped ==
  ASSUME NEW item \in Items, NEW type, item.type = type, NEW v \in CellValues(type),
         NEW flag \in BOOLEAN
  PROVE  IsItem([item EXCEPT !.type = type, !.value = v, !.is_unsigned = flag],
                type, v, flag, item.inited)
<1>1. /\ DOMAIN item = {"type", "value", "is_unsigned", "inited"}
      /\ item.type \in NumericTypes /\ item.inited \in BOOLEAN
      /\ CellValues(item.type) \subseteq Bits \cup Doubles
  BY DEF Items, CellValues
<1> QED
  BY <1>1 DEF IsItem, Items

\* The parts of an integer register and of an integer item.
LEMMA IntParts ==
  ASSUME NEW x, Numeric(x), x.type = "BigInt"
  PROVE  /\ x.value \in 0 .. (Word - 1) /\ x.is_unsigned \in BOOLEAN
         /\ LongLongMax \in Nat \ {0} /\ Word = 2 * LongLongMax + 2
  BY Ranges DEF Numeric, WellTyped, Registers, Bits

\* The parts of an integer item.
LEMMA IntItemParts ==
  ASSUME NEW item \in Items, item.type = "BigInt"
  PROVE  /\ item.value \in 0 .. (Word - 1) /\ item.is_unsigned \in BOOLEAN
         /\ LongLongMax \in Nat \ {0} /\ Word = 2 * LongLongMax + 2
  BY Ranges, ItemFacts DEF CellValues, Bits

\* A null operand changes nothing, and every aggregate function accepts one.
LEMMA NullOperand ==
  ASSUME NEW f \in AggFunctions, NEW x, NEW item, Suits(f, x, item), x.is_null
  PROVE  Accepts(f, x, item) /\ AggOp(f, x, item) = [ret |-> 1, reg |-> item]
<1>1. x.type \in {"BigInt", "Double"} /\ item.type \in {"BigInt", "Double"}
  BY ItemFacts DEF Suits, Numeric, NumericTypes
<1>2. Accepts(f, x, item)
  BY <1>1 DEF Accepts, AggFunctions
<1> QED
  BY <1>2 DEF AggOp, IsNull

\* Every aggregate function accepts an operand that suits its item.
LEMMA OperandAccepted ==
  ASSUME NEW f \in AggFunctions, NEW x, NEW item, Suits(f, x, item), ~x.is_null
  PROVE  Accepts(f, x, item)
<1>1. x.type \in {"BigInt", "Double"} /\ item.type \in {"BigInt", "Double"}
  BY ItemFacts DEF Suits, Numeric, NumericTypes
<1> QED
  BY <1>1 DEF Accepts, AggFunctions, Suits

\* COUNT adds one.
LEMMA CountStep ==
  ASSUME NEW x, NEW item, Suits("Count", x, item), ~x.is_null
  PROVE  /\ SameItem(AggOp("Count", x, item), item)
         /\ item.value + 1 < Word => AggOp("Count", x, item).reg.value = item.value + 1
<1>1. AggOp("Count", x, item) = Count(x, item)
  BY OperandAccepted DEF AggOp, AggFunctions
<1>2. item \in Items /\ item.type = "BigInt" /\ item.value \in 0 .. (Word - 1) /\ Word \in Nat
  BY IntItemParts DEF Suits
<1>3. Unsigned(item.value + 1) \in CellValues(item.type)
  BY <1>2, UnsignedBits DEF CellValues
<1> DEFINE new == [item EXCEPT !.value = Unsigned(item.value + 1), !.is_unsigned = TRUE]
<1>4. new \in Items /\ new.type = item.type /\ new.value = Unsigned(item.value + 1)
  <2>1. IsItem(new, item.type, Unsigned(item.value + 1), TRUE, item.inited)
    BY <1>2, <1>3, ItemWith
  <2> HIDE DEF new
  <2> QED BY <2>1 DEF IsItem
<1>5. item.value + 1 < Word => Unsigned(item.value + 1) = item.value + 1
  BY <1>2, Reduce
<1>6. Count(x, item) = [ret |-> 0, reg |-> new]
  BY DEF Count, Succeed
<1> HIDE DEF new
<1> QED
  BY <1>1, <1>4, <1>5, <1>6 DEF SameItem

\* SUM adds its operand, exactly if it is a BIGINT, or fails.
LEMMA SumStep ==
  ASSUME NEW x, NEW item, Suits("Sum", x, item), ~x.is_null
  PROVE  LET res == AggOp("Sum", x, item)
         IN  /\ SameItem(res, item)
             /\ item.type = "BigInt" /\ res.ret >= 0 => Value(res.reg) = Value(item) + Value(x)
<1>1. AggOp("Sum", x, item) = Sum(x, item)
  BY OperandAccepted DEF AggOp, AggFunctions
<1>2. Numeric(x) /\ item \in Items /\ x.type = item.type /\ x.type \in {"BigInt", "Double"}
  BY DEF Suits, Numeric
<1>3. CASE x.type = "Double"
  <2> DEFINE n == AsDouble(x) + AsDouble(item)
             d == Rounded(n)
             new == [item EXCEPT !.type = "Double", !.value = d, !.is_unsigned = FALSE]
  <2>1. Sum(x, item) = IF d \in Doubles THEN [ret |-> 0, reg |-> new]
                                         ELSE [ret |-> -1, reg |-> item]
    BY <1>3 DEF Sum, Finite, Succeed, Fail
  <2> HIDE DEF n, d
  <2>2. d \in Doubles => new \in Items /\ new.type = item.type
    <3>1. d \in Doubles => IsItem(new, "Double", d, FALSE, item.inited)
      BY <1>2, <1>3, ItemTyped DEF CellValues
    <3> QED BY <1>2, <1>3, <3>1 DEF IsItem
  <2> HIDE DEF new
  <2>3. SameItem([ret |-> -1, reg |-> item], item)
    BY <1>2 DEF SameItem
  <2>4. d \in Doubles => SameItem([ret |-> 0, reg |-> new], item)
    BY <2>2 DEF SameItem
  <2> QED BY <1>1, <1>2, <1>3, <2>1, <2>3, <2>4
<1>4. CASE x.type = "BigInt"
  <2> DEFINE y == [type |-> "BigInt", value |-> item.value,
                   is_unsigned |-> item.is_unsigned, is_null |-> FALSE]
             bits == Unsigned(x.value + item.value)
             flag == FlagOf(x, item)
             new == [item EXCEPT !.type = "BigInt", !.value = bits, !.is_unsigned = flag]
             old == [x EXCEPT !.type = "BigInt", !.value = bits, !.is_unsigned = flag]
             wraps == SumWraps(x, item)
             refused == Refused(flag, SumUnsigned(x, item), bits > LongLongMax, bits)
  <2>0. item.value \in Bits /\ item.is_unsigned \in BOOLEAN
    BY <1>2, <1>4, ItemFacts DEF CellValues
  <2>1. x \in Ints /\ y \in Ints
    BY <1>2, <1>4, <2>0 DEF Numeric, WellTyped, Registers, Ints
  <2>2. /\ y.value = item.value /\ y.is_unsigned = item.is_unsigned
        /\ Value(y) = Value(item)
    BY <1>2, <1>4 DEF Value
  <2> HIDE DEF y
  <2>3. /\ wraps = SumWraps(x, y) /\ flag = FlagOf(x, y) /\ bits = Unsigned(x.value + y.value)
        /\ SumUnsigned(x, item) = SumUnsigned(x, y)
    BY <2>2 DEF SumWraps, FlagOf, SumUnsigned, Natural, IsNegative
  <2>4. PlusInts(x, y, x) = IF wraps \/ refused THEN [ret |-> -1, reg |-> x]
                                               ELSE [ret |-> 0, reg |-> old]
    BY <2>3 DEF PlusInts, Checked, Fail, Succeed
  <2>5. Sum(x, item) = IF wraps \/ refused THEN [ret |-> -1, reg |-> item]
                                          ELSE [ret |-> 0, reg |-> new]
    BY <1>2, <1>4 DEF Sum, PlusInts, Checked, Fail, Succeed
  <2>6. bits \in Bits /\ flag \in BOOLEAN
    <3>1. x.value + item.value \in Int
      BY <1>2, <1>4, <2>0, IntParts DEF Bits
    <3> QED BY <3>1, UnsignedBits DEF FlagOf
  <2> HIDE DEF bits, flag, wraps, refused
  <2>7. IsItem(new, "BigInt", bits, flag, item.inited)
    BY <1>2, <1>4, <2>6, ItemTyped DEF CellValues
  <2>8. Value(old) = Value(new)
    <3>1. old.type = "BigInt" /\ old.value = bits /\ old.is_unsigned = flag
      BY <1>2 DEF Numeric, WellTyped, Registers
    <3>2. new.type = "BigInt" /\ new.value = bits /\ new.is_unsigned = flag
      BY <2>7 DEF IsItem
    <3> HIDE DEF old, new
    <3> QED BY <3>1, <3>2 DEF Value
  <2> HIDE DEF old, new
  <2>9. ~(wraps \/ refused) => Value(old) = Value(x) + Value(y)
    <3>1. ~(wraps \/ refused) => PlusInts(x, y, x).ret = 0 /\ PlusInts(x, y, x).reg = old
      BY <2>4
    <3>2. PlusInts(x, y, x).ret = 0 => Value(PlusInts(x, y, x).reg) = Value(x) + Value(y)
      BY <2>1, SumOfInts
    <3> QED BY <3>1, <3>2
  <2>10. Value(x) + Value(y) = Value(item) + Value(x)
    <3>1. Value(x) \in Int /\ Value(y) \in Int
      BY <2>1, SizeIsAbs
    <3> QED BY <2>2, <3>1
  <2>11. SameItem([ret |-> -1, reg |-> item], item) /\ SameItem([ret |-> 0, reg |-> new], item)
    BY <1>2, <1>4, <2>7 DEF SameItem, IsItem
  <2> QED BY <1>1, <2>5, <2>8, <2>9, <2>10, <2>11
<1> QED
  BY <1>2, <1>3, <1>4

\* An item that has a start value, or the better of its own and a register's.
LEMMA StartedItem ==
  ASSUME NEW item \in Items, item.type = "BigInt", NEW start \in Bits
  PROVE  IsItem(Started(item, start), "BigInt",
                IF item.inited THEN item.value ELSE start, item.is_unsigned, TRUE)
<1>1. start \in CellValues(item.type) /\ item.inited \in BOOLEAN
  BY ItemFacts DEF CellValues
<1>2. IsItem([item EXCEPT !.value = start, !.inited = TRUE],
             item.type, start, item.is_unsigned, TRUE)
  BY <1>1, ItemWith
<1>3. item.inited => IsItem(item, "BigInt", item.value, item.is_unsigned, TRUE)
  BY <1>1 DEF IsItem
<1> QED
  BY <1>1, <1>2, <1>3 DEF Started

\* The better of two values is kept.
LEMMA KeptItem ==
  ASSUME NEW y, NEW v, NEW flag \in BOOLEAN, IsItem(y, "BigInt", v, flag, TRUE),
         NEW better \in BOOLEAN, NEW x, x.value \in Bits
  PROVE  IsItem(Keep(y, better, x), "BigInt", IF better THEN x.value ELSE v, flag, TRUE)
<1>1. x.value \in CellValues(y.type) /\ y \in Items
  BY DEF CellValues, IsItem
<1>2. IsItem([y EXCEPT !.value = x.value], y.type, x.value, y.is_unsigned, y.inited)
  BY <1>1, ItemWith
<1>3. y.type = "BigInt" /\ y.is_unsigned = flag /\ y.inited = TRUE
  BY DEF IsItem
<1> QED
  BY <1>2, <1>3 DEF Keep

\* An item whose flag or value is assigned.
LEMMA FlaggedItem ==
  ASSUME NEW y, NEW v \in Bits, NEW w, NEW flag, IsItem(y, "BigInt", w, flag, TRUE),
         NEW other \in BOOLEAN
  PROVE  /\ IsItem([y EXCEPT !.is_unsigned = other], "BigInt", w, other, TRUE)
         /\ IsItem([y EXCEPT !.value = v], "BigInt", v, flag, TRUE)
         /\ IsItem([y EXCEPT !.value = v, !.is_unsigned = other], "BigInt", v, other, TRUE)
<1>1. v \in CellValues(y.type) /\ y \in Items
  BY DEF CellValues, IsItem
<1>2. /\ IsItem([y EXCEPT !.value = v], y.type, v, y.is_unsigned, y.inited)
      /\ IsItem([y EXCEPT !.is_unsigned = other], y.type, y.value, other, y.inited)
      /\ IsItem([y EXCEPT !.value = v, !.is_unsigned = other], y.type, v, other, y.inited)
  BY <1>1, ItemWith
<1> QED
  BY <1>2 DEF IsItem

\* The numbers the proofs about integers need.
LEMMA NumberFacts ==
  /\ LongLongMax \in Nat \ {0} /\ Word = 2 * LongLongMax + 2
  /\ 0 \in Bits /\ 1 \in Bits /\ Word - 1 \in Bits /\ LongLongMax \in Bits
  /\ LongLongMax + 1 \in Bits /\ \A n \in Bits : n \in Int /\ 0 <= n /\ n <= 2 * LongLongMax + 1
  BY Ranges DEF Bits

\* The same bits as an int64_t.
LEMMA SignedFacts ==
  ASSUME NEW n \in Bits
  PROVE  /\ Signed(n) \in Int /\ Signed(n) <= LongLongMax /\ -LongLongMax - 1 <= Signed(n)
         /\ n <= LongLongMax => Signed(n) = n
         /\ ~(n <= LongLongMax) => Signed(n) < 0
  BY NumberFacts DEF Signed

\* The number that bits stand for.
Number(n, flag) == IF flag THEN n ELSE Signed(n)

\* The parts of an integer operand and item.
LEMMA OperandParts ==
  ASSUME NEW f, NEW x, NEW item, Suits(f, x, item), item.type = "BigInt", x.type = "BigInt"
  PROVE  /\ item \in Items
         /\ x.value \in Bits /\ x.is_unsigned \in BOOLEAN
         /\ item.value \in Bits /\ item.is_unsigned \in BOOLEAN /\ item.inited \in BOOLEAN
         /\ Value(item) = Number(item.value, item.is_unsigned)
         /\ Value(x) = Number(x.value, x.is_unsigned)
         /\ Value(item) \in Int /\ Value(x) \in Int
<1>1. /\ item \in Items
      /\ x.value \in Bits /\ x.is_unsigned \in BOOLEAN
      /\ item.value \in Bits /\ item.is_unsigned \in BOOLEAN /\ item.inited \in BOOLEAN
  BY ItemFacts DEF Suits, Numeric, WellTyped, Registers, CellValues
<1>2. /\ Value(item) = Number(item.value, item.is_unsigned)
      /\ Value(x) = Number(x.value, x.is_unsigned)
  BY DEF Value, Number
<1>3. \A n \in Bits, flag \in BOOLEAN : Number(n, flag) \in Int
  BY NumberFacts, SignedFacts DEF Number
<1> QED
  BY <1>1, <1>2, <1>3

\* Started items, and what is kept of an operand s and the item's value t.
LesserOf(y, s, t) ==
  y \in Items /\ y.type = "BigInt" /\ y.inited = TRUE /\ Value(y) = IF s < t THEN s ELSE t
GreaterOf(y, s, t) ==
  y \in Items /\ y.type = "BigInt" /\ y.inited = TRUE /\ Value(y) = IF s > t THEN s ELSE t

\* The number a bit pattern stands for.
LEMMA NumberInt ==
  \A n \in Bits : /\ Number(n, TRUE) = n /\ Number(n, FALSE) = Signed(n)
                  /\ Number(n, TRUE) \in Int /\ Number(n, FALSE) \in Int
                  /\ (n <= LongLongMax \/ n > LongLongMax)
                  /\ n <= LongLongMax => Number(n, FALSE) = n
                  /\ n > LongLongMax => Number(n, FALSE) = n - Word /\ Number(n, FALSE) < 0
  BY NumberFacts DEF Number, Signed

\* Keep compares the operand and the item by the numbers they stand for; the
\* item is then read with the flag.
LEMMA KeptNumber ==
  ASSUME NEW l \in Bits, NEW flag \in BOOLEAN, NEW x, x.value \in Bits, NEW better \in BOOLEAN,
         NEW y, IsItem(y, "BigInt", IF better THEN x.value ELSE l, flag, TRUE),
         NEW s, s = Number(x.value, flag), NEW t, t = Number(l, flag)
  PROVE  /\ (better <=> s < t) => LesserOf(y, s, t)
         /\ (better <=> s > t) => GreaterOf(y, s, t)
<1> DEFINE n == IF better THEN x.value ELSE l
<1>1. y \in Items /\ y.type = "BigInt" /\ y.inited = TRUE /\ Value(y) = Number(n, flag)
  BY DEF IsItem, Value, Number
<1>2. Number(n, flag) = IF better THEN s ELSE t
  OBVIOUS
<1>3. s \in Int /\ t \in Int
  BY NumberInt
<1> HIDE DEF n
<1> QED
  BY <1>1, <1>2, <1>3 DEF LesserOf, GreaterOf

\* What MIN compares its operand with: the item's value, or LLONG_MAX, or
\* ULLONG_MAX if both are unsigned.
MinStart(x, item) ==
  IF item.inited THEN item.value
  ELSE IF x.is_unsigned /\ item.is_unsigned THEN Word - 1 ELSE LongLongMax

\* MIN of integers keeps the lesser of operand and item.
LEMMA MinIntsLesser ==
  ASSUME NEW x, NEW item, Suits("Min", x, item), x.type = "BigInt", item.type = "BigInt"
  PROVE  LesserOf(MinInts(x, item), Value(x), Number(MinStart(x, item), item.is_unsigned))
<1> DEFINE new == MinInts(x, item)
           low == Started(item, LongLongMax)
           high == Started(item, Word - 1)
           L == IF item.inited THEN item.value ELSE LongLongMax
           H == IF item.inited THEN item.value ELSE Word - 1
           xu == x.is_unsigned
           iu == item.is_unsigned
           s == Value(x)
           t == Number(MinStart(x, item), iu)
<1>1. /\ item \in Items /\ x.value \in Bits /\ xu \in BOOLEAN
      /\ item.value \in Bits /\ iu \in BOOLEAN /\ item.inited \in BOOLEAN
      /\ s = Number(x.value, xu)
  BY OperandParts
<1>2. IsItem(low, "BigInt", L, iu, TRUE) /\ IsItem(high, "BigInt", H, iu, TRUE)
  BY <1>1, NumberFacts, StartedItem
<1>3. low.value = L /\ high.value = H
  BY <1>2 DEF IsItem
<1>4. L \in Bits /\ H \in Bits
  BY <1>1, NumberFacts
<1>5. t = IF xu /\ iu THEN Number(H, iu) ELSE Number(L, iu)
  BY <1>1 DEF MinStart
<1> SUFFICES LesserOf(new, s, t)
  OBVIOUS
<1> HIDE DEF low, high, L, H, s, t
<1>6. CASE xu = FALSE /\ iu = FALSE
  <2> DEFINE better == Signed(x.value) < Signed(L)
  <2>1. new = Keep(low, better, x)
    BY <1>3, <1>6 DEF MinInts, low, IsNegative
  <2>2. s = Number(x.value, xu) /\ t = Number(L, iu) /\ IsItem(low, "BigInt", L, iu, TRUE)
    BY <1>1, <1>2, <1>5, <1>6
  <2>3. s = Number(x.value, FALSE) /\ t = Number(L, FALSE)
    BY <1>1, <1>4, <1>6, <2>2, NumberInt
  <2>4. better <=> s < t
    BY <2>3 DEF Number
  <2>5. better \in BOOLEAN /\ L \in Bits /\ FALSE \in BOOLEAN /\ x.value \in Bits
    BY <1>1, <1>4
  <2> HIDE DEF new, better
  <2>6. IsItem(new, "BigInt", IF better THEN x.value ELSE L, FALSE, TRUE)
    <3>1. IsItem(low, "BigInt", L, FALSE, TRUE)
      BY <2>2, <1>6
    <3> QED BY <2>1, <2>5, <3>1, KeptItem
  <2> QED BY <2>3, <2>4, <2>5, <2>6, KeptNumber
<1>7. CASE xu = TRUE /\ iu = TRUE
  <2> DEFINE better == x.value < H
  <2>1. new = Keep(high, better, x)
    BY <1>3, <1>7 DEF MinInts, high, IsNegative
  <2>2. s = Number(x.value, xu) /\ t = Number(H, iu) /\ IsItem(high, "BigInt", H, iu, TRUE)
    BY <1>1, <1>2, <1>5, <1>7
  <2>3. s = Number(x.value, TRUE) /\ t = Number(H, TRUE)
    BY <1>1, <1>4, <1>7, <2>2, NumberInt
  <2>4. better <=> s < t
    BY <2>3 DEF Number
  <2>5. better \in BOOLEAN /\ H \in Bits /\ TRUE \in BOOLEAN /\ x.value \in Bits
    BY <1>1, <1>4
  <2> HIDE DEF new, better
  <2>6. IsItem(new, "BigInt", IF better THEN x.value ELSE H, TRUE, TRUE)
    <3>1. IsItem(high, "BigInt", H, TRUE, TRUE)
      BY <2>2, <1>7
    <3> QED BY <2>1, <2>5, <3>1, KeptItem
  <2> QED BY <2>3, <2>4, <2>5, <2>6, KeptNumber
<1>8. CASE xu = TRUE /\ iu = FALSE /\ L > LongLongMax
  <2>1. new = low
    BY <1>3, <1>8 DEF MinInts, low
  <2>2. s = Number(x.value, TRUE) /\ t = Number(L, FALSE) /\ IsItem(low, "BigInt", L, FALSE, TRUE)
    BY <1>1, <1>2, <1>5, <1>8
  <2>3. ~(s < t)
    <3>1. s = x.value /\ x.value \in Int /\ 0 <= x.value
      BY <1>1, <2>2, NumberInt, NumberFacts
    <3>2. t < 0 /\ t \in Int
      BY <1>4, <1>8, <2>2, NumberInt
    <3> QED BY <3>1, <3>2
  <2>4. low \in Items /\ low.type = "BigInt" /\ low.inited = TRUE /\ Value(low) = t
    BY <2>2 DEF IsItem, Value, Number
  <2> HIDE DEF new
  <2> QED BY <2>1, <2>3, <2>4 DEF LesserOf
<1>9. CASE xu = TRUE /\ iu = FALSE /\ ~(L > LongLongMax)
  <2> DEFINE better == x.value < L
  <2>1. new = [Keep(low, better, x) EXCEPT !.is_unsigned = TRUE]
    BY <1>3, <1>9 DEF MinInts, low, IsNegative
  <2>2. s = Number(x.value, xu) /\ t = Number(L, iu) /\ IsItem(low, "BigInt", L, iu, TRUE)
    BY <1>1, <1>2, <1>5, <1>9
  <2>3. s = Number(x.value, TRUE) /\ t = Number(L, TRUE)
    BY <1>1, <1>4, <1>9, <2>2, NumberInt
  <2>4. better <=> s < t
    BY <2>3 DEF Number
  <2>5. better \in BOOLEAN /\ L \in Bits /\ TRUE \in BOOLEAN /\ x.value \in Bits
    BY <1>1, <1>4
  <2> HIDE DEF new, better
  <2>6. IsItem(new, "BigInt", IF better THEN x.value ELSE L, TRUE, TRUE)
    <3> DEFINE kept == Keep(low, better, x)
               n == IF better THEN x.value ELSE L
    <3>1. IsItem(kept, "BigInt", n, iu, TRUE)
      BY <1>1, <2>2, <2>5, KeptItem
    <3>2. n \in Bits /\ new = [kept EXCEPT !.is_unsigned = TRUE]
      BY <2>1, <2>5
    <3> HIDE DEF kept, n
    <3>3. IsItem(new, "BigInt", n, TRUE, TRUE)
      BY <3>1, <3>2, FlaggedItem
    <3> QED BY <3>3 DEF n
  <2> QED BY <2>3, <2>4, <2>5, <2>6, KeptNumber
<1>10. CASE xu = FALSE /\ iu = TRUE /\ x.value > LongLongMax
  <2>1. new = [low EXCEPT !.value = x.value, !.is_unsigned = FALSE]
    BY <1>10 DEF MinInts, low, IsNegative
  <2>2. IsItem(new, "BigInt", x.value, FALSE, TRUE)
    <3> HIDE DEF new
    <3> QED BY <1>1, <1>2, <2>1, FlaggedItem
  <2>3. s = Number(x.value, FALSE) /\ t = Number(L, TRUE)
    BY <1>1, <1>5, <1>10
  <2>4. s < t
    <3>1. s < 0 /\ s \in Int
      BY <1>1, <1>10, <2>3, NumberInt
    <3>2. t = L /\ L \in Int /\ 0 <= L
      BY <1>4, <2>3, NumberInt, NumberFacts
    <3> QED BY <3>1, <3>2
  <2>5. new \in Items /\ new.type = "BigInt" /\ new.inited = TRUE /\ Value(new) = s
    <3> HIDE DEF new
    <3> QED BY <2>2, <2>3 DEF IsItem, Value, Number
  <2> HIDE DEF new
  <2> QED BY <2>4, <2>5 DEF LesserOf
<1>11. CASE xu = FALSE /\ iu = TRUE /\ ~(x.value > LongLongMax)
  <2> DEFINE better == x.value < L
  <2>1. new = Keep(low, better, x)
    BY <1>3, <1>11 DEF MinInts, low, IsNegative
  <2>2. s = Number(x.value, xu) /\ t = Number(L, iu) /\ IsItem(low, "BigInt", L, iu, TRUE)
    BY <1>1, <1>2, <1>5, <1>11
  <2>3. s = Number(x.value, TRUE) /\ t = Number(L, TRUE)
    BY <1>1, <1>4, <1>11, <2>2, NumberInt
  <2>4. better <=> s < t
    BY <2>3 DEF Number
  <2>5. better \in BOOLEAN /\ L \in Bits /\ TRUE \in BOOLEAN /\ x.value \in Bits
    BY <1>1, <1>4
  <2> HIDE DEF new, better
  <2>6. IsItem(new, "BigInt", IF better THEN x.value ELSE L, TRUE, TRUE)
    <3>1. IsItem(low, "BigInt", L, TRUE, TRUE)
      BY <2>2, <1>11
    <3> QED BY <2>1, <2>5, <3>1, KeptItem
  <2> QED BY <2>3, <2>4, <2>5, <2>6, KeptNumber
<1>12. (xu = TRUE \/ xu = FALSE) /\ (iu = TRUE \/ iu = FALSE)
  BY <1>1
<1> HIDE DEF xu, iu, new
<1> QED
  BY <1>6, <1>7, <1>8, <1>9, <1>10, <1>11, <1>12

\* MIN of integers keeps the lesser of two values that are not above LLONG_MAX.
LEMMA MinIntStep ==
  ASSUME NEW x, NEW item, Suits("Min", x, item), ~x.is_null, x.type = "BigInt"
  PROVE  LET res == AggOp("Min", x, item)
             less == item.inited /\ Value(item) <= Value(x)
         IN  /\ SameItem(res, item) /\ res.ret = 0 /\ res.reg.inited = TRUE
             /\ Value(x) <= LongLongMax
                => Value(res.reg) = IF less THEN Value(item) ELSE Value(x)
<1> DEFINE new == MinInts(x, item)
           l == Number(MinStart(x, item), item.is_unsigned)
<1>1. AggOp("Min", x, item) = [ret |-> 0, reg |-> new]
  BY OperandAccepted DEF AggOp, AggFunctions, Succeed
<1>2. item \in Items /\ item.type = "BigInt"
  BY DEF Suits
<1>3. /\ item.inited \in BOOLEAN /\ item.is_unsigned \in BOOLEAN /\ item.value \in Bits
      /\ x.is_unsigned \in BOOLEAN
      /\ Value(item) = Number(item.value, item.is_unsigned)
      /\ Value(item) \in Int /\ Value(x) \in Int
  BY <1>2, OperandParts
<1>4. LesserOf(new, Value(x), l)
  BY <1>2, MinIntsLesser
<1>5. MinStart(x, item) \in Bits /\ l \in Int
  <2>1. MinStart(x, item) \in Bits
    BY <1>3, NumberFacts DEF MinStart
  <2>2. item.is_unsigned = TRUE \/ item.is_unsigned = FALSE
    BY <1>3
  <2> QED BY <2>1, <2>2, NumberInt
<1>6. item.inited => l = Value(item)
  BY <1>3 DEF MinStart
<1>7. ~item.inited => LongLongMax <= l
  <2>1. Number(LongLongMax, FALSE) = LongLongMax /\ Number(LongLongMax, TRUE) = LongLongMax
        /\ Number(Word - 1, TRUE) = Word - 1
    <3>1. LongLongMax \in Bits /\ Word - 1 \in Bits /\ LongLongMax <= LongLongMax
      BY NumberFacts
    <3> QED BY <3>1, NumberInt
  <2>2. ~item.inited => l = LongLongMax \/ l = Word - 1
    BY <1>3, <2>1 DEF MinStart
  <2> QED BY <2>2, NumberFacts
<1>8. new \in Items /\ new.type = "BigInt" /\ new.inited = TRUE
      /\ Value(new) = IF Value(x) < l THEN Value(x) ELSE l
  BY <1>4 DEF LesserOf
<1> HIDE DEF new, l
<1>9. Value(x) <= LongLongMax =>
        Value(new) = IF item.inited /\ Value(item) <= Value(x) THEN Value(item) ELSE Value(x)
  <2>1. CASE item.inited = TRUE
    BY <1>3, <1>5, <1>6, <1>8, <2>1
  <2>2. CASE item.inited = FALSE
    BY <1>3, <1>5, <1>7, <1>8, <2>2, NumberFacts
  <2> QED BY <1>3, <2>1, <2>2
<1> QED
  BY <1>1, <1>2, <1>8, <1>9 DEF SameItem

\* MAX of integers keeps an integer.
LEMMA MaxIntsTyped ==
  ASSUME NEW x, NEW item, Suits("Max", x, item), x.type = "BigInt", item.type = "BigInt"
  PROVE  /\ MaxInts(x, item) \in Items /\ MaxInts(x, item).type = "BigInt"
         /\ MaxInts(x, item).inited = TRUE
<1> DEFINE new == MaxInts(x, item)
           least == Started(item, LongLongMax + 1)
           zero == Started(item, 0)
           L == IF item.inited THEN item.value ELSE LongLongMax + 1
           Z == IF item.inited THEN item.value ELSE 0
           xu == x.is_unsigned
           iu == item.is_unsigned
           OK(y) == y \in Items /\ y.type = "BigInt" /\ y.inited = TRUE
<1>1. /\ item \in Items /\ x.value \in Bits /\ xu \in BOOLEAN
      /\ item.value \in Bits /\ iu \in BOOLEAN /\ item.inited \in BOOLEAN
  BY OperandParts
<1>2. IsItem(least, "BigInt", L, iu, TRUE) /\ IsItem(zero, "BigInt", Z, iu, TRUE)
  BY <1>1, NumberFacts, StartedItem
<1>3. L \in Bits /\ Z \in Bits
  BY <1>1, NumberFacts
<1> HIDE DEF least, zero, L, Z
<1>4. ASSUME NEW better \in BOOLEAN
      PROVE  /\ OK(Keep(least, better, x)) /\ OK(Keep(zero, better, x))
             /\ OK([Keep(zero, better, x) EXCEPT !.is_unsigned = TRUE])
  <2> DEFINE m == IF better THEN x.value ELSE L
             n == IF better THEN x.value ELSE Z
             kept == Keep(zero, better, x)
  <2>1. IsItem(Keep(least, better, x), "BigInt", m, iu, TRUE)
    BY <1>1, <1>2, KeptItem
  <2>2. IsItem(kept, "BigInt", n, iu, TRUE)
    BY <1>1, <1>2, KeptItem
  <2>3. n \in Bits
    BY <1>1, <1>3
  <2> HIDE DEF kept, m, n
  <2>4. IsItem([kept EXCEPT !.is_unsigned = TRUE], "BigInt", n, TRUE, TRUE)
    BY <2>2, <2>3, FlaggedItem
  <2> QED BY <2>1, <2>2, <2>4 DEF IsItem, kept
<1>5. OK(zero)
  BY <1>2 DEF IsItem
<1>6. ASSUME NEW v \in {0, 1} PROVE OK([zero EXCEPT !.value = v])
  <2>1. v \in Bits
    BY NumberFacts
  <2>2. IsItem([zero EXCEPT !.value = v], "BigInt", v, iu, TRUE)
    BY <1>1, <1>2, <2>1, FlaggedItem
  <2> QED BY <2>2 DEF IsItem
<1> SUFFICES OK(new)
  OBVIOUS
<1> HIDE DEF OK
<1>7. CASE xu = FALSE /\ iu = FALSE
  <2> DEFINE better == Signed(x.value) > Signed(least.value)
  <2>1. new = Keep(least, better, x) /\ better \in BOOLEAN
    BY <1>7 DEF MaxInts, least
  <2> HIDE DEF better, new
  <2>2. OK(Keep(least, better, x))
    BY <1>4, <2>1
  <2> QED BY <2>1, <2>2
<1>8. CASE xu = TRUE /\ iu = TRUE
  <2> DEFINE better == x.value > zero.value
  <2>1. new = Keep(zero, better, x) /\ better \in BOOLEAN
    BY <1>8 DEF MaxInts, zero
  <2> HIDE DEF better, new
  <2>2. OK(Keep(zero, better, x))
    BY <1>4, <2>1
  <2> QED BY <2>1, <2>2
<1>9. CASE xu = TRUE /\ iu = FALSE
  <2> DEFINE better == IsNegative(zero) \/ x.value > zero.value
  <2>1. new = [Keep(zero, better, x) EXCEPT !.is_unsigned = TRUE] /\ better \in BOOLEAN
    BY <1>9 DEF MaxInts, zero
  <2> HIDE DEF better, new
  <2>2. OK([Keep(zero, better, x) EXCEPT !.is_unsigned = TRUE])
    BY <1>4, <2>1
  <2> QED BY <2>1, <2>2
<1>10. CASE xu = FALSE /\ iu = TRUE
  <2>1. new = zero \/ \E v \in {0, 1} : new = [zero EXCEPT !.value = v]
    BY <1>10 DEF MaxInts, zero
  <2> HIDE DEF new
  <2> QED BY <1>5, <1>6, <2>1
<1>11. (xu = TRUE \/ xu = FALSE) /\ (iu = TRUE \/ iu = FALSE)
  BY <1>1
<1> HIDE DEF xu, iu, new
<1> QED
  BY <1>7, <1>8, <1>9, <1>10, <1>11

\* The operand and the item agree on the sign, or it is the first operand.
Alike(x, item) ==
  x.is_unsigned = item.is_unsigned \/ (x.is_unsigned = TRUE /\ item.inited = FALSE)

\* What MAX compares its operand with: the item's value, or 0, or LLONG_MIN.
MaxStart(x, item) ==
  IF item.inited THEN item.value ELSE IF x.is_unsigned THEN 0 ELSE LongLongMax + 1

\* MAX of integers keeps the greater of operand and item if their signs agree.
LEMMA MaxIntsGreater ==
  ASSUME NEW x, NEW item, Suits("Max", x, item), x.type = "BigInt", item.type = "BigInt",
         Alike(x, item)
  PROVE  /\ GreaterOf(MaxInts(x, item), Value(x), Number(MaxStart(x, item), x.is_unsigned))
         /\ MaxInts(x, item).is_unsigned = x.is_unsigned
<1> DEFINE new == MaxInts(x, item)
           least == Started(item, LongLongMax + 1)
           zero == Started(item, 0)
           L == IF item.inited THEN item.value ELSE LongLongMax + 1
           Z == IF item.inited THEN item.value ELSE 0
           xu == x.is_unsigned
           iu == item.is_unsigned
           s == Value(x)
           t == Number(MaxStart(x, item), xu)
<1>1. /\ item \in Items /\ x.value \in Bits /\ xu \in BOOLEAN
      /\ item.value \in Bits /\ iu \in BOOLEAN /\ item.inited \in BOOLEAN
      /\ s = Number(x.value, xu)
  BY OperandParts
<1>2. IsItem(least, "BigInt", L, iu, TRUE) /\ IsItem(zero, "BigInt", Z, iu, TRUE)
  BY <1>1, NumberFacts, StartedItem
<1>3. least.value = L /\ zero.value = Z /\ zero.is_unsigned = iu
  BY <1>2 DEF IsItem
<1>4. L \in Bits /\ Z \in Bits
  BY <1>1, NumberFacts
<1>5. t = IF xu THEN Number(Z, xu) ELSE Number(L, xu)
  BY <1>1 DEF MaxStart
<1> SUFFICES GreaterOf(new, s, t) /\ new.is_unsigned = xu
  OBVIOUS
<1>12. ~item.inited => Z = 0
  OBVIOUS
<1> HIDE DEF least, zero, L, Z, s, t
<1>6. CASE xu = FALSE /\ iu = FALSE
  <2> DEFINE better == Signed(x.value) > Signed(L)
  <2>1. new = Keep(least, better, x)
    BY <1>3, <1>6 DEF MaxInts, least
  <2>2. s = Number(x.value, FALSE) /\ t = Number(L, FALSE) /\ IsItem(least, "BigInt", L, FALSE, TRUE)
    BY <1>1, <1>2, <1>5, <1>6
  <2>3. better <=> s > t
    BY <2>2 DEF Number
  <2>4. better \in BOOLEAN /\ L \in Bits /\ FALSE \in BOOLEAN /\ x.value \in Bits
    BY <1>1, <1>4
  <2> HIDE DEF new, better
  <2>5. IsItem(new, "BigInt", IF better THEN x.value ELSE L, FALSE, TRUE)
    BY <2>1, <2>2, <2>4, KeptItem
  <2>6. GreaterOf(new, s, t)
    BY <2>2, <2>3, <2>4, <2>5, KeptNumber
  <2> QED BY <1>6, <2>5, <2>6 DEF IsItem
<1>7. CASE xu = TRUE
  <2> DEFINE better == x.value > Z
  <2>1. s = Number(x.value, TRUE) /\ t = Number(Z, TRUE)
    BY <1>1, <1>5, <1>7
  <2>2. better <=> s > t
    BY <2>1 DEF Number
  <2>3. better \in BOOLEAN /\ Z \in Bits /\ TRUE \in BOOLEAN /\ x.value \in Bits
    BY <1>1, <1>4
  <2>4. IsItem(new, "BigInt", IF better THEN x.value ELSE Z, TRUE, TRUE)
    <3>1. CASE iu = TRUE
      <4>1. new = Keep(zero, better, x)
        BY <1>3, <1>7, <3>1 DEF MaxInts, zero
      <4>2. IsItem(zero, "BigInt", Z, TRUE, TRUE)
        BY <1>2, <3>1
      <4> HIDE DEF new, better
      <4> QED BY <2>3, <4>1, <4>2, KeptItem
    <3>2. CASE iu = FALSE
      <4>1. Z = 0
        BY <1>7, <1>12, <3>2 DEF Alike
      <4>2. ~IsNegative(zero)
        BY <1>3, <4>1, NumberFacts DEF IsNegative
      <4>3. new = [Keep(zero, better, x) EXCEPT !.is_unsigned = TRUE]
        <5>1. new = [Keep(zero, IsNegative(zero) \/ x.value > zero.value, x)
                       EXCEPT !.is_unsigned = TRUE]
          BY <1>7, <3>2 DEF MaxInts, zero
        <5>2. (IsNegative(zero) \/ x.value > zero.value) = better
          BY <1>3, <4>2
        <5> QED BY <5>1, <5>2
      <4> DEFINE kept == Keep(zero, better, x)
                 n == IF better THEN x.value ELSE Z
      <4> HIDE DEF new, better
      <4>4. IsItem(kept, "BigInt", n, iu, TRUE)
        BY <1>1, <1>2, <2>3, KeptItem
      <4>5. n \in Bits /\ new = [kept EXCEPT !.is_unsigned = TRUE]
        BY <2>3, <4>3
      <4> HIDE DEF kept, n
      <4>6. IsItem(new, "BigInt", n, TRUE, TRUE)
        BY <4>4, <4>5, FlaggedItem
      <4> QED BY <4>6 DEF n
    <3> QED BY <1>1, <3>1, <3>2
  <2> HIDE DEF new, better
  <2>5. GreaterOf(new, s, t)
    BY <2>1, <2>2, <2>3, <2>4, KeptNumber
  <2> QED BY <1>7, <2>4, <2>5 DEF IsItem
<1>8. xu = TRUE \/ (xu = FALSE /\ iu = FALSE)
  BY <1>1 DEF Alike
<1> HIDE DEF xu, iu, new
<1> QED
  BY <1>6, <1>7, <1>8

\* MAX of integers of the same sign keeps the greater one.
LEMMA MaxIntStep ==
  ASSUME NEW x, NEW item, Suits("Max", x, item), ~x.is_null, x.type = "BigInt"
  PROVE  LET res == AggOp("Max", x, item)
             more == item.inited /\ Value(item) >= Value(x)
         IN  /\ SameItem(res, item) /\ res.ret = 0 /\ res.reg.inited = TRUE
             /\ Alike(x, item) => /\ res.reg.is_unsigned = x.is_unsigned
                                  /\ Value(res.reg) = IF more THEN Value(item) ELSE Value(x)
<1> DEFINE new == MaxInts(x, item)
           l == Number(MaxStart(x, item), x.is_unsigned)
<1>1. AggOp("Max", x, item) = [ret |-> 0, reg |-> new]
  BY OperandAccepted DEF AggOp, AggFunctions, Succeed
<1>2. item \in Items /\ item.type = "BigInt"
  BY DEF Suits
<1>3. /\ item.inited \in BOOLEAN /\ item.is_unsigned \in BOOLEAN /\ item.value \in Bits
      /\ x.is_unsigned \in BOOLEAN /\ x.value \in Bits
      /\ Value(item) = Number(item.value, item.is_unsigned)
      /\ Value(x) = Number(x.value, x.is_unsigned)
      /\ Value(item) \in Int /\ Value(x) \in Int
  BY <1>2, OperandParts
<1>4. new \in Items /\ new.type = "BigInt" /\ new.inited = TRUE
  BY <1>2, MaxIntsTyped
<1>5. ASSUME Alike(x, item)
      PROVE  /\ new.is_unsigned = x.is_unsigned
             /\ Value(new) = IF item.inited /\ Value(item) >= Value(x) THEN Value(item) ELSE Value(x)
  <2>1. GreaterOf(new, Value(x), l) /\ new.is_unsigned = x.is_unsigned
    BY <1>2, <1>5, MaxIntsGreater
  <2>2. Value(new) = IF Value(x) > l THEN Value(x) ELSE l
    BY <2>1 DEF GreaterOf
  <2>3. item.inited => l = Value(item)
    BY <1>3, <1>5 DEF MaxStart, Alike
  <2>4. l \in Int
    <3>1. MaxStart(x, item) \in Bits
      BY <1>3, NumberFacts DEF MaxStart
    <3>2. x.is_unsigned = TRUE \/ x.is_unsigned = FALSE
      BY <1>3
    <3> QED BY <3>1, <3>2, NumberInt
  <2>5. ~item.inited => l <= Value(x)
    <3>1. CASE x.is_unsigned = TRUE
      <4>1. Value(x) = x.value /\ 0 <= x.value
        BY <1>3, <3>1, NumberInt, NumberFacts
      <4>2. ~item.inited => l = 0
        BY <3>1 DEF MaxStart, Number
      <4> QED BY <4>1, <4>2
    <3>2. CASE x.is_unsigned = FALSE
      <4>1. Value(x) = Signed(x.value)
        BY <1>3, <3>2 DEF Number
      <4>2. -LongLongMax - 1 <= Signed(x.value)
        BY <1>3, SignedFacts
      <4>3. Signed(LongLongMax + 1) = -LongLongMax - 1
        <5>1. LongLongMax + 1 > LongLongMax
          BY NumberFacts
        <5> QED BY <5>1, NumberFacts DEF Signed
      <4>4. ~item.inited => l = Signed(LongLongMax + 1)
        BY <3>2 DEF MaxStart, Number
      <4> QED BY <4>1, <4>2, <4>3, <4>4
    <3> QED BY <1>3, <3>1, <3>2
  <2> HIDE DEF new, l
  <2>6. CASE item.inited = TRUE
    BY <1>3, <2>1, <2>2, <2>3, <2>4, <2>6
  <2>7. CASE item.inited = FALSE
    BY <1>3, <2>1, <2>2, <2>4, <2>5, <2>7
  <2> QED BY <1>3, <2>6, <2>7
<1> HIDE DEF new, l
<1> QED
  BY <1>1, <1>2, <1>4, <1>5 DEF SameItem

\* MIN and MAX of doubles keep a double.
LEMMA DoubleStep ==
  ASSUME NEW f \in {"Min", "Max"}, NEW x, NEW item, Suits(f, x, item), ~x.is_null,
         x.type = "Double"
  PROVE  SameItem(AggOp(f, x, item), item)
<1> DEFINE Kept(better) == [ret |-> 0, reg |-> Keep(item, better, x)]
<1>1. item \in Items /\ item.type = "Double" /\ x.value \in CellValues(item.type)
  BY DEF Suits, Numeric, WellTyped, CellValues
<1>2. \E better \in BOOLEAN : AggOp(f, x, item) = Kept(better)
  <2>1. f = "Min" => AggOp(f, x, item) = Kept(x.value < item.value)
    BY OperandAccepted DEF AggOp, AggFunctions, Succeed, MinDoubles
  <2>2. f = "Max" => AggOp(f, x, item) = Kept(x.value > item.value)
    BY OperandAccepted DEF AggOp, AggFunctions, Succeed, MaxDoubles
  <2> DEFINE less == x.value < item.value
             more == x.value > item.value
  <2>3. less \in BOOLEAN /\ more \in BOOLEAN
    OBVIOUS
  <2> HIDE DEF less, more, Kept
  <2> QED BY <2>1, <2>2, <2>3 DEF less, more
<1>3. ASSUME NEW better \in BOOLEAN PROVE SameItem(Kept(better), item)
  <2>1. IsItem([item EXCEPT !.value = x.value], item.type, x.value, item.is_unsigned, item.inited)
    BY <1>1, ItemWith
  <2>2. Keep(item, better, x) \in Items /\ Keep(item, better, x).type = item.type
    BY <1>1, <2>1 DEF IsItem, Keep
  <2> QED BY <2>2 DEF SameItem
<1> HIDE DEF Kept
<1> QED
  BY <1>2, <1>3

\* Every aggregate function leaves an item of the same type.
LEMMA AggOpTyped ==
  ASSUME NEW f \in AggFunctions, NEW x, NEW item, Suits(f, x, item)
  PROVE  SameItem(AggOp(f, x, item), item)
<1>1. item \in Items /\ (~x.is_null => x.type = "Double" \/ x.type = "BigInt")
  BY DEF Suits, Numeric
<1>2. CASE x.is_null
  BY <1>1, <1>2, NullOperand DEF SameItem
<1>3. CASE ~x.is_null
  <2>1. CASE f = "Count"
    BY <1>3, <2>1, CountStep
  <2>2. CASE f = "Sum"
    BY <1>3, <2>2, SumStep
  <2>3. CASE f = "Min"
    BY <1>1, <1>3, <2>3, MinIntStep, DoubleStep
  <2>4. CASE f = "Max"
    BY <1>1, <1>3, <2>4, MaxIntStep, DoubleStep
  <2> QED BY <2>1, <2>2, <2>3, <2>4 DEF AggFunctions
<1> QED
  BY <1>2, <1>3

-----------------------------------------------------------------------------
(* Types                                                                     *)

\* An instruction that did not fail leaves NULL, or a number of the wider type.
LEMMA RegOpWidens ==
  ASSUME NEW x, NEW y, Numeric(x), Numeric(y), NEW f \in ArithOps,
         RegOp(f, x, y).ret \notin {-2, -1}
  PROVE  \/ RegOp(f, x, y).reg.is_null = TRUE
         \/ /\ x.is_null = FALSE /\ y.is_null = FALSE
            /\ RegOp(f, x, y).reg.type = Wider(x.type, y.type)
<1>1. /\ x \in Registers /\ y \in Registers
      /\ x.type \in {"BigInt", "Double"} /\ y.type \in {"BigInt", "Double"}
  BY DEF Numeric, WellTyped
<1>2. x.is_null \in BOOLEAN /\ y.is_null \in BOOLEAN
  BY <1>1 DEF Registers
<1>3. CASE x.is_null \/ y.is_null
  <2>1. SetRegisterNull(x).is_null = TRUE
    BY <1>1 DEF SetRegisterNull, Registers
  <2> QED BY <1>3, <2>1 DEF RegOp, IsNull
<1>4. CASE x.is_null = FALSE /\ y.is_null = FALSE /\ "Double" \in {x.type, y.type}
  <2>1. \A n, flag : Finite(n, flag, x).ret # -1 => Finite(n, flag, x).reg.type = "Double"
    BY <1>1 DEF Finite, Succeed, Fail, Registers
  <2>2. DividedByZero(x).reg.is_null = TRUE
    BY <1>1 DEF DividedByZero, IsNull, SetRegisterNull, Registers
  <2>3. RegOp(f, x, y) = DoubleOp(f, x, y)
    BY <1>4 DEF RegOp
  <2>4. (\E n, flag : DoubleOp(f, x, y) = Finite(n, flag, x)) \/ DoubleOp(f, x, y) = DividedByZero(x)
    BY DEF DoubleOp, ArithOps
  <2>5. RegOp(f, x, y).reg.is_null = TRUE \/ RegOp(f, x, y).reg.type = "Double"
    BY <2>1, <2>2, <2>3, <2>4
  <2>6. Wider(x.type, y.type) = "Double"
    BY <1>1, <1>4 DEF Wider
  <2> QED BY <1>4, <2>5, <2>6
<1>5. CASE x.is_null = FALSE /\ y.is_null = FALSE /\ "Double" \notin {x.type, y.type}
  <2>1. \A flag, unsigned, negative, bits :
          Checked(flag, unsigned, negative, bits, x).ret # -1 =>
            Checked(flag, unsigned, negative, bits, x).reg.type = "BigInt"
    BY <1>1 DEF Checked, Succeed, Fail, Registers
  <2>2. RegOp(f, x, y) = IntOp(f, x, y)
    BY <1>5 DEF RegOp
  <2>3. \/ IntOp(f, x, y) = Fail(x) \/ IntOp(f, x, y) = Trap(x)
        \/ IntOp(f, x, y) = Succeed([x EXCEPT !.type = "BigInt"])
        \/ \E flag, unsigned, negative, bits :
             IntOp(f, x, y) = Checked(flag, unsigned, negative, bits, x)
    <3>1. CASE f = "Plus"
      BY <3>1 DEF IntOp, PlusInts
    <3>2. CASE f = "Minus"
      BY <3>2 DEF IntOp, MinusInts
    <3>3. CASE f = "Mul"
      BY <3>3 DEF IntOp, MulInts
    <3>4. CASE f = "Div"
      BY <3>4 DEF IntOp, DivInts
    <3>5. CASE f = "Mod"
      BY <3>5 DEF IntOp, ModInts
    <3> QED BY <3>1, <3>2, <3>3, <3>4, <3>5 DEF ArithOps
  <2>4. Succeed([x EXCEPT !.type = "BigInt"]).reg.type = "BigInt"
    BY <1>1 DEF Succeed, Registers
  <2>5. Fail(x).ret = -1 /\ Trap(x).ret = -2
    BY DEF Fail, Trap
  <2>6. RegOp(f, x, y).reg.type = "BigInt"
    BY <2>1, <2>2, <2>3, <2>4, <2>5
  <2>7. Wider(x.type, y.type) = "BigInt"
    BY <1>1, <1>5 DEF Wider
  <2> QED BY <1>5, <2>6, <2>7
<1> QED
  BY <1>2, <1>3, <1>4, <1>5

\* A row of result items of program p.
Rows(p) ==
  {row \in [DOMAIN p.agg_types -> Items] :
     \A j \in DOMAIN p.agg_types : row[j].type = p.agg_types[j]}

\* After the first k instructions for record r, every register that is known to
\* be loaded holds what a fresh interpreter would hold: NULL, or a number of
\* the static type.
Follows(p, regs, r, k) ==
  \A x \in Regs :
    StaticTypes(p.code)[k][x] # "Unknown" =>
      /\ Numeric(regs[x])
      /\ regs[x].is_null = TRUE \/ regs[x].type = StaticTypes(p.code)[k][x]
      /\ regs[x] = Fresh(p.code, r)[k][x]

\* An instruction that fails with these operands.
Fails(regs, i) ==
  i.op \in ArithOps /\ RegOp(i.op, regs[i.reg], regs[i.reg2]).ret \in {-2, -1}

\* The operands of an arithmetic instruction are numbers, and the next
\* instruction finds what it expects unless this one fails.
LEMMA FollowsStep ==
  ASSUME NEW p \in Programs, NEW r \in Records, NEW k \in 1 .. Len(p.code),
         NEW regs \in [Regs -> GoodRegisters], Follows(p, regs, r, k - 1)
  PROVE  /\ p.code[k].op \in ArithOps =>
              Numeric(regs[p.code[k].reg]) /\ Numeric(regs[p.code[k].reg2])
         /\ FreshStep(regs, p.code[k], r) \in [Regs -> GoodRegisters]
         /\ ~Fails(regs, p.code[k]) => Follows(p, FreshStep(regs, p.code[k], r), r, k)
<1> DEFINE i == p.code[k]
           static == StaticTypes(p.code)[k - 1]
           next == StaticTypes(p.code)[k]
           fresh == Fresh(p.code, r)[k - 1]
           new == FreshStep(regs, i, r)
<1>1. /\ i \in Instructions /\ static \in [Regs -> Types]
      /\ next = StaticStep(static, i)
      /\ i.op \in ArithOps => static[i.reg] \in NumericTypes /\ static[i.reg2] \in NumericTypes
  BY WellFormedFacts
<1>2. /\ Fresh(p.code, r)[k] = FreshStep(fresh, i, r)
      /\ fresh \in [Regs -> GoodRegisters]
  <2>1. k - 1 \in 0 .. Len(p.code)
    BY ProgramFacts
  <2> QED BY <2>1, FreshUnfold DEF FreshGood
<1>3. \A x \in Regs : static[x] # "Unknown" =>
        /\ Numeric(regs[x]) /\ regs[x] = fresh[x]
        /\ regs[x].is_null = TRUE \/ regs[x].type = static[x]
  BY DEF Follows
<1>4. SUFFICES /\ i.op \in ArithOps => Numeric(regs[i.reg]) /\ Numeric(regs[i.reg2])
               /\ new \in [Regs -> GoodRegisters]
               /\ ~Fails(regs, i) =>
                    \A x \in Regs : next[x] # "Unknown" =>
                      /\ Numeric(new[x]) /\ new[x] = FreshStep(fresh, i, r)[x]
                      /\ new[x].is_null = TRUE \/ new[x].type = next[x]
  BY <1>2 DEF Follows
<1>5. i.op = "LoadCol" => LoadedCell(i, r) \in GoodRegisters
  BY LoadedCellGood
<1>6. \A x \in Regs : regs[x] \in GoodRegisters
  OBVIOUS
<1> HIDE DEF i, static, next, fresh
<1>7. CASE i.op = "LoadCol"
  <2> DEFINE cell == LoadedCell(i, r)
  <2>1. i.reg \in Regs /\ i.type \in NumericTypes /\ i.op \notin ArithOps
    BY <1>1, <1>7, InstructionFacts DEF ArithOps
  <2>2. cell.type = i.type /\ cell \in GoodRegisters /\ Numeric(cell)
    BY <1>5, <1>7, <2>1, NumericFacts DEF LoadedCell
  <2>3. /\ new = [regs EXCEPT ![i.reg] = cell]
        /\ FreshStep(fresh, i, r) = [fresh EXCEPT ![i.reg] = cell]
        /\ next = [static EXCEPT ![i.reg] = i.type]
    BY <1>1, <1>7 DEF FreshStep, StaticStep
  <2> HIDE DEF new, cell
  <2>4. new \in [Regs -> GoodRegisters]
    BY <2>1, <2>2, <2>3
  <2>5. ASSUME NEW x \in Regs, next[x] # "Unknown"
        PROVE  /\ Numeric(new[x]) /\ new[x] = FreshStep(fresh, i, r)[x]
               /\ new[x].is_null = TRUE \/ new[x].type = next[x]
    <3>1. CASE x = i.reg
      BY <1>1, <1>2, <2>1, <2>2, <2>3, <3>1
    <3>2. CASE x # i.reg
      BY <1>1, <1>2, <1>3, <2>1, <2>3, <2>5, <3>2
    <3> QED BY <3>1, <3>2
  <2> QED BY <2>1, <2>4, <2>5
<1>8. CASE i.op \in ArithOps
  <2> DEFINE a1 == regs[i.reg]
             b1 == regs[i.reg2]
             res == RegOp(i.op, a1, b1)
  <2>1. /\ i.reg \in Regs /\ i.reg2 \in Regs /\ i.op # "LoadCol"
        /\ static[i.reg] # "Unknown" /\ static[i.reg2] # "Unknown"
    BY <1>1, <1>8, InstructionFacts DEF ArithOps, NumericTypes
  <2>2. Numeric(a1) /\ Numeric(b1) /\ a1 = fresh[i.reg] /\ b1 = fresh[i.reg2]
    BY <1>3, <2>1
  <2>3. /\ a1.is_null = TRUE \/ a1.type = static[i.reg]
        /\ b1.is_null = TRUE \/ b1.type = static[i.reg2]
    BY <1>3, <2>1
  <2>4. /\ new = [regs EXCEPT ![i.reg] = res.reg]
        /\ FreshStep(fresh, i, r) = [fresh EXCEPT ![i.reg] = res.reg]
        /\ next = [static EXCEPT ![i.reg] = Wider(static[i.reg], static[i.reg2])]
    BY <1>1, <1>8, <2>1, <2>2 DEF FreshStep, StaticStep
  <2>5. Numeric(res.reg) /\ res.reg \in GoodRegisters
    <3>1. Numeric(res.reg)
      BY <1>8, <2>2, RegOpTyped DEF TypedOutcome
    <3> QED BY <3>1, NumericFacts
  <2>6. ~Fails(regs, i) =>
          res.reg.is_null = TRUE \/ res.reg.type = Wider(static[i.reg], static[i.reg2])
    <3>1. ~Fails(regs, i) => res.ret \notin {-2, -1}
      BY <1>8 DEF Fails
    <3> HIDE DEF a1, b1
    <3>2. res.ret \notin {-2, -1} =>
            \/ res.reg.is_null = TRUE
            \/ a1.is_null = FALSE /\ b1.is_null = FALSE /\ res.reg.type = Wider(a1.type, b1.type)
      BY <1>8, <2>2, RegOpWidens
    <3> HIDE DEF res
    <3> QED BY <2>3, <3>1, <3>2
  <2> HIDE DEF new, a1, b1, res
  <2>7. new \in [Regs -> GoodRegisters]
    BY <2>1, <2>4, <2>5
  <2>8. ASSUME ~Fails(regs, i), NEW x \in Regs, next[x] # "Unknown"
        PROVE  /\ Numeric(new[x]) /\ new[x] = FreshStep(fresh, i, r)[x]
               /\ new[x].is_null = TRUE \/ new[x].type = next[x]
    <3>1. CASE x = i.reg
      BY <1>1, <1>2, <2>1, <2>4, <2>5, <2>6, <2>8, <3>1
    <3>2. CASE x # i.reg
      BY <1>1, <1>2, <1>3, <2>1, <2>4, <2>8, <3>2
    <3> QED BY <3>1, <3>2
  <2> QED BY <2>2, <2>7, <2>8 DEF a1, b1
<1>9. CASE i.op # "LoadCol" /\ i.op \notin ArithOps
  <2>1. new = regs /\ FreshStep(fresh, i, r) = fresh /\ next = static
    BY <1>1, <1>9 DEF FreshStep, StaticStep
  <2> HIDE DEF new
  <2> QED BY <1>3, <1>9, <2>1
<1> QED
  BY <1>7, <1>8, <1>9

\* The parts of the type invariant.
StateOK ==
  /\ prog \in Programs /\ inited \in BOOLEAN /\ fault \in {"none", "abort", "trap"}
  /\ registers \in [Regs -> GoodRegisters]
  /\ rec \in Records \cup {NoRecord} /\ exec_pos \in 1 .. Len(prog.code) + 1
  /\ ~inited => agg_results = <<>> /\ DOMAIN gb_map = {} /\ rec = NoRecord

RowsOK ==
  /\ inited => agg_results \in Rows(prog)
  /\ \A key \in DOMAIN gb_map : gb_map[key] \in Rows(prog)
  /\ ~Grouped => DOMAIN gb_map = {}
  /\ rec # NoRecord /\ Grouped => KeyOf(rec) \in DOMAIN gb_map

FollowsFresh ==
  rec # NoRecord /\ fault = "none" => Follows(prog, registers, rec, exec_pos - 1)

Shape == StateOK /\ RowsOK /\ FollowsFresh

\* What the instruction that runs can rely on.
LEMMA RunningFacts ==
  ASSUME Shape, Running
  PROVE  /\ prog \in Programs /\ rec \in Records /\ inited = TRUE
         /\ exec_pos \in 1 .. Len(prog.code) /\ Instruction \in Instructions
         /\ registers \in [Regs -> GoodRegisters]
         /\ Follows(prog, registers, rec, exec_pos - 1)
<1>1. exec_pos \in 1 .. Len(prog.code) + 1 /\ exec_pos <= Len(prog.code) /\ Len(prog.code) \in Nat
  BY ProgramFacts DEF Shape, StateOK, Running
<1>2. exec_pos \in 1 .. Len(prog.code)
  BY <1>1
<1>3. Instruction \in Instructions
  BY <1>2, ProgramFacts DEF Shape, StateOK, Instruction
<1> QED
  BY <1>2, <1>3 DEF Shape, StateOK, FollowsFresh, Running

\* The row that the record works on, and what an aggregate function finds in it.
LEMMA ResultFacts ==
  ASSUME Shape, Running
  PROVE  /\ Result \in Rows(prog) /\ agg_results \in Rows(prog)
         /\ Instruction.op \in AggFunctions =>
              LET i == Instruction
              IN  /\ i.reg \in Regs /\ i.agg \in DOMAIN prog.agg_types
                  /\ Suits(i.op, registers[i.reg], Result[i.agg])
                  /\ registers[i.reg] = Fresh(prog.code, rec)[exec_pos - 1][i.reg]
                  /\ DeclaredFor(i)
<1> DEFINE i == Instruction
           static == StaticTypes(prog.code)[exec_pos - 1]
<1>1. /\ prog \in Programs /\ rec \in Records /\ inited = TRUE
      /\ exec_pos \in 1 .. Len(prog.code) /\ i \in Instructions
      /\ registers \in [Regs -> GoodRegisters]
      /\ Follows(prog, registers, rec, exec_pos - 1) /\ i = prog.code[exec_pos]
  BY RunningFacts DEF Instruction
<1>2. Result \in Rows(prog) /\ agg_results \in Rows(prog)
  BY <1>1 DEF Shape, RowsOK, Result, Running
<1>3. ASSUME i.op \in AggFunctions
      PROVE  /\ i.reg \in Regs /\ i.agg \in DOMAIN prog.agg_types
             /\ Suits(i.op, registers[i.reg], Result[i.agg])
             /\ registers[i.reg] = Fresh(prog.code, rec)[exec_pos - 1][i.reg]
             /\ DeclaredFor(i)
  <2> HIDE DEF i, static
  <2>1. /\ i.reg \in Regs /\ i.agg \in DOMAIN prog.agg_types /\ i.type = prog.agg_types[i.agg]
        /\ i.op = "Count" => i.type = "BigInt" /\ static[i.reg] # "Unknown"
        /\ i.op # "Count" => i.type = static[i.reg]
        /\ i.type \in NumericTypes
    BY <1>1, <1>3, WellFormedFacts, InstructionFacts DEF static
  <2>2. static[i.reg] # "Unknown"
    BY <2>1 DEF NumericTypes
  <2>3. /\ Numeric(registers[i.reg])
        /\ registers[i.reg].is_null = TRUE \/ registers[i.reg].type = static[i.reg]
        /\ registers[i.reg] = Fresh(prog.code, rec)[exec_pos - 1][i.reg]
    BY <1>1, <2>1, <2>2 DEF Follows, static
  <2>4. /\ Result[i.agg] \in Items /\ Result[i.agg].type = i.type
        /\ agg_results[i.agg].type = i.type
    BY <1>2, <2>1 DEF Rows
  <2>5. Suits(i.op, registers[i.reg], Result[i.agg])
    BY <2>1, <2>3, <2>4 DEF Suits
  <2>6. DeclaredFor(i)
    BY <2>1, <2>4 DEF DeclaredFor
  <2> QED BY <2>1, <2>3, <2>5, <2>6
<1> QED
  BY <1>2, <1>3

\* The inductive invariant holds initially.
LEMMA InitShape == Init => Shape
<1> SUFFICES ASSUME Init PROVE Shape
  OBVIOUS
<1>1. registers \in [Regs -> GoodRegisters]
  BY NumericFacts DEF Init
<1>2. Len(prog.code) \in Nat
  BY ProgramFacts DEF Init
<1>3. DOMAIN gb_map = {} /\ exec_pos \in 1 .. Len(prog.code) + 1
  BY <1>2 DEF Init
<1>4. StateOK
  BY <1>1, <1>3 DEF Init, StateOK
<1>5. RowsOK /\ FollowsFresh
  BY <1>3 DEF Init, RowsOK, FollowsFresh
<1> QED
  BY <1>4, <1>5 DEF Shape

\* A new item, also with an uninitialised flag.
LEMMA NewItemFacts ==
  ASSUME NEW type \in NumericTypes, NEW flag \in BOOLEAN
  PROVE  /\ NewItem(type) \in Items /\ NewItem(type).type = type
         /\ [NewItem(type) EXCEPT !.is_unsigned = flag] \in Items
         /\ [NewItem(type) EXCEPT !.is_unsigned = flag].type = type
         /\ [NewItem(type) EXCEPT !.is_unsigned = flag].inited = FALSE
         /\ [NewItem(type) EXCEPT !.is_unsigned = flag].value = 0
<1>1. 0 \in CellValues(type) /\ CellValues(type) \subseteq Bits \cup Doubles
  BY Ranges DEF CellValues
<1> QED
  BY <1>1 DEF NewItem, Items

\* A row in which one item is replaced by one of its type.
LEMMA RowUpdated ==
  ASSUME NEW p, NEW row \in Rows(p), NEW j \in DOMAIN p.agg_types, NEW item \in Items,
         item.type = row[j].type
  PROVE  [row EXCEPT ![j] = item] \in Rows(p)
  BY DEF Rows

\* The types of the items are numeric.
LEMMA AggTypes ==
  ASSUME NEW p \in Programs
  PROVE  \A j \in DOMAIN p.agg_types : p.agg_types[j] \in NumericTypes
<1>1. p.agg_types \in Seq(NumericTypes)
  BY ProgramFacts DEF ProgramTexts
<1> QED
  BY <1>1

\* A LoadCol forgets what its register held.
LEMMA LoadedForgets ==
  ASSUME NEW reg \in GoodRegisters, NEW i
  PROVE  Loaded(reg, i) = LoadedCell(i, rec)
<1>1. reg \in Registers
  BY DEF GoodRegisters
<1>2. Registers = [type : Types, value : Bits \cup Doubles, is_unsigned : BOOLEAN, is_null : BOOLEAN]
  BY DEF Registers
<1>3. DOMAIN reg = {"type", "value", "is_unsigned", "is_null"}
  BY <1>1, <1>2
<1> DEFINE new == Loaded(reg, i)
<1>4. /\ DOMAIN new = {"type", "value", "is_unsigned", "is_null"}
      /\ new.type = i.type /\ new.value = rec[i.col]
      /\ new.is_unsigned = i.is_unsigned /\ new.is_null = FALSE
  BY <1>3 DEF Loaded, ResetRegister, SetRegisterNull
<1>5. new = [x \in {"type", "value", "is_unsigned", "is_null"} |-> new[x]]
  BY <1>4 DEF Loaded
<1>6. LoadedCell(i, rec) = [x \in {"type", "value", "is_unsigned", "is_null"} |-> LoadedCell(i, rec)[x]]
  BY DEF LoadedCell
<1>7. \A x \in {"type", "value", "is_unsigned", "is_null"} : new[x] = LoadedCell(i, rec)[x]
  <2> DEFINE cell == LoadedCell(i, rec)
  <2>1. /\ cell.type = i.type /\ cell.value = rec[i.col]
        /\ cell.is_unsigned = i.is_unsigned /\ cell.is_null = FALSE
    BY DEF LoadedCell
  <2> HIDE DEF new, cell
  <2>2. \A x \in {"type", "value", "is_unsigned", "is_null"} : new[x] = cell[x]
    BY <1>4, <2>1
  <2> QED BY <2>2 DEF cell
<1> HIDE DEF new
<1>8. new = LoadedCell(i, rec)
  BY <1>5, <1>6, <1>7
<1> QED
  BY <1>8 DEF new

\* What Initialize leaves.
LEMMA InitializedRow ==
  ASSUME Shape, Initialize
  PROVE  /\ agg_results' \in Rows(prog)
         /\ \A j \in DOMAIN prog.agg_types : agg_results'[j].inited = FALSE /\ agg_results'[j].value = 0
<1>1. PICK garbage \in [DOMAIN prog.agg_types -> BOOLEAN] :
        agg_results' = [j \in DOMAIN prog.agg_types |->
                          [NewItem(prog.agg_types[j]) EXCEPT !.is_unsigned = garbage[j]]]
  BY DEF Initialize
<1>2. \A j \in DOMAIN prog.agg_types : prog.agg_types[j] \in NumericTypes /\ garbage[j] \in BOOLEAN
  BY AggTypes DEF Shape, StateOK
<1>3. \A j \in DOMAIN prog.agg_types :
        /\ agg_results'[j] \in Items /\ agg_results'[j].type = prog.agg_types[j]
        /\ agg_results'[j].inited = FALSE /\ agg_results'[j].value = 0
  <2> SUFFICES ASSUME NEW j \in DOMAIN prog.agg_types
               PROVE  /\ agg_results'[j] \in Items /\ agg_results'[j].type = prog.agg_types[j]
                      /\ agg_results'[j].inited = FALSE /\ agg_results'[j].value = 0
    OBVIOUS
  <2> DEFINE type == prog.agg_types[j]
             flag == garbage[j]
  <2>1. type \in NumericTypes /\ flag \in BOOLEAN
    BY <1>2
  <2>2. agg_results'[j] = [NewItem(type) EXCEPT !.is_unsigned = flag]
    BY <1>1
  <2> HIDE DEF type, flag
  <2>3. LET item == [NewItem(type) EXCEPT !.is_unsigned = flag]
        IN  item \in Items /\ item.type = type /\ item.inited = FALSE /\ item.value = 0
    BY <2>1, NewItemFacts
  <2> QED BY <2>2, <2>3 DEF type
<1> QED
  BY <1>1, <1>3 DEF Rows

\* What a new group starts with.
NewRow == [j \in DOMAIN prog.agg_types |-> NewItem(agg_results[j].type)]

\* The items of a new group have the types of the program.
LEMMA NewRowFacts ==
  ASSUME Shape, inited
  PROVE  /\ NewRow \in Rows(prog)
         /\ \A j \in DOMAIN prog.agg_types : NewRow[j] = NewItem(prog.agg_types[j])
<1>1. \A j \in DOMAIN prog.agg_types :
        agg_results[j].type = prog.agg_types[j] /\ prog.agg_types[j] \in NumericTypes
  BY AggTypes DEF Shape, StateOK, RowsOK, Rows
<1>2. \A j \in DOMAIN prog.agg_types :
        /\ NewItem(prog.agg_types[j]) \in Items
        /\ NewItem(prog.agg_types[j]).type = prog.agg_types[j]
  BY <1>1, NewItemFacts
<1>3. NewRow = [j \in DOMAIN prog.agg_types |-> NewItem(prog.agg_types[j])]
  BY <1>1 DEF NewRow
<1> QED
  BY <1>2, <1>3 DEF Rows

\* What an aggregate function leaves in its item, and in no other.
LEMMA AggregateFacts ==
  ASSUME Shape, Aggregate
  PROVE  LET i == Instruction
             res == AggOp(i.op, registers[i.reg], Result[i.agg])
             row == [Result EXCEPT ![i.agg] = res.reg]
         IN  /\ row \in Rows(prog) /\ fault' = FaultOf(res.ret) /\ res.ret \in {-1, 0, 1}
             /\ Grouped => /\ gb_map' = [gb_map EXCEPT ![KeyOf(rec)] = row]
                           /\ agg_results' = agg_results
             /\ ~Grouped => gb_map' = gb_map /\ agg_results' = row
<1> DEFINE i == Instruction
           res == AggOp(i.op, registers[i.reg], Result[i.agg])
           row == [Result EXCEPT ![i.agg] = res.reg]
<1>1. Running /\ i.op \in AggFunctions
  BY DEF Aggregate
<1>2. /\ Result \in Rows(prog) /\ i.agg \in DOMAIN prog.agg_types
      /\ Suits(i.op, registers[i.reg], Result[i.agg]) /\ DeclaredFor(i)
  BY <1>1, ResultFacts
<1>3. SameItem(res, Result[i.agg])
  BY <1>1, <1>2, AggOpTyped
<1>4. /\ fault' = FaultOf(res.ret)
      /\ Grouped => /\ gb_map' = [gb_map EXCEPT ![KeyOf(rec)][i.agg] = res.reg]
                    /\ agg_results' = agg_results
      /\ ~Grouped => gb_map' = gb_map /\ agg_results' = [agg_results EXCEPT ![i.agg] = res.reg]
  BY <1>2 DEF Aggregate
<1>5. row \in Rows(prog)
  <2> HIDE DEF i, res
  <2> QED BY <1>2, <1>3, RowUpdated DEF SameItem
<1>6. /\ Grouped => Result = gb_map[KeyOf(rec)]
      /\ ~Grouped => Result = agg_results
  BY DEF Result
<1> HIDE DEF i, res
<1> QED
  BY <1>3, <1>4, <1>5, <1>6 DEF SameItem, i, res

\* Every step keeps the inductive invariant.
LEMMA NextShape == Shape /\ [Next]_interpVars => Shape'
<1> SUFFICES ASSUME Shape, [Next]_interpVars PROVE Shape'
  OBVIOUS
<1>0. prog \in Programs /\ Len(prog.code) \in Nat
  BY ProgramFacts DEF Shape, StateOK
<1>1. CASE Initialize
  <2>1. rec = NoRecord /\ rec' = NoRecord /\ DOMAIN gb_map = {} /\ gb_map' = gb_map /\ inited' = TRUE
        /\ prog' = prog /\ exec_pos' = exec_pos /\ fault' = fault
    BY <1>1 DEF Initialize, Shape, StateOK
  <2>2. registers' \in [Regs -> GoodRegisters]
    BY <1>1, NumericFacts DEF Initialize
  <2>3. StateOK'
    BY <2>1, <2>2 DEF Shape, StateOK
  <2>4. RowsOK'
    BY <1>1, <2>1, InitializedRow DEF RowsOK, Grouped
  <2>5. FollowsFresh'
    BY <2>1 DEF FollowsFresh
  <2> QED BY <2>3, <2>4, <2>5 DEF Shape
<1>2. ASSUME NEW r \in Records, ProcessRec(r) PROVE Shape'
  <2>1. /\ inited /\ prog' = prog /\ inited' = inited /\ registers' = registers
        /\ agg_results' = agg_results /\ fault' = fault /\ rec' = r /\ exec_pos' = 1
        /\ gb_map' = IF ~Grouped \/ KeyOf(r) \in DOMAIN gb_map THEN gb_map
                     ELSE [key \in DOMAIN gb_map \cup {KeyOf(r)} |->
                             IF key \in DOMAIN gb_map THEN gb_map[key] ELSE NewRow]
    BY <1>2 DEF ProcessRec, NewRow
  <2>2. StateOK'
    <3>1. 1 \in 1 .. Len(prog.code) + 1
      BY <1>0
    <3> QED BY <2>1, <3>1 DEF Shape, StateOK
  <2>3. RowsOK'
    <3>1. Grouped' = Grouped /\ KeyOf(rec)' = KeyOf(r)
      BY <2>1 DEF Grouped, KeyOf
    <3>2. NewRow \in Rows(prog)
      BY <2>1, NewRowFacts
    <3>3. Grouped => KeyOf(r) \in DOMAIN gb_map'
      BY <2>1
    <3>4. \A key \in DOMAIN gb_map' : gb_map'[key] \in Rows(prog)
      BY <2>1, <3>2 DEF Shape, RowsOK
    <3>5. ~Grouped => DOMAIN gb_map' = {}
      BY <2>1 DEF Shape, RowsOK
    <3>6. inited' => agg_results' \in Rows(prog')
      BY <2>1 DEF Shape, RowsOK
    <3> QED BY <2>1, <3>1, <3>3, <3>4, <3>5, <3>6 DEF RowsOK
  <2>4. FollowsFresh'
    <3>1. StaticTypes(prog.code)[0] = [x \in Regs |-> "Unknown"]
      BY ProgramFacts, StaticTypesUnfold DEF Shape, StateOK
    <3>2. exec_pos' - 1 = 0
      BY <2>1
    <3> QED BY <2>1, <3>1, <3>2 DEF FollowsFresh, Follows
  <2> QED BY <2>2, <2>3, <2>4 DEF Shape
<1>3. ASSUME Running, exec_pos' = exec_pos + 1, rec' = rec, prog' = prog, inited' = inited,
             agg_results' = agg_results, gb_map' = gb_map, fault' \in {"none", "abort", "trap"},
             registers' = FreshStep(registers, Instruction, rec)
               \/ (registers' = registers /\ fault' # "none"),
             fault' = "none" => ~Fails(registers, Instruction)
      PROVE  Shape'
  <2>1. /\ rec \in Records /\ exec_pos \in 1 .. Len(prog.code)
        /\ registers \in [Regs -> GoodRegisters]
        /\ Follows(prog, registers, rec, exec_pos - 1)
    BY <1>3, RunningFacts
  <2>2. /\ FreshStep(registers, Instruction, rec) \in [Regs -> GoodRegisters]
        /\ ~Fails(registers, Instruction)
             => Follows(prog, FreshStep(registers, Instruction, rec), rec, exec_pos)
    BY <1>0, <2>1, FollowsStep DEF Instruction
  <2>3. StateOK'
    <3>1. exec_pos + 1 \in 1 .. Len(prog.code) + 1
      BY <1>0, <2>1
    <3> QED BY <1>3, <2>1, <2>2, <3>1 DEF Shape, StateOK
  <2>4. RowsOK'
    BY <1>3 DEF Shape, RowsOK, Grouped, KeyOf
  <2>5. FollowsFresh'
    <3>1. exec_pos' - 1 = exec_pos
      BY <1>3, <2>1
    <3> QED BY <1>3, <2>2, <3>1 DEF FollowsFresh
  <2> QED BY <2>3, <2>4, <2>5 DEF Shape
<1>4. CASE LoadCol
  <2> DEFINE i == Instruction
  <2>1. Running /\ i.op = "LoadCol" /\ i.op \notin ArithOps
    BY <1>4 DEF LoadCol, ArithOps
  <2>2. i.reg \in Regs /\ i.type = Schema[i.col].type
    BY <1>0, <2>1, RunningFacts, WellFormedFacts, InstructionFacts DEF Instruction
  <2>3. registers' = [registers EXCEPT ![i.reg] = Loaded(registers[i.reg], i)] /\ fault' = fault
    BY <1>4, <2>2 DEF LoadCol
  <2>4. Loaded(registers[i.reg], i) = LoadedCell(i, rec)
    BY <2>1, <2>2, RunningFacts, LoadedForgets
  <2>5. registers' = FreshStep(registers, i, rec)
    BY <2>1, <2>3, <2>4 DEF FreshStep
  <2>6. ~Fails(registers, i) /\ fault' \in {"none", "abort", "trap"}
    BY <2>1, <2>3 DEF Fails, Running
  <2> QED BY <1>3, <1>4, <2>1, <2>5, <2>6 DEF LoadCol
<1>5. CASE Calculate
  <2> DEFINE i == Instruction
             res == RegOp(i.op, registers[i.reg], registers[i.reg2])
  <2>1. Running /\ i.op \in ArithOps
    BY <1>5 DEF Calculate
  <2>2. Numeric(registers[i.reg]) /\ Numeric(registers[i.reg2])
    BY <1>0, <2>1, RunningFacts, FollowsStep DEF Instruction
  <2>3. registers' = [registers EXCEPT ![i.reg] = res.reg] /\ fault' = FaultOf(res.ret)
    BY <1>5, <2>2 DEF Calculate, Numeric, NumericTypes
  <2>4. registers' = FreshStep(registers, i, rec)
    BY <2>1, <2>3 DEF FreshStep, ArithOps
  <2>5. fault' \in {"none", "abort", "trap"} /\ (fault' = "none" => ~Fails(registers, i))
    <3> HIDE DEF i
    <3> QED BY <2>3 DEF FaultOf, Fails
  <2> QED BY <1>3, <1>5, <2>1, <2>4, <2>5 DEF Calculate
<1>6. CASE Aggregate
  <2> DEFINE i == Instruction
             res == AggOp(i.op, registers[i.reg], Result[i.agg])
             row == [Result EXCEPT ![i.agg] = res.reg]
  <2>1. /\ row \in Rows(prog) /\ fault' = FaultOf(res.ret) /\ res.ret \in {-1, 0, 1}
        /\ Grouped => gb_map' = [gb_map EXCEPT ![KeyOf(rec)] = row] /\ agg_results' = agg_results
        /\ ~Grouped => gb_map' = gb_map /\ agg_results' = row
    BY <1>6, AggregateFacts
  <2> HIDE DEF i, res, row
  <2>2. /\ Running /\ exec_pos' = exec_pos + 1 /\ rec' = rec /\ prog' = prog /\ inited' = inited
        /\ registers' = registers /\ Instruction.op \in AggFunctions
    BY <1>6 DEF Aggregate
  <2>3. /\ rec \in Records /\ exec_pos \in 1 .. Len(prog.code) /\ inited = TRUE
        /\ registers \in [Regs -> GoodRegisters]
        /\ Follows(prog, registers, rec, exec_pos - 1)
    BY <2>2, RunningFacts
  <2>4. FreshStep(registers, Instruction, rec) = registers /\ ~Fails(registers, Instruction)
    BY <2>2 DEF FreshStep, Fails, ArithOps, AggFunctions
  <2>5. Follows(prog, registers, rec, exec_pos)
    BY <1>0, <2>3, <2>4, FollowsStep DEF Instruction
  <2>6. StateOK'
    <3>1. exec_pos + 1 \in 1 .. Len(prog.code) + 1
      BY <1>0, <2>3
    <3>2. fault' \in {"none", "abort", "trap"}
      BY <2>1 DEF FaultOf
    <3> QED BY <2>2, <2>3, <3>1, <3>2 DEF Shape, StateOK
  <2>7. RowsOK'
    <3>1. Grouped' = Grouped /\ KeyOf(rec)' = KeyOf(rec)
      BY <2>2 DEF Grouped, KeyOf
    <3>2. /\ agg_results \in Rows(prog) /\ (Grouped => KeyOf(rec) \in DOMAIN gb_map)
          /\ \A key \in DOMAIN gb_map : gb_map[key] \in Rows(prog)
          /\ ~Grouped => DOMAIN gb_map = {}
      BY <2>2, <2>3 DEF Shape, RowsOK, Running
    <3>3. CASE Grouped
      BY <2>1, <2>2, <3>1, <3>2, <3>3 DEF RowsOK
    <3>4. CASE ~Grouped
      BY <2>1, <2>2, <3>1, <3>2, <3>4 DEF RowsOK
    <3> QED BY <3>3, <3>4
  <2>8. FollowsFresh'
    <3>1. exec_pos' - 1 = exec_pos
      BY <2>2, <2>3
    <3> QED BY <2>2, <2>5, <3>1 DEF FollowsFresh
  <2> QED BY <2>6, <2>7, <2>8 DEF Shape
<1>7. CASE Ignore
  <2>1. Running /\ Instruction.op \notin {"LoadCol"} \cup ArithOps
    BY <1>7 DEF Ignore
  <2>2. FreshStep(registers, Instruction, rec) = registers /\ ~Fails(registers, Instruction)
    BY <2>1 DEF FreshStep, Fails
  <2>3. fault \in {"none", "abort", "trap"}
    BY DEF Shape, StateOK
  <2> QED BY <1>3, <1>7, <2>1, <2>2, <2>3 DEF Ignore
<1>8. CASE Return
  <2>1. rec' = NoRecord /\ exec_pos' = 1
        /\ UNCHANGED <<prog, inited, registers, agg_results, gb_map, fault>>
    BY <1>8 DEF Return
  <2>2. StateOK'
    <3>1. 1 \in 1 .. Len(prog.code) + 1
      BY <1>0
    <3> QED BY <2>1, <3>1 DEF Shape, StateOK
  <2>3. RowsOK' /\ FollowsFresh'
    BY <2>1 DEF Shape, RowsOK, FollowsFresh, Grouped
  <2> QED BY <2>2, <2>3 DEF Shape
<1>9. CASE UNCHANGED interpVars
  <2>1. UNCHANGED <<prog, inited, registers, agg_results, gb_map, rec, exec_pos, fault>>
    BY <1>9 DEF interpVars
  <2>2. StateOK'
    BY <2>1 DEF Shape, StateOK
  <2>3. RowsOK'
    BY <2>1 DEF Shape, RowsOK, Grouped, KeyOf
  <2>4. FollowsFresh'
    BY <2>1 DEF Shape, FollowsFresh
  <2> QED BY <2>2, <2>3, <2>4 DEF Shape
<1> QED
  BY <1>1, <1>2, <1>4, <1>5, <1>6, <1>7, <1>8, <1>9 DEF Next

\* The invariant of the types, the rows and the loaded registers.
LEMMA ShapeInvariant == Spec => []Shape
  BY InitShape, NextShape, PTL DEF Spec

\* Registers and items hold what their types allow, and rows are complete, for
\* every well-formed program and all records (interpreter.cc:816-1125).
THEOREM InterpTypesCorrect == Spec => []InterpTypeOK
<1>1. Shape => InterpTypeOK
  <2> SUFFICES ASSUME Shape PROVE InterpTypeOK
    OBVIOUS
  <2>1. \A r \in Regs : CellOK(registers[r]) /\ registers[r].is_null \in BOOLEAN
    <3>1. \A x \in GoodRegisters : CellOK(x) /\ x.is_null \in BOOLEAN
      BY DEF GoodRegisters, CellOK, CellValues, Registers
    <3>2. registers \in [Regs -> GoodRegisters]
      BY DEF Shape, StateOK
    <3> QED BY <3>1, <3>2
  <2>2. ASSUME NEW row \in Rows(prog)
        PROVE  DOMAIN row = DOMAIN prog.agg_types
               /\ \A j \in DOMAIN row : CellOK(row[j]) /\ row[j].inited \in BOOLEAN
    <3>1. \A x \in Items : CellOK(x) /\ x.inited \in BOOLEAN
      BY DEF Items, CellOK, CellValues, Types, NumericTypes
    <3>2. row \in [DOMAIN prog.agg_types -> Items]
      BY DEF Rows
    <3> QED BY <3>1, <3>2
  <2>3. ASSUME NEW row \in {agg_results} \cup {gb_map[key] : key \in DOMAIN gb_map}
        PROVE  /\ row # <<>> => DOMAIN row = DOMAIN prog.agg_types
               /\ \A j \in DOMAIN row : CellOK(row[j]) /\ row[j].inited \in BOOLEAN
    <3>1. row \in Rows(prog) \/ row = <<>>
      BY DEF Shape, StateOK, RowsOK
    <3> QED BY <2>2, <3>1
  <2>4. DOMAIN registers = Regs
    BY DEF Shape, StateOK
  <2> QED BY <2>1, <2>3, <2>4 DEF Shape, StateOK, RowsOK, InterpTypeOK
<1> QED
  BY <1>1, ShapeInvariant, PTL

\* The type asserts hold whenever they are reached, for every well-formed
\* program and all records (interpreter.cc:960, 1054, 1078, 1089, 572, 724).
THEOREM AssertsAlwaysHold == Spec => []AssertsHold
<1>1. Shape => AssertsHold
  <2> SUFFICES ASSUME Shape, Running PROVE AssertsHold
    BY DEF AssertsHold
  <2> DEFINE i == Instruction
  <2>1. /\ prog \in Programs /\ exec_pos \in 1 .. Len(prog.code) /\ i = prog.code[exec_pos]
        /\ rec \in Records /\ registers \in [Regs -> GoodRegisters]
        /\ Follows(prog, registers, rec, exec_pos - 1)
    BY RunningFacts DEF Instruction
  <2>2. i.op = "LoadCol" => i.type = Schema[i.col].type
    BY <2>1, WellFormedFacts
  <2>3. i.op \in ArithOps =>
          {registers[i.reg].type, registers[i.reg2].type} \subseteq NumericTypes
    <3>1. i.op \in ArithOps => Numeric(registers[i.reg]) /\ Numeric(registers[i.reg2])
      BY <2>1, FollowsStep
    <3> QED BY <3>1 DEF Numeric, NumericTypes
  <2>4. i.op \in AggFunctions =>
          DeclaredFor(i) /\ Accepts(i.op, registers[i.reg], Result[i.agg])
    BY ResultFacts, NullOperand, OperandAccepted
  <2> HIDE DEF i
  <2> QED BY <2>2, <2>3, <2>4 DEF AssertsHold, ArithOps, AggFunctions, i
<1> QED
  BY <1>1, ShapeInvariant, PTL

-----------------------------------------------------------------------------
(* What an item says of its operands                                         *)

\* The numbers a DOUBLE can be near to: those of every register among them.
Bounded == -DoubleMax .. DoubleMax

\* f gives the operands that an item has seen, by their place among the records.
IsNumber(x) == Value(x) \in Int /\ x.is_unsigned \in BOOLEAN
GivesNumbers(f) ==
  /\ f = [n \in DOMAIN f |-> f[n]] /\ IsFiniteSet(DOMAIN f)
  /\ \A n \in DOMAIN f : IsNumber(f[n])

\* g is f with one operand more.
OneMore(f, g, m, x) ==
  g = [n \in DOMAIN f \cup {m} |-> IF n = m THEN x ELSE f[n]] /\ m \notin DOMAIN f

Values(f) == [n \in DOMAIN f |-> Value(f[n])]

CountIs(item, f) == item.value = Cardinality(DOMAIN f)
SumIs(item, f) ==
  \E total \in [SUBSET DOMAIN f -> Int] :
    Sums(Values(f), total, DOMAIN f) /\ Value(item) = total[DOMAIN f]

Least(v, f) ==
  (\E n \in DOMAIN f : Value(f[n]) = v) /\ \A n \in DOMAIN f : v <= Value(f[n])
Greatest(v, f) ==
  (\E n \in DOMAIN f : Value(f[n]) = v) /\ \A n \in DOMAIN f : v >= Value(f[n])

AllSmall(f) == \A n \in DOMAIN f : Value(f[n]) <= LongLongMax
AllUnsigned(f) == \A n \in DOMAIN f : f[n].is_unsigned = TRUE
AllSigned(f) == \A n \in DOMAIN f : f[n].is_unsigned = FALSE

MinIs(item, f) ==
  /\ item.inited = TRUE <=> DOMAIN f # {}
  /\ DOMAIN f # {} /\ AllSmall(f) => Least(Value(item), f)
MaxIs(item, f, grouped) ==
  /\ item.inited = TRUE <=> DOMAIN f # {}
  /\ DOMAIN f = {} /\ grouped => item.is_unsigned = FALSE
  /\ DOMAIN f # {} /\ AllUnsigned(f) => item.is_unsigned = TRUE /\ Greatest(Value(item), f)
  /\ DOMAIN f # {} /\ grouped /\ AllSigned(f)
       => item.is_unsigned = FALSE /\ Greatest(Value(item), f)

\* What the item of an aggregate function says of its operands.
Summary(fn, item, f, grouped) ==
  /\ fn = "Count" => CountIs(item, f)
  /\ fn = "Sum" /\ item.type = "BigInt" => SumIs(item, f)
  /\ fn = "Min" /\ item.type = "BigInt" => MinIs(item, f)
  /\ fn = "Max" /\ item.type = "BigInt" => MaxIs(item, f, grouped)

\* A new item has seen nothing.
LEMMA SummaryOfNone ==
  ASSUME NEW fn, NEW item, item.value = 0, item.inited = FALSE,
         NEW f, GivesNumbers(f), DOMAIN f = {}, NEW grouped, grouped => item.is_unsigned = FALSE
  PROVE  Summary(fn, item, f, grouped)
<1>1. CountIs(item, f)
  BY FS_EmptySet DEF CountIs
<1>2. SumIs(item, f)
  <2>1. Values(f) \in [DOMAIN f -> Int]
    BY DEF Values, GivesNumbers, IsNumber
  <2>2. PICK total \in [SUBSET DOMAIN f -> Int] : Sums(Values(f), total, DOMAIN f)
    BY <2>1, SumsExist DEF GivesNumbers
  <2>3. total[DOMAIN f] = 0
    <3>1. Splits(Values(f), total, DOMAIN f)
      BY <2>1, <2>2, SumsOfOthers DEF GivesNumbers
    <3> QED BY <3>1 DEF Splits
  <2>4. Value(item) = 0
    BY Ranges DEF Value, Signed
  <2> QED BY <2>2, <2>3, <2>4 DEF SumIs
<1>3. MinIs(item, f) /\ MaxIs(item, f, grouped)
  BY DEF MinIs, MaxIs
<1> QED
  BY <1>1, <1>2, <1>3 DEF Summary

\* One operand more leaves numbers.
LEMMA OneMoreGiven ==
  ASSUME NEW f, GivesNumbers(f), NEW x, IsNumber(x), NEW g, NEW m, OneMore(f, g, m, x)
  PROVE  GivesNumbers(g)
<1>1. /\ DOMAIN g = DOMAIN f \cup {m} /\ g[m] = x /\ g = [n \in DOMAIN g |-> g[n]]
      /\ \A n \in DOMAIN f : g[n] = f[n]
  BY DEF OneMore
<1>2. IsFiniteSet(DOMAIN g)
  BY <1>1, FS_AddElement DEF OneMore, GivesNumbers
<1>3. \A n \in DOMAIN g : IsNumber(g[n])
  BY <1>1 DEF GivesNumbers
<1> QED
  BY <1>1, <1>2, <1>3 DEF GivesNumbers

\* One operand more is one more to count.
LEMMA OneMoreCount ==
  ASSUME NEW f, GivesNumbers(f), NEW x, NEW g, NEW m, OneMore(f, g, m, x)
  PROVE  Cardinality(DOMAIN g) = Cardinality(DOMAIN f) + 1
<1>1. DOMAIN g = DOMAIN f \cup {m} /\ m \notin DOMAIN f /\ IsFiniteSet(DOMAIN f)
  BY DEF OneMore, GivesNumbers
<1> QED
  BY <1>1, FS_AddElement

\* The sum grows by the operand that is added.
LEMMA SumOneMore ==
  ASSUME NEW f, GivesNumbers(f), NEW x, IsNumber(x),
         NEW g, NEW m, OneMore(f, g, m, x),
         NEW item, SumIs(item, f), NEW y, Value(y) = Value(item) + Value(x)
  PROVE  SumIs(y, g)
<1> DEFINE S == DOMAIN f
           T == DOMAIN g
           F == Values(f)
           G == Values(g)
<1>0. GivesNumbers(g)
  BY OneMoreGiven
<1>1. /\ GivesNumbers(g) /\ T = S \cup {m} /\ g[m] = x /\ T \ {m} = S
      /\ \A n \in S : g[n] = f[n]
  BY <1>0 DEF OneMore
<1>2. F \in [S -> Int] /\ G \in [T -> Int]
  BY <1>1 DEF GivesNumbers, IsNumber, Values
<1>3. G[m] = Value(x) /\ \A n \in S : F[n] = G[n]
  BY <1>1 DEF Values
<1>4. IsFiniteSet(S) /\ IsFiniteSet(T) /\ S \subseteq T /\ m \in T
  BY <1>1 DEF GivesNumbers
<1>5. PICK total \in [SUBSET S -> Int] : Sums(F, total, S) /\ Value(item) = total[S]
  BY DEF SumIs
<1> HIDE DEF S, T, F, G
<1>6. PICK more \in [SUBSET T -> Int] : Sums(G, more, T)
  BY <1>2, <1>4, SumsExist
<1>7. total[S] = more[S]
  BY <1>2, <1>3, <1>4, <1>5, <1>6, SumsAgree
<1>8. more[T] = G[m] + more[T \ {m}]
  <2>1. Splits(G, more, T)
    BY <1>2, <1>4, <1>6, SumsOfOthers
  <2> QED BY <1>4, <2>1 DEF Splits
<1>9. Value(y) = more[T]
  <2>1. Value(x) \in Int /\ total[S] \in Int /\ more[S] = total[S] /\ T \ {m} = S
    BY <1>1, <1>5, <1>7 DEF S, T, IsNumber
  <2>2. Value(y) = total[S] + Value(x)
    BY <1>5
  <2>3. more[T] = Value(x) + total[S]
    BY <1>3, <1>8, <2>1
  <2> QED BY <2>1, <2>2, <2>3
<1> QED
  BY <1>6, <1>9 DEF SumIs, T, G

\* The least and the greatest of one operand more.
LEMMA LeastOneMore ==
  ASSUME NEW f, GivesNumbers(f), NEW x, IsNumber(x),
         NEW g, NEW m, OneMore(f, g, m, x), NEW v, NEW w, NEW started \in BOOLEAN,
         started = TRUE <=> DOMAIN f # {}
  PROVE  /\ /\ started = TRUE => Least(v, f)
            /\ w = IF started /\ v <= Value(x) THEN v ELSE Value(x)
            => Least(w, g)
         /\ /\ started = TRUE => Greatest(v, f)
            /\ w = IF started /\ v >= Value(x) THEN v ELSE Value(x)
            => Greatest(w, g)
<1>0. DOMAIN g = DOMAIN f \cup {m} /\ g[m] = x /\ \A n \in DOMAIN f : g[n] = f[n]
  BY DEF OneMore
<1>1. /\ DOMAIN g = DOMAIN f \cup {m} /\ g[m] = x /\ \A n \in DOMAIN f : g[n] = f[n]
      /\ \A n \in DOMAIN f : Value(f[n]) \in Int
  BY <1>0 DEF GivesNumbers, IsNumber
<1>2. Value(x) \in Int /\ \A n \in DOMAIN f : Value(g[n]) = Value(f[n])
  BY <1>1 DEF IsNumber
<1>3. ASSUME started = TRUE => Least(v, f),
             w = IF started /\ v <= Value(x) THEN v ELSE Value(x)
      PROVE  Least(w, g)
  <2>1. CASE started = FALSE
    <3>1. DOMAIN g = {m} /\ w = Value(g[m])
      BY <1>1, <1>3, <2>1
    <3> QED BY <1>1, <1>2, <3>1 DEF Least
  <2>2. CASE started = TRUE
    <3>1. PICK n \in DOMAIN f : Value(f[n]) = v
      BY <1>3, <2>2 DEF Least
    <3>2. v \in Int /\ \A k \in DOMAIN f : v <= Value(f[k])
      BY <1>1, <1>3, <2>2, <3>1 DEF Least
    <3>3. CASE v <= Value(x)
      <4>1. w = v
        BY <1>3, <2>2, <3>3
      <4>2. Value(g[n]) = w /\ n \in DOMAIN g
        BY <1>1, <1>2, <3>1, <4>1
      <4>3. \A k \in DOMAIN g : w <= Value(g[k])
        BY <1>1, <1>2, <3>2, <3>3, <4>1
      <4> QED BY <4>2, <4>3 DEF Least
    <3>4. CASE ~(v <= Value(x))
      <4>1. w = Value(x) /\ Value(x) <= v
        BY <1>3, <2>2, <3>2, <3>4
      <4>2. ASSUME NEW k \in DOMAIN f PROVE w <= Value(f[k])
        <5>1. v <= Value(f[k]) /\ Value(f[k]) \in Int /\ v \in Int /\ Value(x) \in Int
          BY <1>1, <1>2, <3>2
        <5> QED BY <4>1, <5>1
      <4>3. \A k \in DOMAIN g : w <= Value(g[k])
        BY <1>1, <1>2, <4>1, <4>2
      <4> QED BY <1>1, <4>1, <4>3 DEF Least
    <3> QED BY <3>3, <3>4
  <2> QED BY <2>1, <2>2
<1>4. ASSUME started = TRUE => Greatest(v, f),
             w = IF started /\ v >= Value(x) THEN v ELSE Value(x)
      PROVE  Greatest(w, g)
  <2>1. CASE started = FALSE
    <3>1. DOMAIN g = {m} /\ w = Value(g[m])
      BY <1>1, <1>4, <2>1
    <3> QED BY <1>1, <1>2, <3>1 DEF Greatest
  <2>2. CASE started = TRUE
    <3>1. PICK n \in DOMAIN f : Value(f[n]) = v
      BY <1>4, <2>2 DEF Greatest
    <3>2. v \in Int /\ \A k \in DOMAIN f : v >= Value(f[k])
      BY <1>1, <1>4, <2>2, <3>1 DEF Greatest
    <3>3. CASE v >= Value(x)
      <4>1. w = v
        BY <1>4, <2>2, <3>3
      <4>2. Value(g[n]) = w /\ n \in DOMAIN g
        BY <1>1, <1>2, <3>1, <4>1
      <4>3. \A k \in DOMAIN g : w >= Value(g[k])
        BY <1>1, <1>2, <3>2, <3>3, <4>1
      <4> QED BY <4>2, <4>3 DEF Greatest
    <3>4. CASE ~(v >= Value(x))
      <4>1. w = Value(x) /\ Value(x) >= v
        BY <1>4, <2>2, <3>2, <3>4
      <4>2. ASSUME NEW k \in DOMAIN f PROVE w >= Value(f[k])
        <5>1. v >= Value(f[k]) /\ Value(f[k]) \in Int /\ v \in Int /\ Value(x) \in Int
          BY <1>1, <1>2, <3>2
        <5> QED BY <4>1, <5>1
      <4>3. \A k \in DOMAIN g : w >= Value(g[k])
        BY <1>1, <1>2, <4>1, <4>2
      <4> QED BY <1>1, <4>1, <4>3 DEF Greatest
    <3> QED BY <3>3, <3>4
  <2> QED BY <2>1, <2>2
<1> QED
  BY <1>3, <1>4

\* An aggregate function that does not fail adds its operand to the summary.
LEMMA SummaryStep ==
  ASSUME NEW fn \in AggFunctions, NEW x, NEW item, Suits(fn, x, item), ~x.is_null,
         NEW f, GivesNumbers(f), NEW g, NEW m, OneMore(f, g, m, x), NEW grouped \in BOOLEAN,
         Summary(fn, item, f, grouped), Cardinality(DOMAIN f) + 1 < Word,
         AggOp(fn, x, item).ret # -1
  PROVE  Summary(fn, AggOp(fn, x, item).reg, g, grouped)
<1> DEFINE res == AggOp(fn, x, item)
<1>1. SameItem(res, item) /\ item \in Items
  BY AggOpTyped DEF Suits
<1>2. res.ret >= 0 /\ res.reg.type = item.type
  BY <1>1 DEF SameItem
<1>3. IsNumber(x)
  <2>1. x.is_unsigned \in BOOLEAN /\ x.type \in {"BigInt", "Double"}
    BY DEF Suits, Numeric, WellTyped, Registers
  <2>2. x.type = "Double" => Value(x) \in Int
    BY Ranges DEF Suits, Numeric, WellTyped, Doubles, Value
  <2>3. x.type = "BigInt" => Value(x) \in Int
    <3>1. x.type = "BigInt" => x.value \in Bits /\ Value(x) = Number(x.value, x.is_unsigned)
      BY DEF Suits, Numeric, WellTyped, Value, Number
    <3>2. x.is_unsigned = TRUE \/ x.is_unsigned = FALSE
      BY <2>1
    <3> QED BY <3>1, <3>2, NumberInt
  <2> QED BY <2>1, <2>2, <2>3 DEF IsNumber
<1>4. /\ DOMAIN g = DOMAIN f \cup {m} /\ g[m] = x /\ DOMAIN g # {}
      /\ \A n \in DOMAIN f : g[n] = f[n]
  BY DEF OneMore
<1>9. Cardinality(DOMAIN g) = Cardinality(DOMAIN f) + 1
  BY OneMoreCount
<1>5. CASE fn = "Count"
  <2>1. item.value + 1 < Word /\ item.value = Cardinality(DOMAIN f)
    BY <1>5 DEF Summary, CountIs
  <2>2. res.reg.value = item.value + 1
    BY <1>5, <2>1, CountStep
  <2> HIDE DEF res
  <2>3. CountIs(res.reg, g)
    BY <1>9, <2>1, <2>2 DEF CountIs
  <2>4. Summary(fn, res.reg, g, grouped)
    BY <1>5, <2>3 DEF Summary
  <2> QED BY <2>4 DEF res
<1>6. CASE fn = "Sum"
  <2>1. item.type = "BigInt" => Value(res.reg) = Value(item) + Value(x)
    BY <1>2, <1>6, SumStep
  <2>2. item.type = "BigInt" => SumIs(item, f)
    BY <1>6 DEF Summary
  <2> HIDE DEF res
  <2>3. item.type = "BigInt" => SumIs(res.reg, g)
    BY <1>3, <2>1, <2>2, SumOneMore
  <2>4. Summary(fn, res.reg, g, grouped)
    BY <1>2, <1>6, <2>3 DEF Summary
  <2> QED BY <2>4 DEF res
<1>7. CASE fn = "Min"
  <2> SUFFICES ASSUME item.type = "BigInt" PROVE MinIs(res.reg, g)
    BY <1>2, <1>7 DEF Summary
  <2>1. x.type = "BigInt" /\ MinIs(item, f)
    BY <1>7 DEF Suits, Summary
  <2> DEFINE w == Value(res.reg)
             v == Value(item)
  <2>2. /\ res.reg.inited = TRUE
        /\ Value(x) <= LongLongMax => w = IF item.inited /\ v <= Value(x) THEN v ELSE Value(x)
    BY <1>7, <2>1, MinIntStep
  <2>3. item.inited \in BOOLEAN /\ (item.inited = TRUE <=> DOMAIN f # {})
    BY <1>1, <2>1, ItemFacts DEF MinIs
  <2>4. AllSmall(g) => AllSmall(f) /\ Value(x) <= LongLongMax
    BY <1>4 DEF AllSmall
  <2>5. item.inited = TRUE /\ AllSmall(f) => Least(v, f)
    BY <2>1, <2>3 DEF MinIs
  <2> HIDE DEF w, v
  <2>6. AllSmall(g) => Least(w, g)
    <3> SUFFICES ASSUME AllSmall(g) PROVE Least(w, g)
      OBVIOUS
    <3>1. /\ item.inited = TRUE => Least(v, f)
          /\ w = IF item.inited /\ v <= Value(x) THEN v ELSE Value(x)
      BY <2>2, <2>4, <2>5
    <3> QED BY <1>3, <2>3, <3>1, LeastOneMore
  <2> QED BY <1>4, <2>2, <2>6 DEF MinIs, w
<1>8. CASE fn = "Max"
  <2> SUFFICES ASSUME item.type = "BigInt" PROVE MaxIs(res.reg, g, grouped)
    BY <1>2, <1>8 DEF Summary
  <2>1. x.type = "BigInt" /\ MaxIs(item, f, grouped)
    BY <1>8 DEF Suits, Summary
  <2> DEFINE w == Value(res.reg)
             v == Value(item)
             flag == res.reg.is_unsigned
  <2>2. /\ res.reg.inited = TRUE
        /\ Alike(x, item) => /\ flag = x.is_unsigned
                             /\ w = IF item.inited /\ v >= Value(x) THEN v ELSE Value(x)
    BY <1>8, <2>1, MaxIntStep
  <2>3. item.inited \in BOOLEAN /\ (item.inited = TRUE <=> DOMAIN f # {})
    BY <1>1, <2>1, ItemFacts DEF MaxIs
  <2>4. /\ AllUnsigned(g) => AllUnsigned(f) /\ x.is_unsigned = TRUE
        /\ AllSigned(g) => AllSigned(f) /\ x.is_unsigned = FALSE
    BY <1>4 DEF AllUnsigned, AllSigned
  <2>5. /\ item.inited = TRUE /\ AllUnsigned(f) => item.is_unsigned = TRUE /\ Greatest(v, f)
        /\ item.inited = TRUE /\ grouped /\ AllSigned(f)
             => item.is_unsigned = FALSE /\ Greatest(v, f)
        /\ item.inited = FALSE /\ grouped => item.is_unsigned = FALSE
    BY <2>1, <2>3 DEF MaxIs
  <2> HIDE DEF w, v, flag
  <2>6. AllUnsigned(g) => flag = TRUE /\ Greatest(w, g)
    <3> SUFFICES ASSUME AllUnsigned(g) PROVE flag = TRUE /\ Greatest(w, g)
      OBVIOUS
    <3>1. Alike(x, item)
      BY <2>3, <2>4, <2>5 DEF Alike
    <3>2. /\ item.inited = TRUE => Greatest(v, f)
          /\ w = IF item.inited /\ v >= Value(x) THEN v ELSE Value(x)
          /\ flag = TRUE
      BY <2>2, <2>4, <2>5, <3>1
    <3> QED BY <1>3, <2>3, <3>2, LeastOneMore
  <2>7. grouped /\ AllSigned(g) => flag = FALSE /\ Greatest(w, g)
    <3> SUFFICES ASSUME grouped, AllSigned(g) PROVE flag = FALSE /\ Greatest(w, g)
      OBVIOUS
    <3>1. Alike(x, item)
      BY <2>3, <2>4, <2>5 DEF Alike
    <3>2. /\ item.inited = TRUE => Greatest(v, f)
          /\ w = IF item.inited /\ v >= Value(x) THEN v ELSE Value(x)
          /\ flag = FALSE
      BY <2>2, <2>4, <2>5, <3>1
    <3> QED BY <1>3, <2>3, <3>2, LeastOneMore
  <2> QED BY <1>4, <2>2, <2>6, <2>7 DEF MaxIs, w, flag
<1> QED
  BY <1>5, <1>6, <1>7, <1>8 DEF AggFunctions

-----------------------------------------------------------------------------
(* The records and the items                                                 *)

\* The operand that instruction k of p has for record r in a fresh interpreter.
OperandOf(p, r, k) == Fresh(p.code, r)[k - 1][p.code[k].reg]

Belongs(p, r, key) == p.gb_cols # <<>> => SubSeq(r, 1, Len(key)) = key

\* The operands of instruction k for the records of a group that are not NULL.
GivenIn(p, log, key, k) ==
  {n \in DOMAIN log : Belongs(p, log[n], key) /\ ~OperandOf(p, log[n], k).is_null}
Inputs(p, log, key, k) == [n \in GivenIn(p, log, key, k) |-> OperandOf(p, log[n], k)]

\* The instructions with an aggregate function and an item of their own.
OwnItem(p) ==
  {k \in DOMAIN p.code :
     /\ p.code[k].op \in AggFunctions
     /\ \A m \in DOMAIN p.code :
          p.code[m].op \in AggFunctions /\ p.code[m].agg = p.code[k].agg => m = k}

\* An operand is a number.
LEMMA OperandFacts ==
  ASSUME NEW p \in Programs, NEW r \in Records, NEW k \in DOMAIN p.code,
         p.code[k].op \in AggFunctions
  PROVE  /\ IsNumber(OperandOf(p, r, k)) /\ OperandOf(p, r, k).is_null \in BOOLEAN
         /\ Value(OperandOf(p, r, k)) \in Bounded
<1> DEFINE i == p.code[k]
           static == StaticTypes(p.code)[k - 1]
           x == OperandOf(p, r, k)
<1>1. k \in 1 .. Len(p.code) /\ k - 1 \in 0 .. Len(p.code) /\ i \in Instructions
  BY ProgramFacts
<1>2. i.reg \in Regs /\ static[i.reg] # "Unknown"
  BY <1>1, WellFormedFacts, InstructionFacts DEF NumericTypes
<1>3. FreshGood(p, Fresh(p.code, r)[k - 1], k - 1)
  BY <1>1, FreshUnfold
<1>4. x \in GoodRegisters /\ x.type \in NumericTypes
  BY <1>2, <1>3 DEF FreshGood, OperandOf
<1> HIDE DEF x
<1>5. Numeric(x)
  BY <1>4, NumericFacts
<1>6. x.is_unsigned \in BOOLEAN /\ x.is_null \in BOOLEAN /\ x.type \in {"BigInt", "Double"}
  BY <1>5 DEF Numeric, WellTyped, Registers
<1>7. Value(x) \in Bounded
  <2>1. CASE x.type = "Double"
    BY <1>5, <2>1 DEF Numeric, WellTyped, Value, Doubles, Bounded
  <2>2. CASE x.type = "BigInt"
    <3>1. x.value \in Bits /\ Value(x) = IF x.is_unsigned THEN x.value ELSE Signed(x.value)
      BY <1>5, <2>2 DEF Numeric, WellTyped, Value
    <3>2. Signed(x.value) \in Int /\ Signed(x.value) <= LongLongMax /\ -LongLongMax - 1 <= Signed(x.value)
      BY <3>1, SignedFacts
    <3>3. DoubleMax \in Nat /\ DoubleMax >= 2 * LongLongMax + 1
      BY DoubleAssumption, Ranges
    <3>4. Signed(x.value) \in Bounded /\ x.value \in Bounded
      <4>1. x.value \in Int /\ 0 <= x.value /\ x.value <= 2 * LongLongMax + 1 /\ LongLongMax \in Nat
        BY <3>1, NumberFacts
      <4>2. \A n \in Int : -DoubleMax <= n /\ n <= DoubleMax => n \in Bounded
        BY <3>3 DEF Bounded
      <4>3. /\ -DoubleMax <= x.value /\ x.value <= DoubleMax
            /\ -DoubleMax <= Signed(x.value) /\ Signed(x.value) <= DoubleMax
        BY <3>2, <3>3, <4>1
      <4> QED BY <3>2, <4>1, <4>2, <4>3
    <3> QED BY <1>6, <3>1, <3>4
  <2> QED BY <1>6, <2>1, <2>2
<1>8. Value(x) \in Int
  BY <1>7, Ranges DEF Bounded
<1> QED
  BY <1>6, <1>7, <1>8 DEF IsNumber, x

\* A group has no more operands than there are records.
LEMMA InputsGiven ==
  ASSUME NEW p \in Programs, NEW log \in Seq(Records), NEW key, NEW k \in DOMAIN p.code,
         p.code[k].op \in AggFunctions
  PROVE  /\ GivesNumbers(Inputs(p, log, key, k))
         /\ Cardinality(DOMAIN Inputs(p, log, key, k)) <= Len(log)
<1>1. DOMAIN Inputs(p, log, key, k) \subseteq 1 .. Len(log)
  BY DEF Inputs, GivenIn
<1>2. IsFiniteSet(1 .. Len(log)) /\ Cardinality(1 .. Len(log)) = Len(log)
  <2> DEFINE n == Len(log)
  <2>1. n \in Int /\ 1 \in Int /\ 0 <= n
    OBVIOUS
  <2> HIDE DEF n
  <2>2. IsFiniteSet(1 .. n) /\ Cardinality(1 .. n) = IF 1 > n THEN 0 ELSE n - 1 + 1
    BY <2>1, FS_Interval
  <2>3. (IF 1 > n THEN 0 ELSE n - 1 + 1) = n
    BY <2>1
  <2> QED BY <2>2, <2>3 DEF n
<1>3. /\ IsFiniteSet(DOMAIN Inputs(p, log, key, k))
      /\ Cardinality(DOMAIN Inputs(p, log, key, k)) <= Len(log)
  BY <1>1, <1>2, FS_Subset
<1>4. \A n \in DOMAIN Inputs(p, log, key, k) : IsNumber(Inputs(p, log, key, k)[n])
  BY OperandFacts DEF Inputs, GivenIn
<1> QED
  BY <1>3, <1>4 DEF GivesNumbers, Inputs

\* One record more that is of another group, or whose operand is NULL.
LEMMA InputsKept ==
  ASSUME NEW p, NEW log \in Seq(Records), NEW key, NEW k, NEW r \in Records,
         ~Belongs(p, r, key) \/ OperandOf(p, r, k).is_null
  PROVE  Inputs(p, Append(log, r), key, k) = Inputs(p, log, key, k)
<1> DEFINE new == Append(log, r)
<1>1. /\ DOMAIN new = 1 .. Len(log) + 1 /\ DOMAIN log = 1 .. Len(log) /\ Len(log) \in Nat
      /\ \A n \in 1 .. Len(log) : new[n] = log[n]
      /\ new[Len(log) + 1] = r
  OBVIOUS
<1>2. \A n \in DOMAIN new : n = Len(log) + 1 \/ n \in DOMAIN log
  BY <1>1
<1>3. DOMAIN log \subseteq DOMAIN new
  BY <1>1
<1> HIDE DEF new
<1>4. GivenIn(p, new, key, k) = GivenIn(p, log, key, k)
  BY <1>1, <1>2, <1>3 DEF GivenIn
<1>5. \A n \in GivenIn(p, log, key, k) : new[n] = log[n]
  BY <1>1 DEF GivenIn
<1>6. Inputs(p, new, key, k) = Inputs(p, log, key, k)
  BY <1>4, <1>5 DEF Inputs
<1> QED
  BY <1>6 DEF new

\* One record more of this group with an operand.
LEMMA InputsMore ==
  ASSUME NEW p, NEW log \in Seq(Records), NEW key, NEW k, NEW r \in Records,
         Belongs(p, r, key), ~OperandOf(p, r, k).is_null
  PROVE  OneMore(Inputs(p, log, key, k), Inputs(p, Append(log, r), key, k), Len(log) + 1,
                 OperandOf(p, r, k))
<1> DEFINE new == Append(log, r)
           m == Len(log) + 1
<1>1. /\ DOMAIN new = 1 .. Len(log) + 1 /\ DOMAIN log = 1 .. Len(log) /\ Len(log) \in Nat
      /\ \A n \in 1 .. Len(log) : new[n] = log[n]
      /\ new[m] = r
  OBVIOUS
<1>2. DOMAIN new = DOMAIN log \cup {m} /\ m \notin DOMAIN log
  BY <1>1
<1> HIDE DEF new, m
<1>3. GivenIn(p, new, key, k) = GivenIn(p, log, key, k) \cup {m} /\ m \notin GivenIn(p, log, key, k)
  BY <1>1, <1>2 DEF GivenIn
<1>4. \A n \in GivenIn(p, log, key, k) : new[n] = log[n] /\ n # m
  BY <1>1, <1>3 DEF GivenIn
<1>5. OneMore(Inputs(p, log, key, k), Inputs(p, new, key, k), m, OperandOf(p, r, k))
  BY <1>1, <1>3, <1>4 DEF Inputs, OneMore
<1> QED
  BY <1>5 DEF new, m

\* The groups of the records are in the map, and their number is bounded.
LogOK ==
  /\ processed \in Seq(Records) /\ Len(processed) <= MaxRecords
  /\ rec # NoRecord => Len(processed) < MaxRecords
  /\ ~inited => processed = <<>>
  /\ Grouped => \A n \in DOMAIN processed : KeyOf(processed[n]) \in DOMAIN gb_map
  /\ \A key \in DOMAIN gb_map : \E r \in Records : key = KeyOf(r)

\* The records that instruction k has seen.
SoFar(k) == IF rec # NoRecord /\ k < exec_pos THEN Append(processed, rec) ELSE processed

Summarised(key, k, log) ==
  Summary(prog.code[k].op, Item(key, prog.code[k].agg), Inputs(prog, log, key, k), Grouped)

ItemsExact ==
  inited /\ fault = "none" =>
    \A key \in Keys : \A k \in OwnItem(prog) : Summarised(key, k, SoFar(k))

\* A key is what the first columns of its records are.
LEMMA KeyFacts ==
  ASSUME NEW r \in Records, prog \in Programs
  PROVE  KeyOf(r) = SubSeq(r, 1, Len(prog.gb_cols)) /\ Len(KeyOf(r)) = Len(prog.gb_cols)
<1>1. prog.gb_cols \in Seq(DOMAIN Schema) /\ Len(prog.gb_cols) <= Len(Schema)
  BY ProgramFacts DEF WellFormed, ProgramTexts
<1>2. Len(prog.gb_cols) \in Nat
  BY <1>1
<1>3. KeyOf(r) = [c \in 1 .. Len(prog.gb_cols) |-> r[c]]
  BY DEF KeyOf
<1>4. KeyOf(r) = SubSeq(r, 1, Len(prog.gb_cols))
  BY <1>2, <1>3
<1>5. Len(KeyOf(r)) = Len(prog.gb_cols)
  BY <1>2, <1>3
<1> QED
  BY <1>4, <1>5

\* A record belongs to the group with its own key.
LEMMA BelongsFacts ==
  ASSUME Shape, LogOK, NEW key \in Keys, NEW r \in Records
  PROVE  Belongs(prog, r, key) <=> (Grouped => key = KeyOf(r))
<1>1. CASE ~Grouped
  BY <1>1 DEF Belongs, Grouped
<1>2. CASE Grouped
  <2>1. PICK s \in Records : key = KeyOf(s)
    BY <1>2 DEF Keys, LogOK
  <2>2. prog \in Programs
    BY DEF Shape, StateOK
  <2>3. Len(key) = Len(prog.gb_cols) /\ KeyOf(r) = SubSeq(r, 1, Len(prog.gb_cols))
    BY <2>1, <2>2, KeyFacts
  <2> QED BY <1>2, <2>3 DEF Belongs, Grouped
<1> QED
  BY <1>1, <1>2

\* Every step keeps the groups of the records in the map.
LEMMA NextLog == Shape /\ LogOK /\ [Next]_interpVars => LogOK'
<1> SUFFICES ASSUME Shape, LogOK, [Next]_interpVars PROVE LogOK'
  OBVIOUS
<1>0. /\ MaxRecords \in Nat /\ Len(processed) \in Nat /\ processed \in Seq(Records)
  BY SizesAssumption, Ranges DEF LogOK
<1>1. ASSUME UNCHANGED <<prog, processed>>, inited => inited', DOMAIN gb_map' = DOMAIN gb_map,
             rec' # NoRecord => rec # NoRecord
      PROVE  LogOK'
  <2>1. /\ processed' \in Seq(Records) /\ Len(processed') <= MaxRecords
        /\ rec' # NoRecord => Len(processed') < MaxRecords
        /\ ~inited' => processed' = <<>>
    BY <1>1 DEF LogOK
  <2>2. (Grouped => \A n \in DOMAIN processed : KeyOf(processed[n]) \in DOMAIN gb_map)'
    BY <1>1 DEF LogOK, KeyOf, Grouped
  <2>3. (\A key \in DOMAIN gb_map : \E r \in Records : key = KeyOf(r))'
    BY <1>1 DEF LogOK, KeyOf
  <2> QED BY <2>1, <2>2, <2>3 DEF LogOK
<1>2. CASE Initialize
  BY <1>1, <1>2 DEF Initialize
<1>3. ASSUME NEW r \in Records, ProcessRec(r) PROVE LogOK'
  <2>1. /\ inited /\ UNCHANGED <<prog, processed, inited>> /\ rec' = r
        /\ Len(processed) < MaxRecords
        /\ DOMAIN gb_map \subseteq DOMAIN gb_map'
        /\ DOMAIN gb_map' \subseteq DOMAIN gb_map \cup {KeyOf(r)}
    BY <1>3 DEF ProcessRec
  <2>2. Grouped' = Grouped /\ \A s : KeyOf(s)' = KeyOf(s)
    BY <2>1 DEF Grouped, KeyOf
  <2>3. \A n \in DOMAIN processed : processed[n]' = processed[n]
    BY <2>1
  <2>4. (Grouped => \A n \in DOMAIN processed : KeyOf(processed[n]) \in DOMAIN gb_map)'
    BY <2>1, <2>2 DEF LogOK, KeyOf, Grouped
  <2>5. (\A key \in DOMAIN gb_map : \E s \in Records : key = KeyOf(s))'
    BY <2>1, <2>2 DEF LogOK, KeyOf
  <2> QED BY <2>1, <2>4, <2>5 DEF LogOK
<1>4. CASE LoadCol
  BY <1>1, <1>4 DEF LoadCol
<1>5. CASE Calculate
  BY <1>1, <1>5 DEF Calculate
<1>6. CASE Aggregate
  <2>1. UNCHANGED <<prog, processed, inited, rec>>
    BY <1>6 DEF Aggregate
  <2>2. DOMAIN gb_map' = DOMAIN gb_map
    BY <1>6 DEF Aggregate
  <2> QED BY <1>1, <2>1, <2>2
<1>7. CASE Ignore
  BY <1>1, <1>7 DEF Ignore
<1>8. CASE Return
  <2>1. /\ rec # NoRecord /\ rec' = NoRecord /\ processed' = Append(processed, rec)
        /\ UNCHANGED <<prog, inited, gb_map>>
    BY <1>8 DEF Return
  <2>2. rec \in Records /\ inited = TRUE
    BY <2>1 DEF Shape, StateOK
  <2>3. /\ processed' \in Seq(Records) /\ Len(processed') = Len(processed) + 1
        /\ \A n \in DOMAIN processed' : processed'[n] = rec \/ (n \in DOMAIN processed /\ processed'[n] = processed[n])
    BY <1>0, <2>1, <2>2
  <2>4. Len(processed') <= MaxRecords
    <3>1. Len(processed) < MaxRecords
      BY <2>1 DEF LogOK
    <3> QED BY <1>0, <2>3, <3>1
  <2>5. (Grouped => \A n \in DOMAIN processed : KeyOf(processed[n]) \in DOMAIN gb_map)'
    <3>1. Grouped => KeyOf(rec) \in DOMAIN gb_map
      BY <2>1 DEF Shape, RowsOK
    <3> QED BY <2>1, <2>3, <3>1 DEF LogOK, KeyOf, Grouped
  <2>6. (\A key \in DOMAIN gb_map : \E s \in Records : key = KeyOf(s))'
    BY <2>1 DEF LogOK, KeyOf
  <2> QED BY <2>1, <2>2, <2>3, <2>4, <2>5, <2>6 DEF LogOK
<1>9. CASE UNCHANGED interpVars
  BY <1>1, <1>9 DEF interpVars
<1> QED
  BY <1>2, <1>3, <1>4, <1>5, <1>6, <1>7, <1>8, <1>9 DEF Next

\* A step that leaves the items and what their instructions have seen.
LEMMA ExactKept ==
  ASSUME ItemsExact, UNCHANGED <<prog, inited, agg_results, gb_map>>,
         fault' = "none" => fault = "none",
         fault' = "none" => \A k \in OwnItem(prog) : SoFar(k)' = SoFar(k)
  PROVE  ItemsExact'
<1>1. Grouped' = Grouped /\ Keys' = Keys
  BY DEF Grouped, Keys
<1> SUFFICES ASSUME inited, fault' = "none", NEW key \in Keys, NEW k \in OwnItem(prog)
             PROVE  Summarised(key, k, SoFar(k))'
  BY <1>1 DEF ItemsExact
<1>2. Summarised(key, k, SoFar(k))
  BY DEF ItemsExact
<1>3. Item(key, prog.code[k].agg)' = Item(key, prog.code[k].agg)
  BY DEF Item, Grouped
<1>4. SoFar(k)' = SoFar(k)
  OBVIOUS
<1> QED
  BY <1>1, <1>2, <1>3, <1>4 DEF Summarised

\* What an aggregate instruction with an item of its own is.
LEMMA OwnItemFacts ==
  ASSUME Shape, NEW k \in OwnItem(prog)
  PROVE  /\ prog \in Programs /\ k \in 1 .. Len(prog.code) /\ k \in DOMAIN prog.code
         /\ prog.code[k].op \in AggFunctions /\ prog.code[k].agg \in DOMAIN prog.agg_types
<1>1. prog \in Programs /\ k \in DOMAIN prog.code /\ prog.code[k].op \in AggFunctions
  BY DEF Shape, StateOK, OwnItem
<1>2. k \in 1 .. Len(prog.code)
  BY <1>1, ProgramFacts
<1> QED
  BY <1>1, <1>2, WellFormedFacts

\* Records of other groups give no operands.
LEMMA NothingGiven ==
  ASSUME NEW p, NEW log, NEW key, NEW k, \A n \in DOMAIN log : ~Belongs(p, log[n], key)
  PROVE  GivesNumbers(Inputs(p, log, key, k)) /\ DOMAIN Inputs(p, log, key, k) = {}
<1>1. DOMAIN Inputs(p, log, key, k) = {}
  BY DEF Inputs, GivenIn
<1> QED
  BY <1>1, FS_EmptySet DEF GivesNumbers, Inputs

\* Init() leaves items that have seen nothing.
LEMMA InitializeExact ==
  ASSUME Shape, LogOK, Initialize
  PROVE  ItemsExact'
<1>0. prog' = prog
  BY DEF Initialize
<1> SUFFICES ASSUME NEW key \in Keys', NEW k \in OwnItem(prog)
             PROVE  Summarised(key, k, SoFar(k))'
  BY <1>0 DEF ItemsExact
<1>1. /\ ~inited /\ prog' = prog /\ gb_map' = gb_map /\ rec' = rec /\ processed' = processed
  BY DEF Initialize
<1>2. DOMAIN gb_map = {} /\ processed = <<>> /\ rec = NoRecord
  BY <1>1 DEF Shape, StateOK, LogOK
<1>3. ~Grouped
  BY <1>1, <1>2 DEF Keys, Grouped
<1>4. SoFar(k)' = <<>>
  BY <1>1, <1>2 DEF SoFar
<1>5. LET item == agg_results'[prog.code[k].agg] IN item.value = 0 /\ item.inited = FALSE
  BY InitializedRow, OwnItemFacts
<1>6. GivesNumbers(Inputs(prog, <<>>, key, k)) /\ DOMAIN Inputs(prog, <<>>, key, k) = {}
  BY NothingGiven
<1>7. Item(key, prog.code[k].agg)' = agg_results'[prog.code[k].agg]
  BY <1>1, <1>3 DEF Item, Grouped
<1>8. Grouped' = FALSE
  BY <1>1, <1>3 DEF Grouped
<1>9. Summary(prog.code[k].op, agg_results'[prog.code[k].agg], Inputs(prog, <<>>, key, k), FALSE)
  BY <1>5, <1>6, SummaryOfNone
<1> QED
  BY <1>1, <1>4, <1>7, <1>8, <1>9 DEF Summarised

\* A record that comes in has not been seen; its group may be new.
LEMMA ProcessRecExact ==
  ASSUME Shape, LogOK, ItemsExact, NEW r \in Records, ProcessRec(r)
  PROVE  ItemsExact'
<1>1. /\ inited /\ fault = "none" /\ rec = NoRecord /\ exec_pos' = 1
      /\ UNCHANGED <<prog, inited, agg_results, fault, processed>>
      /\ gb_map' = IF ~Grouped \/ KeyOf(r) \in DOMAIN gb_map THEN gb_map
                   ELSE [key \in DOMAIN gb_map \cup {KeyOf(r)} |->
                           IF key \in DOMAIN gb_map THEN gb_map[key] ELSE NewRow]
  BY DEF ProcessRec, NewRow
<1> SUFFICES ASSUME NEW key \in Keys', NEW k \in OwnItem(prog)
             PROVE  Summarised(key, k, SoFar(k))'
  BY <1>1 DEF ItemsExact
<1>2. SoFar(k) = processed /\ SoFar(k)' = processed
  <2>1. ~(k < 1)
    BY OwnItemFacts
  <2> QED BY <1>1, <2>1 DEF SoFar
<1>3. Grouped' = Grouped
  BY <1>1 DEF Grouped
<1>4. CASE key \in Keys
  <2>1. Summarised(key, k, processed)
    BY <1>1, <1>2, <1>4 DEF ItemsExact
  <2>2. Item(key, prog.code[k].agg)' = Item(key, prog.code[k].agg)
    BY <1>1, <1>3, <1>4 DEF Item, Keys
  <2> QED BY <1>1, <1>2, <1>3, <2>1, <2>2 DEF Summarised
<1>5. CASE key \notin Keys
  <2>1. Grouped /\ key = KeyOf(r) /\ KeyOf(r) \notin DOMAIN gb_map
    BY <1>1, <1>3, <1>5 DEF Keys
  <2>2. gb_map'[key] = NewRow
    BY <1>1, <2>1
  <2>3. Item(key, prog.code[k].agg)' = NewItem(prog.agg_types[prog.code[k].agg])
    BY <1>1, <1>3, <2>1, <2>2, NewRowFacts, OwnItemFacts DEF Item
  <2>4. \A n \in DOMAIN processed : ~Belongs(prog, processed[n], key)
    <3> SUFFICES ASSUME NEW n \in DOMAIN processed, Belongs(prog, processed[n], key) PROVE FALSE
      OBVIOUS
    <3>1. prog \in Programs /\ processed[n] \in Records /\ KeyOf(processed[n]) \in DOMAIN gb_map
      BY <2>1 DEF Shape, StateOK, LogOK
    <3>2. SubSeq(processed[n], 1, Len(key)) = key
      BY <2>1 DEF Belongs, Grouped
    <3>3. Len(key) = Len(prog.gb_cols)
      BY <2>1, <3>1, KeyFacts
    <3>4. KeyOf(processed[n]) = key
      BY <3>1, <3>2, <3>3, KeyFacts
    <3> QED BY <2>1, <3>1, <3>4
  <2>5. /\ GivesNumbers(Inputs(prog, processed, key, k))
        /\ DOMAIN Inputs(prog, processed, key, k) = {}
    BY <2>4, NothingGiven
  <2> DEFINE item == NewItem(prog.agg_types[prog.code[k].agg])
  <2>6. item.value = 0 /\ item.inited = FALSE /\ item.is_unsigned = FALSE
    BY DEF NewItem
  <2> HIDE DEF item
  <2>7. Summary(prog.code[k].op, item, Inputs(prog, processed, key, k), Grouped)
    BY <2>5, <2>6, SummaryOfNone
  <2> QED BY <1>1, <1>2, <1>3, <2>3, <2>7 DEF Summarised, item
<1> QED
  BY <1>4, <1>5

\* What the aggregate function that runs returns.
Taken == AggOp(Instruction.op, registers[Instruction.reg], Result[Instruction.agg])

\* Only the item of this instruction in the row of this record changes.
LEMMA AggregateItems ==
  ASSUME Shape, Aggregate, NEW key \in Keys, NEW j \in DOMAIN prog.agg_types
  PROVE  /\ Keys' = Keys
         /\ (Grouped => key = KeyOf(rec)) => Result[j] = Item(key, j)
         /\ Item(key, j)' = IF (Grouped => key = KeyOf(rec)) /\ j = Instruction.agg
                            THEN Taken.reg ELSE Item(key, j)
<1> DEFINE i == Instruction
           res == Taken
           row == [Result EXCEPT ![i.agg] = res.reg]
<1>1. /\ Grouped => gb_map' = [gb_map EXCEPT ![KeyOf(rec)] = row] /\ agg_results' = agg_results
      /\ ~Grouped => gb_map' = gb_map /\ agg_results' = row
  BY AggregateFacts DEF Taken
<1>2. Running /\ prog' = prog
  BY DEF Aggregate
<1>3. Result \in Rows(prog)
  BY <1>2, ResultFacts
<1>4. row[j] = IF j = i.agg THEN res.reg ELSE Result[j]
  BY <1>3 DEF Rows
<1>5. /\ Grouped' = Grouped
      /\ (Grouped => key = KeyOf(rec)) => Result[j] = Item(key, j)
  BY <1>2 DEF Grouped, Result, Item
<1> HIDE DEF i, res, row
<1>6. CASE Grouped
  <2>1. key \in DOMAIN gb_map /\ KeyOf(rec) \in DOMAIN gb_map
    BY <1>2, <1>6 DEF Keys, Shape, RowsOK, Running
  <2>2. gb_map'[key] = IF key = KeyOf(rec) THEN row ELSE gb_map[key]
    BY <1>1, <1>6, <2>1
  <2>3. Item(key, j)' = gb_map'[key][j] /\ Item(key, j) = gb_map[key][j]
    BY <1>5, <1>6 DEF Item
  <2>4. Keys' = Keys
    BY <1>1, <1>5, <1>6 DEF Keys
  <2> QED BY <1>4, <1>5, <1>6, <2>2, <2>3, <2>4 DEF i, res
<1>7. CASE ~Grouped
  <2>1. Item(key, j)' = row[j] /\ Keys' = Keys
    BY <1>1, <1>5, <1>7 DEF Item, Keys
  <2> QED BY <1>4, <1>5, <1>7, <2>1 DEF i, res
<1> QED
  BY <1>6, <1>7

\* An aggregate function takes the operand of its record into its item.
LEMMA OwnItemStep ==
  ASSUME Shape, LogOK, Aggregate, fault' = "none", NEW key \in Keys, NEW k \in OwnItem(prog),
         k = exec_pos, Grouped => key = KeyOf(rec),
         Summarised(key, k, processed)
  PROVE  Summary(prog.code[k].op, Item(key, prog.code[k].agg)',
                 Inputs(prog, Append(processed, rec), key, k), Grouped)
<1> DEFINE i == Instruction
           x == registers[i.reg]
           item == Result[i.agg]
           res == Taken
           f == Inputs(prog, processed, key, k)
           g == Inputs(prog, Append(processed, rec), key, k)
<1>1. /\ Running /\ i.op \in AggFunctions /\ i = prog.code[k] /\ i.agg \in DOMAIN prog.agg_types
      /\ prog \in Programs /\ rec \in Records /\ k \in DOMAIN prog.code
  BY OwnItemFacts, RunningFacts DEF Aggregate, Instruction
<1>2. Suits(i.op, x, item) /\ x = OperandOf(prog, rec, k)
  BY <1>1, ResultFacts DEF OperandOf
<1>3. item = Item(key, prog.code[k].agg) /\ Item(key, prog.code[k].agg)' = res.reg
  <2>1. PICK j : j = i.agg
    OBVIOUS
  <2>2. item = Item(key, j) /\ Item(key, j)' = res.reg
    BY <1>1, <2>1, AggregateItems
  <2>3. Item(key, prog.code[k].agg)' = Item(key, j)'
    BY <1>1, <2>1 DEF Item, Grouped, Aggregate
  <2> QED BY <1>1, <2>1, <2>2, <2>3
<1>11. res = AggOp(i.op, x, item)
  BY DEF Taken
<1>4. fault' = FaultOf(res.ret)
  BY AggregateFacts DEF Taken
<1>5. Belongs(prog, rec, key)
  BY <1>1, BelongsFacts
<1>6. processed \in Seq(Records) /\ Len(processed) < MaxRecords
  BY <1>1 DEF LogOK, Running
<1>7. GivesNumbers(f) /\ Cardinality(DOMAIN f) <= Len(processed)
  BY <1>1, <1>6, InputsGiven
<1>8. Summary(i.op, item, f, Grouped)
  BY <1>1, <1>3 DEF Summarised
<1> HIDE DEF i, x, item, res, f, g
<1>9. CASE x.is_null
  <2>1. g = f
    BY <1>1, <1>2, <1>6, <1>9, InputsKept DEF f, g
  <2>2. res.reg = item
    BY <1>1, <1>2, <1>9, <1>11, NullOperand
  <2>3. Summary(i.op, res.reg, g, Grouped)
    BY <1>8, <2>1, <2>2
  <2> QED BY <1>1, <1>3, <2>3 DEF g
<1>10. CASE ~x.is_null
  <2>1. OneMore(f, g, Len(processed) + 1, x)
    BY <1>1, <1>2, <1>5, <1>6, <1>10, InputsMore DEF f, g
  <2>2. Cardinality(DOMAIN f) + 1 < Word
    <3>1. /\ MaxRecords \in Nat /\ MaxRecords <= Word - 1 /\ Word \in Int
          /\ Len(processed) \in Nat
      BY <1>6, SizesAssumption, Ranges
    <3>2. Cardinality(DOMAIN f) \in Nat
      BY <1>7, FS_CardinalityType DEF GivesNumbers
    <3> QED BY <1>6, <1>7, <3>1, <3>2
  <2>3. res.ret # -1
    BY <1>4 DEF FaultOf
  <2>4. Grouped \in BOOLEAN
    BY DEF Grouped
  <2>5. Summary(i.op, res.reg, g, Grouped)
    BY <1>1, <1>2, <1>7, <1>8, <1>10, <1>11, <2>1, <2>2, <2>3, <2>4, SummaryStep
  <2> QED BY <1>1, <1>3, <2>5 DEF g
<1> QED
  BY <1>9, <1>10

\* An aggregate function leaves every item a summary of what it has seen.
LEMMA AggregateExact ==
  ASSUME Shape, LogOK, ItemsExact, Aggregate
  PROVE  ItemsExact'
<1>1. /\ Running /\ Instruction.op \in AggFunctions /\ exec_pos' = exec_pos + 1
      /\ UNCHANGED <<prog, inited, rec, processed>>
  BY DEF Aggregate
<1>2. /\ inited = TRUE /\ fault = "none" /\ rec # NoRecord
      /\ exec_pos \in 1 .. Len(prog.code) /\ Grouped' = Grouped /\ Instruction = prog.code[exec_pos]
  BY <1>1, RunningFacts DEF Running, Grouped, Instruction
<1> SUFFICES ASSUME fault' = "none", NEW key \in Keys', NEW k \in OwnItem(prog)
             PROVE  Summarised(key, k, SoFar(k))'
  BY <1>1 DEF ItemsExact
<1>0. PICK j : j = prog.code[k].agg
  OBVIOUS
<1>3. /\ prog \in Programs /\ k \in 1 .. Len(prog.code) /\ k \in DOMAIN prog.code
      /\ prog.code[k].op \in AggFunctions /\ j \in DOMAIN prog.agg_types
      /\ rec \in Records /\ processed \in Seq(Records)
  BY <1>0, <1>1, OwnItemFacts, RunningFacts DEF LogOK
<1>4. key \in Keys
  <2>1. Grouped => DOMAIN gb_map' = DOMAIN gb_map
    BY AggregateFacts
  <2> QED BY <1>2, <2>1 DEF Keys
<1>5. /\ (Grouped => key = KeyOf(rec)) => Result[j] = Item(key, j)
      /\ Item(key, j)' = IF (Grouped => key = KeyOf(rec)) /\ j = Instruction.agg
                         THEN Taken.reg ELSE Item(key, j)
  BY <1>3, <1>4, AggregateItems
<1>6. Summarised(key, k, SoFar(k))
  BY <1>2, <1>4 DEF ItemsExact
<1>9. Item(key, prog.code[k].agg) = Item(key, j) /\ Item(key, prog.code[k].agg)' = Item(key, j)'
  BY <1>0, <1>1 DEF Item
<1>7. CASE k # exec_pos
  <2>1. SoFar(k)' = SoFar(k)
    <3>1. k < exec_pos + 1 <=> k < exec_pos
      BY <1>2, <1>3, <1>7
    <3> QED BY <1>1, <1>2, <3>1 DEF SoFar
  <2>2. j # Instruction.agg
    <3>1. exec_pos \in DOMAIN prog.code
      BY <1>2, <1>3, ProgramFacts
    <3> QED BY <1>0, <1>1, <1>2, <1>7, <3>1 DEF OwnItem
  <2>3. Item(key, j)' = Item(key, j)
    BY <1>5, <2>2
  <2> QED BY <1>1, <1>2, <1>6, <1>9, <2>1, <2>3 DEF Summarised
<1>8. CASE k = exec_pos
  <2>1. SoFar(k) = processed /\ SoFar(k)' = Append(processed, rec)
    <3>1. k < exec_pos + 1 /\ ~(k < exec_pos)
      BY <1>2, <1>8
    <3> QED BY <1>1, <1>2, <3>1 DEF SoFar
  <2>2. CASE Grouped => key = KeyOf(rec)
    <3>1. Summary(prog.code[k].op, Item(key, prog.code[k].agg)',
                  Inputs(prog, Append(processed, rec), key, k), Grouped)
      BY <1>4, <1>6, <1>8, <2>1, <2>2, OwnItemStep
    <3> QED BY <1>1, <1>2, <2>1, <3>1 DEF Summarised
  <2>3. CASE ~(Grouped => key = KeyOf(rec))
    <3>1. Item(key, j)' = Item(key, j)
      BY <1>5, <2>3
    <3>2. ~Belongs(prog, rec, key)
      BY <1>3, <1>4, <2>3, BelongsFacts
    <3>3. Inputs(prog, Append(processed, rec), key, k) = Inputs(prog, processed, key, k)
      BY <1>3, <3>2, InputsKept
    <3> QED BY <1>1, <1>2, <1>6, <2>1, <1>9, <3>1, <3>3 DEF Summarised
  <2> QED BY <2>2, <2>3
<1> QED
  BY <1>7, <1>8

\* A step of the loop that is no aggregate function.
LEMMA OtherStepExact ==
  ASSUME Shape, ItemsExact, Running, Instruction.op \notin AggFunctions,
         exec_pos' = exec_pos + 1,
         UNCHANGED <<prog, inited, agg_results, gb_map, rec, processed>>
  PROVE  ItemsExact'
<1>1. fault = "none" /\ exec_pos \in 1 .. Len(prog.code) /\ Instruction = prog.code[exec_pos]
  BY RunningFacts DEF Running, Instruction
<1>2. ASSUME NEW k \in OwnItem(prog) PROVE SoFar(k)' = SoFar(k)
  <2>1. k \in 1 .. Len(prog.code) /\ prog.code[k].op \in AggFunctions
    BY OwnItemFacts
  <2>2. k # exec_pos
    BY <1>1, <2>1
  <2>3. k < exec_pos + 1 <=> k < exec_pos
    BY <1>1, <2>1, <2>2
  <2> QED BY <2>3 DEF SoFar
<1> QED
  BY <1>1, <1>2, ExactKept

\* A record that is done has been seen by all instructions.
LEMMA ReturnExact ==
  ASSUME Shape, LogOK, ItemsExact, Return
  PROVE  ItemsExact'
<1>1. /\ rec # NoRecord /\ rec' = NoRecord /\ exec_pos > Len(prog.code)
      /\ processed' = Append(processed, rec)
      /\ UNCHANGED <<prog, inited, agg_results, gb_map, fault>>
  BY DEF Return
<1>2. ASSUME NEW k \in OwnItem(prog) PROVE SoFar(k)' = SoFar(k)
  <2>1. k \in 1 .. Len(prog.code) /\ prog \in Programs
    BY OwnItemFacts
  <2>2. Len(prog.code) \in Nat /\ exec_pos \in 1 .. Len(prog.code) + 1
    BY <2>1, ProgramFacts DEF Shape, StateOK
  <2>3. k < exec_pos
    BY <1>1, <2>1, <2>2
  <2> QED BY <1>1, <2>3 DEF SoFar
<1> QED
  BY <1>1, <1>2, ExactKept

ResultsExact == Shape /\ LogOK /\ ItemsExact

\* The inductive invariant of the results holds initially.
LEMMA InitExact == Init => ResultsExact
<1> SUFFICES ASSUME Init PROVE ResultsExact
  OBVIOUS
<1>1. Shape
  BY InitShape
<1>2. /\ inited = FALSE /\ gb_map = <<>> /\ rec = NoRecord /\ processed = <<>>
  BY DEF Init
<1>3. DOMAIN gb_map = {} /\ DOMAIN processed = {}
  BY <1>2
<1>4. MaxRecords \in Nat
  BY SizesAssumption, Ranges
<1>5. processed \in Seq(Records) /\ Len(processed) = 0
  BY <1>2
<1>6. LogOK
  BY <1>2, <1>3, <1>4, <1>5 DEF LogOK
<1>7. ItemsExact
  BY <1>2 DEF ItemsExact
<1> QED
  BY <1>1, <1>6, <1>7 DEF ResultsExact

\* Every step keeps the inductive invariant of the results.
LEMMA NextExact == ResultsExact /\ [Next]_interpVars => ResultsExact'
<1> SUFFICES ASSUME Shape, LogOK, ItemsExact, [Next]_interpVars PROVE ItemsExact'
  BY NextShape, NextLog DEF ResultsExact
<1>1. CASE Initialize
  BY <1>1, InitializeExact
<1>2. ASSUME NEW r \in Records, ProcessRec(r) PROVE ItemsExact'
  BY <1>2, ProcessRecExact
<1>3. CASE LoadCol
  <2>1. Instruction.op \notin AggFunctions /\ Running
    BY <1>3 DEF LoadCol, AggFunctions
  <2>2. exec_pos' = exec_pos + 1 /\ UNCHANGED <<prog, inited, agg_results, gb_map, rec, processed>>
    BY <1>3 DEF LoadCol
  <2> QED BY <2>1, <2>2, OtherStepExact
<1>4. CASE Calculate
  <2>1. Instruction.op \notin AggFunctions /\ Running
    BY <1>4 DEF Calculate, AggFunctions, ArithOps
  <2>2. exec_pos' = exec_pos + 1 /\ UNCHANGED <<prog, inited, agg_results, gb_map, rec, processed>>
    BY <1>4 DEF Calculate
  <2> QED BY <2>1, <2>2, OtherStepExact
<1>5. CASE Aggregate
  BY <1>5, AggregateExact
<1>6. CASE Ignore
  <2>1. Instruction.op \notin AggFunctions /\ Running
    BY <1>6 DEF Ignore
  <2>2. exec_pos' = exec_pos + 1 /\ UNCHANGED <<prog, inited, agg_results, gb_map, rec, processed>>
    BY <1>6 DEF Ignore
  <2> QED BY <2>1, <2>2, OtherStepExact
<1>7. CASE Return
  BY <1>7, ReturnExact
<1>8. CASE UNCHANGED interpVars
  <2>1. /\ UNCHANGED <<prog, inited, agg_results, gb_map, fault>>
        /\ \A k \in OwnItem(prog) : SoFar(k)' = SoFar(k)
    BY <1>8 DEF interpVars, SoFar
  <2> QED BY <2>1, ExactKept
<1> QED
  BY <1>1, <1>2, <1>3, <1>4, <1>5, <1>6, <1>7, <1>8 DEF Next

\* The invariant of the results.
LEMMA ExactInvariant == Spec => []ResultsExact
  BY InitExact, NextExact, PTL DEF Spec

-----------------------------------------------------------------------------
(* Between records                                                           *)

\* What the properties say of the operands, in terms of Inputs.
LEMMA RestFacts ==
  ASSUME ResultsExact, AtRest, NEW key \in Keys, NEW k \in OwnItem(prog)
  PROVE  /\ Summary(prog.code[k].op, Item(key, prog.code[k].agg),
                    Inputs(prog, processed, key, k), Grouped)
         /\ GivesNumbers(Inputs(prog, processed, key, k))
         /\ Given(key, k) = DOMAIN Inputs(prog, processed, key, k)
         /\ \A n \in Given(key, k) :
              /\ Operand(n, k) = Inputs(prog, processed, key, k)[n]
              /\ Value(Operand(n, k)) \in Bounded
         /\ Item(key, prog.code[k].agg).type = prog.code[k].type
<1>1. Shape /\ LogOK /\ ItemsExact
  BY DEF ResultsExact
<1>2. inited /\ rec = NoRecord /\ fault = "none"
  BY DEF AtRest
<1>3. /\ prog \in Programs /\ k \in 1 .. Len(prog.code) /\ k \in DOMAIN prog.code
      /\ prog.code[k].op \in AggFunctions /\ prog.code[k].agg \in DOMAIN prog.agg_types
  BY <1>1, OwnItemFacts
<1>4. Summary(prog.code[k].op, Item(key, prog.code[k].agg),
              Inputs(prog, processed, key, k), Grouped)
  BY <1>1, <1>2 DEF ItemsExact, Summarised, SoFar
<1>5. processed \in Seq(Records)
  BY <1>1 DEF LogOK
<1>6. GivesNumbers(Inputs(prog, processed, key, k))
  BY <1>3, <1>5, InputsGiven
<1>7. \A n \in DOMAIN processed : Operand(n, k) = OperandOf(prog, processed[n], k)
  BY FreshRunIsFresh DEF Operand, OperandOf
<1>8. Given(key, k) = GivenIn(prog, processed, key, k)
  BY <1>7 DEF Given, GivenIn, Members, Belongs, Grouped
<1>9. \A n \in GivenIn(prog, processed, key, k) :
        n \in DOMAIN processed /\ processed[n] \in Records
  BY <1>5 DEF GivenIn
<1>10. \A n \in Given(key, k) : Value(Operand(n, k)) \in Bounded
  BY <1>3, <1>7, <1>8, <1>9, OperandFacts
<1>11. Item(key, prog.code[k].agg).type = prog.code[k].type
  <2>1. Item(key, prog.code[k].agg).type = prog.agg_types[prog.code[k].agg]
    BY <1>1, <1>2, <1>3 DEF Item, Keys, Shape, RowsOK, Rows
  <2> QED BY <1>3, <2>1, WellFormedFacts
<1>12. /\ Given(key, k) = DOMAIN Inputs(prog, processed, key, k)
       /\ \A n \in Given(key, k) : Operand(n, k) = Inputs(prog, processed, key, k)[n]
  BY <1>7, <1>8, <1>9 DEF Inputs
<1> QED
  BY <1>4, <1>6, <1>10, <1>11, <1>12

\* The sum of the operands is the sum that SumIs speaks of.
LEMMA SumOfOperands ==
  ASSUME NEW key, NEW k, NEW f, GivesNumbers(f), Given(key, k) = DOMAIN f,
         \A n \in Given(key, k) : Operand(n, k) = f[n],
         NEW item, SumIs(item, f)
  PROVE  Value(item) = MapThenSumSet(LAMBDA n : Value(Operand(n, k)), Given(key, k))
<1> DEFINE S == Given(key, k)
           F == Values(f)
           term(n) == Value(Operand(n, k))
           c(s) == CHOOSE x \in s : TRUE
           Solves(g) == g = [s \in SUBSET S |-> IF s = {} THEN 0 ELSE term(c(s)) + g[s \ {c(s)}]]
           sum == CHOOSE g : Solves(g)
<1>1. MapThenSumSet(LAMBDA n : Value(Operand(n, k)), S) = sum[S]
  BY DEF MapThenSumSet, MapThenFoldSet
<1>2. \A n \in S : term(n) = F[n]
  BY DEF Values
<1>3. \A s \in SUBSET S : s # {} => c(s) \in S
  OBVIOUS
<1>4. IsFiniteSet(S) /\ F \in [S -> Int]
  BY DEF GivesNumbers, IsNumber, Values
<1>5. PICK total \in [SUBSET S -> Int] : Sums(F, total, S) /\ Value(item) = total[S]
  BY DEF SumIs
<1> HIDE DEF term
<1>6. \A g : Sums(F, g, S) <=> Solves(g)
  <2> SUFFICES ASSUME NEW g PROVE Sums(F, g, S) <=> Solves(g)
    OBVIOUS
  <2>1. \A s \in SUBSET S : (IF s = {} THEN 0 ELSE term(c(s)) + g[s \ {c(s)}])
                              = IF s = {} THEN 0 ELSE F[c(s)] + g[s \ {c(s)}]
    <3> HIDE DEF c, S, F
    <3> QED BY <1>2, <1>3
  <2>2. Sums(F, g, S) <=> g = [s \in SUBSET S |-> IF s = {} THEN 0 ELSE F[c(s)] + g[s \ {c(s)}]]
    BY DEF Sums
  <2> HIDE DEF c, S, F
  <2>3. [s \in SUBSET S |-> IF s = {} THEN 0 ELSE term(c(s)) + g[s \ {c(s)}]]
          = [s \in SUBSET S |-> IF s = {} THEN 0 ELSE F[c(s)] + g[s \ {c(s)}]]
    BY <2>1
  <2> QED BY <2>2, <2>3
<1> HIDE DEF Solves, S, F
<1>7. Sums(F, sum, S)
  BY <1>5, <1>6
<1> HIDE DEF sum
<1>8. total[S] = sum[S]
  BY <1>4, <1>5, <1>7, SumsAgree
<1> QED
  BY <1>1, <1>5, <1>8 DEF S

\* For every well-formed program and all records, a COUNT is the number and a
\* SUM of BIGINTs the exact sum of the operands of its group (interpreter.cc:705-814).
THEOREM CountsAndIntSumsAlwaysExact == Spec => []CountsAndIntSumsAreExact
<1>1. ResultsExact => CountsAndIntSumsAreExact
  <2> SUFFICES ASSUME ResultsExact, AtRest, NEW key \in Keys
               PROVE  /\ \A k \in Aggregates("Count") :
                           Item(key, prog.code[k].agg).value = Cardinality(Given(key, k))
                      /\ \A k \in Aggregates("Sum") :
                           prog.code[k].type = "BigInt" =>
                             Value(Item(key, prog.code[k].agg)) =
                               MapThenSumSet(LAMBDA n : Value(Operand(n, k)), Given(key, k))
    BY DEF CountsAndIntSumsAreExact
  <2>1. ASSUME NEW k \in Aggregates("Count")
        PROVE  Item(key, prog.code[k].agg).value = Cardinality(Given(key, k))
    <3>1. k \in OwnItem(prog) /\ prog.code[k].op = "Count"
      BY DEF Aggregates, OwnItem, AggFunctions
    <3> QED BY <3>1, RestFacts DEF Summary, CountIs
  <2>2. ASSUME NEW k \in Aggregates("Sum"), prog.code[k].type = "BigInt"
        PROVE  Value(Item(key, prog.code[k].agg)) =
                 MapThenSumSet(LAMBDA n : Value(Operand(n, k)), Given(key, k))
    <3>1. k \in OwnItem(prog) /\ prog.code[k].op = "Sum"
      BY DEF Aggregates, OwnItem, AggFunctions
    <3>2. SumIs(Item(key, prog.code[k].agg), Inputs(prog, processed, key, k))
      BY <2>2, <3>1, RestFacts DEF Summary
    <3> QED BY <3>1, <3>2, RestFacts, SumOfOperands
  <2> QED BY <2>1, <2>2
<1> QED
  BY <1>1, ExactInvariant, PTL

\* Numbers within bounds have a greatest one.
LEMMA GreatestNumber ==
  ASSUME NEW S, S \subseteq Bounded, S # {}
  PROVE  \A y \in S : Max(S) \in S /\ y <= Max(S)
<1> DEFINE T == {v + DoubleMax : v \in S}
<1>1. DoubleMax \in Nat /\ \A v \in S : v \in Int /\ -DoubleMax <= v /\ v <= DoubleMax
  BY DoubleAssumption DEF Bounded
<1>2. T \subseteq 0 .. 2 * DoubleMax /\ T # {}
  <2>1. \A v \in S : v + DoubleMax \in 0 .. 2 * DoubleMax
    BY <1>1
  <2> QED BY <2>1
<1>3. PICK t \in T : \A u \in T : u <= t
  <2>1. 2 * DoubleMax \in Nat
    BY <1>1
  <2> HIDE DEF T
  <2> QED BY <1>2, <2>1, GreatestNat
<1>4. PICK x \in S : t = x + DoubleMax
  BY DEF T
<1>5. \A y \in S : y + DoubleMax \in T
  OBVIOUS
<1> HIDE DEF T
<1>6. \A y \in S : x >= y
  <2> SUFFICES ASSUME NEW y \in S PROVE x >= y
    OBVIOUS
  <2>1. y + DoubleMax <= x + DoubleMax
    BY <1>3, <1>4, <1>5
  <2> QED BY <1>1, <2>1
<1>7. Max(S) \in S /\ \A y \in S : Max(S) >= y
  BY <1>6 DEF Max
<1> QED
  BY <1>1, <1>7

\* The least and the greatest number are the only ones.
LEMMA ExtremesUnique ==
  ASSUME NEW S, S \subseteq Int, NEW v \in S
  PROVE  /\ (\A y \in S : v <= y) => v = Min(S)
         /\ (\A y \in S : v >= y) => v = Max(S)
<1>1. ASSUME \A y \in S : v <= y PROVE v = Min(S)
  <2>1. PICK m : m = Min(S)
    OBVIOUS
  <2>2. m \in S /\ \A y \in S : m <= y
    BY <1>1, <2>1 DEF Min
  <2>3. v <= m /\ m <= v /\ m \in Int /\ v \in Int
    BY <1>1, <2>2
  <2> QED BY <2>1, <2>3
<1>2. ASSUME \A y \in S : v >= y PROVE v = Max(S)
  <2>1. PICK m : m = Max(S)
    OBVIOUS
  <2>2. m \in S /\ \A y \in S : m >= y
    BY <1>2, <2>1 DEF Max
  <2>3. v >= m /\ m >= v /\ m \in Int /\ v \in Int
    BY <1>2, <2>2
  <2> QED BY <2>1, <2>3
<1> QED
  BY <1>1, <1>2

\* The values and the signs of the operands that f gives.
Describe(values, signs, f) ==
  /\ values \subseteq Bounded /\ values \subseteq Int
  /\ values # {} <=> DOMAIN f # {}
  /\ signs # {} => DOMAIN f # {}
  /\ \A n \in DOMAIN f : Value(f[n]) \in values
  /\ \A v \in values : \E n \in DOMAIN f : Value(f[n]) = v
  /\ signs = {TRUE} => AllUnsigned(f)
  /\ signs = {FALSE} => AllSigned(f)

\* The values of a group's operands, as the properties write them.
LEMMA ValuesOfOperands ==
  ASSUME NEW key, NEW k, NEW f, Given(key, k) = DOMAIN f,
         \A n \in Given(key, k) : Operand(n, k) = f[n] /\ Value(Operand(n, k)) \in Bounded,
         NEW values, values = {Value(x) : x \in BigOperands(key, k)},
         NEW signs, signs = {x.is_unsigned : x \in BigOperands(key, k)}
  PROVE  Describe(values, signs, f)
<1>1. /\ \A x \in BigOperands(key, k) : \E n \in DOMAIN f : x = f[n] /\ Value(x) \in Bounded
      /\ \A n \in DOMAIN f : f[n] \in BigOperands(key, k)
  BY DEF BigOperands
<1>2. Bounded \subseteq Int
  BY DEF Bounded
<1>3. /\ \A v \in values : v \in Bounded /\ \E n \in DOMAIN f : Value(f[n]) = v
      /\ \A n \in DOMAIN f : Value(f[n]) \in values
  BY <1>1
<1>4. /\ \A n \in DOMAIN f : f[n].is_unsigned \in signs
      /\ signs # {} => DOMAIN f # {}
  BY <1>1
<1>5. (signs = {TRUE} => AllUnsigned(f)) /\ (signs = {FALSE} => AllSigned(f))
  BY <1>4 DEF AllUnsigned, AllSigned
<1>6. values \subseteq Int /\ (values # {} <=> DOMAIN f # {})
  BY <1>2, <1>3
<1> QED
  BY <1>3, <1>4, <1>5, <1>6 DEF Describe

\* For every well-formed program and all records, the MIN and the MAX of a group
\* are the least and the greatest of its operands, as far as their branches
\* promise it (interpreter.cc:571-703).
THEOREM ExtremesAlwaysExact == Spec => []ExtremesAreExact
<1>1. ResultsExact => ExtremesAreExact
  <2> DEFINE values(key, k) == {Value(x) : x \in BigOperands(key, k)}
             signs(key, k) == {x.is_unsigned : x \in BigOperands(key, k)}
  <2> SUFFICES ASSUME ResultsExact, AtRest, NEW key \in Keys
               PROVE  /\ \A k \in Aggregates("Min") :
                           prog.code[k].type = "BigInt" /\ values(key, k) # {}
                             /\ Max(values(key, k)) <= LongLongMax
                           => Value(Item(key, prog.code[k].agg)) = Min(values(key, k))
                      /\ \A k \in Aggregates("Max") :
                           prog.code[k].type = "BigInt"
                             /\ (signs(key, k) = {TRUE} \/ (signs(key, k) = {FALSE} /\ Grouped))
                           => Value(Item(key, prog.code[k].agg)) = Max(values(key, k))
    BY DEF ExtremesAreExact
  <2>1. ASSUME NEW k \in Aggregates("Min"), prog.code[k].type = "BigInt",
               values(key, k) # {}, Max(values(key, k)) <= LongLongMax
        PROVE  Value(Item(key, prog.code[k].agg)) = Min(values(key, k))
    <3> DEFINE vals == values(key, k)
               sgns == signs(key, k)
               f == Inputs(prog, processed, key, k)
               item == Item(key, prog.code[k].agg)
    <3>1. k \in OwnItem(prog) /\ prog.code[k].op = "Min"
      BY DEF Aggregates, OwnItem, AggFunctions
    <3>2. MinIs(item, f)
      BY <2>1, <3>1, RestFacts DEF Summary
    <3>3. /\ Given(key, k) = DOMAIN f
          /\ \A n \in Given(key, k) : Operand(n, k) = f[n] /\ Value(Operand(n, k)) \in Bounded
      BY <3>1, RestFacts
    <3>10. /\ vals = {Value(x) : x \in BigOperands(key, k)}
           /\ sgns = {x.is_unsigned : x \in BigOperands(key, k)}
      OBVIOUS
    <3>5. vals # {} /\ Max(vals) <= LongLongMax
      BY <2>1
    <3> HIDE DEF f, vals, sgns, item
    <3>11. Describe(vals, sgns, f)
      BY <3>3, <3>10, ValuesOfOperands
    <3>4. /\ vals \subseteq Bounded /\ vals \subseteq Int /\ DOMAIN f # {}
          /\ \A n \in DOMAIN f : Value(f[n]) \in vals
          /\ \A v \in vals : \E n \in DOMAIN f : Value(f[n]) = v
      BY <3>5, <3>11 DEF Describe
    <3>6. AllSmall(f)
      <4> SUFFICES ASSUME NEW n \in DOMAIN f PROVE Value(f[n]) <= LongLongMax
        BY DEF AllSmall
      <4>1. PICK v : v = Value(f[n])
        OBVIOUS
      <4>2. PICK m : m = Max(vals)
        OBVIOUS
      <4>3. v \in vals
        BY <3>4, <4>1
      <4>4. m \in vals /\ v <= m
        BY <3>4, <3>5, <4>2, <4>3, GreatestNumber
      <4>5. v \in Int /\ m \in Int /\ m <= LongLongMax /\ LongLongMax \in Int
        BY <3>4, <3>5, <4>2, <4>3, <4>4, Ranges
      <4>6. v <= LongLongMax
        BY <4>4, <4>5
      <4> QED BY <4>1, <4>6
    <3>7. Least(Value(item), f)
      BY <3>2, <3>4, <3>6 DEF MinIs
    <3>8. Value(item) \in vals /\ \A v \in vals : Value(item) <= v
      BY <3>4, <3>7 DEF Least
    <3>9. Value(item) = Min(vals)
      BY <3>4, <3>8, ExtremesUnique
    <3> QED BY <3>9 DEF item, vals
  <2>2. ASSUME NEW k \in Aggregates("Max"), prog.code[k].type = "BigInt",
               signs(key, k) = {TRUE} \/ (signs(key, k) = {FALSE} /\ Grouped)
        PROVE  Value(Item(key, prog.code[k].agg)) = Max(values(key, k))
    <3> DEFINE vals == values(key, k)
               sgns == signs(key, k)
               f == Inputs(prog, processed, key, k)
               item == Item(key, prog.code[k].agg)
    <3>1. k \in OwnItem(prog) /\ prog.code[k].op = "Max"
      BY DEF Aggregates, OwnItem, AggFunctions
    <3>2. MaxIs(item, f, Grouped)
      BY <2>2, <3>1, RestFacts DEF Summary
    <3>3. /\ Given(key, k) = DOMAIN f
          /\ \A n \in Given(key, k) : Operand(n, k) = f[n] /\ Value(Operand(n, k)) \in Bounded
      BY <3>1, RestFacts
    <3>10. /\ vals = {Value(x) : x \in BigOperands(key, k)}
           /\ sgns = {x.is_unsigned : x \in BigOperands(key, k)}
      OBVIOUS
    <3>5. sgns = {TRUE} \/ (sgns = {FALSE} /\ Grouped)
      BY <2>2
    <3> HIDE DEF f, vals, sgns, item
    <3>11. Describe(vals, sgns, f)
      BY <3>3, <3>10, ValuesOfOperands
    <3>4. /\ vals \subseteq Bounded /\ vals \subseteq Int
          /\ sgns # {} => DOMAIN f # {}
          /\ \A n \in DOMAIN f : Value(f[n]) \in vals
          /\ \A v \in vals : \E n \in DOMAIN f : Value(f[n]) = v
          /\ sgns = {TRUE} => AllUnsigned(f)
          /\ sgns = {FALSE} => AllSigned(f)
      BY <3>11 DEF Describe
    <3>6. DOMAIN f # {} /\ (AllUnsigned(f) \/ (Grouped /\ AllSigned(f)))
      BY <3>4, <3>5
    <3>7. Greatest(Value(item), f)
      BY <3>2, <3>6 DEF MaxIs
    <3>8. Value(item) \in vals /\ \A v \in vals : Value(item) >= v
      BY <3>4, <3>7 DEF Greatest
    <3>9. Value(item) = Max(vals)
      BY <3>4, <3>8, ExtremesUnique
    <3> QED BY <3>9 DEF item, vals
  <2> QED BY <2>1, <2>2
<1> QED
  BY <1>1, ExactInvariant, PTL

=============================================================================
