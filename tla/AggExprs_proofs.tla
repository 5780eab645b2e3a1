-------------------------- MODULE AggExprs_proofs --------------------------
(* Proofs about the high-level API: its tables are well-formed, and no two   *)
(* of their rows describe the same thing, for any columns, literals, width   *)
(* of `long int' and bounds.                                                 *)
EXTENDS AggExprs, RecursionTheorems, SequenceTheorems, FiniteSetTheorems, TLAPS

-----------------------------------------------------------------------------
(* The arithmetic of long int stays in its range.                            *)

\* Euclidean division by a positive number, as the solvers know it.
LEMMA Division ==
  ASSUME NEW a \in Nat, NEW b \in Nat \ {0}
  PROVE  /\ a \div b \in Nat
         /\ b * (a \div b) <= a
         /\ a < b * (a \div b) + b
<1>1. a \div b \in Int /\ a % b \in 0 .. (b - 1) /\ a = b * (a \div b) + (a % b)
  BY SMT
<1>2. a \div b >= 0
  <2>1. SUFFICES ASSUME a \div b <= -1 PROVE FALSE
    BY <1>1
  <2>2. b * (a \div b) <= b * (-1)
    BY <1>1, <2>1
  <2> QED
    BY <1>1, <2>2
<1> QED
  BY <1>1, <1>2

\* Wrap-around of an overflow ends in the range of long int.
LEMMA WrapInLong ==
  ASSUME NEW n \in Int
  PROVE  Wrap(n) \in Long
<1> DEFINE m == 2 * LongMax + 2
<1>1. LongMax \in Nat /\ m \in Nat \ {0}
  BY LongAssumption
<1>2. (n + LongMax + 1) % m \in 0 .. (m - 1)
  BY <1>1
<1> QED
  BY <1>1, <1>2 DEF Wrap, Long

\* A truncated quotient, and what it leaves, stay in the range of long int
\* unless the division traps.
LEMMA QuotientInLong ==
  ASSUME NEW x \in Long, NEW y \in Long, ~Traps("Div", x, y)
  PROVE  Quotient(x, y) \in Long /\ x - y * Quotient(x, y) \in Long
<1> DEFINE a == Magnitude(x)
           b == Magnitude(y)
           q == a \div b
<1>1. LongMax \in Nat /\ LongMax >= 1 /\ x \in Int /\ y \in Int
  BY LongAssumption DEF Long
<1>2. y # 0 /\ ~(x = -LongMax - 1 /\ y = -1)
  BY DEF Traps
<1>3. /\ a \in Nat /\ b \in Nat \ {0} /\ a <= LongMax + 1 /\ b <= LongMax + 1
      /\ (x < 0 => a = -x) /\ (~(x < 0) => a = x)
      /\ (y < 0 => b = -y) /\ (~(y < 0) => b = y)
  BY <1>1, <1>2 DEF Magnitude, Long
<1>4. q \in Nat /\ b * q <= a /\ a < b * q + b
  BY <1>3, Division
<1> HIDE DEF a, b, q
<1>5. q <= a
  <2>1. 1 * q <= b * q
    BY <1>3, <1>4
  <2> QED
    BY <1>3, <1>4, <2>1
<1>6. CASE (x < 0) = (y < 0)
  <2>1. Quotient(x, y) = q
    BY <1>6 DEF Quotient, q, a, b
  <2>2. q <= LongMax
    <3>1. CASE a <= LongMax
      BY <1>1, <1>3, <1>4, <1>5, <3>1
    <3>2. CASE a = LongMax + 1
      <4>1. x = -LongMax - 1 /\ y < 0 /\ b >= 2
        BY <1>1, <1>2, <1>3, <1>6, <3>2 DEF Long
      <4>2. 2 * q <= b * q
        BY <1>3, <1>4, <4>1
      <4> QED
        BY <1>1, <1>3, <1>4, <3>2, <4>2
    <3> QED
      BY <1>1, <1>3, <3>1, <3>2
  <2>3. y * q = IF y < 0 THEN -(b * q) ELSE b * q
    BY <1>1, <1>3, <1>4
  <2>4. b * q \in Int
    BY <1>3, <1>4
  <2> QED
    BY <1>1, <1>3, <1>4, <1>6, <2>1, <2>2, <2>3, <2>4 DEF Long
<1>7. CASE (x < 0) # (y < 0)
  <2>1. Quotient(x, y) = -q
    BY <1>7 DEF Quotient, q, a, b
  <2>2. y * (-q) = IF y < 0 THEN b * q ELSE -(b * q)
    BY <1>1, <1>3, <1>4
  <2>3. b * q \in Int
    BY <1>3, <1>4
  <2> QED
    BY <1>1, <1>3, <1>4, <1>5, <1>7, <2>1, <2>2, <2>3 DEF Long
<1> QED
  BY <1>6, <1>7

\* Constant folding puts a long int into the pool.
LEMMA ApplyInLong ==
  ASSUME NEW op \in ArithOps, NEW x \in Long, NEW y \in Long, ~Traps(op, x, y)
  PROVE  Apply(op, x, y) \in Long
<1>1. x \in Int /\ y \in Int
  BY LongAssumption DEF Long
<1>2. x + y \in Int /\ x - y \in Int /\ x * y \in Int
  BY <1>1
<1>3. op \in {"Div", "Rem"} => ~Traps("Div", x, y)
  BY DEF Traps
<1>4. CASE op \in {"Add", "Minus", "Mul"}
  BY <1>2, <1>4, WrapInLong DEF Apply
<1>5. CASE op \in {"Div", "Rem"}
  BY <1>3, <1>5, QuotientInLong DEF Apply
<1> QED
  BY <1>4, <1>5 DEF ArithOps

-----------------------------------------------------------------------------
(* The tables.                                                               *)

\* The search loops of new_expr and ConstantInteger return an index they saw.
LEMMA FirstIsMember ==
  ASSUME NEW S, S \subseteq Nat, S # {}
  PROVE  First(S) \in S /\ \A k \in S : First(S) <= k
BY LeastNat DEF First

\* new_expr, given a row that fits the table, leaves a table of rows that fit
\* and a reference count for each, and returns a handle of the table.
LEMMA InternKeepsTables ==
  ASSUME TypeOK, NEW e \in Node, Intern(e),
         m_constants' \in Seq(Long), Len(m_constants) <= Len(m_constants'),
         RowOK(e, Len(m_exprs) + 1, Len(m_constants'))
  PROVE  /\ m_exprs' \in Seq(Node)
         /\ \A k \in Handles' : RowOK(m_exprs[k], k, Len(m_constants))'
         /\ usage' \in Seq(Nat) /\ Len(usage') = Len(m_exprs')
         /\ ret' \in Handles'
         /\ Handles \subseteq Handles'
<1>1. /\ m_exprs \in Seq(Node) /\ usage \in Seq(Nat) /\ Len(usage) = Len(m_exprs)
      /\ m_constants \in Seq(Long)
      /\ \A k \in Handles : RowOK(m_exprs[k], k, Len(m_constants))
  BY DEF TypeOK
<1>2. CASE Matching(e) # {}
  <2>1. m_exprs' = m_exprs /\ usage' = usage /\ ret' = First(Matching(e))
    BY <1>2 DEF Intern
  <2>2. Matching(e) \subseteq Handles /\ Matching(e) \subseteq Nat
    BY <1>1 DEF Matching, Handles
  <2>3. ret' \in Handles
    BY <1>2, <2>1, <2>2, FirstIsMember
  <2>4. Handles' = Handles
    BY <2>1 DEF Handles
  <2>5. ASSUME NEW k \in Handles PROVE RowOK(m_exprs[k], k, Len(m_constants))'
    <3>1. RowOK(m_exprs[k], k, Len(m_constants))
      BY <1>1
    <3>2. Len(m_constants) \in Nat /\ Len(m_constants') \in Nat
      BY <1>1
    <3> QED
      BY <2>1, <3>1, <3>2 DEF RowOK, IsConstant
  <2> QED
    BY <1>1, <2>1, <2>3, <2>4, <2>5
<1>3. CASE Matching(e) = {}
  <2> DEFINE n == Len(m_exprs)
  <2>1. m_exprs' = Append(m_exprs, e) /\ usage' = Append(Referenced(e), 0) /\ ret' = n + 1
    BY <1>3 DEF Intern
  <2>2. n \in Nat /\ Handles = 1 .. n
    BY <1>1 DEF Handles
  <2>3. /\ m_exprs' \in Seq(Node) /\ Len(m_exprs') = n + 1 /\ m_exprs'[n + 1] = e
        /\ \A k \in 1 .. n : m_exprs'[k] = m_exprs[k]
    BY <1>1, <2>1, AppendProperties
  <2>4. Handles' = 1 .. (n + 1)
    BY <2>3 DEF Handles
  <2>5. Referenced(e) \in Seq(Nat) /\ Len(Referenced(e)) = n
    <3>1. Referenced(e) = [k \in 1 .. n |->
            usage[k] + (IF k = e.left THEN 1 ELSE 0) + (IF k = e.right THEN 1 ELSE 0)]
      BY <2>2 DEF Referenced
    <3>2. \A k \in 1 .. n : usage[k] \in Nat
      BY <1>1, <2>2
    <3>3. \A k \in 1 .. n :
            usage[k] + (IF k = e.left THEN 1 ELSE 0) + (IF k = e.right THEN 1 ELSE 0) \in Nat
      BY <3>2
    <3> QED
      BY <2>2, <3>1, <3>3, IsASeq
  <2>6. usage' \in Seq(Nat) /\ Len(usage') = n + 1
    BY <2>1, <2>2, <2>5, AppendProperties
  <2>7. ASSUME NEW k \in Handles' PROVE RowOK(m_exprs[k], k, Len(m_constants))'
    <3>1. Len(m_constants) \in Nat /\ Len(m_constants') \in Nat
      BY <1>1
    <3>2. CASE k = n + 1
      BY <2>2, <2>3, <3>2 DEF RowOK, IsConstant
    <3>3. CASE k \in 1 .. n
      <4> DEFINE f == m_exprs[k]
      <4>1. RowOK(f, k, Len(m_constants)) /\ m_exprs'[k] = f
        BY <1>1, <2>2, <2>3, <3>3
      <4>2. CASE f.op \in ArithOps /\ f.left \in 1 .. (k - 1) /\ f.right \in 1 .. (k - 1)
        <5>1. m_exprs'[f.left] = m_exprs[f.left] /\ m_exprs'[f.right] = m_exprs[f.right]
          <6>1. n \in Nat /\ k \in 1 .. n
            BY <2>2, <3>3
          <6>2. f.left \in 1 .. n /\ f.right \in 1 .. n
            <7> HIDE DEF f, n
            <7> QED
              BY <4>2, <6>1
          <6> QED
            BY <2>3, <6>2
        <5>2. f.op \notin {"Load", "LoadConstantInt"}
          BY <4>2 DEF ArithOps
        <5> QED
          BY <4>1, <4>2, <5>1, <5>2 DEF RowOK, IsConstant
      <4>3. CASE f.op \notin ArithOps
        BY <3>1, <4>1, <4>3 DEF RowOK
      <4> QED
        BY <4>1, <4>2, <4>3 DEF RowOK
    <3> QED
      BY <2>2, <2>4, <3>2, <3>3
  <2> QED
    BY <2>1, <2>2, <2>3, <2>4, <2>6, <2>7
<1> QED
  BY <1>2, <1>3

\* The row of a column fits any table.
LEMMA LoadFits ==
  ASSUME NEW col \in Columns, NEW k, NEW n
  PROVE  Leaf("Load", col) \in Node /\ RowOK(Leaf("Load", col), k, n)
BY DEF Leaf, Node, RowOK, NULL

\* The row of a constant fits a table whose pool holds it.
LEMMA ConstantFits ==
  ASSUME NEW n \in Nat, NEW idx \in 1 .. n, NEW k
  PROVE  /\ Leaf("LoadConstantInt", idx) \in Node
         /\ RowOK(Leaf("LoadConstantInt", idx), k, n)
<1>1. idx \in Nat
  OBVIOUS
<1> QED
  BY <1>1 DEF Leaf, Node, RowOK, NULL

\* The row of an operation on two handles that are not both constants.
LEMMA ArithmeticFits ==
  ASSUME TypeOK, NEW op \in Ops, NEW left \in Handles, NEW right \in Handles,
         ~(IsConstant(left) /\ IsConstant(right))
  PROVE  /\ Arithmetic(op, left, right) \in Node
         /\ RowOK(Arithmetic(op, left, right), Len(m_exprs) + 1, Len(m_constants))
<1>1. /\ m_exprs \in Seq(Node) /\ Len(m_exprs) \in Nat /\ Handles = 1 .. Len(m_exprs)
      /\ op \in ArithOps
  BY OpsAssumption DEF TypeOK, Handles
<1>2. m_exprs[left] \in Node /\ m_exprs[right] \in Node
  BY <1>1
<1>3. m_exprs[left].est_regs \in Nat \ {0} /\ m_exprs[right].est_regs \in Nat \ {0}
  BY <1>2 DEF Node
<1>4. EstRegs(left, right) \in Nat \ {0}
  BY <1>3 DEF EstRegs, MaxOf
<1>5. Arithmetic(op, left, right) \in Node
  BY <1>1, <1>4 DEF Arithmetic, Node
<1>6. RowOK(Arithmetic(op, left, right), Len(m_exprs) + 1, Len(m_constants))
  BY <1>1 DEF Arithmetic, RowOK
<1> QED
  BY <1>5, <1>6

\* A constant is found in the pool or put behind its end.
LEMMA PoolIndexFits ==
  ASSUME m_constants \in Seq(Long), NEW v
  PROVE  PoolIndex(v) \in 1 .. (Len(m_constants) + 1)
<1> DEFINE known == {k \in 1 .. Len(m_constants) : m_constants[k] = v}
<1>1. Len(m_constants) \in Nat
  OBVIOUS
<1>2. CASE known # {}
  <2>1. known \subseteq Nat
    BY <1>1
  <2>2. First(known) \in known
    BY <1>2, <2>1, FirstIsMember
  <2> QED
    BY <1>1, <1>2, <2>2 DEF PoolIndex
<1>3. CASE known = {}
  BY <1>1, <1>3 DEF PoolIndex
<1> QED
  BY <1>2, <1>3

\* An aggregate's expression stays in a table that grows.
LEMMA AggsStayTyped ==
  ASSUME m_aggs \in Seq([agg_type : AggTypes, expr : Handles]), Handles \subseteq Handles'
  PROVE  m_aggs \in Seq([agg_type : AggTypes, expr : Handles'])
<1> DEFINE S == [agg_type : AggTypes, expr : Handles]
           T == [agg_type : AggTypes, expr : Handles']
<1>1. S \subseteq T
  OBVIOUS
<1> HIDE DEF S, T
<1> QED
  BY <1>1, SeqMonotonic DEF S, T

-----------------------------------------------------------------------------
(* Type correctness.                                                         *)

\* A call that interns a row and changes neither aggregates nor status.
LEMMA InternKeepsTypes ==
  ASSUME TypeOK, NEW e \in Node, Intern(e),
         m_constants' \in Seq(Long), Len(m_constants) <= Len(m_constants'),
         RowOK(e, Len(m_exprs) + 1, Len(m_constants')),
         m_status' = m_status, m_aggs' = m_aggs, fault' = fault
  PROVE  TypeOK'
<1>1. /\ m_exprs' \in Seq(Node)
      /\ \A k \in Handles' : RowOK(m_exprs[k], k, Len(m_constants))'
      /\ usage' \in Seq(Nat) /\ Len(usage') = Len(m_exprs')
      /\ ret' \in Handles'
      /\ Handles \subseteq Handles'
  BY InternKeepsTables
<1>2. m_aggs' \in Seq([agg_type : AggTypes, expr : Handles'])
  BY <1>1, AggsStayTyped DEF TypeOK
<1> QED
  BY <1>1, <1>2 DEF TypeOK

\* The tables begin empty.
LEMMA InitTypes == Init => TypeOK
<1> SUFFICES ASSUME Init PROVE TypeOK
  OBVIOUS
<1>1. \A S : <<>> \in Seq(S)
  BY EmptySeq
<1>2. Handles = {} /\ Len(m_exprs) = 0 /\ Len(usage) = 0
  BY DEF Init, Handles
<1> QED
  BY <1>1, <1>2, Zenon DEF Init, TypeOK

\* A call of the API keeps the types of its tables.
LEMMA NextKeepsTypes == TypeOK /\ [Next]_exprVars => TypeOK'
<1> SUFFICES ASSUME TypeOK, [Next]_exprVars PROVE TypeOK'
  OBVIOUS
<1>0. /\ m_constants \in Seq(Long) /\ Len(m_constants) \in Nat
      /\ m_exprs \in Seq(Node) /\ Len(m_exprs) \in Nat
      /\ Handles = 1 .. Len(m_exprs)
  BY DEF TypeOK, Handles
<1>1. ASSUME NEW col \in Columns, Load(col) PROVE TypeOK'
  <2>1. PICK e : e = Leaf("Load", col)
    OBVIOUS
  <2>2. e \in Node /\ RowOK(e, Len(m_exprs) + 1, Len(m_constants))
    BY <2>1, LoadFits
  <2>3. /\ Intern(e) /\ m_constants' = m_constants
        /\ m_status' = m_status /\ m_aggs' = m_aggs /\ fault' = fault
    BY <1>1, <2>1 DEF Load
  <2> QED
    BY <1>0, <2>2, <2>3, InternKeepsTypes
<1>2. CASE LoadUnknown
  BY <1>2 DEF LoadUnknown, TypeOK, Handles, RowOK, IsConstant
<1>3. ASSUME NEW v \in Literals, ConstantInteger(v) PROVE TypeOK'
  <2> DEFINE p == PoolIndex(v)
  <2>1. p \in 1 .. (Len(m_constants) + 1)
    BY <1>0, PoolIndexFits
  <2>2. m_constants' = IF p > Len(m_constants) THEN Append(m_constants, v) ELSE m_constants
    BY <1>3 DEF ConstantInteger
  <2>3. v \in Long
    BY LongAssumption
  <2>4. /\ m_constants' \in Seq(Long) /\ Len(m_constants) <= Len(m_constants')
        /\ p \in 1 .. Len(m_constants')
    <3> HIDE DEF p
    <3>1. CASE p > Len(m_constants)
      BY <1>0, <2>1, <2>2, <2>3, <3>1, AppendProperties
    <3>2. CASE ~(p > Len(m_constants))
      BY <1>0, <2>1, <2>2, <3>2
    <3> QED
      BY <3>1, <3>2
  <2>5. CASE m_status = "PROGRAMMING"
    <3>1. PICK e : e = Leaf("LoadConstantInt", p)
      OBVIOUS
    <3>2. e \in Node /\ RowOK(e, Len(m_exprs) + 1, Len(m_constants'))
      <4> HIDE DEF p
      <4>1. Len(m_constants') \in Nat
        BY <2>4
      <4> QED
        BY <2>4, <3>1, <4>1, ConstantFits
    <3>3. /\ Intern(e) /\ m_status' = m_status /\ m_aggs' = m_aggs /\ fault' = fault
      BY <1>3, <2>5, <3>1 DEF ConstantInteger
    <3> QED
      BY <2>4, <3>2, <3>3, InternKeepsTypes
  <2>6. CASE m_status = "FAILED"
    <3>1. /\ m_exprs' = m_exprs /\ usage' = usage /\ ret' = NULL
          /\ m_status' = m_status /\ m_aggs' = m_aggs /\ fault' = fault
      BY <1>3, <2>6 DEF ConstantInteger
    <3>2. \A k \in Handles : RowOK(m_exprs[k], k, Len(m_constants))'
      <4>1. \A k \in Handles : RowOK(m_exprs[k], k, Len(m_constants))
        BY DEF TypeOK
      <4>2. Len(m_constants') \in Nat
        BY <2>4
      <4> QED
        BY <1>0, <2>4, <3>1, <4>1, <4>2 DEF RowOK, IsConstant
    <3> QED
      BY <2>4, <3>1, <3>2 DEF TypeOK, Handles
  <2> QED
    BY <1>3, <2>5, <2>6 DEF ConstantInteger
<1>4. ASSUME NEW op \in Ops, NEW left \in Handles, NEW right \in Handles,
             Arith(op, left, right)
      PROVE  TypeOK'
  <2>1. CASE IsConstant(left) /\ IsConstant(right) /\ Traps(op, ConstantOf(left), ConstantOf(right))
    <3>1. /\ m_exprs' = m_exprs /\ usage' = usage /\ ret' = ret /\ fault' = TRUE
          /\ m_constants' = m_constants /\ m_status' = m_status /\ m_aggs' = m_aggs
      BY <1>4, <2>1 DEF Arith, Fold
    <3> QED
      BY <3>1 DEF TypeOK, Handles, RowOK, IsConstant
  <2>2. CASE IsConstant(left) /\ IsConstant(right) /\ ~Traps(op, ConstantOf(left), ConstantOf(right))
    <3> DEFINE c == Apply(op, ConstantOf(left), ConstantOf(right))
    <3>1. PICK e : e = Leaf("LoadConstantInt", Len(m_constants) + 1)
      OBVIOUS
    <3>2. /\ m_constants' = Append(m_constants, c) /\ Intern(e) /\ fault' = fault
          /\ m_status' = m_status /\ m_aggs' = m_aggs
      BY <1>4, <2>2, <3>1 DEF Arith, Fold
    <3>3. ASSUME NEW k \in Handles, IsConstant(k) PROVE ConstantOf(k) \in Long
      <4>1. m_exprs[k].idx \in 1 .. Len(m_constants)
        BY <3>3 DEF TypeOK, RowOK, IsConstant, ArithOps
      <4> QED
        BY <1>0, <4>1 DEF ConstantOf
    <3>4. c \in Long
      BY <2>2, <3>3, ApplyInLong, OpsAssumption
    <3> HIDE DEF c
    <3>5. m_constants' \in Seq(Long) /\ Len(m_constants') = Len(m_constants) + 1
      BY <1>0, <3>2, <3>4, AppendProperties
    <3>6. e \in Node /\ RowOK(e, Len(m_exprs) + 1, Len(m_constants'))
      <4>1. Len(m_constants) + 1 \in Nat /\ Len(m_constants) + 1 \in 1 .. (Len(m_constants) + 1)
        BY <1>0
      <4>2. Len(m_constants') = Len(m_constants) + 1
        BY <3>5
      <4> QED
        BY <3>1, <4>1, <4>2, ConstantFits
    <3> QED
      BY <1>0, <3>2, <3>5, <3>6, InternKeepsTypes
  <2>3. CASE ~(IsConstant(left) /\ IsConstant(right))
    <3>1. PICK e : e = Arithmetic(op, left, right)
      OBVIOUS
    <3>2. e \in Node /\ RowOK(e, Len(m_exprs) + 1, Len(m_constants))
      BY <2>3, <3>1, ArithmeticFits
    <3>3. /\ Intern(e) /\ m_constants' = m_constants
          /\ m_status' = m_status /\ m_aggs' = m_aggs /\ fault' = fault
      BY <1>4, <2>3, <3>1 DEF Arith
    <3> QED
      BY <1>0, <3>2, <3>3, InternKeepsTypes
  <2> QED
    BY <2>1, <2>2, <2>3
<1>5. ASSUME NEW type \in AggTypes, NEW k \in Handles, Aggregate(type, k)
      PROVE  TypeOK'
  <2> DEFINE agg == [agg_type |-> type, expr |-> k]
  <2>1. /\ m_exprs' = m_exprs /\ m_constants' = m_constants /\ ret' = ret
        /\ m_status' = m_status /\ fault' = fault
    BY <1>5 DEF Aggregate
  <2>2. \/ usage' = usage /\ m_aggs' = m_aggs
        \/ usage' = CountedAgg(k) /\ m_aggs' = Append(m_aggs, agg)
    BY <1>5 DEF Aggregate
  <2>3. m_aggs' \in Seq([agg_type : AggTypes, expr : Handles])
    <3> DEFINE S == [agg_type : AggTypes, expr : Handles]
    <3>1. agg \in S
      OBVIOUS
    <3>2. m_aggs \in Seq(S)
      BY DEF TypeOK
    <3> HIDE DEF agg, S
    <3>3. m_aggs' \in Seq(S)
      BY <2>2, <3>1, <3>2, AppendProperties
    <3> QED
      BY <3>3 DEF S
  <2>4. usage' \in Seq(Nat) /\ Len(usage') = Len(m_exprs)
    <3>1. usage \in Seq(Nat) /\ Len(usage) = Len(m_exprs) /\ k \in 1 .. Len(usage)
      BY <1>0 DEF TypeOK
    <3>2. usage[k] \in Nat
      BY <3>1
    <3>3. CountedAgg(k) = [usage EXCEPT ![k] = usage[k] + 1]
      BY DEF CountedAgg
    <3>4. CountedAgg(k) \in Seq(Nat) /\ Len(CountedAgg(k)) = Len(usage)
      BY <3>1, <3>2, <3>3, ExceptSeq
    <3> QED
      BY <2>2, <3>1, <3>4
  <2> QED
    BY <2>1, <2>3, <2>4 DEF TypeOK, Handles, RowOK, IsConstant
<1>6. CASE UNCHANGED exprVars
  BY <1>6 DEF exprVars, TypeOK, Handles, RowOK, IsConstant
<1> QED
  BY <1>1, <1>2, <1>3, <1>4, <1>5, <1>6 DEF Next

\* Every index the tables hold is an index of the table it points into, and
\* every constant is a long int: what the has_item asserts of new_expr and
\* new_agg state, for any columns, literals, width and bounds.
THEOREM TypeCorrect == Spec => []TypeOK
<1>1. Init => TypeOK
  BY InitTypes
<1>2. TypeOK /\ [Next]_exprVars => TypeOK'
  BY NextKeepsTypes
<1> QED
  BY <1>1, <1>2, PTL DEF Spec

-----------------------------------------------------------------------------
(* Deduplication.                                                            *)

\* What new_expr does to the table: nothing, or one row more that is like none
\* of the others.
LEMMA InternRows ==
  ASSUME TypeOK, NEW e \in Node, Intern(e)
  PROVE  \/ /\ m_exprs' = m_exprs /\ usage' = usage /\ Handles' = Handles
         \/ /\ Len(m_exprs) \in Nat
            /\ Handles = 1 .. Len(m_exprs) /\ Handles' = 1 .. (Len(m_exprs) + 1)
            /\ m_exprs'[Len(m_exprs) + 1] = e
            /\ \A k \in Handles : m_exprs'[k] = m_exprs[k] /\ ~SameExpr(e, m_exprs[k])
<1>1. m_exprs \in Seq(Node) /\ Len(m_exprs) \in Nat /\ Handles = 1 .. Len(m_exprs)
  BY DEF TypeOK, Handles
<1>2. CASE Matching(e) # {}
  BY <1>2 DEF Intern, Handles
<1>3. CASE Matching(e) = {}
  <2>1. m_exprs' = Append(m_exprs, e)
    BY <1>3 DEF Intern
  <2>2. /\ Len(m_exprs') = Len(m_exprs) + 1 /\ m_exprs'[Len(m_exprs) + 1] = e
        /\ \A k \in 1 .. Len(m_exprs) : m_exprs'[k] = m_exprs[k]
    BY <1>1, <2>1, AppendProperties
  <2>3. \A k \in Handles : ~SameExpr(e, m_exprs[k])
    BY <1>3 DEF Matching
  <2> QED
    BY <1>1, <2>2, <2>3 DEF Handles
<1> QED
  BY <1>2, <1>3

\* new_expr adds no twin.
LEMMA InternAddsNoTwin ==
  ASSUME TypeOK, NoTwinExprs, NEW e \in Node, Intern(e)
  PROVE  NoTwinExprs'
<1>1. CASE m_exprs' = m_exprs /\ Handles' = Handles
  BY <1>1 DEF NoTwinExprs, SameExpr
<1>2. CASE /\ Len(m_exprs) \in Nat
           /\ Handles = 1 .. Len(m_exprs) /\ Handles' = 1 .. (Len(m_exprs) + 1)
           /\ m_exprs'[Len(m_exprs) + 1] = e
           /\ \A k \in Handles : m_exprs'[k] = m_exprs[k] /\ ~SameExpr(e, m_exprs[k])
  <2> SUFFICES ASSUME NEW j \in Handles', NEW k \in Handles',
                      SameExpr(m_exprs'[j], m_exprs'[k]), j # k
               PROVE  FALSE
    BY DEF NoTwinExprs, SameExpr
  <2>1. CASE j \in Handles /\ k \in Handles
    BY <1>2, <2>1 DEF NoTwinExprs
  <2>2. CASE j = Len(m_exprs) + 1 /\ k \in Handles
    BY <1>2, <2>2
  <2>3. CASE j \in Handles /\ k = Len(m_exprs) + 1
    BY <1>2, <2>3 DEF SameExpr
  <2> QED
    BY <1>2, <2>1, <2>2, <2>3
<1> QED
  BY <1>1, <1>2, InternRows

\* The rows the calls hand to new_expr.
Requested(e) ==
  /\ e \in Node
  /\ \/ e.op \notin ArithOps /\ e.left = NULL /\ e.right = NULL
     \/ /\ e.op \in ArithOps /\ e.left \in Handles /\ e.right \in Handles
        /\ e = Arithmetic(e.op, e.left, e.right)

\* Every step of the API that reaches new_expr interns a requested row, and
\* every other step leaves the expressions alone.
LEMMA StepsIntern ==
  ASSUME TypeOK, [Next]_exprVars
  PROVE  \/ \E e : Requested(e) /\ Intern(e) /\ m_aggs' = m_aggs
         \/ m_exprs' = m_exprs /\ usage' = usage /\ m_aggs' = m_aggs
         \/ \E type \in AggTypes, k \in Handles : Aggregate(type, k)
<1>1. \A col \in Columns : Requested(Leaf("Load", col))
  BY LoadFits DEF Requested, Leaf, ArithOps
<1>2. \A idx : Leaf("LoadConstantInt", idx) \in Node => Requested(Leaf("LoadConstantInt", idx))
  BY DEF Requested, Leaf, ArithOps
<1>3. ASSUME NEW col \in Columns, Load(col)
      PROVE  \E e : Requested(e) /\ Intern(e) /\ m_aggs' = m_aggs
  BY <1>1, <1>3 DEF Load
<1>4. ASSUME NEW v \in Literals, ConstantInteger(v)
      PROVE  \/ \E e : Requested(e) /\ Intern(e) /\ m_aggs' = m_aggs
             \/ m_exprs' = m_exprs /\ usage' = usage /\ m_aggs' = m_aggs
  <2>1. m_constants \in Seq(Long) /\ Len(m_constants) + 1 \in Nat
    BY DEF TypeOK
  <2>2. Leaf("LoadConstantInt", PoolIndex(v)) \in Node
    BY <2>1, PoolIndexFits, ConstantFits
  <2> QED
    BY <1>2, <1>4, <2>2 DEF ConstantInteger
<1>5. ASSUME NEW op \in Ops, NEW left \in Handles, NEW right \in Handles,
             Arith(op, left, right)
      PROVE  \/ \E e : Requested(e) /\ Intern(e) /\ m_aggs' = m_aggs
             \/ m_exprs' = m_exprs /\ usage' = usage /\ m_aggs' = m_aggs
  <2>1. CASE IsConstant(left) /\ IsConstant(right)
    <3>1. Leaf("LoadConstantInt", Len(m_constants) + 1) \in Node
      <4>1. Len(m_constants) + 1 \in Nat /\ Len(m_constants) + 1 \in 1 .. (Len(m_constants) + 1)
        BY DEF TypeOK
      <4> QED
        BY <4>1, ConstantFits
    <3> QED
      BY <1>2, <1>5, <2>1, <3>1 DEF Arith, Fold
  <2>2. CASE ~(IsConstant(left) /\ IsConstant(right))
    <3>1. PICK e : e = Arithmetic(op, left, right)
      OBVIOUS
    <3>2. e.op = op /\ e.left = left /\ e.right = right /\ op \in ArithOps
      BY <3>1, OpsAssumption DEF Arithmetic
    <3>3. e \in Node
      BY <2>2, <3>1, ArithmeticFits
    <3>4. Requested(e)
      BY <3>1, <3>2, <3>3 DEF Requested
    <3> QED
      BY <1>5, <2>2, <3>1, <3>4 DEF Arith
  <2> QED
    BY <2>1, <2>2
<1> QED
  BY <1>3, <1>4, <1>5 DEF Next, LoadUnknown, exprVars

\* A call of the API adds no twin.
LEMMA NextKeepsNoTwins == TypeOK /\ NoTwins /\ [Next]_exprVars => NoTwins'
<1> SUFFICES ASSUME TypeOK, NoTwinExprs, NoTwinAggs, [Next]_exprVars
             PROVE  NoTwinExprs' /\ NoTwinAggs'
  BY DEF NoTwins
<1>1. ASSUME NEW e, Requested(e), Intern(e), m_aggs' = m_aggs
      PROVE  NoTwinExprs' /\ NoTwinAggs'
  BY <1>1, InternAddsNoTwin DEF NoTwinAggs, SameAgg, Requested
<1>2. CASE m_exprs' = m_exprs /\ usage' = usage /\ m_aggs' = m_aggs
  BY <1>2 DEF NoTwinExprs, NoTwinAggs, Handles, SameExpr, SameAgg
<1>3. ASSUME NEW type \in AggTypes, NEW k \in Handles, Aggregate(type, k)
      PROVE  NoTwinExprs' /\ NoTwinAggs'
  <2> DEFINE agg == [agg_type |-> type, expr |-> k]
             S == [agg_type : AggTypes, expr : Handles]
  <2>1. NoTwinExprs'
    BY <1>3 DEF Aggregate, NoTwinExprs, Handles, SameExpr
  <2>2. m_aggs \in Seq(S) /\ agg \in S
    BY DEF TypeOK
  <2>3. CASE m_aggs' = m_aggs
    BY <2>1, <2>3 DEF NoTwinAggs, SameAgg
  <2>4. CASE m_aggs' = Append(m_aggs, agg) /\ \A i \in 1 .. Len(m_aggs) : ~SameAgg(agg, m_aggs[i])
    <3> HIDE DEF agg, S
    <3>1. /\ Len(m_aggs) \in Nat /\ Len(m_aggs') = Len(m_aggs) + 1
          /\ m_aggs'[Len(m_aggs) + 1] = agg
          /\ \A i \in 1 .. Len(m_aggs) : m_aggs'[i] = m_aggs[i]
      BY <2>2, <2>4, AppendProperties
    <3>2. SUFFICES ASSUME NEW i \in 1 .. Len(m_aggs'), NEW j \in 1 .. Len(m_aggs'),
                          SameAgg(m_aggs'[i], m_aggs'[j]), i # j
                   PROVE  FALSE
      BY <2>1 DEF NoTwinAggs, SameAgg
    <3>3. CASE i \in 1 .. Len(m_aggs) /\ j \in 1 .. Len(m_aggs)
      BY <3>1, <3>2, <3>3 DEF NoTwinAggs
    <3>4. CASE i = Len(m_aggs) + 1 /\ j \in 1 .. Len(m_aggs)
      BY <2>4, <3>1, <3>2, <3>4
    <3>5. CASE i \in 1 .. Len(m_aggs) /\ j = Len(m_aggs) + 1
      BY <2>4, <3>1, <3>2, <3>5 DEF SameAgg
    <3> QED
      BY <3>1, <3>2, <3>3, <3>4, <3>5
  <2> QED
    BY <1>3, <2>3, <2>4 DEF Aggregate
<1> QED
  BY <1>1, <1>2, <1>3, StepsIntern

\* Deduplication never lets two rows describe the same expression or the same
\* aggregate, for any columns, literals, operations and bounds.
THEOREM NoTwinsAlways == Spec => []NoTwins
<1>1. Init => NoTwins
  BY DEF Init, NoTwins, NoTwinExprs, NoTwinAggs, Handles
<1>2. TypeOK /\ NoTwins /\ [Next]_exprVars => NoTwins'
  BY NextKeepsNoTwins
<1> QED
  BY <1>1, <1>2, TypeCorrect, PTL DEF Spec

-----------------------------------------------------------------------------
(* The number of registers an expression needs.                              *)

\* The formula of new_expr takes the cheaper of the two orders.
LEMMA CheaperOrder ==
  ASSUME NEW e, NEW l \in Nat, NEW r \in Nat,
         e.est_regs = IF l >= r THEN MaxOf(l, r + 1) ELSE MaxOf(l + 1, r),
         e.eval_left_first = (l >= r)
  PROVE  CheapestOrder(e, l, r)
<1>1. CASE l >= r
  <2>1. e.est_regs = MaxOf(l, r + 1) /\ e.est_regs <= MaxOf(r, l + 1)
    BY <1>1 DEF MaxOf
  <2>2. e.est_regs <= e.est_regs
    BY <1>1 DEF MaxOf
  <2>3. e.eval_left_first
    BY <1>1, Zenon
  <2> QED
    BY <2>1, <2>2, <2>3, Zenon DEF CheapestOrder
<1>2. CASE ~(l >= r)
  <2>1. e.est_regs = MaxOf(r, l + 1) /\ e.est_regs <= MaxOf(l, r + 1)
    BY <1>2 DEF MaxOf
  <2>2. e.est_regs <= e.est_regs
    BY <1>2 DEF MaxOf
  <2>3. ~e.eval_left_first
    BY <1>2, Zenon
  <2> QED
    BY <2>1, <2>2, <2>3, Zenon DEF CheapestOrder
<1> QED
  BY <1>1, <1>2, Zenon

\* A call of the API adds no row with a wrong estimate.
LEMMA NextKeepsCheapest == TypeOK /\ EstRegsIsCheapestOrder /\ [Next]_exprVars => EstRegsIsCheapestOrder'
<1> SUFFICES ASSUME TypeOK, EstRegsIsCheapestOrder, [Next]_exprVars
             PROVE  EstRegsIsCheapestOrder'
  OBVIOUS
<1>1. CASE m_exprs' = m_exprs
  BY <1>1 DEF EstRegsIsCheapestOrder, Handles
<1>2. ASSUME NEW e, Requested(e), Intern(e) PROVE EstRegsIsCheapestOrder'
  <2> DEFINE n == Len(m_exprs)
  <2>0. ASSUME NEW k \in Handles
        PROVE  /\ m_exprs[k].est_regs \in Nat
               /\ m_exprs[k].op \in ArithOps
                    => m_exprs[k].left \in Handles /\ m_exprs[k].right \in Handles
    <3>1. m_exprs \in Seq(Node) /\ Handles = 1 .. n /\ n \in Nat
      BY DEF TypeOK, Handles
    <3>2. m_exprs[k] \in Node
      BY <3>1
    <3>3. m_exprs[k].op \in ArithOps
            => m_exprs[k].left \in 1 .. (k - 1) /\ m_exprs[k].right \in 1 .. (k - 1)
      BY DEF TypeOK, RowOK, ArithOps
    <3>4. 1 .. (k - 1) \subseteq Handles
      BY <3>1
    <3> QED
      BY <3>2, <3>3, <3>4 DEF Node
  <2>1. CASE /\ n \in Nat /\ Handles = 1 .. n /\ Handles' = 1 .. (n + 1)
             /\ m_exprs'[n + 1] = e
             /\ \A k \in Handles : m_exprs'[k] = m_exprs[k]
    <3> SUFFICES ASSUME NEW k \in Handles', NEW f, f = m_exprs'[k],
                        f.op \in ArithOps, f.left # f.right
                 PROVE  CheapestOrder(f, m_exprs'[f.left].est_regs, m_exprs'[f.right].est_regs)
      BY DEF EstRegsIsCheapestOrder, CheapestOrder
    <3>1. CASE k \in Handles
      <4>1. f = m_exprs[k] /\ f.left \in Handles /\ f.right \in Handles
        BY <2>0, <2>1, <3>1
      <4> QED
        BY <2>1, <3>1, <4>1 DEF EstRegsIsCheapestOrder
    <3>2. CASE k = n + 1
      <4>1. f = e /\ e.left \in Handles /\ e.right \in Handles /\ e = Arithmetic(e.op, e.left, e.right)
        BY <1>2, <2>1, <3>2 DEF Requested
      <4> DEFINE l == m_exprs[e.left].est_regs
                 r == m_exprs[e.right].est_regs
      <4>2. l \in Nat /\ r \in Nat
        BY <2>0, <4>1
      <4>3. m_exprs'[e.left] = m_exprs[e.left] /\ m_exprs'[e.right] = m_exprs[e.right]
        BY <2>1, <4>1
      <4>4. /\ e.est_regs = IF l >= r THEN MaxOf(l, r + 1) ELSE MaxOf(l + 1, r)
            /\ e.eval_left_first = (l >= r)
        BY <4>1 DEF Arithmetic, EstRegs
      <4> HIDE DEF l, r
      <4>5. CheapestOrder(e, l, r)
        BY <4>2, <4>4, CheaperOrder
      <4> QED
        BY <4>1, <4>3, <4>5 DEF l, r
    <3> QED
      BY <2>1, <3>1, <3>2
  <2> QED
    BY <1>1, <1>2, <2>1, InternRows DEF Requested
<1>3. ASSUME NEW type \in AggTypes, NEW k \in Handles, Aggregate(type, k)
      PROVE  EstRegsIsCheapestOrder'
  BY <1>1, <1>3 DEF Aggregate
<1> QED
  BY <1>1, <1>2, <1>3, StepsIntern

\* est_regs is what the cheaper order of evaluation needs, and eval_left_first
\* names that order, for any expressions over any columns and constants.
THEOREM EstRegsAlwaysCheapest == Spec => []EstRegsIsCheapestOrder
<1>1. Init => EstRegsIsCheapestOrder
  BY DEF Init, EstRegsIsCheapestOrder, Handles
<1>2. TypeOK /\ EstRegsIsCheapestOrder /\ [Next]_exprVars => EstRegsIsCheapestOrder'
  BY NextKeepsCheapest
<1> QED
  BY <1>1, <1>2, TypeCorrect, PTL DEF Spec

-----------------------------------------------------------------------------
(* The reference counts.                                                     *)

\* A set of indices can be counted.
LEMMA CountIsNat ==
  ASSUME NEW n \in Nat, NEW P, P \subseteq 1 .. n
  PROVE  Cardinality(P) \in Nat
<1>1. IsFiniteSet(1 .. n)
  BY FS_Interval
<1>2. IsFiniteSet(P)
  BY <1>1, FS_Subset
<1> QED
  BY <1>2, FS_CardinalityType

\* The indices up to n + 1 with a property, counted from those up to n.
LEMMA CountOneMore ==
  ASSUME NEW n \in Nat, NEW P, NEW Q, P \subseteq 1 .. n, Q \subseteq 1 .. (n + 1),
         \A i \in 1 .. n : i \in Q <=> i \in P
  PROVE  /\ Cardinality(P) \in Nat
         /\ Cardinality(Q) = Cardinality(P) + (IF n + 1 \in Q THEN 1 ELSE 0)
<1>1. IsFiniteSet(1 .. n)
  BY FS_Interval
<1>2. IsFiniteSet(P)
  BY <1>1, FS_Subset
<1>3. Cardinality(P) \in Nat
  BY <1>2, FS_CardinalityType
<1>4. CASE n + 1 \in Q
  <2>0. \A i \in 1 .. (n + 1) : i \in 1 .. n \/ i = n + 1
    OBVIOUS
  <2>1. n + 1 \notin 1 .. n
    OBVIOUS
  <2>2. \A i : i \in Q <=> i \in P \/ i = n + 1
    BY <1>4, <2>0, <2>1
  <2>3. Q = P \cup {n + 1} /\ n + 1 \notin P
    BY <2>1, <2>2
  <2>4. Cardinality(Q) = Cardinality(P) + 1
    BY <1>2, <2>3, FS_AddElement
  <2> QED
    BY <1>3, <1>4, <2>4
<1>5. CASE n + 1 \notin Q
  <2>0. \A i \in 1 .. (n + 1) : i \in 1 .. n \/ i = n + 1
    OBVIOUS
  <2>1. Q = P
    BY <1>5, <2>0
  <2> QED
    BY <1>3, <1>5, <2>1
<1> QED
  BY <1>4, <1>5

\* Operand slots and aggregates that point to k.
LeftUsers(k) == {n \in Handles : m_exprs[n].left = k}
RightUsers(k) == {n \in Handles : m_exprs[n].right = k}
AggUsers(k) == {i \in 1 .. Len(m_aggs) : m_aggs[i].expr = k}

\* A row more, and one user more for each of its operands.
LEMMA InternCounts ==
  ASSUME TypeOK, UsageIsReferenceCount, NEW e, Requested(e), Intern(e), m_aggs' = m_aggs
  PROVE  UsageIsReferenceCount'
<1> DEFINE n == Len(m_exprs)
<1>1. /\ m_exprs \in Seq(Node) /\ n \in Nat /\ Handles = 1 .. n
      /\ usage \in Seq(Nat) /\ Len(usage) = n
      /\ \A i \in 1 .. Len(m_aggs) : m_aggs[i].expr \in Handles
  <2> DEFINE S == [agg_type : AggTypes, expr : Handles]
  <2>1. m_aggs \in Seq(S)
    BY DEF TypeOK
  <2>2. \A i \in 1 .. Len(m_aggs) : m_aggs[i] \in S
    <3> HIDE DEF S
    <3> QED
      BY <2>1
  <2> QED
    BY <2>2 DEF TypeOK, Handles
<1>2. CASE Matching(e) # {}
  <2>1. m_exprs' = m_exprs /\ usage' = usage
    BY <1>2 DEF Intern
  <2> QED
    BY <2>1 DEF UsageIsReferenceCount, References, Handles
<1>3. CASE Matching(e) = {}
  <2>1. m_exprs' = Append(m_exprs, e) /\ usage' = Append(Referenced(e), 0)
    BY <1>3 DEF Intern
  <2>2. /\ Len(m_exprs') = n + 1 /\ m_exprs'[n + 1] = e /\ Handles' = 1 .. (n + 1)
        /\ \A k \in 1 .. n : m_exprs'[k] = m_exprs[k]
    <3>1. e \in Node
      BY DEF Requested
    <3> QED
      BY <1>1, <2>1, <3>1, AppendProperties DEF Handles
  <2>3. /\ \A k \in 1 .. n :
             usage'[k] = usage[k] + (IF k = e.left THEN 1 ELSE 0) + (IF k = e.right THEN 1 ELSE 0)
        /\ usage'[n + 1] = 0
    <3>1. Referenced(e) = [k \in 1 .. n |->
            usage[k] + (IF k = e.left THEN 1 ELSE 0) + (IF k = e.right THEN 1 ELSE 0)]
      BY <1>1 DEF Referenced
    <3>2. \A k \in 1 .. n :
            usage[k] + (IF k = e.left THEN 1 ELSE 0) + (IF k = e.right THEN 1 ELSE 0) \in Nat
      BY <1>1
    <3>3. Referenced(e) \in Seq(Nat) /\ Len(Referenced(e)) = n
      BY <1>1, <3>1, <3>2, IsASeq
    <3> QED
      BY <1>1, <2>1, <3>1, <3>3, AppendProperties
  <2>4. e.left \in {NULL} \cup Handles /\ e.right \in {NULL} \cup Handles
    BY DEF Requested
  <2> SUFFICES ASSUME NEW k \in Handles' PROVE usage'[k] = References(k)'
    BY DEF UsageIsReferenceCount
  <2> DEFINE L == LeftUsers(k)
             R == RightUsers(k)
             A == AggUsers(k)
  <2>5. References(k)' = Cardinality(L') + Cardinality(R') + Cardinality(A')
    BY DEF References, LeftUsers, RightUsers, AggUsers
  <2>6. References(k) = Cardinality(L) + Cardinality(R) + Cardinality(A)
    BY DEF References, LeftUsers, RightUsers, AggUsers
  <2>7. /\ Cardinality(L) \in Nat
        /\ Cardinality(L') = Cardinality(L) + (IF k = e.left THEN 1 ELSE 0)
    <3>1. L \subseteq 1 .. n /\ L' \subseteq 1 .. (n + 1) /\ \A i \in 1 .. n : i \in L' <=> i \in L
      BY <1>1, <2>2 DEF LeftUsers
    <3>2. n + 1 \in L' <=> k = e.left
      BY <1>1, <2>2 DEF LeftUsers
    <3>3. PICK P, Q : P = L /\ Q = L'
      OBVIOUS
    <3> HIDE DEF L, n
    <3>4. /\ Cardinality(P) \in Nat
          /\ Cardinality(Q) = Cardinality(P) + (IF n + 1 \in Q THEN 1 ELSE 0)
      BY <1>1, <3>1, <3>3, CountOneMore
    <3> QED
      BY <3>2, <3>3, <3>4
  <2>8. /\ Cardinality(R) \in Nat
        /\ Cardinality(R') = Cardinality(R) + (IF k = e.right THEN 1 ELSE 0)
    <3>1. R \subseteq 1 .. n /\ R' \subseteq 1 .. (n + 1) /\ \A i \in 1 .. n : i \in R' <=> i \in R
      BY <1>1, <2>2 DEF RightUsers
    <3>2. n + 1 \in R' <=> k = e.right
      BY <1>1, <2>2 DEF RightUsers
    <3>3. PICK P, Q : P = R /\ Q = R'
      OBVIOUS
    <3> HIDE DEF R, n
    <3>4. /\ Cardinality(P) \in Nat
          /\ Cardinality(Q) = Cardinality(P) + (IF n + 1 \in Q THEN 1 ELSE 0)
      BY <1>1, <3>1, <3>3, CountOneMore
    <3> QED
      BY <3>2, <3>3, <3>4
  <2>9. A' = A /\ Cardinality(A) \in Nat
    <3>1. A' = A
      BY DEF AggUsers
    <3>2. Len(m_aggs) \in Nat /\ A \subseteq 1 .. Len(m_aggs)
      BY DEF TypeOK, AggUsers
    <3>3. Cardinality(A) \in Nat
      BY <3>2, CountIsNat
    <3> QED
      BY <3>1, <3>3
  <2>10. CASE k \in 1 .. n
    <3>1. usage[k] = References(k) /\ usage[k] \in Nat
      BY <1>1, <2>10 DEF UsageIsReferenceCount
    <3> HIDE DEF L, R, A
    <3> QED
      BY <2>3, <2>5, <2>6, <2>7, <2>8, <2>9, <2>10, <3>1
  <2>11. CASE k = n + 1
    <3>1. L = {} /\ R = {} /\ A = {}
      <4>1. \A m \in Handles : m_exprs[m].left # k /\ m_exprs[m].right # k
        <5>1. ASSUME NEW m \in Handles
              PROVE  m_exprs[m].left \in 0 .. n /\ m_exprs[m].right \in 0 .. n
          <6>1. RowOK(m_exprs[m], m, Len(m_constants)) /\ m \in 1 .. n
            BY <1>1 DEF TypeOK
          <6> QED
            BY <1>1, <6>1 DEF RowOK, NULL
        <5> QED
          BY <1>1, <2>11, <5>1
      <4>2. k \notin Handles
        BY <1>1, <2>11
      <4> QED
        BY <1>1, <4>1, <4>2 DEF LeftUsers, RightUsers, AggUsers
    <3>2. k # e.left /\ k # e.right
      BY <1>1, <2>4, <2>11 DEF NULL
    <3>3. Cardinality(L) = 0 /\ Cardinality(R) = 0 /\ Cardinality(A) = 0
      BY <3>1, FS_EmptySet
    <3>4. Cardinality(L') = 0 /\ Cardinality(R') = 0 /\ Cardinality(A') = 0
      <4> HIDE DEF L, R, A
      <4> QED
        BY <2>7, <2>8, <2>9, <3>2, <3>3
    <3> HIDE DEF L, R, A
    <3> QED
      BY <2>3, <2>5, <2>11, <3>4
  <2> QED
    BY <1>1, <2>2, <2>10, <2>11
<1> QED
  BY <1>2, <1>3

\* An aggregate more is one user more of its expression.
LEMMA AggregateCounts ==
  ASSUME TypeOK, UsageIsReferenceCount,
         NEW type \in AggTypes, NEW h \in Handles, Aggregate(type, h)
  PROVE  UsageIsReferenceCount'
<1> DEFINE agg == [agg_type |-> type, expr |-> h]
           S == [agg_type : AggTypes, expr : Handles]
           n == Len(m_aggs)
<1>1. /\ m_aggs \in Seq(S) /\ n \in Nat /\ agg \in S /\ agg.expr = h
      /\ usage \in Seq(Nat) /\ Handles = 1 .. Len(usage)
  BY DEF TypeOK, Handles
<1>2. m_exprs' = m_exprs /\ Handles' = Handles
  BY DEF Aggregate, Handles
<1>3. CASE m_aggs' = m_aggs /\ usage' = usage
  BY <1>2, <1>3 DEF UsageIsReferenceCount, References
<1>4. CASE m_aggs' = Append(m_aggs, agg) /\ usage' = CountedAgg(h)
  <2> HIDE DEF agg, S
  <2>1. /\ Len(m_aggs') = n + 1 /\ m_aggs'[n + 1] = agg
        /\ \A i \in 1 .. n : m_aggs'[i] = m_aggs[i]
    BY <1>1, <1>4, AppendProperties
  <2>2. \A k \in Handles : usage'[k] = usage[k] + (IF k = h THEN 1 ELSE 0) /\ usage[k] \in Nat
    <3>1. usage' = [usage EXCEPT ![h] = usage[h] + 1]
      BY <1>4 DEF CountedAgg
    <3>2. \A k \in Handles : usage[k] \in Nat
      BY <1>1
    <3>3. h \in 1 .. Len(usage) /\ usage[h] + 1 \in Nat
      BY <1>1, <3>2
    <3>4. \A k \in 1 .. Len(usage) : usage'[k] = IF k = h THEN usage[h] + 1 ELSE usage[k]
      BY <1>1, <3>1, <3>3, ExceptSeq
    <3> QED
      BY <1>1, <3>2, <3>4
  <2> SUFFICES ASSUME NEW k \in Handles PROVE usage'[k] = References(k)'
    BY <1>2 DEF UsageIsReferenceCount
  <2> DEFINE L == LeftUsers(k)
             R == RightUsers(k)
             A == AggUsers(k)
  <2>3. /\ References(k)' = Cardinality(L') + Cardinality(R') + Cardinality(A')
        /\ References(k) = Cardinality(L) + Cardinality(R) + Cardinality(A)
    BY DEF References, LeftUsers, RightUsers, AggUsers
  <2>4. L' = L /\ R' = R /\ Cardinality(L) \in Nat /\ Cardinality(R) \in Nat
    <3>1. L' = L /\ R' = R
      BY <1>2 DEF LeftUsers, RightUsers
    <3>2. Len(usage) \in Nat /\ L \subseteq 1 .. Len(usage) /\ R \subseteq 1 .. Len(usage)
      BY <1>1 DEF LeftUsers, RightUsers
    <3>3. Cardinality(L) \in Nat /\ Cardinality(R) \in Nat
      BY <3>2, CountIsNat
    <3> QED
      BY <3>1, <3>3
  <2>5. /\ Cardinality(A) \in Nat
        /\ Cardinality(A') = Cardinality(A) + (IF k = h THEN 1 ELSE 0)
    <3>1. A \subseteq 1 .. n /\ A' \subseteq 1 .. (n + 1) /\ \A i \in 1 .. n : i \in A' <=> i \in A
      BY <1>1, <2>1 DEF AggUsers
    <3>2. n + 1 \in A' <=> k = h
      BY <1>1, <2>1 DEF AggUsers
    <3>3. PICK P, Q : P = A /\ Q = A'
      OBVIOUS
    <3> HIDE DEF A, n
    <3>4. /\ Cardinality(P) \in Nat
          /\ Cardinality(Q) = Cardinality(P) + (IF n + 1 \in Q THEN 1 ELSE 0)
      BY <1>1, <3>1, <3>3, CountOneMore
    <3> QED
      BY <3>2, <3>3, <3>4
  <2>6. usage[k] = References(k)
    BY DEF UsageIsReferenceCount
  <2> HIDE DEF L, R, A
  <2> QED
    BY <2>2, <2>3, <2>4, <2>5, <2>6
<1> QED
  BY <1>3, <1>4 DEF Aggregate

\* A call of the API keeps the reference counts.
LEMMA NextKeepsCounts == TypeOK /\ UsageIsReferenceCount /\ [Next]_exprVars => UsageIsReferenceCount'
<1> SUFFICES ASSUME TypeOK, UsageIsReferenceCount, [Next]_exprVars
             PROVE  UsageIsReferenceCount'
  OBVIOUS
<1>1. CASE m_exprs' = m_exprs /\ usage' = usage /\ m_aggs' = m_aggs
  BY <1>1 DEF UsageIsReferenceCount, References, Handles
<1> QED
  BY <1>1, InternCounts, AggregateCounts, StepsIntern

\* The reference counts the compiler trusts are right however expressions are
\* shared, repeated and folded, for any columns, literals and bounds.
THEOREM UsageAlwaysCounts == Spec => []UsageIsReferenceCount
<1>1. Init => UsageIsReferenceCount
  BY DEF Init, UsageIsReferenceCount, Handles
<1>2. TypeOK /\ UsageIsReferenceCount /\ [Next]_exprVars => UsageIsReferenceCount'
  BY NextKeepsCounts
<1> QED
  BY <1>1, <1>2, TypeCorrect, PTL DEF Spec

-----------------------------------------------------------------------------
(* The value of an expression.  Denotation is a recursive function over the  *)
(* handles: it exists, and its equation holds, because operands are older    *)
(* rows.                                                                     *)

\* The value of an operation, 0 where it would trap, is a long int.
LEMMA ValueInLong ==
  ASSUME NEW op \in ArithOps, NEW x \in Long, NEW y \in Long
  PROVE  ValueOf(op, x, y) \in Long
<1>1. 0 \in Long
  BY LongAssumption DEF Long
<1> QED
  BY <1>1, ApplyInLong DEF ValueOf

\* Every handle has a value, and it is the value of the handle's row.
LEMMA DenotationUnfolds ==
  TypeOK =>
    \A row \in [Columns -> Long], k \in Handles :
      /\ Denotation(row)[k] \in Long
      /\ Denotation(row)[k] = RowValue(row, Denotation(row), m_exprs[k])
<1> SUFFICES ASSUME TypeOK, NEW row \in [Columns -> Long]
             PROVE  \A k \in Handles :
      /\ Denotation(row)[k] \in Long
      /\ Denotation(row)[k] = RowValue(row, Denotation(row), m_exprs[k])
  OBVIOUS
<1> DEFINE Val(v, k) == RowValue(row, v, m_exprs[k])
           D == [k \in Handles |-> [v \in [Handles -> Long] |-> Val(v, k)]]
           rank == [k \in Handles |-> k]
<1>1. /\ m_exprs \in Seq(Node) /\ Len(m_exprs) \in Nat /\ Handles = 1 .. Len(m_exprs)
      /\ m_constants \in Seq(Long) /\ Len(m_constants) \in Nat
      /\ \A k \in Handles : RowOK(m_exprs[k], k, Len(m_constants))
  BY DEF TypeOK, Handles
<1>2. \A k \in Handles :
        m_exprs[k].op \in ArithOps =>
          /\ m_exprs[k].left \in Handles /\ m_exprs[k].left < k
          /\ m_exprs[k].right \in Handles /\ m_exprs[k].right < k
  <2> SUFFICES ASSUME NEW k \in Handles, m_exprs[k].op \in ArithOps
               PROVE  /\ m_exprs[k].left \in 1 .. (k - 1)
                      /\ m_exprs[k].right \in 1 .. (k - 1)
    BY <1>1
  <2>1. m_exprs[k].op \notin {"Load", "LoadConstantInt"}
    BY DEF ArithOps
  <2> QED BY <1>1, <2>1 DEF RowOK
<1>3. \A k \in Handles, v \in [Handles -> Long] : Val(v, k) \in Long
  <2> SUFFICES ASSUME NEW k \in Handles, NEW v \in [Handles -> Long] PROVE Val(v, k) \in Long
    OBVIOUS
  <2>1. RowOK(m_exprs[k], k, Len(m_constants))
    BY <1>1
  <2>2. CASE m_exprs[k].op = "Load" /\ m_exprs[k].idx \in Columns
    BY <2>2 DEF RowValue, ArithOps
  <2>3. CASE m_exprs[k].op = "LoadConstantInt" /\ m_exprs[k].idx \in 1 .. Len(m_constants)
    BY <1>1, <2>3 DEF RowValue, ArithOps
  <2>4. CASE m_exprs[k].op \in ArithOps
    <3>1. m_exprs[k].op \notin {"Load", "LoadConstantInt"}
      BY <2>4 DEF ArithOps
    <3>2. ValueOf(m_exprs[k].op, v[m_exprs[k].left], v[m_exprs[k].right]) \in Long
      BY <1>2, <2>4, ValueInLong
    <3> QED BY <2>4, <3>1, <3>2 DEF RowValue
  <2> QED BY <2>1, <2>2, <2>3, <2>4 DEF RowOK
<1>4. \A k \in Handles : \A g, h \in [Handles -> Long] :
        (\A j \in Handles : rank[j] < rank[k] => g[j] = h[j]) => D[k][g] = D[k][h]
  <2> SUFFICES ASSUME NEW k \in Handles, NEW g \in [Handles -> Long], NEW h \in [Handles -> Long],
                      \A j \in Handles : j < k => g[j] = h[j]
               PROVE  Val(g, k) = Val(h, k)
    <3> HIDE DEF Val
    <3> QED OBVIOUS
  <2>1. CASE m_exprs[k].op \in ArithOps
    <3>1. g[m_exprs[k].left] = h[m_exprs[k].left] /\ g[m_exprs[k].right] = h[m_exprs[k].right]
      BY <1>2, <2>1
    <3> QED BY <3>1 DEF RowValue
  <2>2. CASE m_exprs[k].op \notin ArithOps
    BY <2>2 DEF RowValue
  <2> QED BY <2>1, <2>2
<1>5. \E f \in [Handles -> Long] : \A k \in Handles : f[k] = D[k][f]
  <2>1. D \in [Handles -> [[Handles -> Long] -> Long]]
    BY <1>3
  <2>2. rank \in [Handles -> 0 .. Len(m_exprs)]
    BY <1>1
  <2>3. Long # {}
    BY LongAssumption DEF Long
  <2>4. Len(m_exprs) \in Nat
    BY <1>1
  <2> HIDE DEF D, rank
  <2>5. Recursion(Handles, Long, Len(m_exprs), rank, D)
    BY <1>4, <2>1, <2>2, <2>3, <2>4 DEF Recursion
  <2> QED BY <2>5, RecursiveFunctionExists
<1>6. \E f : f = [k \in Handles |-> Val(f, k)]
  <2>1. PICK f \in [Handles -> Long] : \A k \in Handles : f[k] = D[k][f]
    BY <1>5
  <2> HIDE DEF Val
  <2>2. f = [k \in Handles |-> Val(f, k)]
    BY <2>1
  <2> QED BY <2>2
<1> DEFINE v == CHOOSE f : f = [k \in Handles |-> Val(f, k)]
<1>7. v = Denotation(row)
  BY DEF Denotation
<1>8. v = [k \in Handles |-> Val(v, k)]
  BY <1>6
<1> HIDE DEF v
<1>9. \A k \in Handles : v[k] \in Long
  <2> DEFINE Bad == {k \in Handles : v[k] \notin Long}
  <2> SUFFICES ASSUME Bad # {} PROVE FALSE
    OBVIOUS
  <2>1. PICK k \in Bad : \A j \in Bad : k <= j
    <3>1. Bad \subseteq Nat
      BY <1>1
    <3> HIDE DEF Bad
    <3> QED BY <3>1, LeastNat
  <2>2. k \in Handles /\ v[k] \notin Long /\ \A j \in Handles : j < k => v[j] \in Long
    BY <1>1, <2>1
  <2> DEFINE u == [j \in Handles |-> IF v[j] \in Long THEN v[j] ELSE 0]
  <2>3. u \in [Handles -> Long]
    BY LongAssumption DEF Long
  <2>4. Val(u, k) = Val(v, k)
    <3>1. CASE m_exprs[k].op \in ArithOps
      <4>1. u[m_exprs[k].left] = v[m_exprs[k].left] /\ u[m_exprs[k].right] = v[m_exprs[k].right]
        BY <1>2, <2>2, <3>1
      <4> QED BY <4>1 DEF RowValue
    <3>2. CASE m_exprs[k].op \notin ArithOps
      BY <3>2 DEF RowValue
    <3> QED BY <3>1, <3>2
  <2>5. v[k] = Val(v, k)
    BY <1>8, <2>2
  <2>6. Val(u, k) \in Long
    <3> HIDE DEF u
    <3> QED BY <1>3, <2>2, <2>3
  <2> QED BY <2>2, <2>4, <2>5, <2>6
<1> QED
  BY <1>7, <1>8, <1>9

\* The same, one operation at a time.
LEMMA DenotationCases ==
  TypeOK =>
    \A row \in [Columns -> Long], k \in Handles :
      /\ Denotation(row)[k] \in Long
      /\ m_exprs[k].op = "Load" => Denotation(row)[k] = row[m_exprs[k].idx]
      /\ m_exprs[k].op = "LoadConstantInt" => Denotation(row)[k] = m_constants[m_exprs[k].idx]
      /\ m_exprs[k].op \in ArithOps =>
           Denotation(row)[k] = ValueOf(m_exprs[k].op, Denotation(row)[m_exprs[k].left],
                                                       Denotation(row)[m_exprs[k].right])
BY DenotationUnfolds DEF RowValue, ArithOps

\* The same in the state after a step.
LEMMA DenotationCasesAfter ==
  (TypeOK =>
    \A row \in [Columns -> Long], k \in Handles :
      /\ Denotation(row)[k] \in Long
      /\ m_exprs[k].op = "Load" => Denotation(row)[k] = row[m_exprs[k].idx]
      /\ m_exprs[k].op = "LoadConstantInt" => Denotation(row)[k] = m_constants[m_exprs[k].idx]
      /\ m_exprs[k].op \in ArithOps =>
           Denotation(row)[k] = ValueOf(m_exprs[k].op, Denotation(row)[m_exprs[k].left],
                                                       Denotation(row)[m_exprs[k].right]))'
BY DenotationCases, PTL

\* A row's operands are older rows, and a constant's index is in the pool.
LEMMA RowFacts ==
  ASSUME TypeOK, NEW k \in Handles
  PROVE  \/ m_exprs[k].op = "Load"
         \/ m_exprs[k].op = "LoadConstantInt" /\ m_exprs[k].idx \in 1 .. Len(m_constants)
         \/ /\ m_exprs[k].op \in ArithOps
            /\ m_exprs[k].left \in Handles /\ m_exprs[k].left < k
            /\ m_exprs[k].right \in Handles /\ m_exprs[k].right < k
<1>1. m_exprs \in Seq(Node) /\ Len(m_exprs) \in Nat /\ Handles = 1 .. Len(m_exprs)
  BY DEF TypeOK, Handles
<1>2. RowOK(m_exprs[k], k, Len(m_constants))
  BY DEF TypeOK
<1> QED
  BY <1>1, <1>2 DEF RowOK

\* Rows and constants appended to the tables change no older row's value.
LEMMA OlderRowsKeepValue ==
  ASSUME TypeOK, TypeOK', Handles \subseteq Handles',
         \A k \in Handles : m_exprs'[k] = m_exprs[k],
         \A i \in 1 .. Len(m_constants) : m_constants'[i] = m_constants[i],
         NEW row \in [Columns -> Long]
  PROVE  \A k \in Handles : Denotation(row)'[k] = Denotation(row)[k]
<1> DEFINE v == Denotation(row)
           w == Denotation(row)'
           Bad == {k \in Handles : w[k] # v[k]}
<1> SUFFICES ASSUME Bad # {} PROVE FALSE
  OBVIOUS
<1>1. Bad \subseteq Nat
  BY DEF TypeOK, Handles
<1>2. PICK k \in Bad : \A j \in Bad : k <= j
  <2> HIDE DEF Bad
  <2> QED BY <1>1, LeastNat
<1>3. k \in Handles /\ k \in Handles' /\ w[k] # v[k]
  BY <1>2
<1>4. \A j \in Handles : j < k => w[j] = v[j]
  <2>1. SUFFICES ASSUME NEW j \in Handles, j < k, w[j] # v[j] PROVE FALSE
    OBVIOUS
  <2>2. j \in Bad /\ j \in Nat /\ k \in Nat
    BY <1>1, <2>1
  <2>3. k <= j
    BY <1>2, <2>2
  <2> QED BY <2>1, <2>2, <2>3
<1> HIDE DEF v, w, Bad
<1>5. m_exprs'[k] = m_exprs[k]
  BY <1>3
<1>6. CASE m_exprs[k].op = "Load"
  <2>1. v[k] = row[m_exprs[k].idx]
    BY <1>3, <1>6, DenotationCases DEF v
  <2>2. w[k] = row[m_exprs[k].idx]
    BY <1>3, <1>5, <1>6, DenotationCasesAfter DEF w
  <2> QED BY <1>3, <2>1, <2>2
<1>7. CASE m_exprs[k].op = "LoadConstantInt" /\ m_exprs[k].idx \in 1 .. Len(m_constants)
  <2>1. v[k] = m_constants[m_exprs[k].idx]
    BY <1>3, <1>7, DenotationCases DEF v
  <2>2. w[k] = m_constants'[m_exprs[k].idx]
    BY <1>3, <1>5, <1>7, DenotationCasesAfter DEF w
  <2> QED BY <1>3, <1>7, <2>1, <2>2
<1>8. CASE /\ m_exprs[k].op \in ArithOps
           /\ m_exprs[k].left \in Handles /\ m_exprs[k].left < k
           /\ m_exprs[k].right \in Handles /\ m_exprs[k].right < k
  <2>1. v[k] = ValueOf(m_exprs[k].op, v[m_exprs[k].left], v[m_exprs[k].right])
    BY <1>3, <1>8, DenotationCases DEF v
  <2>2. w[k] = ValueOf(m_exprs[k].op, w[m_exprs[k].left], w[m_exprs[k].right])
    BY <1>3, <1>5, <1>8, DenotationCasesAfter DEF w
  <2>3. w[m_exprs[k].left] = v[m_exprs[k].left] /\ w[m_exprs[k].right] = v[m_exprs[k].right]
    BY <1>4, <1>8
  <2> QED BY <1>3, <2>1, <2>2, <2>3
<1> QED
  BY <1>3, <1>6, <1>7, <1>8, RowFacts

\* The row new_expr returns is the row requested, and older rows stay.
LEMMA InternReturnsRequest ==
  ASSUME TypeOK, NEW e \in Node, Intern(e)
  PROVE  /\ ret' \in Handles' /\ SameExpr(e, m_exprs'[ret'])
         /\ Handles \subseteq Handles'
         /\ \A k \in Handles : m_exprs'[k] = m_exprs[k]
<1>1. m_exprs \in Seq(Node) /\ Len(m_exprs) \in Nat /\ Handles = 1 .. Len(m_exprs)
  BY DEF TypeOK, Handles
<1>2. CASE Matching(e) # {} /\ ret' = First(Matching(e)) /\ m_exprs' = m_exprs
  <2>1. Matching(e) \subseteq Nat
    BY <1>1 DEF Matching
  <2>2. ret' \in Matching(e)
    BY <1>2, <2>1, FirstIsMember
  <2>3. Handles' = Handles
    BY <1>2 DEF Handles
  <2> QED BY <1>2, <2>2, <2>3 DEF Matching
<1>3. CASE m_exprs' = Append(m_exprs, e) /\ ret' = Len(m_exprs) + 1
  <2>1. /\ Len(m_exprs') = Len(m_exprs) + 1 /\ m_exprs'[Len(m_exprs) + 1] = e
        /\ \A k \in 1 .. Len(m_exprs) : m_exprs'[k] = m_exprs[k]
    BY <1>1, <1>3, AppendProperties
  <2>2. Handles' = 1 .. (Len(m_exprs) + 1)
    BY <2>1 DEF Handles
  <2> QED BY <1>1, <1>3, <2>1, <2>2 DEF SameExpr
<1> QED
  BY <1>2, <1>3 DEF Intern

\* new_expr on an operation: folded, found or appended, the handle returned has
\* the value of the operation.
LEMMA ArithDenotes ==
  ASSUME TypeOK, TypeOK', NEW op \in Ops, NEW left \in Handles, NEW right \in Handles,
         Arith(op, left, right), ~fault', NEW row \in [Columns -> Long]
  PROVE  Denotation(row)'[ret'] = ValueOf(op, Denotation(row)[left], Denotation(row)[right])
<1>1. /\ op \in ArithOps /\ op \notin {"Load", "LoadConstantInt"}
      /\ m_constants \in Seq(Long) /\ Len(m_constants) \in Nat
  BY OpsAssumption DEF TypeOK, ArithOps
<1>2. CASE ~(IsConstant(left) /\ IsConstant(right))
  <2> DEFINE e == Arithmetic(op, left, right)
  <2>1. Intern(e) /\ m_constants' = m_constants /\ e \in Node
    BY <1>2, ArithmeticFits DEF Arith
  <2>2. /\ ret' \in Handles' /\ SameExpr(e, m_exprs'[ret']) /\ Handles \subseteq Handles'
        /\ \A k \in Handles : m_exprs'[k] = m_exprs[k]
    <3> HIDE DEF e
    <3> QED BY <2>1, InternReturnsRequest
  <2>3. m_exprs'[ret'].op = op /\ m_exprs'[ret'].left = left /\ m_exprs'[ret'].right = right
    BY <2>2 DEF SameExpr, Arithmetic
  <2>4. Denotation(row)'[ret'] = ValueOf(op, Denotation(row)'[left], Denotation(row)'[right])
    BY <1>1, <2>2, <2>3, DenotationCasesAfter
  <2>5. \A k \in Handles : Denotation(row)'[k] = Denotation(row)[k]
    BY <2>1, <2>2, OlderRowsKeepValue
  <2> QED BY <2>4, <2>5
<1>3. CASE IsConstant(left) /\ IsConstant(right)
  <2> DEFINE x == ConstantOf(left)
             y == ConstantOf(right)
             n == Len(m_constants) + 1
             e == Leaf("LoadConstantInt", n)
  <2>1. Fold(op, left, right)
    BY <1>3 DEF Arith
  <2>2. /\ ~Traps(op, x, y) /\ m_constants' = Append(m_constants, Apply(op, x, y))
        /\ Intern(e)
    BY <2>1 DEF Fold
  <2>3. e \in Node
    BY <1>1 DEF Leaf, Node, NULL
  <2>4. x \in Long /\ y \in Long
    <3>1. \A k \in Handles : IsConstant(k) => ConstantOf(k) \in Long
      BY <1>1, RowFacts DEF IsConstant, ConstantOf, ArithOps
    <3> QED BY <1>3, <3>1
  <2>5. m_constants'[n] = Apply(op, x, y)
    <3>1. Apply(op, x, y) \in Long
      BY <1>1, <2>2, <2>4, ApplyInLong
    <3> QED BY <1>1, <2>2, <3>1, AppendProperties
  <2>6. /\ ret' \in Handles' /\ SameExpr(e, m_exprs'[ret'])
    <3> HIDE DEF e
    <3> QED BY <2>2, <2>3, InternReturnsRequest
  <2>7. m_exprs'[ret'].op = "LoadConstantInt" /\ m_exprs'[ret'].idx = n
    BY <2>6 DEF SameExpr, Leaf
  <2>8. Denotation(row)'[ret'] = m_constants'[n]
    BY <2>6, <2>7, DenotationCasesAfter
  <2>9. Denotation(row)[left] = x /\ Denotation(row)[right] = y
    BY <1>3, DenotationCases DEF IsConstant, ConstantOf
  <2> QED BY <2>2, <2>5, <2>8, <2>9 DEF ValueOf
<1> QED
  BY <1>2, <1>3

\* Whatever new_expr does with a request, the handle it returns has on every
\* row the value of the requested operation, for any columns, literals, width
\* and bounds.
THEOREM HandleAlwaysDenotesRequest == Spec => HandleDenotesRequest
<1>1. TypeOK /\ TypeOK' =>
        \A op \in Ops, left, right \in Handles :
          Arith(op, left, right) /\ ~fault' =>
            \A row \in [Columns -> Long] :
              LET v == Denotation(row)
                  w == Denotation(row)'
              IN  w[ret'] = ValueOf(op, v[left], v[right])
  BY ArithDenotes
<1> QED
  BY <1>1, TypeCorrect, PTL DEF HandleDenotesRequest

=============================================================================
