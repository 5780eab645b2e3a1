------------------------- MODULE AggCompiler_proofs -------------------------
(* Proofs about the symbolic VM and the compiler: types, locks, that no      *)
(* operand is lost before it is used, its book-keeping (uses are counted     *)
(* exactly once, the estimated number of registers is enough, nothing is     *)
(* calculated twice); and about compiled programs: they compute what was     *)
(* asked for, only Mov is ever useless, and the compiler keeps its promise.  *)
EXTENDS AggCompilerRefinement, AggExprs_proofs

\* Instructions whose register operands are registers.
Runnable ==
  {ins \in Instructions :
     /\ IsAgg(ins) \/ ins.dest \in Regs
     /\ IsLoad(ins) \/ ins.src \in Regs}

\* The types of the compiler's state, as far as they are inductive without
\* the locks: a lock count is only known to be an integer.
Types ==
  /\ TypeOK
  /\ r \in [Regs -> {NULL} \cup Handles]
  /\ m_locked \in [Regs -> Int]
  /\ m_program \in Seq(Runnable)
  /\ next_agg > 0 => program_usage \in [Handles -> Nat]
  /\ has_been_compiled \subseteq Handles
  /\ stack \in Seq(Frame)
  /\ result \in Regs \cup {None, Failed}
  /\ next_agg \in 0 .. (Len(m_aggs) + 1)

\* What compVars holds until compile() is called.
Untouched ==
  /\ r = EmptyRegisters /\ m_locked = [i \in Regs |-> 0]
  /\ m_program = <<>> /\ has_been_compiled = {}
  /\ stack = <<>> /\ result = None

\* What the status, the loop of compile() and the stack say of each other.
Phases ==
  /\ next_agg = 0 => Untouched
  /\ m_status = "PROGRAMMING" => next_agg = 0
  /\ m_status \in {"COMPILING", "COMPILED"} => next_agg > 0 /\ ~fault /\ NoOrphans
  /\ m_status = "COMPILED" => result = None
  /\ m_status = "FAILED" /\ next_agg > 0 => result = Failed
  /\ m_status # "COMPILING" => stack = <<>>
  /\ stack # <<>> \/ result # None => next_agg <= Len(m_aggs)

\* What a call looks like at each of its stages.
CallFits(f, exprs, compiled) ==
  LET e == exprs[f.expr]
  IN  /\ f.pc = "enter" => f.dest = None /\ f.src = None /\ ~f.first
      /\ f.pc # "enter" => e.op \in ArithOps /\ f.expr \in compiled
      /\ f.pc = "first" => f.dest = None /\ f.src = None
      /\ f.pc = "second" => e.left # e.right
      /\ f.pc = "second" /\ e.eval_left_first => f.dest \in Regs /\ f.src = None
      /\ f.pc = "second" /\ ~e.eval_left_first => f.dest = None /\ f.src \in Regs
      /\ f.pc \in {"save", "dest", "emit"} => f.dest \in Regs /\ f.src \in Regs
      /\ f.pc \in {"save", "dest"} /\ e.left = e.right => f.dest = f.src

\* The operand a call is waiting for.
OperandOf(f, exprs) ==
  LET e == exprs[f.expr]
  IN  IF (f.pc = "first") = e.eval_left_first THEN e.left ELSE e.right

\* Every call is at one of its stages, and each one but the last waits for
\* the operand that the next one compiles.
StackFits(s, exprs, compiled) ==
  /\ \A n \in 1 .. Len(s) : CallFits(s[n], exprs, compiled)
  /\ \A n \in 1 .. (Len(s) - 1) :
       s[n].pc \in {"first", "second"} /\ s[n + 1].expr = OperandOf(s[n], exprs)

\* The calls, the result of the last one and the aggregate being compiled.
Calls ==
  /\ StackFits(stack, m_exprs, has_been_compiled)
  /\ stack # <<>> =>
       /\ stack[1].expr = m_aggs[next_agg].expr
       /\ result = None <=> Top.pc \in {"enter", "save", "dest", "emit"}

\* The first layer of the inductive invariant: types, phases and calls.
Shape == Types /\ Phases /\ Calls

\* What the last call was asked to compile.
Awaited == IF stack = <<>> THEN m_aggs[next_agg].expr ELSE OperandOf(Top, m_exprs)

\* The operands a call holds are in their registers.
Keeps(f, regs, exprs) ==
  /\ f.dest # None => regs[f.dest] = exprs[f.expr].left
  /\ f.src # None => regs[f.src] = exprs[f.expr].right

\* Every call's operands are still in its registers.
Survive(s, regs, exprs) == \A n \in 1 .. Len(s) : Keeps(s[n], regs, exprs)

\* Registers hold nothing but values that have been compiled.
Known(regs, compiled) == \A i \in Regs : regs[i] = NULL \/ regs[i] \in compiled

\* The fourth layer of the inductive invariant: the registers hold what the
\* calls rely on, and only values that have been compiled.
Values ==
  /\ Survive(stack, r, m_exprs)
  /\ m_status = "COMPILING" /\ result \in Regs => r[result] = Awaited
  /\ At("emit") => m_locked[Top.dest] = OwnLocks(Top)
  /\ m_status = "COMPILING" => Known(r, has_been_compiled)

-----------------------------------------------------------------------------
\* None and Failed are no registers.
LEMMA RegsFacts == /\ None \notin Regs /\ Failed \notin Regs /\ None # Failed /\ Regs \subseteq Nat
                   /\ REGS \in Nat /\ REGS > 0
BY RegsAssumption DEF Regs, None, Failed

\* Handles are the positive numbers up to the length of the table.
LEMMA HandlesFacts ==
  ASSUME TypeOK
  PROVE  /\ Handles = 1 .. Len(m_exprs) /\ Len(m_exprs) \in Nat
         /\ Handles \subseteq Nat /\ NULL \notin Handles /\ NULL = 0
         /\ \A k \in Handles : m_exprs[k] \in Node
BY DEF TypeOK, Handles, NULL

\* A stack that is not empty consists of the callers and the call on top.
LEMMA CallersFacts ==
  ASSUME stack \in Seq(Frame), stack # <<>>
  PROVE  /\ Len(stack) \in Nat \ {0} /\ Top \in Frame
         /\ Callers \in Seq(Frame) /\ Len(Callers) = Len(stack) - 1
         /\ \A n \in 1 .. (Len(stack) - 1) : Callers[n] = stack[n]
         /\ stack = Append(Callers, Top)
<1>1. Len(stack) \in Nat \ {0}
  BY EmptySeq
<1>2. Top \in Frame
  BY <1>1 DEF Top
<1>3. Callers = [n \in 1 .. (Len(stack) - 1) |-> stack[n]]
  BY <1>1 DEF Callers
<1>4. \A n \in 1 .. (Len(stack) - 1) : stack[n] \in Frame
  BY <1>1
<1>5. Callers \in Seq(Frame) /\ Len(Callers) = Len(stack) - 1
  BY <1>1, <1>3, <1>4, IsASeq
<1>6. stack = Append(Callers, Top)
  <2>1. Append(Callers, Top) \in Seq(Frame) /\ Len(Append(Callers, Top)) = Len(stack)
    BY <1>1, <1>2, <1>5, AppendProperties
  <2>2. \A n \in 1 .. Len(stack) : stack[n] = Append(Callers, Top)[n]
    BY <1>1, <1>2, <1>3, <1>5, AppendProperties DEF Top
  <2> QED BY <2>1, <2>2, SeqEqual
<1> QED
  BY <1>1, <1>2, <1>3, <1>5, <1>6

\* Return, Replace and Enter, call by call.
LEMMA ReturnFacts ==
  ASSUME stack \in Seq(Frame), stack # <<>>, stack' = Callers
  PROVE  /\ stack' \in Seq(Frame) /\ Len(stack') = Len(stack) - 1
         /\ \A n \in 1 .. Len(stack') : stack'[n] = stack[n]
BY CallersFacts

\* The stack after the call on top has changed stage.
LEMMA ReplaceFacts ==
  ASSUME stack \in Seq(Frame), stack # <<>>, NEW f \in Frame, Replace(f)
  PROVE  /\ stack' \in Seq(Frame) /\ Len(stack') = Len(stack) /\ stack' # <<>>
         /\ stack'[Len(stack)] = f
         /\ \A n \in 1 .. (Len(stack) - 1) : stack'[n] = stack[n]
<1>1. /\ Callers \in Seq(Frame) /\ Len(Callers) = Len(stack) - 1 /\ Len(stack) \in Nat \ {0}
      /\ \A n \in 1 .. (Len(stack) - 1) : Callers[n] = stack[n]
  BY CallersFacts
<1>2. /\ stack' \in Seq(Frame) /\ Len(stack') = Len(stack) /\ stack'[Len(stack)] = f
      /\ \A n \in 1 .. (Len(stack) - 1) : stack'[n] = Callers[n]
  BY <1>1, AppendProperties DEF Replace
<1> QED
  BY <1>1, <1>2, EmptySeq

\* The stack after the call on top has called compile(Expr) on an operand.
LEMMA EnterFacts ==
  ASSUME stack \in Seq(Frame), stack # <<>>, NEW f \in Frame, NEW e, Call(e) \in Frame, Enter(f, e)
  PROVE  /\ stack' \in Seq(Frame) /\ Len(stack') = Len(stack) + 1 /\ stack' # <<>>
         /\ stack'[Len(stack) + 1] = Call(e) /\ stack'[Len(stack)] = f
         /\ \A n \in 1 .. (Len(stack) - 1) : stack'[n] = stack[n]
<1> DEFINE s == Append(Callers, f)
<1>1. /\ Callers \in Seq(Frame) /\ Len(Callers) = Len(stack) - 1 /\ Len(stack) \in Nat \ {0}
      /\ \A n \in 1 .. (Len(stack) - 1) : Callers[n] = stack[n]
  BY CallersFacts
<1>2. /\ s \in Seq(Frame) /\ Len(s) = Len(stack) /\ s[Len(stack)] = f
      /\ \A n \in 1 .. (Len(stack) - 1) : s[n] = Callers[n]
  BY <1>1, AppendProperties
<1>3. stack' = Append(s, Call(e))
  BY DEF Enter
<1> HIDE DEF s
<1>4. /\ stack' \in Seq(Frame) /\ Len(stack') = Len(stack) + 1 /\ stack'[Len(stack) + 1] = Call(e)
      /\ \A n \in 1 .. Len(stack) : stack'[n] = s[n]
  BY <1>1, <1>2, <1>3, AppendProperties
<1> QED
  BY <1>1, <1>2, <1>4, EmptySeq

\* The locks of the calls below the top and of the top itself.
LEMMA HeldAppend ==
  ASSUME NEW s \in Seq(Frame), NEW f \in Frame, NEW i
  PROVE  /\ Held(s, i) \in Nat
         /\ Held(Append(s, f), i) = Held(s, i) + Unlocks(f, i)
<1> DEFINE n == Len(s)
           D(q) == {m \in 1 .. Len(q) : q[m].dest = i}
           S(q) == {m \in 1 .. Len(q) : q[m].src = i}
           t == Append(s, f)
<1>1. n \in Nat /\ Len(t) = n + 1 /\ t[n + 1] = f /\ \A m \in 1 .. n : t[m] = s[m]
  BY AppendProperties
<1>2. D(s) \subseteq 1 .. n /\ S(s) \subseteq 1 .. n
  OBVIOUS
<1>3. D(t) \subseteq 1 .. (n + 1) /\ S(t) \subseteq 1 .. (n + 1)
  BY <1>1
<1>4. \A m \in 1 .. n : (m \in D(t) <=> m \in D(s)) /\ (m \in S(t) <=> m \in S(s))
  BY <1>1
<1>5. (n + 1 \in D(t) <=> f.dest = i) /\ (n + 1 \in S(t) <=> f.src = i)
  BY <1>1
<1>6. n \in Nat
  BY <1>1
<1> HIDE DEF D, S, t, n
<1>7. /\ Cardinality(D(s)) \in Nat
      /\ Cardinality(D(t)) = Cardinality(D(s)) + (IF f.dest = i THEN 1 ELSE 0)
  BY <1>2, <1>3, <1>4, <1>5, <1>6, CountOneMore
<1>8. /\ Cardinality(S(s)) \in Nat
      /\ Cardinality(S(t)) = Cardinality(S(s)) + (IF f.src = i THEN 1 ELSE 0)
  BY <1>2, <1>3, <1>4, <1>5, <1>6, CountOneMore
<1>9. Held(s, i) = Cardinality(D(s)) + Cardinality(S(s))
      /\ Held(t, i) = Cardinality(D(t)) + Cardinality(S(t))
  BY DEF Held, D, S
<1> QED
  BY <1>7, <1>8, <1>9 DEF Unlocks, t

-----------------------------------------------------------------------------
(* The cost of recalculating a value is a natural number, so the cheapest    *)
(* register exists.                                                          *)

\* The equation of the local function cost of estimated_cost_of_recalculating.
CostOf(cost, k, without) ==
  IF k = NULL \/ (\E i \in Regs \ {without} : r[i] = k) THEN 0
  ELSE IF m_exprs[k].op = "Load" THEN 1
  ELSE 1 + cost[m_exprs[k].left] + cost[m_exprs[k].right]

\* The recursive function cost is defined, so it satisfies its equation, and
\* what it counts is a number of instructions.
LEMMA CostUnfolds ==
  ASSUME TypeOK, NEW k \in 0 .. Len(m_exprs), NEW without
  PROVE  /\ estimated_cost_of_recalculating(k, without) \in Nat
         /\ estimated_cost_of_recalculating(k, without) = 0
              <=> k = NULL \/ \E i \in Regs \ {without} : r[i] = k
<1> DEFINE n == Len(m_exprs)
           I == 0 .. n
           Val(c, j) == CostOf(c, j, without)
           D == [j \in I |-> [c \in [I -> Nat] |-> Val(c, j)]]
           rank == [j \in I |-> j]
<1>1. n \in Nat /\ Handles = 1 .. n /\ NULL = 0
  BY HandlesFacts
<1>2. \A j \in I \ {NULL} : m_exprs[j].op # "Load" =>
        /\ m_exprs[j].left \in I /\ m_exprs[j].left < j
        /\ m_exprs[j].right \in I /\ m_exprs[j].right < j
  <2> SUFFICES ASSUME NEW j \in I \ {NULL}, m_exprs[j].op # "Load"
               PROVE  /\ m_exprs[j].left \in 0 .. (j - 1)
                      /\ m_exprs[j].right \in 0 .. (j - 1)
    BY <1>1
  <2>1. j \in Handles
    BY <1>1
  <2>2. RowOK(m_exprs[j], j, Len(m_constants))
    BY <2>1 DEF TypeOK
  <2> QED BY <1>1, <2>1, <2>2 DEF RowOK
<1>3. \A j \in I : \A g, h : (\A m \in I : m < j => g[m] = h[m]) => Val(g, j) = Val(h, j)
  <2> SUFFICES ASSUME NEW j \in I, NEW g, NEW h, \A m \in I : m < j => g[m] = h[m]
               PROVE  Val(g, j) = Val(h, j)
    OBVIOUS
  <2>1. CASE j = NULL \/ m_exprs[j].op = "Load"
    BY <2>1 DEF CostOf
  <2>2. CASE j # NULL /\ m_exprs[j].op # "Load"
    <3>1. g[m_exprs[j].left] = h[m_exprs[j].left] /\ g[m_exprs[j].right] = h[m_exprs[j].right]
      BY <1>2, <2>2
    <3> QED BY <3>1 DEF CostOf
  <2> QED BY <2>1, <2>2
<1>4. \A j \in I : \A c : (\A m \in I : m < j => c[m] \in Nat) =>
        /\ Val(c, j) \in Nat
        /\ Val(c, j) = 0 <=> j = NULL \/ \E i \in Regs \ {without} : r[i] = j
  <2> SUFFICES ASSUME NEW j \in I, NEW c, \A m \in I : m < j => c[m] \in Nat
               PROVE  /\ Val(c, j) \in Nat
                      /\ Val(c, j) = 0 <=> j = NULL \/ \E i \in Regs \ {without} : r[i] = j
    OBVIOUS
  <2>1. CASE j = NULL \/ \E i \in Regs \ {without} : r[i] = j
    BY <2>1 DEF CostOf
  <2>2. CASE ~(j = NULL \/ \E i \in Regs \ {without} : r[i] = j) /\ m_exprs[j].op = "Load"
    BY <2>2 DEF CostOf
  <2>3. CASE ~(j = NULL \/ \E i \in Regs \ {without} : r[i] = j) /\ m_exprs[j].op # "Load"
    <3>1. c[m_exprs[j].left] \in Nat /\ c[m_exprs[j].right] \in Nat
      BY <1>2, <2>3
    <3>2. Val(c, j) = 1 + c[m_exprs[j].left] + c[m_exprs[j].right]
      BY <2>3 DEF CostOf
    <3> QED BY <2>3, <3>1, <3>2
  <2> QED BY <2>1, <2>2, <2>3
<1> HIDE DEF Val
<1>5. Recursion(I, Nat, n, rank, D)
  <2>1. D \in [I -> [[I -> Nat] -> Nat]]
    BY <1>4
  <2>2. rank \in [I -> 0 .. n]
    BY <1>1
  <2>3. \A j \in I : \A g, h \in [I -> Nat] :
          (\A m \in I : rank[m] < rank[j] => g[m] = h[m]) => D[j][g] = D[j][h]
    BY <1>3
  <2> HIDE DEF I, n, D, rank
  <2> QED BY <1>1, <2>1, <2>2, <2>3 DEF Recursion
<1>6. PICK f \in [I -> Nat] : \A j \in I : f[j] = Val(f, j)
  <2>1. PICK f \in [I -> Nat] : \A j \in I : f[j] = D[j][f]
    <3> HIDE DEF I, n, D, rank
    <3> QED BY <1>5, RecursiveFunctionExists
  <2> QED BY <2>1
<1>7. f = [j \in I |-> Val(f, j)]
  BY <1>6
<1> DEFINE cost == CHOOSE c : c = [j \in I |-> Val(c, j)]
<1>8. cost = [j \in I |-> Val(cost, j)]
  BY <1>7
<1>9. estimated_cost_of_recalculating(k, without) = cost[k]
  BY DEF estimated_cost_of_recalculating, Val, CostOf
<1> HIDE DEF cost
<1>10. \A j \in I : cost[j] \in Nat
  <2> DEFINE Bad == {j \in I : cost[j] \notin Nat}
  <2> SUFFICES ASSUME Bad # {} PROVE FALSE
    OBVIOUS
  <2>1. Bad \subseteq Nat
    BY <1>1
  <2>2. PICK j \in Bad : \A m \in Bad : j <= m
    <3> HIDE DEF Bad
    <3> QED BY <2>1, LeastNat
  <2>3. j \in I /\ cost[j] \notin Nat /\ \A m \in I : m < j => cost[m] \in Nat
    BY <1>1, <2>2
  <2> QED BY <1>4, <1>8, <2>3
<1> QED
  BY <1>4, <1>8, <1>9, <1>10

\* The cost seize_register compares is a natural number.
LEMMA RegisterCostIsNat ==
  ASSUME Types, NEW i \in Regs
  PROVE  RegisterCost(i) \in Nat
<1>1. r[i] = NULL \/ r[i] \in 0 .. Len(m_exprs)
  BY HandlesFacts DEF Types
<1> QED
  BY <1>1, CostUnfolds DEF RegisterCost, Types

\* seize_register takes an unlocked register, and none is cheaper.
LEMMA CheapestFacts ==
  ASSUME Types, Unlocked # {}
  PROVE  /\ Cheapest \in Unlocked /\ Cheapest \in Regs /\ m_locked[Cheapest] = 0
         /\ \A j \in Unlocked : RegisterCost(Cheapest) <= RegisterCost(j)
<1> DEFINE costs == {RegisterCost(i) : i \in Unlocked}
           best == {i \in Unlocked : \A j \in Unlocked : RegisterCost(i) <= RegisterCost(j)}
<1>1. Unlocked \subseteq Regs /\ Regs \subseteq Nat
  BY RegsFacts DEF Unlocked
<1>2. costs \subseteq Nat /\ costs # {}
  BY <1>1, RegisterCostIsNat
<1>3. PICK c \in costs : \A d \in costs : c <= d
  <2> HIDE DEF costs
  <2> QED BY <1>2, LeastNat
<1>4. best # {}
  BY <1>3
<1>5. best \subseteq Nat
  BY <1>1
<1>6. First(best) \in best
  <2> HIDE DEF best
  <2> QED BY <1>4, <1>5, FirstIsMember
<1>7. Cheapest = First(best)
  BY DEF Cheapest
<1> QED
  BY <1>1, <1>6, <1>7 DEF Unlocked

-----------------------------------------------------------------------------
(* Eliminate keeps a subset of the instructions.                             *)

\* The equation of the local function kept of Eliminate.
KeptOf(p, kept, k) ==
  IF k = 0 THEN <<>>
  ELSE IF k \in Useful(p) THEN Append(kept[k - 1], p[k]) ELSE kept[k - 1]

\* The recursive function of Eliminate.
Kept(p) == CHOOSE kept : kept = [k \in 0 .. Len(p) |-> KeptOf(p, kept, k)]

\* It is defined, satisfies its equation, and yields sequences of p's items.
LEMMA KeptUnfolds ==
  ASSUME NEW S, NEW p \in Seq(S)
  PROVE  /\ Eliminate(p) = Kept(p)[Len(p)]
         /\ \A k \in 0 .. Len(p) : Kept(p)[k] \in Seq(S) /\ Kept(p)[k] = KeptOf(p, Kept(p), k)
<1> DEFINE n == Len(p)
           I == 0 .. n
           V == Seq(S)
           D == [k \in I |-> [f \in [I -> V] |-> KeptOf(p, f, k)]]
           rank == [k \in I |-> k]
<1>1. n \in Nat /\ <<>> \in V /\ \A k \in I : k # 0 => k - 1 \in I /\ k - 1 < k /\ p[k] \in S
  BY EmptySeq
<1>2. \A k \in I : \A g, h : (\A m \in I : m < k => g[m] = h[m])
        => KeptOf(p, g, k) = KeptOf(p, h, k)
  BY <1>1 DEF KeptOf
<1>3. \A k \in I : \A f : (\A m \in I : m < k => f[m] \in V) => KeptOf(p, f, k) \in V
  <2> SUFFICES ASSUME NEW k \in I, NEW f, \A m \in I : m < k => f[m] \in V
               PROVE  KeptOf(p, f, k) \in V
    OBVIOUS
  <2>1. CASE k = 0
    BY <1>1, <2>1 DEF KeptOf
  <2>2. CASE k # 0
    <3>1. f[k - 1] \in V /\ p[k] \in S
      BY <1>1, <2>2
    <3>2. Append(f[k - 1], p[k]) \in V
      BY <3>1, AppendProperties
    <3> QED BY <2>2, <3>1, <3>2 DEF KeptOf
  <2> QED BY <2>1, <2>2
<1>4. Recursion(I, V, n, rank, D)
  <2>1. D \in [I -> [[I -> V] -> V]]
    BY <1>3
  <2>2. rank \in [I -> 0 .. n]
    BY <1>1
  <2>3. \A k \in I : \A g, h \in [I -> V] :
          (\A m \in I : rank[m] < rank[k] => g[m] = h[m]) => D[k][g] = D[k][h]
    BY <1>2
  <2>4. V # {}
    BY <1>1
  <2> HIDE DEF I, n, D, rank, V
  <2> QED BY <1>1, <2>1, <2>2, <2>3, <2>4 DEF Recursion
<1>5. PICK f \in [I -> V] : \A k \in I : f[k] = KeptOf(p, f, k)
  <2>1. PICK f \in [I -> V] : \A k \in I : f[k] = D[k][f]
    <3> HIDE DEF I, n, D, rank, V
    <3> QED BY <1>4, RecursiveFunctionExists
  <2> QED BY <2>1
<1>6. f = [k \in I |-> KeptOf(p, f, k)]
  BY <1>5
<1>7. Kept(p) = [k \in I |-> KeptOf(p, Kept(p), k)]
  BY <1>6 DEF Kept
<1>8. Eliminate(p) = Kept(p)[Len(p)]
  BY DEF Eliminate, Kept, KeptOf
<1>9. \A k \in I : Kept(p)[k] \in V
  <2> DEFINE Bad == {k \in I : Kept(p)[k] \notin V}
  <2> SUFFICES ASSUME Bad # {} PROVE FALSE
    OBVIOUS
  <2>1. Bad \subseteq Nat
    BY <1>1
  <2>2. PICK k \in Bad : \A m \in Bad : k <= m
    <3> HIDE DEF Bad
    <3> QED BY <2>1, LeastNat
  <2>3. k \in I /\ Kept(p)[k] \notin V /\ \A m \in I : m < k => Kept(p)[m] \in V
    BY <1>1, <2>2
  <2> QED BY <1>3, <1>7, <2>3
<1> QED
  BY <1>7, <1>8, <1>9

-----------------------------------------------------------------------------
(* An instruction leaves handles, or NULL, in the registers.                 *)

\* new_expr finds an expression of the table, or none.
LEMMA InternedFacts ==
  ASSUME TypeOK, NEW e
  PROVE  Interned(e) \in {NULL} \cup Handles
<1>1. Matching(e) \subseteq Handles /\ Matching(e) \subseteq Nat
  BY HandlesFacts DEF Matching
<1> QED
  BY <1>1, FirstIsMember DEF Interned

\* An instruction leaves values or NULL in the registers.
LEMMA ExecuteTyped ==
  ASSUME TypeOK, NEW regs \in [Regs -> {NULL} \cup Handles], NEW ins \in Runnable
  PROVE  svm_execute(regs, ins) \in [Regs -> {NULL} \cup Handles]
<1>1. CASE IsAgg(ins)
  BY <1>1 DEF svm_execute
<1>2. CASE ~IsAgg(ins)
  <2>1. ins.dest \in Regs /\ (IsLoad(ins) \/ ins.src \in Regs)
    BY <1>2 DEF Runnable
  <2>2. ins.type \in ArithOps \cup {"Load", "LoadConstantInteger", "Mov"}
    BY <1>2 DEF Runnable, Instructions, IsAgg
  <2>3. ValueComputed(regs, ins) \in {NULL} \cup Handles
    <3>1. CASE ins.type = "Load" \/ ins.type = "LoadConstantInteger"
      BY <3>1, InternedFacts DEF ValueComputed, IsArith, ArithOps
    <3>2. CASE ins.type = "Mov"
      <4>1. ins.src \in Regs
        BY <2>1, <3>2 DEF IsLoad
      <4> QED BY <3>2, <4>1 DEF ValueComputed, IsArith, ArithOps
    <3>3. CASE IsArith(ins)
      <4>1. ins.type \notin {"Load", "LoadConstantInteger", "Mov"}
        BY <3>3 DEF IsArith, ArithOps
      <4> QED BY <3>3, <4>1, InternedFacts DEF ValueComputed
    <3> QED BY <2>2, <3>1, <3>2, <3>3 DEF IsArith
  <2> QED BY <1>2, <2>3 DEF svm_execute
<1> QED
  BY <1>1, <1>2

\* The body of the recursive function of Execution.
RunOf(p, regs, k) ==
  IF k = 0 THEN EmptyRegisters ELSE Executed[regs[k - 1]][p[k]]

\* The registers stay typed while a program runs from svm_init on.
LEMMA ExecutionUnfolds ==
  ASSUME TypeOK, NEW p \in Seq(Runnable)
  PROVE  \A k \in 0 .. Len(p) :
           /\ Execution(p)[k] \in [Regs -> {NULL} \cup Handles]
           /\ Execution(p)[k] = IF k = 0 THEN EmptyRegisters
                                ELSE svm_execute(Execution(p)[k - 1], p[k])
<1> DEFINE n == Len(p)
           I == 0 .. n
           V == [Regs -> {NULL} \cup Handles]
           D == [k \in I |-> [f \in [I -> V] |-> RunOf(p, f, k)]]
           rank == [k \in I |-> k]
<1>1. n \in Nat /\ \A k \in I : k # 0 => k - 1 \in I /\ k - 1 < k /\ p[k] \in Runnable
  OBVIOUS
<1>2. EmptyRegisters \in V
  BY DEF EmptyRegisters
<1>3. \A regs \in V, ins \in Runnable : Executed[regs][ins] = svm_execute(regs, ins)
  <2>1. Runnable \subseteq Instructions
    BY DEF Runnable
  <2>2. V \subseteq [Regs -> Nat]
    BY HandlesFacts
  <2> HIDE DEF V
  <2> QED BY <2>1, <2>2 DEF Executed
<1>4. \A k \in I : \A g, h : (\A m \in I : m < k => g[m] = h[m]) => RunOf(p, g, k) = RunOf(p, h, k)
  BY <1>1 DEF RunOf
<1>5. \A k \in I : \A f : (\A m \in I : m < k => f[m] \in V) =>
        /\ RunOf(p, f, k) \in V
        /\ RunOf(p, f, k) = IF k = 0 THEN EmptyRegisters ELSE svm_execute(f[k - 1], p[k])
  <2> SUFFICES ASSUME NEW k \in I, NEW f, \A m \in I : m < k => f[m] \in V
               PROVE  /\ RunOf(p, f, k) \in V
                      /\ RunOf(p, f, k) = IF k = 0 THEN EmptyRegisters
                           ELSE svm_execute(f[k - 1], p[k])
    OBVIOUS
  <2>1. CASE k = 0
    BY <1>2, <2>1 DEF RunOf
  <2>2. CASE k # 0
    <3>1. f[k - 1] \in V /\ p[k] \in Runnable
      BY <1>1, <2>2
    <3>2. svm_execute(f[k - 1], p[k]) \in V
      BY <3>1, ExecuteTyped
    <3> HIDE DEF V
    <3> QED BY <1>3, <2>2, <3>1, <3>2 DEF RunOf
  <2> QED BY <2>1, <2>2
<1>6. Recursion(I, V, n, rank, D)
  <2>1. D \in [I -> [[I -> V] -> V]]
    <3> HIDE DEF V
    <3> QED BY <1>5
  <2>2. rank \in [I -> 0 .. n]
    BY <1>1
  <2>3. \A k \in I : \A g, h \in [I -> V] :
          (\A m \in I : rank[m] < rank[k] => g[m] = h[m]) => D[k][g] = D[k][h]
    <3> HIDE DEF V
    <3> QED BY <1>4
  <2>4. V # {}
    BY <1>2
  <2> HIDE DEF I, n, D, rank, V
  <2> QED BY <1>1, <2>1, <2>2, <2>3, <2>4 DEF Recursion
<1> HIDE DEF V
<1>7. PICK f \in [I -> V] : \A k \in I : f[k] = RunOf(p, f, k)
  <2>1. PICK f \in [I -> V] : \A k \in I : f[k] = D[k][f]
    <3> HIDE DEF I, n, D, rank
    <3> QED BY <1>6, RecursiveFunctionExists
  <2> QED BY <2>1
<1>8. f = [k \in I |-> RunOf(p, f, k)]
  BY <1>7
<1> DEFINE run == CHOOSE c : c = [k \in I |-> RunOf(p, c, k)]
<1>9. run = [k \in I |-> RunOf(p, run, k)]
  BY <1>8
<1>10. Execution(p) = run
  BY DEF Execution, RunOf
<1> HIDE DEF run
<1>11. \A k \in I : run[k] \in V
  <2> DEFINE Bad == {k \in I : run[k] \notin V}
  <2> SUFFICES ASSUME Bad # {} PROVE FALSE
    OBVIOUS
  <2>1. Bad \subseteq Nat
    BY <1>1
  <2>2. PICK k \in Bad : \A m \in Bad : k <= m
    <3> HIDE DEF Bad
    <3> QED BY <2>1, LeastNat
  <2>3. k \in I /\ run[k] \notin V /\ \A m \in I : m < k => run[m] \in V
    BY <1>1, <2>2
  <2> QED BY <1>5, <1>9, <2>3
<1>12. \A k \in I : run[k] = IF k = 0 THEN EmptyRegisters ELSE svm_execute(run[k - 1], p[k])
  BY <1>5, <1>9, <1>11
<1> QED
  BY <1>10, <1>11, <1>12 DEF V

\* How often k is used by an instruction that reports two uses.
LEMMA PairCount ==
  ASSUME NEW u, DOMAIN u = {1, 2}, NEW k
  PROVE  Cardinality({n \in DOMAIN u : u[n] = k})
           = (IF u[1] = k THEN 1 ELSE 0) + (IF u[2] = k THEN 1 ELSE 0)
<1> DEFINE Q == {n \in DOMAIN u : u[n] = k}
<1> SUFFICES Cardinality(Q) = (IF u[1] = k THEN 1 ELSE 0) + (IF u[2] = k THEN 1 ELSE 0)
  OBVIOUS
<1>2. \A n : n \in Q <=> (n = 1 /\ u[1] = k) \/ (n = 2 /\ u[2] = k)
  OBVIOUS
<1> HIDE DEF Q
<1>3. Cardinality({}) = 0 /\ \A x : IsFiniteSet({x}) /\ Cardinality({x}) = 1
  BY FS_EmptySet, FS_Singleton
<1>4. CASE u[1] = k /\ u[2] = k
  <2>1. Q = {1} \cup {2} /\ 2 \notin {1}
    BY <1>2, <1>4
  <2>2. Cardinality({1} \cup {2}) = Cardinality({1}) + 1
    BY <1>3, <2>1, FS_AddElement
  <2> QED BY <1>3, <1>4, <2>1, <2>2
<1>5. CASE u[1] = k /\ u[2] # k
  <2>1. Q = {1}
    BY <1>2, <1>5
  <2> QED BY <1>3, <1>5, <2>1
<1>6. CASE u[1] # k /\ u[2] = k
  <2>1. Q = {2}
    BY <1>2, <1>6
  <2> QED BY <1>3, <1>6, <2>1
<1>7. CASE u[1] # k /\ u[2] # k
  <2>1. Q = {}
    BY <1>2, <1>7
  <2> QED BY <1>3, <1>7, <2>1
<1> QED
  BY <1>4, <1>5, <1>6, <1>7

\* How often k is used by an instruction that reports one use.
LEMMA OneCount ==
  ASSUME NEW u, DOMAIN u = {1}, NEW k
  PROVE  Cardinality({n \in DOMAIN u : u[n] = k}) = IF u[1] = k THEN 1 ELSE 0
<1> DEFINE Q == {n \in DOMAIN u : u[n] = k}
<1> SUFFICES Cardinality(Q) = IF u[1] = k THEN 1 ELSE 0
  OBVIOUS
<1>2. \A n : n \in Q <=> n = 1 /\ u[1] = k
  OBVIOUS
<1> HIDE DEF Q
<1>3. Cardinality({}) = 0 /\ \A x : Cardinality({x}) = 1
  BY FS_EmptySet, FS_Singleton
<1>4. Q = IF u[1] = k THEN {1} ELSE {}
  BY <1>2
<1> QED
  BY <1>3, <1>4

\* An instruction that reports no use uses nothing.
LEMMA NoCount ==
  ASSUME NEW k
  PROVE  Cardinality({n \in DOMAIN <<>> : <<>>[n] = k}) = 0
<1>1. {n \in DOMAIN <<>> : <<>>[n] = k} = {}
  OBVIOUS
<1> QED
  BY <1>1, FS_EmptySet

\* The uses svm_use counts.
LEMMA CountedFacts ==
  ASSUME Types, next_agg > 0, NEW ins \in Instructions, NEW k \in Handles
  PROVE  /\ program_usage[k] \in Nat
         /\ IsArith(ins) => Counted(r, ins)[k] = program_usage[k]
              + (IF r[ins.dest] = k THEN 1 ELSE 0) + (IF r[ins.src] = k THEN 1 ELSE 0)
         /\ IsAgg(ins) => Counted(r, ins)[k] = program_usage[k] + (IF r[ins.src] = k THEN 1 ELSE 0)
         /\ ~IsArith(ins) /\ ~IsAgg(ins) => Counted(r, ins)[k] = program_usage[k]
<1>1. program_usage[k] \in Nat
  BY DEF Types
<1>2. Counted(r, ins)[k] = program_usage[k]
        + Cardinality({n \in DOMAIN UsedValues(r, ins) : UsedValues(r, ins)[n] = k})
  BY DEF Counted
<1>3. CASE IsArith(ins)
  <2>1. ~IsAgg(ins)
    BY <1>3 DEF IsArith, IsAgg, ArithOps, AggFunctions
  <2> DEFINE u == UsedValues(r, ins)
  <2>2. DOMAIN u = {1, 2} /\ u[1] = r[ins.dest] /\ u[2] = r[ins.src]
    BY <1>3 DEF UsedValues
  <2>3. Counted(r, ins)[k] = program_usage[k] + Cardinality({n \in DOMAIN u : u[n] = k})
    BY <1>2
  <2> HIDE DEF u
  <2>4. Cardinality({n \in DOMAIN u : u[n] = k})
          = (IF r[ins.dest] = k THEN 1 ELSE 0) + (IF r[ins.src] = k THEN 1 ELSE 0)
    BY <2>2, PairCount
  <2> QED BY <1>1, <1>3, <2>1, <2>3, <2>4
<1>4. CASE ~IsArith(ins) /\ IsAgg(ins)
  <2> DEFINE u == UsedValues(r, ins)
  <2>2. DOMAIN u = {1} /\ u[1] = r[ins.src]
    BY <1>4 DEF UsedValues
  <2>3. Counted(r, ins)[k] = program_usage[k] + Cardinality({n \in DOMAIN u : u[n] = k})
    BY <1>2
  <2> HIDE DEF u
  <2>4. Cardinality({n \in DOMAIN u : u[n] = k}) = IF r[ins.src] = k THEN 1 ELSE 0
    BY <2>2, OneCount
  <2> QED BY <1>1, <1>4, <2>3, <2>4
<1>5. CASE ~IsArith(ins) /\ ~IsAgg(ins)
  <2>2. UsedValues(r, ins) = <<>>
    BY <1>5 DEF UsedValues
  <2> QED BY <1>1, <1>2, <1>5, <2>2, NoCount
<1> QED
  BY <1>3, <1>4, <1>5

\* pushInstr keeps program, registers and counts typed.
LEMMA PushTyped ==
  ASSUME Types, next_agg > 0, NEW ins \in Runnable, NEW first, pushInstr(ins, first)
  PROVE  /\ m_program' \in Seq(Runnable)
         /\ r' \in [Regs -> {NULL} \cup Handles]
         /\ program_usage' \in [Handles -> Nat]
<1>1. m_program' \in Seq(Runnable)
  BY AppendProperties DEF pushInstr, Types
<1>2. r' \in [Regs -> {NULL} \cup Handles]
  BY ExecuteTyped DEF pushInstr, Types
<1>3. Counted(r, ins) \in [Handles -> Nat]
  <2>1. ins \in Instructions
    BY DEF Runnable
  <2>2. \A k \in Handles : Counted(r, ins)[k] \in Nat
    BY <2>1, CountedFacts
  <2>3. Counted(r, ins) = [k \in Handles |-> Counted(r, ins)[k]]
    BY DEF Counted
  <2> QED BY <2>2, <2>3
<1> QED
  BY <1>1, <1>2, <1>3 DEF pushInstr, Types

\* What every step between two calls leaves alone.
Quiet ==
  /\ UNCHANGED <<m_exprs, m_aggs, next_agg>>
  /\ has_been_compiled \subseteq has_been_compiled'

\* A call's stage does not depend on what is compiled later.
LEMMA CallKept ==
  ASSUME NEW f, NEW exprs, NEW c, NEW d, CallFits(f, exprs, c), c \subseteq d
  PROVE  CallFits(f, exprs, d)
BY DEF CallFits

\* A call returns.
LEMMA CallsReturn ==
  ASSUME Types, Calls, stack # <<>>, stack' = Callers, result' # None, Quiet
  PROVE  Calls'
<1>1. /\ stack' \in Seq(Frame) /\ Len(stack') = Len(stack) - 1 /\ Len(stack) \in Nat \ {0}
      /\ \A n \in 1 .. Len(stack') : stack'[n] = stack[n]
  BY ReturnFacts, CallersFacts DEF Types
<1>2. \A n \in 1 .. Len(stack') : n \in 1 .. Len(stack) /\ n \in 1 .. (Len(stack) - 1)
  BY <1>1
<1>3. \A n \in 1 .. Len(stack') : CallFits(stack'[n], m_exprs, has_been_compiled')
  BY <1>1, <1>2, CallKept DEF Calls, StackFits, Quiet
<1>4. \A n \in 1 .. (Len(stack') - 1) :
        stack'[n].pc \in {"first", "second"} /\ stack'[n + 1].expr = OperandOf(stack'[n], m_exprs)
  <2> SUFFICES ASSUME NEW n \in 1 .. (Len(stack') - 1)
               PROVE  stack'[n].pc \in {"first", "second"}
                        /\ stack'[n + 1].expr = OperandOf(stack'[n], m_exprs)
    OBVIOUS
  <2>1. n \in 1 .. Len(stack') /\ n + 1 \in 1 .. Len(stack') /\ n \in 1 .. (Len(stack) - 1)
    BY <1>1
  <2>2. stack'[n] = stack[n] /\ stack'[n + 1] = stack[n + 1]
    BY <1>1, <2>1
  <2> QED BY <2>1, <2>2 DEF Calls, StackFits
<1>5. ASSUME stack' # <<>>
      PROVE  /\ stack'[1].expr = m_aggs'[next_agg'].expr
             /\ Top'.pc \in {"first", "second"}
  <2>1. Len(stack') \in Nat \ {0}
    BY <1>1, <1>5, EmptySeq
  <2>2. 1 \in 1 .. Len(stack') /\ Len(stack') \in 1 .. (Len(stack) - 1)
        /\ Len(stack') \in 1 .. Len(stack')
    BY <1>1, <2>1
  <2>3. stack'[1] = stack[1] /\ Top' = stack[Len(stack')]
    BY <1>1, <2>2 DEF Top
  <2> QED BY <2>2, <2>3 DEF Calls, StackFits, Quiet
<1> QED
  BY <1>3, <1>4, <1>5 DEF Calls, StackFits, Quiet

\* A call goes on.
LEMMA CallsReplace ==
  ASSUME Types, Calls, stack # <<>>, NEW f \in Frame, Replace(f), Quiet,
         CallFits(f, m_exprs, has_been_compiled'), f.expr = Top.expr,
         result' = None <=> f.pc \in {"enter", "save", "dest", "emit"}
  PROVE  Calls'
<1>1. /\ stack' \in Seq(Frame) /\ Len(stack') = Len(stack) /\ stack' # <<>>
           /\ Len(stack) \in Nat \ {0}
      /\ stack'[Len(stack)] = f
      /\ \A n \in 1 .. (Len(stack) - 1) : stack'[n] = stack[n]
  BY ReplaceFacts, CallersFacts DEF Types
<1>2. \A n \in 1 .. Len(stack) : n = Len(stack) \/ n \in 1 .. (Len(stack) - 1)
  BY <1>1
<1>3. \A n \in 1 .. Len(stack) : stack'[n].expr = stack[n].expr
  BY <1>1, <1>2 DEF Top
<1>4. \A n \in 1 .. Len(stack') : CallFits(stack'[n], m_exprs, has_been_compiled')
  BY <1>1, <1>2, CallKept DEF Calls, StackFits, Quiet
<1>5. \A n \in 1 .. (Len(stack') - 1) :
        stack'[n].pc \in {"first", "second"} /\ stack'[n + 1].expr = OperandOf(stack'[n], m_exprs)
  <2> SUFFICES ASSUME NEW n \in 1 .. (Len(stack) - 1)
               PROVE  stack'[n].pc \in {"first", "second"}
                        /\ stack'[n + 1].expr = OperandOf(stack'[n], m_exprs)
    BY <1>1
  <2>1. n + 1 \in 1 .. Len(stack)
    BY <1>1
  <2>2. stack'[n] = stack[n] /\ stack'[n + 1].expr = stack[n + 1].expr
    BY <1>1, <1>3, <2>1
  <2> QED BY <2>2 DEF Calls, StackFits
<1>6. stack'[1].expr = m_aggs'[next_agg'].expr
  <2>1. 1 \in 1 .. Len(stack)
    BY <1>1
  <2> QED BY <1>3, <2>1 DEF Calls, Quiet
<1>7. Top' = f
  BY <1>1 DEF Top
<1> QED
  BY <1>4, <1>5, <1>6, <1>7 DEF Calls, StackFits, Quiet

\* A call calls compile for one of its operands.
LEMMA CallsEnter ==
  ASSUME Types, Calls, stack # <<>>, NEW f \in Frame, NEW e \in Handles, Enter(f, e), Quiet,
         CallFits(f, m_exprs, has_been_compiled'), f.expr = Top.expr, f.pc \in {"first", "second"},
         e = OperandOf(f, m_exprs), result' = None
  PROVE  Calls' /\ stack' \in Seq(Frame) /\ Call(e) \in Frame
<1>0. Call(e) \in Frame /\ CallFits(Call(e), m_exprs, has_been_compiled')
  BY DEF Call, Frame, CallFits
<1>1. /\ stack' \in Seq(Frame) /\ Len(stack') = Len(stack) + 1 /\ stack' # <<>>
           /\ Len(stack) \in Nat \ {0}
      /\ stack'[Len(stack) + 1] = Call(e) /\ stack'[Len(stack)] = f
      /\ \A n \in 1 .. (Len(stack) - 1) : stack'[n] = stack[n]
  BY <1>0, EnterFacts, CallersFacts DEF Types
<1>2. /\ \A n \in 1 .. Len(stack') : n = Len(stack) + 1 \/ n = Len(stack)
           \/ n \in 1 .. (Len(stack) - 1)
      /\ \A n \in 1 .. (Len(stack') - 1) : n = Len(stack) \/ n \in 1 .. (Len(stack) - 1)
      /\ \A n \in 1 .. (Len(stack) - 1) : n + 1 \in 1 .. Len(stack)
      /\ \A n \in 1 .. Len(stack) : n = Len(stack) \/ n \in 1 .. (Len(stack) - 1)
  BY <1>1
<1>3. \A n \in 1 .. Len(stack) : stack'[n].expr = stack[n].expr
  BY <1>1, <1>2 DEF Top
<1>4. \A n \in 1 .. Len(stack') : CallFits(stack'[n], m_exprs, has_been_compiled')
  <2>1. \A n \in 1 .. (Len(stack) - 1) : CallFits(stack'[n], m_exprs, has_been_compiled')
    BY <1>1, <1>2, CallKept DEF Calls, StackFits, Quiet
  <2> QED BY <1>0, <1>1, <1>2, <2>1
<1>5. \A n \in 1 .. (Len(stack') - 1) :
        stack'[n].pc \in {"first", "second"} /\ stack'[n + 1].expr = OperandOf(stack'[n], m_exprs)
  <2> SUFFICES ASSUME NEW n \in 1 .. (Len(stack') - 1)
               PROVE  stack'[n].pc \in {"first", "second"}
                        /\ stack'[n + 1].expr = OperandOf(stack'[n], m_exprs)
    OBVIOUS
  <2>1. CASE n = Len(stack)
    BY <1>1, <2>1 DEF Call
  <2>2. CASE n \in 1 .. (Len(stack) - 1)
    <3>1. stack'[n] = stack[n] /\ stack'[n + 1].expr = stack[n + 1].expr
      BY <1>1, <1>2, <1>3, <2>2
    <3> QED BY <2>2, <3>1 DEF Calls, StackFits
  <2> QED BY <1>2, <2>1, <2>2
<1>6. stack'[1].expr = m_aggs'[next_agg'].expr
  <2>1. 1 \in 1 .. Len(stack)
    BY <1>1
  <2> QED BY <1>3, <2>1 DEF Calls, Quiet
<1>7. Top' = Call(e) /\ Top'.pc = "enter"
  BY <1>1 DEF Top, Call
<1> QED
  BY <1>0, <1>1, <1>4, <1>5, <1>6, <1>7 DEF Calls, StackFits, Quiet

\* What holds of the call on top of the stack.
LEMMA TopFacts ==
  ASSUME Shape, stack # <<>>
  PROVE  /\ m_status = "COMPILING" /\ next_agg \in 1 .. Len(m_aggs) /\ ~fault /\ NoOrphans
         /\ Top \in Frame /\ Top.expr \in Handles
         /\ CallFits(Top, m_exprs, has_been_compiled)
         /\ Len(stack) \in Nat \ {0}
<1>1. Len(stack) \in Nat \ {0} /\ Top \in Frame
  BY CallersFacts DEF Shape, Types
<1>2. CallFits(stack[Len(stack)], m_exprs, has_been_compiled)
  BY <1>1 DEF Shape, Calls, StackFits
<1>3. m_status = "COMPILING" /\ next_agg > 0 /\ ~fault /\ NoOrphans /\ next_agg <= Len(m_aggs)
  BY DEF Shape, Phases, Types, TypeOK
<1>4. next_agg \in 1 .. Len(m_aggs)
  BY <1>3 DEF Shape, Types
<1> QED
  BY <1>1, <1>2, <1>3, <1>4 DEF Top, Frame

\* The operands of an operation are older expressions.
LEMMA OperandFacts ==
  ASSUME TypeOK, NEW e \in Handles
  PROVE  /\ Operation(e) \in ArithOps =>
              /\ Left(e) \in Handles /\ Left(e) < e
              /\ Right(e) \in Handles /\ Right(e) < e
         /\ Operation(e) \notin ArithOps => Left(e) = NULL /\ Right(e) = NULL
         /\ Operation(e) \in ArithOps \cup {"Load", "LoadConstantInt"}
         /\ LeftFirst(e) \in BOOLEAN
         /\ Operation(e) = "Load" => m_exprs[e].idx \in Columns
         /\ Operation(e) = "LoadConstantInt" => m_exprs[e].idx \in 1 .. Len(m_constants)
<1>1. Handles = 1 .. Len(m_exprs) /\ Len(m_exprs) \in Nat /\ m_exprs[e] \in Node
  BY HandlesFacts
<1>2. RowOK(m_exprs[e], e, Len(m_constants))
  BY DEF TypeOK
<1>3. "Load" \notin ArithOps /\ "LoadConstantInt" \notin ArithOps
  BY DEF ArithOps
<1>4. m_exprs[e].eval_left_first \in BOOLEAN
  BY <1>1 DEF Node
<1> QED
  BY <1>1, <1>2, <1>3, <1>4 DEF RowOK, Operation, Left, Right, LeftFirst

\* Whatever a step inside compile() does to the compiler's variables, the
\* tables of the high-level API and the loop variable stay.
LEMMA StepKeepsPhases ==
  ASSUME Shape, m_status = "COMPILING", next_agg \in 1 .. Len(m_aggs),
         UNCHANGED <<exprVars, next_agg>>,
         r' \in [Regs -> {NULL} \cup Handles], m_locked' \in [Regs -> Int],
         m_program' \in Seq(Runnable), program_usage' \in [Handles -> Nat],
         has_been_compiled' \subseteq Handles, stack' \in Seq(Frame),
         result' \in Regs \cup {None, Failed}
  PROVE  Types' /\ Phases'
<1>1. UNCHANGED exprVars /\ next_agg' = next_agg
  OBVIOUS
<1>2. Types'
  <2>1. TypeOK'
    BY <1>1 DEF Shape, Types, TypeOK, exprVars, Handles, RowOK, IsConstant
  <2>2. Handles' = Handles /\ Frame' = Frame /\ next_agg' \in 0 .. (Len(m_aggs') + 1)
    BY <1>1 DEF Shape, Types, Handles, exprVars, Frame
  <2>3. Runnable' = Runnable
    BY DEF Runnable
  <2> QED BY <2>1, <2>2, <2>3 DEF Types
<1>3. Phases'
  <2>1. next_agg' > 0 /\ m_status' = "COMPILING" /\ ~fault' /\ next_agg' <= Len(m_aggs')
    BY <1>1 DEF Shape, Phases, exprVars
  <2>2. NoOrphans'
    BY <1>1 DEF Shape, Phases, exprVars, NoOrphans, Handles, IsConstant
  <2> QED BY <2>1, <2>2 DEF Phases
<1> QED
  BY <1>2, <1>3

\* What Shape says while compile() runs and after it.
LEMMA TypesUnchanged ==
  ASSUME Shape, next_agg > 0
  PROVE  /\ r \in [Regs -> {NULL} \cup Handles] /\ m_locked \in [Regs -> Int]
         /\ m_program \in Seq(Runnable) /\ program_usage \in [Handles -> Nat]
         /\ has_been_compiled \subseteq Handles /\ stack \in Seq(Frame)
         /\ result \in Regs \cup {None, Failed}
         /\ TypeOK /\ Types /\ Calls /\ Phases
BY DEF Shape, Types

\* A value found in a register.
LEMMA ReuseRegisterShape == Shape /\ ReuseRegister => Shape'
<1> SUFFICES ASSUME Shape, ReuseRegister PROVE Shape'
  OBVIOUS
<1> USE DEF At, NoPush, Return
<1>1. stack # <<>> /\ m_status = "COMPILING" /\ stack' = Callers
      /\ result' = First(Holding(Top.expr))
      /\ Holding(Top.expr) # {} /\ UNCHANGED <<exprVars, next_agg>>
      /\ UNCHANGED <<r, m_locked, m_program, program_usage, has_been_compiled>>
  BY DEF ReuseRegister
<1>2. result' \in Regs
  <2>1. Holding(Top.expr) \subseteq Regs /\ Holding(Top.expr) \subseteq Nat
    BY RegsFacts DEF Holding
  <2> QED BY <1>1, <2>1, FirstIsMember
<1>3. stack' \in Seq(Frame)
  BY <1>1, TopFacts, ReturnFacts, TypesUnchanged
<1>4. Types' /\ Phases'
  BY <1>1, <1>2, <1>3, TopFacts, TypesUnchanged, StepKeepsPhases
<1>5. Calls'
  <2>1. Quiet
    BY <1>1 DEF exprVars, Quiet
  <2>2. result' # None
    BY <1>2, RegsFacts
  <2> QED BY <1>1, <2>1, <2>2, CallsReturn, TopFacts, TypesUnchanged
<1> QED BY <1>4, <1>5 DEF Shape

\* The instruction of a leaf.
LeafInstr ==
  Instr(IF Operation(Top.expr) = "Load" THEN "Load" ELSE "LoadConstantInteger",
        Cheapest, m_exprs[Top.expr].idx)

\* The load of a leaf is an instruction.
LEMMA LeafRunnable ==
  ASSUME Shape, CompileLeaf, CanSeizeAny
  PROVE  LeafInstr \in Runnable /\ Cheapest \in Regs /\ IsLoad(LeafInstr)
<1>1. stack # <<>> /\ Operation(Top.expr) \in {"Load", "LoadConstantInt"}
  BY DEF CompileLeaf, At
<1>2. Cheapest \in Regs /\ Cheapest \in Nat
  BY CheapestFacts, RegsFacts DEF Shape, CanSeizeAny
<1>3. m_exprs[Top.expr].idx \in Nat \cup Columns
  BY <1>1, TopFacts, OperandFacts DEF Shape, Types
<1> QED
  BY <1>2, <1>3 DEF Runnable, LeafInstr, Instr, Instructions, IsLoad, IsAgg, AggFunctions

\* A leaf is loaded, or there is no register for it.
LEMMA CompileLeafShape == Shape /\ CompileLeaf => Shape'
<1> SUFFICES ASSUME Shape, CompileLeaf PROVE Shape'
  OBVIOUS
<1> USE DEF At, NoPush, Return
<1>1. stack # <<>> /\ m_status = "COMPILING" /\ UNCHANGED <<exprVars, m_locked, next_agg>>
      /\ has_been_compiled' = has_been_compiled \cup {Top.expr}
      /\ \/ /\ CanSeizeAny
            /\ pushInstr(LeafInstr, Top.expr \notin has_been_compiled)
            /\ stack' = Callers /\ result' = Cheapest
         \/ ~CanSeizeAny /\ stack' = Callers /\ result' = Failed
              /\ UNCHANGED <<m_program, r, program_usage>>
  BY DEF CompileLeaf, LeafInstr
<1>2. /\ result' \in Regs \cup {Failed} /\ m_program' \in Seq(Runnable)
      /\ r' \in [Regs -> {NULL} \cup Handles]
      /\ program_usage' \in [Handles -> Nat]
  <2>1. CASE CanSeizeAny
    BY <1>1, <2>1, LeafRunnable, PushTyped, TopFacts, TypesUnchanged
  <2>2. CASE ~CanSeizeAny
    BY <1>1, <2>2, TopFacts, TypesUnchanged
  <2> QED BY <2>1, <2>2
<1>3. stack' \in Seq(Frame)
  BY <1>1, TopFacts, ReturnFacts, TypesUnchanged
<1>4. Types' /\ Phases'
  BY <1>1, <1>2, <1>3, TopFacts, TypesUnchanged, StepKeepsPhases
<1>5. Calls'
  <2>1. Quiet
    BY <1>1 DEF exprVars, Quiet
  <2>2. result' # None
    BY <1>2, RegsFacts
  <2> QED BY <1>1, <2>1, <2>2, CallsReturn, TopFacts, TypesUnchanged
<1> QED BY <1>4, <1>5 DEF Shape

\* An operation calls compile(Expr) for its first operand.
LEMMA CompileFirstOperandShape == Shape /\ CompileFirstOperand => Shape'
<1> SUFFICES ASSUME Shape, CompileFirstOperand PROVE Shape'
  OBVIOUS
<1> USE DEF At, NoPush
<1> DEFINE f == [Top EXCEPT !.first = Top.expr \notin has_been_compiled, !.pc = "first"]
           e == IF LeftFirst(Top.expr) THEN Left(Top.expr) ELSE Right(Top.expr)
<1>1. stack # <<>> /\ m_status = "COMPILING" /\ Top.pc = "enter"
      /\ UNCHANGED <<exprVars, m_locked, result, next_agg>>
      /\ has_been_compiled' = has_been_compiled \cup {Top.expr}
      /\ Operation(Top.expr) \in ArithOps
      /\ Enter(f, e) /\ UNCHANGED <<m_program, r, program_usage>>
  BY DEF CompileFirstOperand
<1>2. f \in Frame /\ f.expr = Top.expr /\ f.pc = "first"
  BY TopFacts, <1>1 DEF Frame
<1>3. e \in Handles /\ e = OperandOf(f, m_exprs)
  BY <1>1, <1>2, TopFacts, OperandFacts, TypesUnchanged DEF OperandOf, Left, Right, LeftFirst
<1>4. CallFits(f, m_exprs, has_been_compiled')
  <2>1. Top.dest = None /\ Top.src = None
    BY <1>1, TopFacts DEF CallFits
  <2>2. f.dest = None /\ f.src = None
    BY <2>1, TopFacts DEF Frame
  <2> HIDE DEF f
  <2> QED BY <1>1, <1>2, <2>2 DEF CallFits, Operation
<1>5. Quiet
  BY <1>1 DEF exprVars, Quiet
<1>6. result' = None
  BY <1>1 DEF Shape, Calls
<1>7. Calls' /\ stack' \in Seq(Frame)
  <2> HIDE DEF f, e
  <2>1. Types /\ Calls /\ stack # <<>> /\ f.pc \in {"first", "second"}
    BY <1>1, <1>2, TopFacts, TypesUnchanged
  <2> QED BY <1>1, <1>2, <1>3, <1>4, <1>5, <1>6, <2>1, CallsEnter
<1>8. has_been_compiled' \subseteq Handles
  BY <1>1, TopFacts, TypesUnchanged
<1>9. Types' /\ Phases'
  <2> HIDE DEF f, e
  <2> QED BY <1>1, <1>6, <1>7, <1>8, TopFacts, TypesUnchanged, StepKeepsPhases
<1> QED BY <1>7, <1>9 DEF Shape

\* The operand that is both operands is locked.
LEMMA LockSameOperandShape == Shape /\ LockSameOperand => Shape'
<1> SUFFICES ASSUME Shape, LockSameOperand PROVE Shape'
  OBVIOUS
<1> USE DEF At, NoPush
<1> DEFINE f == [Top EXCEPT !.dest = result, !.src = result, !.pc = "save"]
<1>1. stack # <<>> /\ m_status = "COMPILING" /\ Top.pc = "first" /\ result \in Regs
      /\ Left(Top.expr) = Right(Top.expr)
      /\ m_locked' = [m_locked EXCEPT ![result] = @ + 2]
      /\ Replace(f) /\ result' = None
      /\ UNCHANGED <<exprVars, has_been_compiled, next_agg>>
           /\ UNCHANGED <<m_program, r, program_usage>>
  BY DEF LockSameOperand
<1>2. f \in Frame /\ f.expr = Top.expr /\ f.pc = "save" /\ f.dest = result /\ f.src = result
  BY TopFacts, <1>1 DEF Frame
<1>3. CallFits(f, m_exprs, has_been_compiled')
  <2>1. m_exprs[Top.expr].op \in ArithOps /\ Top.expr \in has_been_compiled
    BY <1>1, TopFacts DEF CallFits
  <2> HIDE DEF f
  <2> QED BY <1>1, <1>2, <2>1 DEF CallFits
<1>4. Quiet
  BY <1>1 DEF exprVars, Quiet
<1>5. Calls' /\ stack' \in Seq(Frame)
  <2> HIDE DEF f
  <2> QED BY <1>1, <1>2, <1>3, <1>4, CallsReplace, ReplaceFacts, TopFacts, TypesUnchanged
<1>6. m_locked' \in [Regs -> Int]
  BY <1>1, TopFacts, TypesUnchanged
<1>7. Types' /\ Phases'
  <2> HIDE DEF f
  <2> QED BY <1>1, <1>5, <1>6, TopFacts, TypesUnchanged, StepKeepsPhases
<1> QED BY <1>5, <1>7 DEF Shape

\* The first operand is locked and the second one called for.
LEMMA LockFirstOperandShape == Shape /\ LockFirstOperand => Shape'
<1> SUFFICES ASSUME Shape, LockFirstOperand PROVE Shape'
  OBVIOUS
<1> USE DEF At, NoPush
<1> DEFINE f == IF LeftFirst(Top.expr) THEN [Top EXCEPT !.dest = result, !.pc = "second"]
                                       ELSE [Top EXCEPT !.src = result, !.pc = "second"]
           e == IF LeftFirst(Top.expr) THEN Right(Top.expr) ELSE Left(Top.expr)
<1>1. stack # <<>> /\ m_status = "COMPILING" /\ Top.pc = "first" /\ result \in Regs
      /\ Left(Top.expr) # Right(Top.expr)
      /\ m_locked' = [m_locked EXCEPT ![result] = @ + 1]
      /\ Enter(f, e) /\ result' = None
      /\ UNCHANGED <<exprVars, has_been_compiled, next_agg>>
           /\ UNCHANGED <<m_program, r, program_usage>>
  BY DEF LockFirstOperand, LockedOnce
<1>0. Operation(Top.expr) \in ArithOps /\ Top.expr \in has_been_compiled /\ Top.dest = None
      /\ Top.src = None
  BY <1>1, TopFacts DEF CallFits, Operation
<1>2. f \in Frame /\ f.expr = Top.expr /\ f.pc = "second"
      /\ f.dest = (IF LeftFirst(Top.expr) THEN result ELSE None)
      /\ f.src = (IF LeftFirst(Top.expr) THEN None ELSE result)
  BY TopFacts, <1>0, <1>1 DEF Frame
<1>3. e \in Handles /\ e = OperandOf(f, m_exprs)
  <2>1. Top.expr \in Handles /\ TypeOK
    BY <1>1, TopFacts, TypesUnchanged
  <2>2. LeftFirst(Top.expr) \in BOOLEAN /\ Left(Top.expr) \in Handles /\ Right(Top.expr) \in Handles
    BY <1>0, <2>1, OperandFacts
  <2>3. OperandOf(f, m_exprs) = IF ~LeftFirst(Top.expr) THEN Left(Top.expr) ELSE Right(Top.expr)
    <3> HIDE DEF f
    <3> QED BY <1>2, <2>2 DEF OperandOf, Left, Right, LeftFirst
  <2> QED BY <2>2, <2>3
<1>4. CallFits(f, m_exprs, has_been_compiled')
  <2> HIDE DEF f
  <2> QED BY <1>0, <1>1, <1>2 DEF CallFits, Operation, Left, Right, LeftFirst
<1>5. Quiet
  BY <1>1 DEF exprVars, Quiet
<1>7. Calls' /\ stack' \in Seq(Frame)
  <2> HIDE DEF f, e
  <2> QED BY <1>1, <1>2, <1>3, <1>4, <1>5, CallsEnter, TopFacts, TypesUnchanged
<1>8. m_locked' \in [Regs -> Int]
  BY <1>1, TopFacts, TypesUnchanged
<1>9. Types' /\ Phases'
  <2> HIDE DEF f, e
  <2> QED BY <1>1, <1>7, <1>8, TopFacts, TypesUnchanged, StepKeepsPhases
<1> QED BY <1>7, <1>9 DEF Shape

\* The second operand is locked.
LEMMA LockSecondOperandShape == Shape /\ LockSecondOperand => Shape'
<1> SUFFICES ASSUME Shape, LockSecondOperand PROVE Shape'
  OBVIOUS
<1> USE DEF At, NoPush
<1> DEFINE f == IF LeftFirst(Top.expr) THEN [Top EXCEPT !.src = result, !.pc = "save"]
                                       ELSE [Top EXCEPT !.dest = result, !.pc = "save"]
<1>1. stack # <<>> /\ m_status = "COMPILING" /\ Top.pc = "second" /\ result \in Regs
      /\ m_locked' = [m_locked EXCEPT ![result] = @ + 1]
      /\ Replace(f) /\ result' = None
      /\ UNCHANGED <<exprVars, has_been_compiled, next_agg>>
           /\ UNCHANGED <<m_program, r, program_usage>>
  BY DEF LockSecondOperand, LockedOnce
<1>0. /\ m_exprs[Top.expr].op \in ArithOps /\ Top.expr \in has_been_compiled
           /\ Left(Top.expr) # Right(Top.expr)
      /\ LeftFirst(Top.expr) => Top.dest \in Regs
      /\ ~LeftFirst(Top.expr) => Top.src \in Regs
  BY <1>1, TopFacts DEF CallFits, LeftFirst, Left, Right
<1>2. /\ f \in Frame /\ f.expr = Top.expr /\ f.pc = "save" /\ f.dest \in Regs /\ f.src \in Regs
  BY TopFacts, <1>0, <1>1 DEF Frame
<1>3. CallFits(f, m_exprs, has_been_compiled')
  <2> HIDE DEF f
  <2> QED BY <1>0, <1>1, <1>2 DEF CallFits, Left, Right
<1>4. Quiet
  BY <1>1 DEF exprVars, Quiet
<1>5. Calls' /\ stack' \in Seq(Frame)
  <2> HIDE DEF f
  <2> QED BY <1>1, <1>2, <1>3, <1>4, CallsReplace, ReplaceFacts, TopFacts, TypesUnchanged
<1>6. m_locked' \in [Regs -> Int]
  BY <1>1, TopFacts, TypesUnchanged
<1>7. Types' /\ Phases'
  <2> HIDE DEF f
  <2> QED BY <1>1, <1>5, <1>6, TopFacts, TypesUnchanged, StepKeepsPhases
<1> QED BY <1>5, <1>7 DEF Shape

\* The call on top has both operands in registers.
LEMMA BothOperands ==
  ASSUME Shape, stack # <<>>, Top.pc \in {"save", "dest", "emit"}
  PROVE  /\ Top.dest \in Regs /\ Top.src \in Regs /\ Top.dest \in Nat /\ Top.src \in Nat
         /\ Operation(Top.expr) \in ArithOps /\ Top.expr \in has_been_compiled
         /\ result = None
         /\ Top.pc \in {"save", "dest"} /\ Left(Top.expr) = Right(Top.expr) => Top.dest = Top.src
<1>1. CallFits(Top, m_exprs, has_been_compiled)
  BY TopFacts
<1>2. result = None
  BY DEF Shape, Calls
<1> QED
  BY <1>1, <1>2, RegsFacts DEF CallFits, Operation, Left, Right

\* A Mov between registers is an instruction.
LEMMA MovRunnable ==
  ASSUME NEW dest \in Regs, NEW src \in Regs
  PROVE  Instr("Mov", dest, src) \in Runnable
BY RegsFacts DEF Instr, Runnable, Instructions

\* The left operand is copied, or not.
LEMMA SaveLeftShape == Shape /\ SaveLeft => Shape'
<1> SUFFICES ASSUME Shape, SaveLeft PROVE Shape'
  OBVIOUS
<1> USE DEF At, NoPush
<1> DEFINE f == [Top EXCEPT !.pc = "dest"]
           mov == Instr("Mov", Cheapest, Top.dest)
<1>1. stack # <<>> /\ m_status = "COMPILING" /\ Top.pc = "save"
      /\ Replace(f)
      /\ UNCHANGED <<exprVars, m_locked, has_been_compiled, result, next_agg>>
      /\ \/ UNCHANGED <<m_program, r, program_usage>>
         \/ Unlocked # {} /\ pushInstr(mov, Top.first)
  BY DEF SaveLeft, CanSeize
<1>2. f \in Frame /\ f.expr = Top.expr /\ f.pc = "dest" /\ f.dest = Top.dest /\ f.src = Top.src
  BY TopFacts, <1>1 DEF Frame
<1>3. CallFits(f, m_exprs, has_been_compiled')
  <2> HIDE DEF f
  <2> QED BY <1>1, <1>2, BothOperands DEF CallFits, Operation, Left, Right
<1>4. Quiet
  BY <1>1 DEF exprVars, Quiet
<1>5. Calls' /\ stack' \in Seq(Frame) /\ result' = None
  <2> HIDE DEF f, mov
  <2>1. result' = None
    BY <1>1, BothOperands
  <2> QED BY <1>1, <1>2, <1>3, <1>4, <2>1, CallsReplace, ReplaceFacts, TopFacts, TypesUnchanged
<1>6. /\ m_program' \in Seq(Runnable)
      /\ r' \in [Regs -> {NULL} \cup Handles]
      /\ program_usage' \in [Handles -> Nat]
  <2>1. CASE UNCHANGED <<m_program, r, program_usage>>
    BY <2>1, <1>1, TopFacts, TypesUnchanged
  <2>2. CASE Unlocked # {} /\ pushInstr(mov, Top.first)
    <3>1. mov \in Runnable
      BY <1>1, <2>2, BothOperands, MovRunnable, CheapestFacts, TopFacts, TypesUnchanged
    <3> HIDE DEF mov
    <3> QED BY <1>1, <2>2, <3>1, PushTyped, TopFacts, TypesUnchanged
  <2> HIDE DEF f, mov
  <2> QED BY <1>1, <2>1, <2>2
<1>7. Types' /\ Phases'
  <2> HIDE DEF f, mov
  <2> QED BY <1>1, <1>5, <1>6, TopFacts, TypesUnchanged, StepKeepsPhases
<1> QED BY <1>5, <1>7 DEF Shape

\* Where ChooseDestination moves the destination.
LEMMA MoveTyped ==
  ASSUME Shape, stack # <<>>, Top.pc = "dest", NEW d \in Regs, MoveDestination(d),
         UNCHANGED <<exprVars, has_been_compiled, next_agg>>
  PROVE  /\ m_locked' \in [Regs -> Int]
         /\ stack' \in Seq(Frame) /\ Calls' /\ result' = None
<1> DEFINE f == [Top EXCEPT !.dest = d, !.pc = "emit"]
<1>1. Replace(f) /\ UNCHANGED result
      /\ m_locked' = [m_locked EXCEPT ![d] = @ + 1, ![Top.dest] = @ - 1]
  BY DEF MoveDestination
<1>2. f \in Frame /\ f.expr = Top.expr /\ f.pc = "emit" /\ f.dest = d /\ f.src = Top.src
  BY TopFacts, <1>1 DEF Frame
<1>3. CallFits(f, m_exprs, has_been_compiled')
  <2> HIDE DEF f
  <2> QED BY <1>1, <1>2, BothOperands DEF CallFits, Operation, Left, Right
<1>4. Quiet
  BY <1>1 DEF exprVars, Quiet
<1>5. Calls' /\ stack' \in Seq(Frame) /\ result' = None
  <2> HIDE DEF f
  <2>1. result' = None
    BY <1>1, BothOperands
  <2> QED BY <1>1, <1>2, <1>3, <1>4, <2>1, CallsReplace, ReplaceFacts, TopFacts, TypesUnchanged
<1>6. m_locked' \in [Regs -> Int]
  BY <1>1, BothOperands, TopFacts, TypesUnchanged
<1> QED BY <1>5, <1>6

\* The destination is kept or exchanged, or there is none.
LEMMA ChooseDestinationShape == Shape /\ ChooseDestination => Shape'
<1> SUFFICES ASSUME Shape, ChooseDestination PROVE Shape'
  OBVIOUS
<1> USE DEF At, NoPush, Return
<1> DEFINE f == [Top EXCEPT !.pc = "emit"]
           mov == Instr("Mov", Cheapest, Top.dest)
<1>1. stack # <<>> /\ m_status = "COMPILING" /\ Top.pc = "dest"
      /\ UNCHANGED <<exprVars, has_been_compiled, next_agg>>
      /\ \/ Replace(f) /\ UNCHANGED <<m_program, r, program_usage, m_locked, result>>
         \/ FreeCopies # {} /\ MoveDestination(First(FreeCopies))
              /\ UNCHANGED <<m_program, r, program_usage>>
         \/ Unlocked # {} /\ MoveDestination(Cheapest) /\ pushInstr(mov, Top.first)
         \/ stack' = Callers /\ result' = Failed
              /\ UNCHANGED <<m_program, r, program_usage, m_locked>>
  BY DEF ChooseDestination, CanSeizeAny
<1>2. Quiet
  BY <1>1 DEF exprVars, Quiet
<1>9. ASSUME m_locked' \in [Regs -> Int], m_program' \in Seq(Runnable),
             r' \in [Regs -> {NULL} \cup Handles],
             program_usage' \in [Handles -> Nat], stack' \in Seq(Frame),
             result' \in Regs \cup {None, Failed}, Calls'
      PROVE  Shape'
  <2>1. Types' /\ Phases'
    <3> HIDE DEF f, mov
    <3> QED BY <1>1, <1>9, TopFacts, TypesUnchanged, StepKeepsPhases
  <2> QED BY <1>9, <2>1 DEF Shape
<1>3. CASE Replace(f) /\ UNCHANGED <<m_program, r, program_usage, m_locked, result>>
  <2>2. f \in Frame /\ f.expr = Top.expr /\ f.pc = "emit" /\ f.dest = Top.dest /\ f.src = Top.src
    BY TopFacts, <1>1 DEF Frame
  <2>3. CallFits(f, m_exprs, has_been_compiled')
    <3> HIDE DEF f
    <3> QED BY <1>1, <2>2, BothOperands DEF CallFits, Operation, Left, Right
  <2>5. Calls' /\ stack' \in Seq(Frame) /\ result' = None
    <3> HIDE DEF f, mov
    <3>1. result' = None
      BY <1>1, <1>3, BothOperands
    <3> QED
      BY <1>1, <1>2, <1>3, <2>2, <2>3, <3>1, CallsReplace, ReplaceFacts, TopFacts, TypesUnchanged
  <2> HIDE DEF f, mov
  <2> QED BY <1>1, <1>3, <1>9, <2>5, TopFacts, TypesUnchanged
<1>4. CASE FreeCopies # {} /\ MoveDestination(First(FreeCopies))
        /\ UNCHANGED <<m_program, r, program_usage>>
  <2>1. FreeCopies \subseteq Regs /\ FreeCopies \subseteq Nat
    BY RegsFacts DEF FreeCopies, Holding
  <2>2. First(FreeCopies) \in Regs
    BY <1>4, <2>1, FirstIsMember
  <2>3. /\ m_locked' \in [Regs -> Int]
        /\ stack' \in Seq(Frame) /\ Calls' /\ result' = None
    BY <1>1, <1>4, <2>2, MoveTyped
  <2> HIDE DEF f, mov
  <2> QED BY <1>1, <1>4, <1>9, <2>3, TopFacts, TypesUnchanged
<1>5. CASE Unlocked # {} /\ MoveDestination(Cheapest) /\ pushInstr(mov, Top.first)
  <2>1. Cheapest \in Regs
    BY <1>1, <1>5, CheapestFacts, TopFacts, TypesUnchanged
  <2>2. /\ m_locked' \in [Regs -> Int]
        /\ stack' \in Seq(Frame) /\ Calls' /\ result' = None
    <3> HIDE DEF mov
    <3> QED BY <1>1, <1>5, <2>1, MoveTyped
  <2>3. mov \in Runnable
    BY <1>1, <2>1, BothOperands, MovRunnable
  <2>4. m_program' \in Seq(Runnable) /\ r' \in [Regs -> {NULL} \cup Handles]
        /\ program_usage' \in [Handles -> Nat]
    <3> HIDE DEF mov
    <3> QED BY <1>1, <1>5, <2>3, PushTyped, TopFacts, TypesUnchanged
  <2> HIDE DEF f, mov
  <2> QED BY <1>9, <2>2, <2>4
<1>6. CASE stack' = Callers /\ result' = Failed
        /\ UNCHANGED <<m_program, r, program_usage, m_locked>>
  <2>1. Calls' /\ stack' \in Seq(Frame)
    <3>1. result' # None
      BY <1>6, RegsFacts
    <3> QED BY <1>1, <1>2, <1>6, <3>1, CallsReturn, ReturnFacts, TopFacts, TypesUnchanged
  <2> HIDE DEF f, mov
  <2> QED BY <1>1, <1>6, <1>9, <2>1, TopFacts, TypesUnchanged
<1> HIDE DEF f, mov
<1> QED BY <1>1, <1>3, <1>4, <1>5, <1>6

\* The instruction of the operation on top.
OpInstr == Instr(Operation(Top.expr), Top.dest, Top.src)

\* The operation the call on top emits is an instruction.
LEMMA OpRunnable ==
  ASSUME Shape, stack # <<>>, Top.pc = "emit"
  PROVE  OpInstr \in Runnable /\ IsArith(OpInstr) /\ ~IsLoad(OpInstr) /\ ~IsAgg(OpInstr)
         /\ OpInstr.type = Operation(Top.expr) /\ OpInstr.dest = Top.dest /\ OpInstr.src = Top.src
<1>1. Top.dest \in Regs /\ Top.src \in Regs /\ Top.dest \in Nat /\ Top.src \in Nat
      /\ Operation(Top.expr) \in ArithOps
  BY BothOperands
<1> QED
  BY <1>1 DEF OpInstr, Instr, Runnable, Instructions, IsArith, IsLoad, IsAgg, ArithOps, AggFunctions

\* The operation is emitted and its call returns.
LEMMA EmitShape == Shape /\ Emit => Shape'
<1> SUFFICES ASSUME Shape, Emit PROVE Shape'
  OBVIOUS
<1> USE DEF At, Return
<1>1. stack # <<>> /\ m_status = "COMPILING" /\ Top.pc = "emit"
      /\ m_locked' = [i \in Regs |-> m_locked[i] - Unlocks(Top, i)]
      /\ pushInstr(OpInstr, Top.first) /\ stack' = Callers /\ result' = Top.dest
      /\ UNCHANGED <<exprVars, has_been_compiled, next_agg>>
  BY DEF Emit, OpInstr
<1>2. m_program' \in Seq(Runnable) /\ r' \in [Regs -> {NULL} \cup Handles]
      /\ program_usage' \in [Handles -> Nat]
  BY <1>1, OpRunnable, PushTyped, TopFacts, TypesUnchanged
<1>3. m_locked' \in [Regs -> Int]
  BY <1>1, TopFacts, TypesUnchanged DEF Unlocks
<1>4. stack' \in Seq(Frame) /\ result' \in Regs
  BY <1>1, TopFacts, ReturnFacts, TypesUnchanged, BothOperands
<1>5. Calls'
  <2>1. Quiet
    BY <1>1 DEF exprVars, Quiet
  <2>2. result' # None
    BY <1>4, RegsFacts
  <2> QED BY <1>1, <2>1, <2>2, CallsReturn, TopFacts, TypesUnchanged
<1>6. Types' /\ Phases'
  BY <1>1, <1>2, <1>3, <1>4, TopFacts, TypesUnchanged, StepKeepsPhases
<1> QED BY <1>5, <1>6 DEF Shape

\* A call passes a failure on.
LEMMA ReturnFailureShape == Shape /\ ReturnFailure => Shape'
<1> SUFFICES ASSUME Shape, ReturnFailure PROVE Shape'
  OBVIOUS
<1> USE DEF NoPush, Return
<1>1. stack # <<>> /\ m_status = "COMPILING" /\ stack' = Callers /\ result' = Failed
      /\ UNCHANGED <<exprVars, m_locked, has_been_compiled, next_agg>>
           /\ UNCHANGED <<m_program, r, program_usage>>
  BY DEF ReturnFailure
<1>3. stack' \in Seq(Frame)
  BY <1>1, TopFacts, ReturnFacts, TypesUnchanged
<1>4. Types' /\ Phases'
  BY <1>1, <1>3, TopFacts, TypesUnchanged, StepKeepsPhases
<1>5. Calls'
  <2>1. Quiet
    BY <1>1 DEF exprVars, Quiet
  <2>2. result' # None
    BY <1>1, RegsFacts
  <2> QED BY <1>1, <2>1, <2>2, CallsReturn, TopFacts, TypesUnchanged
<1> QED BY <1>4, <1>5 DEF Shape

\* The aggregates are functions of expressions of the table.
LEMMA AggFacts ==
  ASSUME TypeOK
  PROVE  /\ m_aggs \in Seq([agg_type : AggTypes, expr : Handles]) /\ Len(m_aggs) \in Nat
         /\ \A i \in 1 .. Len(m_aggs) : m_aggs[i].expr \in Handles
              /\ m_aggs[i].agg_type \in AggFunctions
<1>1. m_aggs \in Seq([agg_type : AggTypes, expr : Handles])
  BY DEF TypeOK
<1>2. \A i \in 1 .. Len(m_aggs) : m_aggs[i] \in [agg_type : AggTypes, expr : Handles]
  <2> DEFINE A == [agg_type : AggTypes, expr : Handles]
  <2>1. m_aggs \in Seq(A)
    BY <1>1
  <2> HIDE DEF A
  <2>2. \A i \in 1 .. Len(m_aggs) : m_aggs[i] \in A
    BY <2>1
  <2> QED BY <2>2 DEF A
<1> QED
  BY <1>1, <1>2, OpsAssumption

\* The loop of compile() calls compile(Expr).
LEMMA CompileAggregateShape == Shape /\ CompileAggregate => Shape'
<1> SUFFICES ASSUME Shape, CompileAggregate PROVE Shape'
  OBVIOUS
<1> USE DEF NoPush, Idle
<1> DEFINE c == Call(m_aggs[next_agg].expr)
<1>1. stack = <<>> /\ m_status = "COMPILING" /\ result = None /\ next_agg <= Len(m_aggs)
      /\ stack' = <<c>>
      /\ UNCHANGED <<exprVars, m_locked, has_been_compiled, result, next_agg>>
           /\ UNCHANGED <<m_program, r, program_usage>>
  BY DEF CompileAggregate
<1>2. next_agg \in 1 .. Len(m_aggs)
  BY <1>1 DEF Shape, Types, Phases, TypeOK
<1>3. m_aggs[next_agg].expr \in Handles
  BY <1>2, AggFacts, TypesUnchanged
<1>4. c \in Frame /\ c.pc = "enter" /\ c.expr = m_aggs[next_agg].expr
      /\ CallFits(c, m_exprs, has_been_compiled)
  BY <1>3 DEF Call, Frame, CallFits
<1> HIDE DEF c
<1>5. stack' \in Seq(Frame) /\ Len(stack') = 1 /\ stack'[1] = c
  BY <1>1, <1>4
<1>6. Types' /\ Phases'
  BY <1>1, <1>2, <1>5, TypesUnchanged, StepKeepsPhases
<1>7. Top' = c
  BY <1>5 DEF Top
<1>8. Calls'
  BY <1>1, <1>4, <1>5, <1>7 DEF Calls, StackFits, exprVars
<1> QED BY <1>6, <1>8 DEF Shape

\* The instruction of an aggregate.
AggInstr == Instr(m_aggs[next_agg].agg_type, next_agg, result)

\* The aggregate instruction is an instruction.
LEMMA AggRunnable ==
  ASSUME Shape, Idle, result \in Regs
  PROVE  /\ AggInstr \in Runnable /\ IsAgg(AggInstr) /\ ~IsArith(AggInstr) /\ ~IsLoad(AggInstr)
         /\ next_agg \in 1 .. Len(m_aggs) /\ AggInstr.dest = next_agg /\ AggInstr.src = result
         /\ AggInstr.type = m_aggs[next_agg].agg_type
<1>1. result # None /\ result \in Nat
  BY RegsFacts
<1>2. next_agg \in 1 .. Len(m_aggs)
  BY <1>1 DEF Shape, Types, Phases, TypeOK, Idle
<1>3. m_aggs[next_agg].agg_type \in AggFunctions
  BY <1>2, AggFacts DEF Shape, Types
<1> QED
  BY <1>1, <1>2, <1>3 DEF AggInstr, Instr, Runnable, Instructions, IsArith, IsLoad, IsAgg,
     ArithOps, AggFunctions

\* The loop of compile() emits an aggregate and goes on.
LEMMA PushAggregateShape == Shape /\ PushAggregate => Shape'
<1> SUFFICES ASSUME Shape, PushAggregate PROVE Shape'
  OBVIOUS
<1>1. Idle /\ result \in Regs /\ pushInstr(AggInstr, TRUE) /\ next_agg' = next_agg + 1
      /\ result' = None
      /\ UNCHANGED <<exprVars, m_locked, has_been_compiled, stack>>
  BY DEF PushAggregate, AggInstr
<1>2. next_agg \in 1 .. Len(m_aggs) /\ next_agg > 0 /\ AggInstr \in Runnable
  BY <1>1, AggRunnable
<1>3. m_program' \in Seq(Runnable) /\ r' \in [Regs -> {NULL} \cup Handles]
      /\ program_usage' \in [Handles -> Nat]
  BY <1>1, <1>2, PushTyped, TypesUnchanged
<1>4. stack = <<>> /\ m_status = "COMPILING"
  BY <1>1 DEF Idle
<1>5. Types'
  <2>1. TypeOK'
    BY <1>1 DEF Shape, Types, TypeOK, exprVars, Handles, RowOK, IsConstant
  <2>2. Handles' = Handles /\ Frame' = Frame /\ Runnable' = Runnable
    BY <1>1 DEF Handles, exprVars, Frame, Runnable
  <2>3. next_agg' \in 0 .. (Len(m_aggs') + 1)
    BY <1>1, <1>2, AggFacts, TypesUnchanged DEF exprVars
  <2> QED BY <1>1, <1>2, <1>3, <2>1, <2>2, <2>3, TypesUnchanged DEF Types
<1>6. Phases'
  <2>1. next_agg' > 0 /\ m_status' = "COMPILING" /\ stack' = <<>> /\ result' = None /\ ~fault'
    BY <1>1, <1>2, <1>4 DEF Shape, Phases, exprVars
  <2>2. NoOrphans'
    BY <1>1, <1>4 DEF Shape, Phases, exprVars, NoOrphans, Handles, IsConstant
  <2> QED BY <2>1, <2>2 DEF Phases
<1>7. Calls'
  BY <1>1, <1>4 DEF Calls, StackFits
<1> QED BY <1>5, <1>6, <1>7 DEF Shape

\* compile() fails.
LEMMA FailCompileShape == Shape /\ FailCompile => Shape'
<1> SUFFICES ASSUME Shape, FailCompile PROVE Shape'
  OBVIOUS
<1>1. Idle /\ result = Failed /\ m_status' = "FAILED"
      /\ UNCHANGED <<m_exprs, usage, m_aggs, m_constants, ret, fault, compVars>>
  BY DEF FailCompile
<1>2. Types'
  BY <1>1 DEF Shape, Types, TypeOK, Handles, RowOK, IsConstant, compVars, Frame, Runnable
<1>3. Phases'
  BY <1>1, RegsFacts DEF Shape, Phases, compVars, Idle
<1>4. Calls'
  BY <1>1 DEF Shape, Calls, StackFits, compVars, Idle
<1> QED BY <1>2, <1>3, <1>4 DEF Shape

\* compile() eliminates dead code and succeeds.
LEMMA FinishCompileShape == Shape /\ FinishCompile => Shape'
<1> SUFFICES ASSUME Shape, FinishCompile PROVE Shape'
  OBVIOUS
<1> DEFINE q == Eliminate(m_program)
<1>1. m_status = "COMPILING" /\ stack = <<>> /\ result = None /\ m_status' = "COMPILED"
      /\ m_program' = q /\ r' = Execution(q)[Len(q)]
      /\ UNCHANGED <<m_exprs, usage, m_aggs, m_constants, ret, fault, m_locked,
                 program_usage, has_been_compiled, stack, result, next_agg>>
  BY DEF FinishCompile, AllCompiled, Idle
<1>2. q \in Seq(Runnable)
  <2>1. m_program \in Seq(Runnable) /\ Len(m_program) \in Nat
    BY DEF Shape, Types
  <2> QED BY <2>1, KeptUnfolds
<1>3. r' \in [Regs -> {NULL} \cup Handles]
  <2> HIDE DEF q
  <2>1. Len(q) \in 0 .. Len(q) /\ TypeOK
    BY <1>2 DEF Shape, Types
  <2> QED BY <1>1, <1>2, <2>1, ExecutionUnfolds
<1> HIDE DEF q
<1>4. Types'
  <2>1. TypeOK'
    BY <1>1 DEF Shape, Types, TypeOK, Handles, RowOK, IsConstant
  <2>2. Handles' = Handles /\ Frame' = Frame /\ Runnable' = Runnable
    BY <1>1 DEF Handles, Frame, Runnable
  <2> QED BY <1>1, <1>2, <1>3, <2>1, <2>2 DEF Shape, Types
<1>5. Phases'
  <2>1. next_agg > 0 /\ ~fault /\ NoOrphans
    BY <1>1 DEF Shape, Phases
  <2>2. NoOrphans'
    BY <1>1, <2>1 DEF NoOrphans, Handles, IsConstant
  <2>3. next_agg' > 0 /\ ~fault' /\ m_status' = "COMPILED" /\ stack' = <<>> /\ result' = None
    BY <1>1, <2>1
  <2>4. next_agg' # 0
    BY <2>1, <1>1
  <2> QED BY <2>2, <2>3, <2>4 DEF Phases
<1>6. Calls'
  BY <1>1 DEF Shape, Calls, StackFits
<1> QED BY <1>4, <1>5, <1>6 DEF Shape

\* compile() is called.
LEMMA BeginCompileShape == Shape /\ BeginCompile => Shape'
<1> SUFFICES ASSUME Shape, BeginCompile PROVE Shape'
  OBVIOUS
<1>1. /\ m_status = "PROGRAMMING" /\ ~fault /\ NoOrphans /\ m_status' = "COMPILING"
      /\ r' = EmptyRegisters /\ m_locked' = [i \in Regs |-> 0]
      /\ program_usage' = [k \in Handles |-> 0] /\ next_agg' = 1 /\ ret' = NULL
      /\ UNCHANGED <<m_exprs, usage, m_aggs, m_constants, fault, m_program, has_been_compiled,
           stack, result>>
  BY DEF BeginCompile, Programming
<1>2. Untouched /\ next_agg = 0
  BY <1>1 DEF Shape, Phases
<1>3. Types'
  <2>1. TypeOK'
    BY <1>1 DEF Shape, Types, TypeOK, Handles, RowOK, IsConstant
  <2>2. Handles' = Handles /\ Frame' = Frame /\ Runnable' = Runnable
    BY <1>1 DEF Handles, Frame, Runnable
  <2>3. next_agg' \in 0 .. (Len(m_aggs') + 1)
    BY <1>1, AggFacts DEF Shape, Types
  <2> QED BY <1>1, <2>1, <2>2, <2>3 DEF Shape, Types, EmptyRegisters
<1>4. Phases'
  BY <1>1, <1>2, RegsFacts DEF Phases, Untouched, NoOrphans, Handles, IsConstant
<1>5. Calls'
  BY <1>1, <1>2 DEF Calls, StackFits, Untouched
<1> QED BY <1>3, <1>4, <1>5 DEF Shape

\* What the API may still do once compile() has been called: nothing that
\* compile() reads.
LEMMA ProgramSteps ==
  ASSUME Shape, Program
  PROVE  /\ UNCHANGED compVars
         /\ m_status # "COMPILING" /\ m_status # "COMPILED"
         /\ m_status' # "COMPILING" /\ m_status' # "COMPILED"
         /\ next_agg > 0 => UNCHANGED <<m_exprs, usage, m_aggs, m_status>>
<1>1. UNCHANGED compVars /\ Next
  BY DEF Program
<1>2. m_status \in {"PROGRAMMING", "FAILED"} /\ m_status' \in {m_status, "FAILED"}
      /\ (m_status = "FAILED" => UNCHANGED <<m_exprs, usage, m_aggs, m_status>>)
  <2>1. CASE \E col \in Columns : Load(col)
    BY <2>1 DEF Load, Programming
  <2>2. CASE LoadUnknown
    BY <2>2 DEF LoadUnknown, Programming
  <2>3. CASE \E v \in Literals : ConstantInteger(v)
    BY <2>3 DEF ConstantInteger
  <2>4. CASE \E op \in Ops, left, right \in Handles : Arith(op, left, right)
    BY <2>4 DEF Arith, Programming
  <2>5. CASE \E type \in AggTypes, k \in Handles : Aggregate(type, k)
    BY <2>5 DEF Aggregate, Programming
  <2> QED BY <1>1, <2>1, <2>2, <2>3, <2>4, <2>5 DEF Next
<1>3. next_agg > 0 => m_status # "PROGRAMMING"
  BY DEF Shape, Phases
<1> QED
  BY <1>1, <1>2, <1>3

\* A call of the API.
LEMMA ProgramShape == Shape /\ Program => Shape'
<1> SUFFICES ASSUME Shape, Program PROVE Shape'
  OBVIOUS
<1>1. UNCHANGED compVars /\ TypeOK'
  BY NextKeepsTypes, ProgramSteps DEF Program, Shape, Types
<1>2. m_status # "COMPILING" /\ stack = <<>> /\ stack' = <<>>
  BY <1>1, ProgramSteps DEF Shape, Phases, compVars
<1>3. CASE next_agg = 0
  <2>1. Untouched /\ Untouched'
    BY <1>1, <1>3 DEF Shape, Phases, Untouched, compVars, EmptyRegisters
  <2>2. Len(m_aggs') \in Nat
    <3> DEFINE A == [agg_type : AggTypes, expr : Handles']
    <3>1. m_aggs' \in Seq(A)
      BY <1>1 DEF TypeOK
    <3> HIDE DEF A
    <3> QED BY <3>1
  <2>3. next_agg' = 0
    BY <1>1, <1>3 DEF compVars
  <2>4. Types'
    BY <1>1, <2>1, <2>2, <2>3 DEF Types, Untouched, EmptyRegisters, Shape
  <2>5. Phases'
    BY <2>1, <2>3, ProgramSteps DEF Phases, Untouched
  <2>6. Calls'
    BY <1>2 DEF Calls, StackFits
  <2> QED BY <2>4, <2>5, <2>6 DEF Shape
<1>4. CASE next_agg # 0
  <2>1. next_agg > 0
    BY <1>4 DEF Shape, Types
  <2>2. UNCHANGED <<m_exprs, usage, m_aggs, m_status>>
    BY <2>1, ProgramSteps
  <2>3. Handles' = Handles /\ Frame' = Frame /\ Runnable' = Runnable
    BY <2>2 DEF Handles, Frame, Runnable
  <2>4. Types'
    BY <1>1, <2>1, <2>2, <2>3 DEF Types, Shape, compVars
  <2>5. Phases'
    BY <1>1, <1>2, <2>1, <2>2, ProgramSteps DEF Phases, Shape, compVars
  <2>6. Calls'
    BY <1>2 DEF Calls, StackFits
  <2> QED BY <2>4, <2>5, <2>6 DEF Shape
<1> QED BY <1>3, <1>4

\* Nothing happens.
LEMMA StutterShape == Shape /\ UNCHANGED vars => Shape'
<1> SUFFICES ASSUME Shape, UNCHANGED vars PROVE Shape'
  OBVIOUS
<1>1. UNCHANGED exprVars /\ UNCHANGED compVars
  BY DEF vars
<1>2. Types'
  BY <1>1 DEF Shape, Types, TypeOK, Handles, RowOK, IsConstant, compVars, exprVars, Frame, Runnable
<1>3. Phases'
  BY <1>1 DEF Shape, Phases, compVars, exprVars, Untouched, NoOrphans, Handles, IsConstant,
     EmptyRegisters
<1>4. Calls'
  BY <1>1 DEF Shape, Calls, StackFits, compVars, exprVars, Top
<1> QED BY <1>2, <1>3, <1>4 DEF Shape

\* A new AggregationAPICompiler.
LEMMA InitShape == CompInit => Shape
<1> SUFFICES ASSUME CompInit PROVE Shape
  OBVIOUS
<1>1. TypeOK /\ Untouched /\ next_agg = 0 /\ m_status = "PROGRAMMING"
  BY InitTypes DEF CompInit, Untouched, Init
<1>2. Types
  BY <1>1, AggFacts DEF Types, Untouched, EmptyRegisters
<1>3. Phases /\ Calls
  BY <1>1 DEF Phases, Calls, StackFits, Untouched
<1> QED BY <1>2, <1>3 DEF Shape

\* Every step keeps types, phases and calls.
LEMMA NextKeepsShape == Shape /\ [CompNext]_vars => Shape'
<1> SUFFICES ASSUME Shape, [CompNext]_vars PROVE Shape'
  OBVIOUS
<1>1. CASE CompileStep
  BY <1>1, ReuseRegisterShape, CompileLeafShape, CompileFirstOperandShape, LockSameOperandShape,
     LockFirstOperandShape, LockSecondOperandShape, SaveLeftShape, ChooseDestinationShape,
     EmitShape,
     ReturnFailureShape, CompileAggregateShape, PushAggregateShape, FailCompileShape,
     FinishCompileShape
  DEF CompileStep
<1> QED
  BY <1>1, ProgramShape, BeginCompileShape, StutterShape DEF CompNext

\* Types, phases and calls are always as Shape says.
LEMMA ShapeInvariant == CompSpec => []Shape
<1>1. CompInit => Shape
  BY InitShape
<1>2. Shape /\ [CompNext]_vars => Shape'
  BY NextKeepsShape
<1> QED
  BY <1>1, <1>2, PTL DEF CompSpec

\* The second layer of the inductive invariant: the locks are those of the
\* calls, and never negative.
Locks == LocksAreFrames /\ m_locked \in [Regs -> Nat]

\* Without calls no register is held.
LEMMA HeldEmpty == \A i : Held(<<>>, i) = 0
<1> SUFFICES ASSUME NEW i PROVE Held(<<>>, i) = 0
  OBVIOUS
<1>1. {n \in 1 .. Len(<<>>) : <<>>[n].dest = i} = {}
      /\ {n \in 1 .. Len(<<>>) : <<>>[n].src = i} = {}
  OBVIOUS
<1> QED BY <1>1, FS_EmptySet DEF Held

\* A call that has not begun holds nothing.
LEMMA FreshHoldsNothing ==
  ASSUME NEW f, f.dest = None, f.src = None, NEW i \in Regs
  PROVE  Unlocks(f, i) = 0
BY RegsFacts DEF Unlocks

\* The locks of the stack before a step, and after each way to change it.
LEMMA HeldOfTop ==
  ASSUME Shape, stack # <<>>, NEW i \in Regs
  PROVE  /\ Held(Callers, i) \in Nat
         /\ Held(stack, i) = Held(Callers, i) + Unlocks(Top, i)
<1>1. Callers \in Seq(Frame) /\ Top \in Frame /\ stack = Append(Callers, Top)
  BY CallersFacts DEF Shape, Types
<1> QED
  BY <1>1, HeldAppend

\* What the stack holds when the call on top changes stage.
LEMMA HeldReplace ==
  ASSUME Shape, stack # <<>>, NEW f \in Frame, Replace(f), NEW i \in Regs
  PROVE  Held(stack', i) = Held(Callers, i) + Unlocks(f, i)
<1>1. Callers \in Seq(Frame) /\ stack' = Append(Callers, f)
  BY CallersFacts DEF Shape, Types, Replace
<1> QED
  BY <1>1, HeldAppend

\* What the stack holds when the call on top calls for an operand: the new
\* call holds nothing yet.
LEMMA HeldEnter ==
  ASSUME Shape, stack # <<>>, NEW f \in Frame, NEW e \in Handles, Enter(f, e), NEW i \in Regs
  PROVE  Held(stack', i) = Held(Callers, i) + Unlocks(f, i)
<1>0. Call(e) \in Frame /\ Call(e).dest = None /\ Call(e).src = None
  BY DEF Call, Frame
<1>1. Callers \in Seq(Frame) /\ Append(Callers, f) \in Seq(Frame)
      /\ stack' = Append(Append(Callers, f), Call(e))
  BY CallersFacts, AppendProperties DEF Shape, Types, Enter
<1>2. Held(Append(Callers, f), i) = Held(Callers, i) + Unlocks(f, i)
      /\ Held(Append(Callers, f), i) \in Nat
  BY <1>1, HeldAppend
<1>3. Held(stack', i) = Held(Append(Callers, f), i) + Unlocks(Call(e), i)
  BY <1>0, <1>1, HeldAppend
<1>4. Unlocks(Call(e), i) = 0
  BY <1>0, FreshHoldsNothing
<1> QED
  BY <1>2, <1>3, <1>4

\* Where each stage of a call stands with its operands.
LEMMA StageFacts ==
  ASSUME Shape, stack # <<>>
  PROVE  /\ Top.pc = "enter" => Top.dest = None /\ Top.src = None /\ ~Top.first /\ result = None
         /\ Top.pc # "enter" => Operation(Top.expr) \in ArithOps /\ Top.expr \in has_been_compiled
         /\ Top.pc = "first" => Top.dest = None /\ Top.src = None
         /\ Top.pc = "second" => Left(Top.expr) # Right(Top.expr)
         /\ Top.pc = "second" /\ LeftFirst(Top.expr) => Top.dest \in Regs /\ Top.src = None
         /\ Top.pc = "second" /\ ~LeftFirst(Top.expr) => Top.dest = None /\ Top.src \in Regs
         /\ result = None <=> Top.pc \in {"enter", "save", "dest", "emit"}
<1>1. CallFits(Top, m_exprs, has_been_compiled)
  BY TopFacts
<1>2. result = None <=> Top.pc \in {"enter", "save", "dest", "emit"}
  BY DEF Shape, Calls
<1> QED
  BY <1>1, <1>2 DEF CallFits, Operation, Left, Right, LeftFirst

\* Every step locks what a call begins to hold and unlocks what it lets go.
LEMMA NextKeepsLocks == Shape /\ Shape' /\ Locks /\ [CompNext]_vars => Locks'
<1> SUFFICES ASSUME Shape, Shape', Locks, [CompNext]_vars PROVE Locks'
  OBVIOUS
<1> USE DEF At, Return, Idle, NoPush
<1>0. /\ m_locked \in [Regs -> Nat]
      /\ m_status = "COMPILING" /\ result # Failed => \A i \in Regs : m_locked[i] = Held(stack, i)
  BY DEF Locks, LocksAreFrames
<1>S. ASSUME m_locked' \in [Regs -> Int], \A i \in Regs : m_locked'[i] = Held(stack', i)
      PROVE  Locks'
  <2>1. stack' \in Seq(Frame')
    BY DEF Shape, Types
  <2>2. Frame' = [expr : Handles', first : BOOLEAN,
                  pc : {"enter", "first", "second", "save", "dest", "emit"},
                  dest : Regs \cup {None}, src : Regs \cup {None}]
    BY DEF Frame
  <2>3. \A i \in Regs : Held(stack', i) \in Nat
    <3> SUFFICES ASSUME NEW i \in Regs PROVE Held(stack', i) \in Nat
      OBVIOUS
    <3>1. stack' \in Seq(Frame') /\ Len(stack') \in Nat
      BY <2>1
    <3> DEFINE P == {n \in 1 .. Len(stack') : stack'[n].dest = i}
               Q == {n \in 1 .. Len(stack') : stack'[n].src = i}
    <3>2. P \subseteq 1 .. Len(stack') /\ Q \subseteq 1 .. Len(stack')
      OBVIOUS
    <3>3. Held(stack', i) = Cardinality(P) + Cardinality(Q)
      BY DEF Held
    <3> HIDE DEF P, Q
    <3>4. Cardinality(P) \in Nat /\ Cardinality(Q) \in Nat
      BY <3>1, <3>2, CountIsNat
    <3> QED BY <3>3, <3>4
  <2> QED BY <1>S, <2>3 DEF Locks, LocksAreFrames
<1>1. ASSUME ReuseRegister PROVE Locks'
  <2>1. stack # <<>> /\ result = None /\ m_status = "COMPILING" /\ stack' = Callers
        /\ m_locked' = m_locked
    BY <1>1, StageFacts DEF ReuseRegister
  <2>2. \A i \in Regs : m_locked'[i] = Held(stack', i)
    <3> SUFFICES ASSUME NEW i \in Regs PROVE m_locked'[i] = Held(stack', i)
      OBVIOUS
    <3>1. Unlocks(Top, i) = 0
      BY <1>1, <2>1, StageFacts, FreshHoldsNothing DEF ReuseRegister
    <3> QED BY <1>0, <2>1, <3>1, HeldOfTop, RegsFacts
  <2> QED BY <1>0, <1>S, <2>1, <2>2
<1>2. ASSUME CompileLeaf PROVE Locks'
  <2>1. stack # <<>> /\ result = None /\ m_status = "COMPILING" /\ stack' = Callers
        /\ m_locked' = m_locked
    BY <1>2, StageFacts DEF CompileLeaf
  <2>2. \A i \in Regs : m_locked'[i] = Held(stack', i)
    <3> SUFFICES ASSUME NEW i \in Regs PROVE m_locked'[i] = Held(stack', i)
      OBVIOUS
    <3>1. Unlocks(Top, i) = 0
      BY <1>2, <2>1, StageFacts, FreshHoldsNothing DEF CompileLeaf
    <3> QED BY <1>0, <2>1, <3>1, HeldOfTop, RegsFacts
  <2> QED BY <1>0, <1>S, <2>1, <2>2
<1>3. ASSUME CompileFirstOperand PROVE Locks'
  <2> DEFINE f == [Top EXCEPT !.first = Top.expr \notin has_been_compiled, !.pc = "first"]
             e == IF LeftFirst(Top.expr) THEN Left(Top.expr) ELSE Right(Top.expr)
  <2>1. stack # <<>> /\ result = None /\ m_status = "COMPILING" /\ Enter(f, e)
        /\ m_locked' = m_locked
        /\ Operation(Top.expr) \in ArithOps /\ Top.dest = None /\ Top.src = None
    BY <1>3, StageFacts DEF CompileFirstOperand
  <2>2. f \in Frame /\ f.dest = None /\ f.src = None
    BY TopFacts, <2>1 DEF Frame
  <2>3. e \in Handles
    BY <2>1, TopFacts, OperandFacts DEF Shape, Types
  <2> HIDE DEF f, e
  <2>4. \A i \in Regs : m_locked'[i] = Held(stack', i)
    <3> SUFFICES ASSUME NEW i \in Regs PROVE m_locked'[i] = Held(stack', i)
      OBVIOUS
    <3>1. Unlocks(Top, i) = 0 /\ Unlocks(f, i) = 0
      BY <2>1, <2>2, FreshHoldsNothing
    <3> QED BY <1>0, <2>1, <2>2, <2>3, <3>1, HeldOfTop, HeldEnter, RegsFacts
  <2> QED BY <1>0, <1>S, <2>1, <2>4
<1>4. ASSUME LockSameOperand PROVE Locks'
  <2> DEFINE f == [Top EXCEPT !.dest = result, !.src = result, !.pc = "save"]
  <2>1. stack # <<>> /\ result \in Regs /\ m_status = "COMPILING" /\ Replace(f)
        /\ m_locked' = [m_locked EXCEPT ![result] = @ + 2] /\ Top.dest = None /\ Top.src = None
    BY <1>4, StageFacts DEF LockSameOperand
  <2>2. f \in Frame /\ f.dest = result /\ f.src = result
    BY TopFacts, <2>1 DEF Frame
  <2> HIDE DEF f
  <2>4. \A i \in Regs : m_locked'[i] = Held(stack', i)
    <3> SUFFICES ASSUME NEW i \in Regs PROVE m_locked'[i] = Held(stack', i)
      OBVIOUS
    <3>1. Unlocks(Top, i) = 0 /\ Unlocks(f, i) = IF i = result THEN 2 ELSE 0
      BY <2>1, <2>2, FreshHoldsNothing DEF Unlocks
    <3>2. m_locked[i] = Held(Callers, i) /\ Held(Callers, i) \in Nat
      BY <1>0, <2>1, <3>1, HeldOfTop, RegsFacts
    <3>3. Held(stack', i) = Held(Callers, i) + Unlocks(f, i)
      BY <2>1, <2>2, HeldReplace
    <3> QED BY <1>0, <2>1, <3>1, <3>2, <3>3
  <2> QED BY <1>0, <1>S, <2>1, <2>4
<1>5. ASSUME LockFirstOperand PROVE Locks'
  <2> DEFINE f == IF LeftFirst(Top.expr) THEN [Top EXCEPT !.dest = result, !.pc = "second"]
                                         ELSE [Top EXCEPT !.src = result, !.pc = "second"]
             e == IF LeftFirst(Top.expr) THEN Right(Top.expr) ELSE Left(Top.expr)
  <2>1. stack # <<>> /\ result \in Regs /\ m_status = "COMPILING" /\ Enter(f, e)
        /\ m_locked' = [m_locked EXCEPT ![result] = @ + 1] /\ Top.dest = None /\ Top.src = None
        /\ Operation(Top.expr) \in ArithOps
    BY <1>5, StageFacts DEF LockFirstOperand, LockedOnce
  <2>2. f \in Frame /\ \/ f.dest = result /\ f.src = None
                       \/ f.dest = None /\ f.src = result
    BY TopFacts, <2>1 DEF Frame
  <2>3. e \in Handles
    BY <2>1, TopFacts, OperandFacts DEF Shape, Types
  <2> HIDE DEF f, e
  <2>4. \A i \in Regs : m_locked'[i] = Held(stack', i)
    <3> SUFFICES ASSUME NEW i \in Regs PROVE m_locked'[i] = Held(stack', i)
      OBVIOUS
    <3>1. Unlocks(Top, i) = 0 /\ Unlocks(f, i) = IF i = result THEN 1 ELSE 0
      BY <2>1, <2>2, FreshHoldsNothing, RegsFacts DEF Unlocks
    <3>2. m_locked[i] = Held(Callers, i) /\ Held(Callers, i) \in Nat
      BY <1>0, <2>1, <3>1, HeldOfTop, RegsFacts
    <3>3. Held(stack', i) = Held(Callers, i) + Unlocks(f, i)
      BY <2>1, <2>2, <2>3, HeldEnter
    <3> QED BY <1>0, <2>1, <3>1, <3>2, <3>3
  <2> QED BY <1>0, <1>S, <2>1, <2>4
<1>6. ASSUME LockSecondOperand PROVE Locks'
  <2> DEFINE f == IF LeftFirst(Top.expr) THEN [Top EXCEPT !.src = result, !.pc = "save"]
                                         ELSE [Top EXCEPT !.dest = result, !.pc = "save"]
  <2>1. stack # <<>> /\ result \in Regs /\ m_status = "COMPILING" /\ Replace(f)
        /\ m_locked' = [m_locked EXCEPT ![result] = @ + 1]
        /\ Top.pc = "second"
    BY <1>6 DEF LockSecondOperand, LockedOnce
  <2>2. f \in Frame /\ \/ f.dest = result /\ f.src = Top.src /\ Top.dest = None
                       \/ f.dest = Top.dest /\ f.src = result /\ Top.src = None
    BY TopFacts, StageFacts, <2>1 DEF Frame
  <2> HIDE DEF f
  <2>4. \A i \in Regs : m_locked'[i] = Held(stack', i)
    <3> SUFFICES ASSUME NEW i \in Regs PROVE m_locked'[i] = Held(stack', i)
      OBVIOUS
    <3>1. Unlocks(f, i) = Unlocks(Top, i) + IF i = result THEN 1 ELSE 0
      BY <2>1, <2>2, RegsFacts DEF Unlocks
    <3>2. m_locked[i] = Held(Callers, i) + Unlocks(Top, i) /\ Held(Callers, i) \in Nat
      BY <1>0, <2>1, HeldOfTop, RegsFacts
    <3>3. Held(stack', i) = Held(Callers, i) + Unlocks(f, i)
      BY <2>1, <2>2, HeldReplace
    <3>4. Unlocks(Top, i) \in Nat
      BY DEF Unlocks
    <3> QED BY <1>0, <2>1, <3>1, <3>2, <3>3, <3>4
  <2> QED BY <1>0, <1>S, <2>1, <2>4
<1>7. ASSUME SaveLeft PROVE Locks'
  <2> DEFINE f == [Top EXCEPT !.pc = "dest"]
  <2>1. stack # <<>> /\ result = None /\ m_status = "COMPILING" /\ Replace(f)
        /\ m_locked' = m_locked
    BY <1>7, StageFacts DEF SaveLeft
  <2>2. f \in Frame /\ f.dest = Top.dest /\ f.src = Top.src
    BY TopFacts, <2>1 DEF Frame
  <2> HIDE DEF f
  <2>4. \A i \in Regs : m_locked'[i] = Held(stack', i)
    <3> SUFFICES ASSUME NEW i \in Regs PROVE m_locked'[i] = Held(stack', i)
      OBVIOUS
    <3>1. Unlocks(f, i) = Unlocks(Top, i)
      BY <2>2 DEF Unlocks
    <3> QED BY <1>0, <2>1, <2>2, <3>1, HeldOfTop, HeldReplace, RegsFacts
  <2> QED BY <1>0, <1>S, <2>1, <2>4
<1>8. ASSUME ChooseDestination PROVE Locks'
  <2>0. stack # <<>> /\ result = None /\ m_status = "COMPILING" /\ Top.pc = "dest"
        /\ UNCHANGED <<exprVars, has_been_compiled, next_agg>>
    BY <1>8, StageFacts DEF ChooseDestination
  <2>00. Top.dest \in Regs /\ Top.src \in Regs
    BY <2>0, BothOperands
  <2>1. ASSUME Replace([Top EXCEPT !.pc = "emit"]), m_locked' = m_locked PROVE Locks'
    <3> DEFINE f == [Top EXCEPT !.pc = "emit"]
    <3>1. Replace(f)
      BY <2>1
    <3>2. f \in Frame /\ f.dest = Top.dest /\ f.src = Top.src
      BY TopFacts, <2>0 DEF Frame
    <3> HIDE DEF f
    <3>4. \A i \in Regs : m_locked'[i] = Held(stack', i)
      <4> SUFFICES ASSUME NEW i \in Regs PROVE m_locked'[i] = Held(stack', i)
        OBVIOUS
      <4>1. Unlocks(f, i) = Unlocks(Top, i)
        BY <3>2 DEF Unlocks
      <4> QED BY <1>0, <2>0, <2>1, <3>1, <3>2, <4>1, HeldOfTop, HeldReplace, RegsFacts
    <3> QED BY <1>0, <1>S, <2>1, <3>4
  <2>2. ASSUME NEW d \in Regs, MoveDestination(d), m_locked[d] = 0, DestinationShared PROVE Locks'
    <3> DEFINE f == [Top EXCEPT !.dest = d, !.pc = "emit"]
    <3>1. Replace(f) /\ m_locked' = [m_locked EXCEPT ![d] = @ + 1, ![Top.dest] = @ - 1]
      BY <2>2 DEF MoveDestination
    <3>2. f \in Frame /\ f.dest = d /\ f.src = Top.src
      BY TopFacts, <2>0, <2>2 DEF Frame
    <3> HIDE DEF f
    <3>3. d # Top.dest
      BY <1>0, <2>00, <2>2 DEF DestinationShared, OwnLocks
    <3>4. \A i \in Regs : m_locked'[i] = Held(stack', i)
      <4> SUFFICES ASSUME NEW i \in Regs PROVE m_locked'[i] = Held(stack', i)
        OBVIOUS
      <4>1. Unlocks(f, i) = Unlocks(Top, i)
              + (IF i = d THEN 1 ELSE 0) - (IF i = Top.dest THEN 1 ELSE 0)
        BY <3>2, <3>3 DEF Unlocks
      <4>2. m_locked[i] = Held(Callers, i) + Unlocks(Top, i) /\ Held(Callers, i) \in Nat
        BY <1>0, <2>0, HeldOfTop, RegsFacts
      <4>3. Held(stack', i) = Held(Callers, i) + Unlocks(f, i)
        BY <2>0, <3>1, <3>2, HeldReplace
      <4>4. Unlocks(Top, i) \in Nat
        BY DEF Unlocks
      <4>5. m_locked'[i] = m_locked[i] + (IF i = d THEN 1 ELSE 0) - (IF i = Top.dest THEN 1 ELSE 0)
        BY <1>0, <2>00, <3>1, <3>3
      <4> QED BY <4>1, <4>2, <4>3, <4>4, <4>5
    <3>5. m_locked' \in [Regs -> Int]
      <4>1. m_locked \in [Regs -> Int]
        BY <1>0
      <4> QED BY <2>00, <3>1, <4>1
    <3> QED BY <1>S, <3>4, <3>5
  <2>3. ASSUME result' = Failed, m_locked' = m_locked PROVE Locks'
    BY <1>0, <2>3 DEF Locks, LocksAreFrames
  <2>4. ASSUME FreeCopies # {} PROVE First(FreeCopies) \in Regs /\ m_locked[First(FreeCopies)] = 0
    <3>1. FreeCopies \subseteq Regs /\ FreeCopies \subseteq Nat
      BY RegsFacts DEF FreeCopies, Holding
    <3>2. First(FreeCopies) \in FreeCopies
      BY <2>4, <3>1, FirstIsMember
    <3> QED BY <3>1, <3>2 DEF FreeCopies, Unlocked
  <2>5. ASSUME CanSeizeAny PROVE Cheapest \in Regs /\ m_locked[Cheapest] = 0
    BY <2>5, CheapestFacts DEF Shape, CanSeizeAny
  <2> QED BY <1>8, <2>1, <2>2, <2>3, <2>4, <2>5 DEF ChooseDestination
<1>9. ASSUME Emit PROVE Locks'
  <2>1. stack # <<>> /\ result = None /\ m_status = "COMPILING" /\ stack' = Callers
        /\ m_locked' = [i \in Regs |-> m_locked[i] - Unlocks(Top, i)]
    BY <1>9, StageFacts DEF Emit
  <2>2. \A i \in Regs : m_locked'[i] = Held(stack', i)
    <3> SUFFICES ASSUME NEW i \in Regs PROVE m_locked'[i] = Held(stack', i)
      OBVIOUS
    <3>1. Unlocks(Top, i) \in Nat
      BY DEF Unlocks
    <3> QED BY <1>0, <2>1, <3>1, HeldOfTop, RegsFacts
  <2>3. m_locked' \in [Regs -> Int]
    BY <1>0, <2>1 DEF Unlocks
  <2> QED BY <1>S, <2>2, <2>3
<1>10. ASSUME ReturnFailure PROVE Locks'
  BY <1>0, <1>10 DEF ReturnFailure, Locks, LocksAreFrames
<1>11. ASSUME CompileAggregate PROVE Locks'
  <2> DEFINE c == Call(m_aggs[next_agg].expr)
  <2>1. stack = <<>> /\ result = None /\ m_status = "COMPILING" /\ stack' = <<c>>
        /\ m_locked' = m_locked
    BY <1>11 DEF CompileAggregate
  <2>2. next_agg \in 1 .. Len(m_aggs)
    BY <1>11 DEF CompileAggregate, Shape, Types, Phases, TypeOK
  <2>3. m_aggs[next_agg].expr \in Handles
    BY <2>2, AggFacts DEF Shape, Types
  <2>4. c \in Frame /\ c.dest = None /\ c.src = None
    BY <2>3 DEF Call, Frame
  <2> HIDE DEF c
  <2>5. \A i \in Regs : m_locked'[i] = Held(stack', i)
    <3> SUFFICES ASSUME NEW i \in Regs PROVE m_locked'[i] = Held(stack', i)
      OBVIOUS
    <3>1. Held(<<>>, i) = 0 /\ Unlocks(c, i) = 0
      BY <2>4, HeldEmpty, FreshHoldsNothing
    <3>2. stack' = Append(<<>>, c) /\ <<>> \in Seq(Frame)
      BY <2>1
    <3>3. Held(stack', i) = 0 + 0
      BY <2>4, <3>1, <3>2, HeldAppend
    <3> QED BY <1>0, <2>1, <3>1, <3>3, RegsFacts
  <2> QED BY <1>0, <1>S, <2>1, <2>5
<1>12. ASSUME PushAggregate PROVE Locks'
  <2>1. stack' = stack /\ m_locked' = m_locked /\ m_status = "COMPILING" /\ result # Failed
    BY <1>12, RegsFacts DEF PushAggregate
  <2> QED BY <1>0, <2>1 DEF Locks, LocksAreFrames
<1>13. ASSUME FailCompile PROVE Locks'
  BY <1>0, <1>13 DEF FailCompile, compVars, Locks, LocksAreFrames
<1>14. ASSUME FinishCompile PROVE Locks'
  BY <1>0, <1>14 DEF FinishCompile, Locks, LocksAreFrames
<1>15. ASSUME BeginCompile PROVE Locks'
  <2>1. stack' = <<>> /\ m_locked' = [i \in Regs |-> 0]
    BY <1>15 DEF BeginCompile, Programming, Shape, Phases
  <2> QED BY <2>1, HeldEmpty DEF Locks, LocksAreFrames
<1>16. ASSUME Program PROVE Locks'
  BY <1>0, <1>16, ProgramSteps DEF Locks, LocksAreFrames, compVars
<1>17. ASSUME UNCHANGED vars PROVE Locks'
  BY <1>0, <1>17 DEF vars, compVars, exprVars, Locks, LocksAreFrames
<1> QED
  BY <1>1, <1>2, <1>3, <1>4, <1>5, <1>6, <1>7, <1>8, <1>9, <1>10, <1>11, <1>12, <1>13, <1>14,
     <1>15, <1>16, <1>17
  DEF CompNext, CompileStep

\* The locks are always those of the calls.
LEMMA LocksInvariant == CompSpec => []Locks
<1>1. CompInit => Locks
  BY DEF CompInit, Init, Locks, LocksAreFrames
<1>2. Shape /\ Shape' /\ Locks /\ [CompNext]_vars => Locks'
  BY NextKeepsLocks
<1> QED
  BY <1>1, <1>2, ShapeInvariant, PTL DEF CompSpec

\* A register is locked exactly as often as the active calls hold it.
THEOREM LocksAlwaysFrames == CompSpec => []LocksAreFrames
<1>1. Locks => LocksAreFrames
  BY DEF Locks
<1> QED
  BY <1>1, LocksInvariant, PTL

\* The compiler's state keeps its types; in particular no register is
\* unlocked more often than it was locked.
THEOREM CompTypesCorrect == CompSpec => []CompTypeOK
<1>1. Shape /\ Locks => CompTypeOK
  <2> SUFFICES ASSUME Shape, Locks PROVE CompTypeOK
    OBVIOUS
  <2>1. m_program \in Seq(Instructions)
    <3>1. m_program \in Seq(Runnable) /\ Runnable \subseteq Instructions
      BY DEF Shape, Types, Runnable
    <3> QED BY <3>1
  <2> QED BY <2>1 DEF Shape, Types, Locks, CompTypeOK
<1> QED
  BY <1>1, ShapeInvariant, LocksInvariant, PTL

\* What the API guarantees when compile() is called, and afterwards.
Tables == NoTwins /\ UsageIsReferenceCount /\ EstRegsIsCheapestOrder

\* compile() changes no expression, no reference count and no aggregate.
LEMMA CompilerLeavesTables ==
  ASSUME Shape, BeginCompile \/ CompileStep \/ UNCHANGED vars
  PROVE  UNCHANGED <<m_exprs, usage, m_aggs>>
BY DEF BeginCompile, CompileStep, ReuseRegister, CompileLeaf, CompileFirstOperand, LockSameOperand,
       LockFirstOperand, LockSecondOperand, SaveLeft, ChooseDestination, Emit, ReturnFailure,
       CompileAggregate, PushAggregate, FailCompile, FinishCompile, exprVars, vars

\* What is said of tables that do not change stays true.
LEMMA TablesUnchanged == Tables /\ UNCHANGED <<m_exprs, usage, m_aggs>> => Tables'
<1> SUFFICES ASSUME Tables, m_exprs' = m_exprs, usage' = usage, m_aggs' = m_aggs PROVE Tables'
  OBVIOUS
<1>1. Handles' = Handles
  BY DEF Handles
<1>2. NoTwins'
  BY <1>1 DEF Tables, NoTwins, NoTwinExprs, NoTwinAggs
<1>3. UsageIsReferenceCount'
  BY <1>1 DEF Tables, UsageIsReferenceCount, References
<1>4. EstRegsIsCheapestOrder'
  BY <1>1 DEF Tables, EstRegsIsCheapestOrder
<1> QED BY <1>2, <1>3, <1>4 DEF Tables

\* Every step keeps what the API guarantees about its tables.
LEMMA NextKeepsTables == Shape /\ Tables /\ [CompNext]_vars => Tables'
<1>1. Shape /\ Tables /\ Program => Tables'
  BY NextKeepsNoTwins, NextKeepsCounts, NextKeepsCheapest DEF Program, Shape, Types, Tables
<1> QED
  BY <1>1, CompilerLeavesTables, TablesUnchanged DEF CompNext

\* What the API guarantees about its tables is always true.
LEMMA TablesInvariant == CompSpec => []Tables
<1>1. CompInit => Tables
  <2> SUFFICES ASSUME CompInit PROVE Tables
    OBVIOUS
  <2>1. Handles = {} /\ m_aggs = <<>>
    BY DEF CompInit, Init, Handles
  <2> QED
    BY <2>1 DEF Tables, NoTwins, NoTwinExprs, NoTwinAggs, UsageIsReferenceCount,
       EstRegsIsCheapestOrder
<1>2. Shape /\ Tables /\ [CompNext]_vars => Tables'
  BY NextKeepsTables
<1> QED
  BY <1>1, <1>2, ShapeInvariant, PTL DEF CompSpec

-----------------------------------------------------------------------------
(* The value an instruction computes.                                        *)

\* Without twins, new_expr finds the expression that was described.
LEMMA InternedIs ==
  ASSUME TypeOK, NoTwins, NEW e, NEW k \in Handles, SameExpr(e, m_exprs[k])
  PROVE  Interned(e) = k
<1>1. k \in Matching(e) /\ Matching(e) \subseteq Handles /\ Matching(e) \subseteq Nat
  BY HandlesFacts DEF Matching
<1>2. First(Matching(e)) \in Matching(e)
  BY <1>1, FirstIsMember
<1>3. SameExpr(m_exprs[k], m_exprs[First(Matching(e))])
  BY <1>2 DEF SameExpr, Matching
<1> QED
  BY <1>1, <1>2, <1>3 DEF Interned, NoTwins, NoTwinExprs

\* The load of a leaf computes the leaf.
LEMMA LeafComputes ==
  ASSUME Shape, NoTwins, stack # <<>>, Operation(Top.expr) \in {"Load", "LoadConstantInt"}, NEW regs
  PROVE  ValueComputed(regs, LeafInstr) = Top.expr
<1>1. Top.expr \in Handles /\ TypeOK
  BY TopFacts DEF Shape, Types
<1>2. Left(Top.expr) = NULL /\ Right(Top.expr) = NULL
  BY <1>1, OperandFacts DEF ArithOps
<1>3. CASE Operation(Top.expr) = "Load"
  <2>1. SameExpr(Leaf("Load", m_exprs[Top.expr].idx), m_exprs[Top.expr])
    BY <1>2, <1>3 DEF SameExpr, Leaf, Operation, Left, Right
  <2>2. LeafInstr.type = "Load" /\ LeafInstr.src = m_exprs[Top.expr].idx
    BY <1>3 DEF LeafInstr, Instr
  <2>3. ValueComputed(regs, LeafInstr) = Interned(Leaf("Load", LeafInstr.src))
    BY <2>2 DEF ValueComputed, IsArith, ArithOps
  <2> QED BY <1>1, <2>1, <2>2, <2>3, InternedIs
<1>4. CASE Operation(Top.expr) = "LoadConstantInt"
  <2>1. SameExpr(Leaf("LoadConstantInt", m_exprs[Top.expr].idx), m_exprs[Top.expr])
    BY <1>2, <1>4 DEF SameExpr, Leaf, Operation, Left, Right
  <2>2. LeafInstr.type = "LoadConstantInteger" /\ LeafInstr.src = m_exprs[Top.expr].idx
    BY <1>4 DEF LeafInstr, Instr
  <2>3. ValueComputed(regs, LeafInstr) = Interned(Leaf("LoadConstantInt", LeafInstr.src))
    BY <2>2 DEF ValueComputed, IsArith, ArithOps
  <2> QED BY <1>1, <2>1, <2>2, <2>3, InternedIs
<1> QED BY <1>3, <1>4

\* A Mov computes the value of its source.
LEMMA MovComputes ==
  ASSUME NEW regs, NEW dest, NEW src
  PROVE  /\ ValueComputed(regs, Instr("Mov", dest, src)) = regs[src]
         /\ ~IsAgg(Instr("Mov", dest, src)) /\ ~IsArith(Instr("Mov", dest, src))
              /\ ~IsLoad(Instr("Mov", dest, src))
         /\ Instr("Mov", dest, src).dest = dest /\ Instr("Mov", dest, src).src = src
         /\ Instr("Mov", dest, src).type = "Mov"
BY DEF ValueComputed, Instr, IsArith, ArithOps, IsAgg, AggFunctions, IsLoad

\* If the operands survive, the operation emitted computes the expression of
\* its call.
LEMMA OpComputes ==
  ASSUME Shape, NoTwins, stack # <<>>, Top.pc = "emit", Survive(stack, r, m_exprs)
  PROVE  /\ r[Top.dest] = Left(Top.expr) /\ r[Top.src] = Right(Top.expr)
         /\ Left(Top.expr) \in Handles /\ Right(Top.expr) \in Handles
         /\ ValueComputed(r, OpInstr) = Top.expr
<1>1. Top.expr \in Handles /\ TypeOK /\ Operation(Top.expr) \in ArithOps /\ Len(stack) \in Nat \ {0}
  BY TopFacts, BothOperands DEF Shape, Types
<1>2. Left(Top.expr) \in Handles /\ Right(Top.expr) \in Handles
  BY <1>1, OperandFacts
<1>3. Top.dest # None /\ Top.src # None
  BY BothOperands, RegsFacts
<1>4. Keeps(Top, r, m_exprs)
  BY <1>1 DEF Survive, Top
<1>5. r[Top.dest] = Left(Top.expr) /\ r[Top.src] = Right(Top.expr)
  BY <1>3, <1>4 DEF Keeps, Left, Right
<1>6. m_exprs[Top.expr].idx = 0
  BY <1>1 DEF TypeOK, RowOK, Operation, ArithOps
<1>7. SameExpr(Arithmetic(Operation(Top.expr), Left(Top.expr), Right(Top.expr)), m_exprs[Top.expr])
  BY <1>6 DEF SameExpr, Arithmetic, Operation, Left, Right
<1>8. OpInstr.type = Operation(Top.expr) /\ OpInstr.dest = Top.dest /\ OpInstr.src = Top.src
      /\ IsArith(OpInstr)
  BY OpRunnable
<1>9. ValueComputed(r, OpInstr)
        = Interned(Arithmetic(Operation(Top.expr), Left(Top.expr), Right(Top.expr)))
  <2>1. OpInstr.type \notin {"Load", "LoadConstantInteger", "Mov"}
    BY <1>1, <1>8 DEF ArithOps
  <2>2. NULL \notin {r[OpInstr.dest], r[OpInstr.src]}
    BY <1>2, <1>5, <1>8, HandlesFacts, <1>1
  <2> QED BY <1>5, <1>8, <2>1, <2>2 DEF ValueComputed
<1> QED BY <1>1, <1>2, <1>5, <1>7, <1>9, InternedIs

\* An instruction writes its destination and nothing else.
LEMMA PushWrites ==
  ASSUME Shape, NEW ins \in Runnable, NEW first, pushInstr(ins, first)
  PROVE  /\ IsAgg(ins) => r' = r
         /\ ~IsAgg(ins) => /\ ins.dest \in Regs /\ r'[ins.dest] = ValueComputed(r, ins)
                           /\ \A i \in Regs \ {ins.dest} : r'[i] = r[i]
<1>1. r' = svm_execute(r, ins) /\ r \in [Regs -> {NULL} \cup Handles]
  BY DEF pushInstr, Shape, Types
<1>2. ~IsAgg(ins) => ins.dest \in Regs
  BY DEF Runnable
<1> QED BY <1>1, <1>2 DEF svm_execute

-----------------------------------------------------------------------------
(* The operands of the active calls survive.                                 *)

\* Calls that have no lock on register i do not hold it.
LEMMA NoLockNoHold ==
  ASSUME NEW s \in Seq(Frame), NEW i, Held(s, i) = 0, NEW n \in 1 .. Len(s)
  PROVE  s[n].dest # i /\ s[n].src # i
<1> DEFINE P == {m \in 1 .. Len(s) : s[m].dest = i}
           Q == {m \in 1 .. Len(s) : s[m].src = i}
<1>1. P \subseteq 1 .. Len(s) /\ Q \subseteq 1 .. Len(s) /\ Len(s) \in Nat
  OBVIOUS
<1>2. Held(s, i) = Cardinality(P) + Cardinality(Q)
  BY DEF Held
<1>3. (s[n].dest = i => n \in P) /\ (s[n].src = i => n \in Q)
  OBVIOUS
<1> HIDE DEF P, Q
<1>4. Cardinality(P) \in Nat /\ Cardinality(Q) \in Nat
  BY <1>1, CountIsNat
<1>5. Cardinality(P) = 0 /\ Cardinality(Q) = 0
  BY <1>2, <1>4
<1>6. IsFiniteSet(P) /\ IsFiniteSet(Q)
  <2>1. IsFiniteSet(1 .. Len(s))
    BY <1>1, FS_Interval
  <2> QED BY <1>1, <2>1, FS_Subset
<1>7. P = {} /\ Q = {}
  BY <1>5, <1>6, FS_EmptySet
<1> QED BY <1>3, <1>7

\* Writing a register that no call of s holds harms none of them.
LEMMA OverwriteSurvives ==
  ASSUME NEW s \in Seq(Frame), NEW regs, Survive(s, regs, m_exprs), NEW d, Held(s, d) = 0,
         NEW new, \A i \in Regs \ {d} : new[i] = regs[i]
  PROVE  Survive(s, new, m_exprs)
<1> SUFFICES ASSUME NEW n \in 1 .. Len(s) PROVE Keeps(s[n], new, m_exprs)
  BY DEF Survive
<1>1. s[n].dest # d /\ s[n].src # d
  BY NoLockNoHold
<1>2. s[n] \in Frame
  OBVIOUS
<1>3. s[n].dest \in Regs \cup {None} /\ s[n].src \in Regs \cup {None}
  BY <1>2 DEF Frame
<1>4. Keeps(s[n], regs, m_exprs)
  BY DEF Survive
<1> QED BY <1>1, <1>3, <1>4 DEF Keeps

\* Survive, call by call.
LEMMA SurviveAppend ==
  ASSUME NEW s \in Seq(Frame), NEW f \in Frame, NEW regs
  PROVE  Survive(Append(s, f), regs, m_exprs)
           <=> Survive(s, regs, m_exprs) /\ Keeps(f, regs, m_exprs)
<1>1. /\ Len(s) \in Nat /\ Len(Append(s, f)) = Len(s) + 1 /\ Append(s, f)[Len(s) + 1] = f
      /\ \A n \in 1 .. Len(s) : Append(s, f)[n] = s[n]
  BY AppendProperties
<1>2. \A n \in 1 .. (Len(s) + 1) : n \in 1 .. Len(s) \/ n = Len(s) + 1
  BY <1>1
<1>3. \A n \in 1 .. Len(s) : n \in 1 .. (Len(s) + 1)
  BY <1>1
<1>4. Len(s) + 1 \in 1 .. (Len(s) + 1)
  BY <1>1
<1> HIDE DEF Keeps
<1> QED BY <1>1, <1>2, <1>3, <1>4 DEF Survive

\* The stack before a step.
LEMMA SurviveCallers ==
  ASSUME Shape, stack # <<>>, NEW regs
  PROVE  /\ Survive(stack, regs, m_exprs)
              <=> Survive(Callers, regs, m_exprs) /\ Keeps(Top, regs, m_exprs)
         /\ Callers \in Seq(Frame) /\ Top \in Frame
BY CallersFacts, SurviveAppend DEF Shape, Types

\* What a call has been waiting for when the one it called returns.
LEMMA AwaitedReturn ==
  ASSUME Shape, stack # <<>>, stack' = Callers, UNCHANGED <<m_exprs, m_aggs, next_agg>>
  PROVE  Awaited' = Top.expr
<1>1. /\ stack' \in Seq(Frame) /\ Len(stack') = Len(stack) - 1 /\ Len(stack) \in Nat \ {0}
      /\ \A n \in 1 .. Len(stack') : stack'[n] = stack[n]
  BY ReturnFacts, CallersFacts DEF Shape, Types
<1>2. CASE stack' = <<>>
  <2>1. Len(stack) = 1
    BY <1>1, <1>2
  <2>2. Awaited' = m_aggs[next_agg].expr
    BY <1>2 DEF Awaited
  <2> QED BY <2>1, <2>2 DEF Shape, Calls, Top
<1>3. CASE stack' # <<>>
  <2>1. Len(stack') \in Nat \ {0} /\ Len(stack') + 1 = Len(stack)
    BY <1>1, <1>3, EmptySeq
  <2>2. Top' = stack[Len(stack) - 1] /\ Len(stack) - 1 \in 1 .. (Len(stack) - 1)
    BY <1>1, <2>1 DEF Top
  <2>3. stack[Len(stack) - 1 + 1].expr = OperandOf(stack[Len(stack) - 1], m_exprs)
    BY <2>2 DEF Shape, Calls, StackFits
  <2>4. Len(stack) - 1 + 1 = Len(stack)
    BY <1>1
  <2>5. Awaited' = OperandOf(stack[Len(stack) - 1], m_exprs)
    BY <1>3, <2>2 DEF Awaited
  <2> QED BY <2>3, <2>4, <2>5 DEF Top
<1> QED BY <1>2, <1>3

\* A register without locks is in no call's hands.
LEMMA UnlockedIsFree ==
  ASSUME Shape, Locks, stack # <<>>, result # Failed, NEW d \in Regs, m_locked[d] = 0
  PROVE  Held(stack, d) = 0 /\ Held(Callers, d) = 0 /\ Unlocks(Top, d) = 0
<1>1. m_locked[d] = Held(stack, d)
  BY TopFacts DEF Locks, LocksAreFrames
<1>2. Held(stack, d) = Held(Callers, d) + Unlocks(Top, d) /\ Held(Callers, d) \in Nat
  BY HeldOfTop
<1>3. Unlocks(Top, d) \in Nat
  BY DEF Unlocks
<1> QED BY <1>1, <1>2, <1>3

\* The destination of the operation on top belongs to that call alone.
LEMMA OwnDestinationIsFree ==
  ASSUME Shape, Locks, stack # <<>>, Top.pc = "emit", m_locked[Top.dest] = OwnLocks(Top)
  PROVE  Held(Callers, Top.dest) = 0
<1>1. Top.dest \in Regs /\ Top.src \in Regs /\ result = None
  BY BothOperands
<1>2. m_locked[Top.dest] = Held(stack, Top.dest)
  BY <1>1, TopFacts, RegsFacts DEF Locks, LocksAreFrames
<1>3. Held(stack, Top.dest) = Held(Callers, Top.dest) + Unlocks(Top, Top.dest)
      /\ Held(Callers, Top.dest) \in Nat
  BY <1>1, HeldOfTop
<1>4. Unlocks(Top, Top.dest) = OwnLocks(Top) /\ OwnLocks(Top) \in Nat
  BY DEF Unlocks, OwnLocks
<1> QED BY <1>2, <1>3, <1>4

\* The first register of a set of registers is one of them.
LEMMA FirstOf ==
  ASSUME NEW S, S \subseteq Regs, S # {}
  PROVE  First(S) \in S
<1>1. S \subseteq Nat
  BY RegsFacts
<1> QED BY <1>1, FirstIsMember

\* The instructions each step of compile() pushes write a register that no
\* call but the one on top holds.
LEMMA NextKeepsValues == Shape /\ Shape' /\ Locks /\ Tables /\ Values /\ [CompNext]_vars => Values'
<1> SUFFICES ASSUME Shape, Shape', Locks, Tables, Values, [CompNext]_vars PROVE Values'
  OBVIOUS
<1> USE DEF At, Return, Idle, NoPush
<1>0. /\ Survive(stack, r, m_exprs) /\ NoTwins
      /\ m_status = "COMPILING" /\ result \in Regs => r[result] = Awaited
      /\ m_status = "COMPILING" /\ stack # <<>> /\ Top.pc = "emit"
           => m_locked[Top.dest] = OwnLocks(Top)
      /\ m_status = "COMPILING" => Known(r, has_been_compiled)
  BY DEF Values, Tables
\* A call returns, after a push or without one.
<1>R. ASSUME stack # <<>>, stack' = Callers, UNCHANGED <<m_exprs, m_aggs, next_agg>>,
             Survive(Callers, r', m_exprs), result' # None, result' \in Regs
                 => r'[result'] = Top.expr,
             Known(r', has_been_compiled')
      PROVE  Values'
  <2>1. Survive(stack', r', m_exprs')
    BY <1>R
  <2>2. Awaited' = Top.expr
    BY <1>R, AwaitedReturn
  <2>3. ~(stack' # <<>> /\ Top'.pc = "emit")
    BY <1>R DEF Shape, Calls
  <2> QED BY <1>R, <2>1, <2>2, <2>3 DEF Values
\* A call goes on, after a push or without one.
<1>P. ASSUME stack # <<>>, NEW f \in Frame, Replace(f), UNCHANGED m_exprs,
             Survive(Callers, r', m_exprs), Keeps(f, r', m_exprs), result' = None,
             f.pc = "emit" => m_locked'[f.dest] = OwnLocks(f),
             Known(r', has_been_compiled')
      PROVE  Values'
  <2>1. stack' = Append(Callers, f) /\ Callers \in Seq(Frame)
    BY <1>P, SurviveCallers DEF Replace
  <2>2. Survive(stack', r', m_exprs')
    BY <1>P, <2>1, SurviveAppend
  <2>3. Top' = f
    BY <2>1, AppendProperties DEF Top
  <2>4. result' \notin Regs
    BY <1>P, RegsFacts
  <2> QED BY <1>P, <2>2, <2>3, <2>4 DEF Values
\* A call calls another; nothing is pushed.
<1>E. ASSUME stack # <<>>, NEW f \in Frame, NEW e \in Handles, Enter(f, e),
             UNCHANGED <<m_exprs, r>>,
             Survive(Callers, r, m_exprs), Keeps(f, r, m_exprs), result' = None,
             Known(r, has_been_compiled')
      PROVE  Values'
  <2> DEFINE s == Append(Callers, f)
  <2>0. Call(e) \in Frame /\ Call(e).dest = None /\ Call(e).src = None /\ Call(e).pc = "enter"
    BY DEF Call, Frame
  <2>1. stack' = Append(s, Call(e)) /\ Callers \in Seq(Frame)
    BY <1>E, SurviveCallers DEF Enter
  <2>2. s \in Seq(Frame)
    BY <2>1, AppendProperties
  <2>3. Survive(s, r, m_exprs)
    BY <1>E, <2>1, SurviveAppend
  <2> HIDE DEF s
  <2>4. Keeps(Call(e), r, m_exprs)
    BY <2>0 DEF Keeps
  <2>5. Survive(stack', r', m_exprs')
    BY <1>E, <2>0, <2>1, <2>2, <2>3, <2>4, SurviveAppend
  <2>6. Top' = Call(e)
    BY <2>0, <2>1, <2>2, AppendProperties DEF Top
  <2>7. result' \notin Regs
    BY <1>E, RegsFacts
  <2> QED BY <1>E, <2>0, <2>5, <2>6, <2>7 DEF Values
<1>1. ASSUME ReuseRegister PROVE Values'
  <2>1. stack # <<>> /\ m_status = "COMPILING" /\ stack' = Callers
        /\ result' = First(Holding(Top.expr))
        /\ Holding(Top.expr) # {} /\ UNCHANGED <<m_exprs, m_aggs, next_agg>>
             /\ UNCHANGED <<r, has_been_compiled>>
    BY <1>1 DEF ReuseRegister, exprVars
  <2>2. result' \in Holding(Top.expr)
    BY <2>1, FirstOf DEF Holding
  <2>3. result' \in Regs /\ r[result'] = Top.expr
    BY <2>2 DEF Holding
  <2>4. Survive(Callers, r', m_exprs)
    BY <1>0, <2>1, SurviveCallers
  <2> QED BY <1>0, <1>R, <2>1, <2>3, <2>4, RegsFacts
<1>2. ASSUME CompileLeaf PROVE Values'
  <2>1. stack # <<>> /\ m_status = "COMPILING" /\ stack' = Callers
        /\ UNCHANGED <<m_exprs, m_aggs, next_agg>>
        /\ Operation(Top.expr) \in {"Load", "LoadConstantInt"} /\ result = None
        /\ has_been_compiled' = has_been_compiled \cup {Top.expr}
    BY <1>2, StageFacts DEF CompileLeaf, exprVars
  <2>2. CASE CanSeizeAny
    <3>1. pushInstr(LeafInstr, Top.expr \notin has_been_compiled) /\ result' = Cheapest
      BY <1>2, <2>2 DEF CompileLeaf, LeafInstr
    <3>2. LeafInstr \in Runnable /\ Cheapest \in Regs /\ IsLoad(LeafInstr)
          /\ LeafInstr.dest = Cheapest
      BY <1>2, <2>2, LeafRunnable DEF LeafInstr, Instr
    <3>3. ~IsAgg(LeafInstr)
      BY <3>2 DEF IsLoad, IsAgg, AggFunctions
    <3>4. r'[Cheapest] = Top.expr /\ \A i \in Regs \ {Cheapest} : r'[i] = r[i]
      BY <1>0, <2>1, <3>1, <3>2, <3>3, PushWrites, LeafComputes
    <3>5. m_locked[Cheapest] = 0
      BY <2>2, CheapestFacts DEF CanSeizeAny, Shape
    <3>6. Held(Callers, Cheapest) = 0
      BY <2>1, <3>2, <3>5, UnlockedIsFree, RegsFacts
    <3>7. Survive(Callers, r', m_exprs)
      BY <1>0, <2>1, <3>4, <3>6, SurviveCallers, OverwriteSurvives
    <3>8. Known(r', has_been_compiled')
      BY <1>0, <2>1, <3>4 DEF Known
    <3> QED BY <1>R, <2>1, <3>1, <3>2, <3>4, <3>7, <3>8, RegsFacts
  <2>3. CASE ~CanSeizeAny
    <3>1. r' = r /\ result' = Failed
      BY <1>2, <2>3 DEF CompileLeaf
    <3>2. Survive(Callers, r', m_exprs)
      BY <1>0, <2>1, <3>1, SurviveCallers
    <3>3. Known(r', has_been_compiled')
      BY <1>0, <2>1, <3>1 DEF Known
    <3> QED BY <1>R, <2>1, <3>1, <3>2, <3>3, RegsFacts
  <2> QED BY <2>2, <2>3
<1>3. ASSUME CompileFirstOperand PROVE Values'
  <2> DEFINE f == [Top EXCEPT !.first = Top.expr \notin has_been_compiled, !.pc = "first"]
             e == IF LeftFirst(Top.expr) THEN Left(Top.expr) ELSE Right(Top.expr)
  <2>1. stack # <<>> /\ m_status = "COMPILING" /\ Enter(f, e) /\ result' = None
        /\ UNCHANGED <<m_exprs, r>> /\ has_been_compiled' = has_been_compiled \cup {Top.expr}
        /\ Operation(Top.expr) \in ArithOps /\ Top.dest = None /\ Top.src = None
    BY <1>3, StageFacts DEF CompileFirstOperand, exprVars
  <2>2. f \in Frame /\ f.dest = None /\ f.src = None
    BY TopFacts, <2>1 DEF Frame
  <2>3. e \in Handles
    BY <2>1, TopFacts, OperandFacts DEF Shape, Types
  <2>4. Survive(Callers, r, m_exprs)
    BY <1>0, <2>1, SurviveCallers
  <2> HIDE DEF f, e
  <2>5. Keeps(f, r, m_exprs)
    BY <2>2 DEF Keeps
  <2>6. Known(r, has_been_compiled')
    BY <1>0, <2>1 DEF Known
  <2> QED BY <1>E, <2>1, <2>2, <2>3, <2>4, <2>5, <2>6
\* The register of the first operand holds what the call waited for.
<1>A. ASSUME stack # <<>>, result \in Regs, m_status = "COMPILING", Top.pc \in {"first", "second"}
      PROVE  r[result] = IF (Top.pc = "first") = LeftFirst(Top.expr) THEN Left(Top.expr)
               ELSE Right(Top.expr)
  BY <1>0, <1>A DEF Awaited, OperandOf, Left, Right, LeftFirst
<1>4. ASSUME LockSameOperand PROVE Values'
  <2> DEFINE f == [Top EXCEPT !.dest = result, !.src = result, !.pc = "save"]
  <2>1. stack # <<>> /\ result \in Regs /\ m_status = "COMPILING" /\ Replace(f) /\ result' = None
        /\ UNCHANGED <<m_exprs, r, has_been_compiled>> /\ Left(Top.expr) = Right(Top.expr)
             /\ Top.pc = "first"
    BY <1>4 DEF LockSameOperand, exprVars
  <2>2. f \in Frame /\ f.dest = result /\ f.src = result /\ f.pc = "save" /\ f.expr = Top.expr
    BY TopFacts, <2>1 DEF Frame
  <2>4. Survive(Callers, r', m_exprs)
    BY <1>0, <2>1, SurviveCallers
  <2> HIDE DEF f
  <2>5. Keeps(f, r', m_exprs)
    BY <1>A, <2>1, <2>2 DEF Keeps, Left, Right
  <2> QED BY <1>0, <1>P, <2>1, <2>2, <2>4, <2>5
<1>5. ASSUME LockFirstOperand PROVE Values'
  <2> DEFINE f == IF LeftFirst(Top.expr) THEN [Top EXCEPT !.dest = result, !.pc = "second"]
                                         ELSE [Top EXCEPT !.src = result, !.pc = "second"]
             e == IF LeftFirst(Top.expr) THEN Right(Top.expr) ELSE Left(Top.expr)
  <2>1. stack # <<>> /\ result \in Regs /\ m_status = "COMPILING" /\ Enter(f, e) /\ result' = None
        /\ UNCHANGED <<m_exprs, r, has_been_compiled>> /\ Top.pc = "first"
        /\ Operation(Top.expr) \in ArithOps /\ Top.dest = None /\ Top.src = None
    BY <1>5, StageFacts DEF LockFirstOperand, exprVars
  <2>2. f \in Frame /\ f.expr = Top.expr
        /\ f.dest = (IF LeftFirst(Top.expr) THEN result ELSE None)
        /\ f.src = (IF LeftFirst(Top.expr) THEN None ELSE result)
    BY TopFacts, <2>1 DEF Frame
  <2>3. e \in Handles /\ LeftFirst(Top.expr) \in BOOLEAN
    BY <2>1, TopFacts, OperandFacts DEF Shape, Types
  <2>4. Survive(Callers, r, m_exprs)
    BY <1>0, <2>1, SurviveCallers
  <2> HIDE DEF f, e
  <2>5. Keeps(f, r, m_exprs)
    <3>1. r[result] = IF LeftFirst(Top.expr) THEN Left(Top.expr) ELSE Right(Top.expr)
      BY <1>A, <2>1, <2>3
    <3> QED BY <2>2, <3>1, RegsFacts DEF Keeps, Left, Right
  <2> QED BY <1>0, <1>E, <2>1, <2>2, <2>3, <2>4, <2>5
<1>6. ASSUME LockSecondOperand PROVE Values'
  <2> DEFINE f == IF LeftFirst(Top.expr) THEN [Top EXCEPT !.src = result, !.pc = "save"]
                                         ELSE [Top EXCEPT !.dest = result, !.pc = "save"]
  <2>1. stack # <<>> /\ result \in Regs /\ m_status = "COMPILING" /\ Replace(f) /\ result' = None
        /\ UNCHANGED <<m_exprs, r, has_been_compiled>> /\ Top.pc = "second"
    BY <1>6 DEF LockSecondOperand, exprVars
  <2>2. f \in Frame /\ f.expr = Top.expr /\ f.pc = "save"
        /\ f.dest = (IF LeftFirst(Top.expr) THEN Top.dest ELSE result)
        /\ f.src = (IF LeftFirst(Top.expr) THEN result ELSE Top.src)
    BY TopFacts, <2>1 DEF Frame
  <2>3. LeftFirst(Top.expr) \in BOOLEAN
    BY <2>1, TopFacts, OperandFacts DEF Shape, Types
  <2>4. Survive(Callers, r', m_exprs) /\ Keeps(Top, r, m_exprs)
    BY <1>0, <2>1, SurviveCallers
  <2> HIDE DEF f
  <2>5. Keeps(f, r', m_exprs)
    <3>1. r[result] = IF LeftFirst(Top.expr) THEN Right(Top.expr) ELSE Left(Top.expr)
      BY <1>A, <2>1, <2>3
    <3> QED BY <2>1, <2>2, <2>4, <3>1 DEF Keeps, Left, Right
  <2> QED BY <1>0, <1>P, <2>1, <2>2, <2>4, <2>5
<1>7. ASSUME SaveLeft PROVE Values'
  <2> DEFINE f == [Top EXCEPT !.pc = "dest"]
             mov == Instr("Mov", Cheapest, Top.dest)
  <2>1. stack # <<>> /\ result = None /\ m_status = "COMPILING" /\ Replace(f) /\ result' = None
        /\ UNCHANGED <<m_exprs, has_been_compiled>> /\ Top.pc = "save"
    BY <1>7, StageFacts DEF SaveLeft, exprVars
  <2>2. f \in Frame /\ f.dest = Top.dest /\ f.src = Top.src /\ f.pc = "dest" /\ f.expr = Top.expr
    BY TopFacts, <2>1 DEF Frame
  <2>3. Keeps(f, r, m_exprs) <=> Keeps(Top, r, m_exprs)
    BY <2>2 DEF Keeps
  <2>4. CASE UNCHANGED <<m_program, r, program_usage>>
    <3>1. Survive(Callers, r', m_exprs) /\ Keeps(f, r', m_exprs)
      BY <1>0, <2>1, <2>3, <2>4, SurviveCallers
    <3> HIDE DEF f
    <3> QED BY <1>0, <1>P, <2>1, <2>2, <2>4, <3>1
  <2>5. CASE Unlocked # {} /\ pushInstr(mov, Top.first)
    <3>1. Cheapest \in Regs /\ m_locked[Cheapest] = 0
      BY <2>5, CheapestFacts DEF Shape
    <3>2. Top.dest \in Regs /\ mov \in Runnable /\ ~IsAgg(mov) /\ mov.dest = Cheapest
          /\ ValueComputed(r, mov) = r[Top.dest]
      BY <2>1, <3>1, BothOperands, MovRunnable, MovComputes
    <3> HIDE DEF mov
    <3>3. r'[Cheapest] = r[Top.dest] /\ \A i \in Regs \ {Cheapest} : r'[i] = r[i]
      BY <2>5, <3>2, PushWrites
    <3>4. Held(stack, Cheapest) = 0 /\ stack \in Seq(Frame)
      BY <2>1, <3>1, UnlockedIsFree, RegsFacts DEF Shape, Types
    <3>5. Survive(stack, r', m_exprs)
      BY <1>0, <3>3, <3>4, OverwriteSurvives
    <3>6. Survive(Callers, r', m_exprs) /\ Keeps(Top, r', m_exprs)
      BY <2>1, <3>5, SurviveCallers
    <3>7. Keeps(f, r', m_exprs)
      BY <2>2, <3>6 DEF Keeps
    <3>8. Known(r', has_been_compiled')
      BY <1>0, <2>1, <3>2, <3>3 DEF Known
    <3> HIDE DEF f
    <3> QED BY <1>P, <2>1, <2>2, <3>6, <3>7, <3>8
  <2> HIDE DEF f
  <2> QED BY <1>7, <2>4, <2>5 DEF SaveLeft, CanSeize
<1>8. ASSUME ChooseDestination PROVE Values'
  <2> DEFINE mov == Instr("Mov", Cheapest, Top.dest)
  <2>0. stack # <<>> /\ result = None /\ m_status = "COMPILING" /\ Top.pc = "dest"
        /\ UNCHANGED <<m_exprs, m_aggs, has_been_compiled, next_agg>>
    BY <1>8, StageFacts DEF ChooseDestination, exprVars
  <2>1. Top.dest \in Regs /\ Top.src \in Regs
    BY <2>0, BothOperands
  <2>2. Survive(Callers, r, m_exprs) /\ Keeps(Top, r, m_exprs) /\ Callers \in Seq(Frame)
    BY <1>0, <2>0, SurviveCallers
  <2>3. \A i \in Regs : m_locked[i] = Held(Callers, i) + Unlocks(Top, i) /\ Held(Callers, i) \in Nat
    BY <2>0, HeldOfTop, RegsFacts DEF Locks, LocksAreFrames
  <2>4. ASSUME ~DestinationShared, Replace([Top EXCEPT !.pc = "emit"]), r' = r,
               m_locked' = m_locked, result' = result
        PROVE  Values'
    <3> DEFINE f == [Top EXCEPT !.pc = "emit"]
    <3>1. Replace(f)
      BY <2>4
    <3>2. f \in Frame /\ f.dest = Top.dest /\ f.src = Top.src /\ f.expr = Top.expr
      BY TopFacts, <2>0 DEF Frame
    <3> HIDE DEF f
    <3>3. Keeps(f, r', m_exprs)
      BY <2>2, <2>4, <3>2 DEF Keeps
    <3>4. m_locked[Top.dest] = OwnLocks(Top)
      <4>1. Unlocks(Top, Top.dest) = OwnLocks(Top) /\ OwnLocks(Top) \in Nat
        BY DEF Unlocks, OwnLocks
      <4>2. ~(m_locked[Top.dest] > OwnLocks(Top))
        BY <2>4 DEF DestinationShared
      <4> QED BY <2>1, <2>3, <4>1, <4>2
    <3>5. m_locked'[f.dest] = OwnLocks(f)
      BY <2>4, <3>2, <3>4 DEF OwnLocks
    <3> QED BY <1>0, <1>P, <2>0, <2>2, <2>4, <3>1, <3>2, <3>3, <3>5
  <2>5. ASSUME NEW d \in Regs, MoveDestination(d), m_locked[d] = 0, DestinationShared,
               r'[d] = Left(Top.expr), \A i \in Regs \ {d} : r'[i] = r[i],
               Known(r', has_been_compiled')
        PROVE  Values'
    <3> DEFINE f == [Top EXCEPT !.dest = d, !.pc = "emit"]
    <3>1. Replace(f) /\ m_locked' = [m_locked EXCEPT ![d] = @ + 1, ![Top.dest] = @ - 1]
          /\ result' = result
      BY <2>5 DEF MoveDestination
    <3>2. f \in Frame /\ f.dest = d /\ f.src = Top.src /\ f.expr = Top.expr
      BY TopFacts, <2>0, <2>5 DEF Frame
    <3> HIDE DEF f
    <3>3. Held(Callers, d) = 0 /\ Unlocks(Top, d) = 0
      BY <2>0, <2>5, UnlockedIsFree, RegsFacts
    <3>4. d # Top.dest /\ d # Top.src
      BY <3>3 DEF Unlocks
    <3>5. Survive(Callers, r', m_exprs)
      BY <2>2, <2>5, <3>3, OverwriteSurvives
    <3>6. Keeps(f, r', m_exprs)
      BY <2>1, <2>2, <2>5, <3>2, <3>4 DEF Keeps, Left
    <3>7. m_locked'[f.dest] = OwnLocks(f)
      <4>1. m_locked'[d] = 1
        BY <2>5, <3>1, <3>4 DEF Locks
      <4> QED BY <3>2, <3>4, <4>1 DEF OwnLocks
    <3> QED BY <1>P, <2>0, <2>5, <3>1, <3>2, <3>5, <3>6, <3>7
  <2>6. Top.dest # None /\ r[Top.dest] = Left(Top.expr)
    BY <2>1, <2>2, RegsFacts DEF Keeps, Left
  <2>7. ASSUME DestinationShared, FreeCopies # {}, MoveDestination(First(FreeCopies)), r' = r
        PROVE  Values'
    <3>1. First(FreeCopies) \in FreeCopies
      BY <2>7, FirstOf DEF FreeCopies, Holding
    <3>2. First(FreeCopies) \in Regs /\ m_locked[First(FreeCopies)] = 0
          /\ r[First(FreeCopies)] = Left(Top.expr)
      BY <3>1 DEF FreeCopies, Unlocked, Holding
    <3> QED BY <1>0, <2>0, <2>5, <2>7, <3>2
  <2>8. ASSUME DestinationShared, CanSeizeAny, MoveDestination(Cheapest),
               pushInstr(mov, Top.first) PROVE Values'
    <3>1. Cheapest \in Regs /\ m_locked[Cheapest] = 0
      BY <2>8, CheapestFacts DEF Shape, CanSeizeAny
    <3>2. mov \in Runnable /\ ~IsAgg(mov) /\ mov.dest = Cheapest
          /\ ValueComputed(r, mov) = r[Top.dest]
      BY <2>1, <3>1, MovRunnable, MovComputes
    <3> HIDE DEF mov
    <3>3. r'[Cheapest] = r[Top.dest] /\ \A i \in Regs \ {Cheapest} : r'[i] = r[i]
      BY <2>8, <3>2, PushWrites
    <3>4. Known(r', has_been_compiled')
      BY <1>0, <2>0, <2>1, <3>3 DEF Known
    <3> QED BY <2>5, <2>6, <2>8, <3>1, <3>3, <3>4
  <2>9. ASSUME stack' = Callers, result' = Failed, r' = r PROVE Values'
    BY <1>0, <1>R, <2>0, <2>2, <2>9, RegsFacts
  <2> QED BY <1>8, <2>4, <2>7, <2>8, <2>9 DEF ChooseDestination
<1>9. ASSUME Emit PROVE Values'
  <2>1. stack # <<>> /\ m_status = "COMPILING" /\ stack' = Callers
        /\ UNCHANGED <<m_exprs, m_aggs, next_agg>>
        /\ Top.pc = "emit" /\ pushInstr(OpInstr, Top.first) /\ result' = Top.dest
             /\ has_been_compiled' = has_been_compiled
    BY <1>9 DEF Emit, exprVars, OpInstr
  <2>2. OpInstr \in Runnable /\ ~IsAgg(OpInstr) /\ OpInstr.dest = Top.dest
        /\ ValueComputed(r, OpInstr) = Top.expr
    BY <1>0, <2>1, OpRunnable, OpComputes
  <2>3. Top.dest \in Regs /\ Top.expr \in has_been_compiled
    BY <2>1, BothOperands
  <2>4. r'[Top.dest] = Top.expr /\ \A i \in Regs \ {Top.dest} : r'[i] = r[i]
    BY <2>1, <2>2, PushWrites
  <2>5. Held(Callers, Top.dest) = 0
    BY <1>0, <2>1, OwnDestinationIsFree
  <2>6. Survive(Callers, r', m_exprs)
    BY <1>0, <2>1, <2>4, <2>5, SurviveCallers, OverwriteSurvives
  <2>7. Known(r', has_been_compiled')
    BY <1>0, <2>1, <2>3, <2>4 DEF Known
  <2> QED BY <1>R, <2>1, <2>3, <2>4, <2>6, <2>7, RegsFacts
<1>10. ASSUME ReturnFailure PROVE Values'
  <2>1. stack # <<>> /\ m_status = "COMPILING" /\ stack' = Callers
        /\ UNCHANGED <<m_exprs, m_aggs, next_agg>>
        /\ result' = Failed /\ UNCHANGED <<r, has_been_compiled>>
    BY <1>10 DEF ReturnFailure, exprVars
  <2>2. Survive(Callers, r, m_exprs)
    BY <1>0, <2>1, SurviveCallers
  <2> QED BY <1>0, <1>R, <2>1, <2>2, RegsFacts
<1>11. ASSUME CompileAggregate PROVE Values'
  <2> DEFINE c == Call(m_aggs[next_agg].expr)
  <2>1. m_status = "COMPILING" /\ result' = None /\ stack' = <<c>>
        /\ UNCHANGED <<r, has_been_compiled>>
    BY <1>11 DEF CompileAggregate
  <2>2. c.dest = None /\ c.src = None /\ c.pc = "enter"
    BY DEF Call
  <2> HIDE DEF c
  <2>3. Len(stack') = 1 /\ stack'[1] = c /\ Top' = c
    BY <2>1 DEF Top
  <2>4. Survive(stack', r', m_exprs')
    <3>1. Keeps(c, r', m_exprs')
      BY <2>2 DEF Keeps
    <3> QED BY <2>3, <3>1 DEF Survive
  <2> QED BY <1>0, <2>1, <2>2, <2>3, <2>4, RegsFacts DEF Values
<1>12. ASSUME PushAggregate PROVE Values'
  <2>1. stack = <<>> /\ stack' = <<>> /\ m_status = "COMPILING" /\ result \in Regs /\ result' = None
        /\ pushInstr(AggInstr, TRUE) /\ has_been_compiled' = has_been_compiled
    BY <1>12 DEF PushAggregate, AggInstr
  <2>2. r' = r
    BY <2>1, AggRunnable, PushWrites
  <2> QED BY <1>0, <2>1, <2>2, RegsFacts DEF Values, Survive
<1>Q. ASSUME stack' = <<>>, m_status' # "COMPILING" PROVE Values'
  BY <1>Q DEF Values, Survive
<1>13. ASSUME FailCompile \/ FinishCompile PROVE Values'
  BY <1>13, <1>Q DEF FailCompile, FinishCompile, AllCompiled, compVars
<1>15. ASSUME BeginCompile PROVE Values'
  <2>1. stack' = <<>> /\ r' = EmptyRegisters /\ result' = None
    BY <1>15 DEF BeginCompile, Programming, Shape, Phases, Untouched
  <2> QED BY <2>1, RegsFacts DEF Values, Survive, Known, EmptyRegisters
<1>16. ASSUME Program PROVE Values'
  <2>1. m_status' # "COMPILING" /\ stack' = <<>>
    BY <1>16, ProgramSteps DEF Shape, Phases
  <2> QED BY <1>Q, <2>1
<1>17. ASSUME UNCHANGED vars PROVE Values'
  BY <1>17 DEF Values, vars, exprVars, compVars, Awaited, Top, Known
<1> QED
  BY <1>1, <1>2, <1>3, <1>4, <1>5, <1>6, <1>7, <1>8, <1>9, <1>10, <1>11, <1>12, <1>13, <1>15,
     <1>16, <1>17
  DEF CompNext, CompileStep

\* The registers always hold what the calls rely on.
LEMMA ValuesInvariant == CompSpec => []Values
<1>1. CompInit => Values
  <2> SUFFICES ASSUME CompInit PROVE Values
    OBVIOUS
  <2>1. stack = <<>> /\ m_status = "PROGRAMMING" /\ Len(stack) = 0
    BY DEF CompInit, Init
  <2> QED BY <2>1 DEF Values, Survive, At
<1>2. Shape /\ Shape' /\ Locks /\ Tables /\ Values /\ [CompNext]_vars => Values'
  BY NextKeepsValues
<1> QED
  BY <1>1, <1>2, ShapeInvariant, LocksInvariant, TablesInvariant, PTL DEF CompSpec

\* No instruction pushed while a call is active overwrites an operand it holds.
THEOREM OperandsAlwaysSurvive == CompSpec => []OperandsSurvive
<1>1. Shape /\ Values => OperandsSurvive
  <2> SUFFICES ASSUME Shape, Values, NEW n \in 1 .. Len(stack)
               PROVE  /\ stack[n].dest # None => r[stack[n].dest] = Left(stack[n].expr)
                      /\ stack[n].src # None => r[stack[n].src] = Right(stack[n].expr)
                      /\ n < Len(stack) => stack[n].pc \in {"first", "second"}
    BY DEF OperandsSurvive
  <2>1. Keeps(stack[n], r, m_exprs)
    BY DEF Values, Survive
  <2>2. n < Len(stack) => n \in 1 .. (Len(stack) - 1)
    BY DEF Shape, Types
  <2> QED BY <2>1, <2>2 DEF Keeps, Left, Right, Shape, Calls, StackFits
<1> QED
  BY <1>1, ShapeInvariant, ValuesInvariant, PTL

-----------------------------------------------------------------------------
(* Uses and registers.                                                       *)

\* The expressions whose first compilation is under way, and those whose
\* operands have been counted.
PendingOf(s) == {s[n].expr : n \in {m \in 1 .. Len(s) : s[m].first}}

\* The expressions compiled once, whose operands have been counted.
DoneOf(s, compiled) == compiled \ PendingOf(s)

\* Those of the compiler.
Done == DoneOf(stack, has_been_compiled)

\* The uses of k by the expressions of D and the first n aggregates.
UsesOf(exprs, aggs, D, n, k) ==
  Cardinality({e \in D : exprs[e].left = k})
  + Cardinality({e \in D : exprs[e].right = k})
  + Cardinality({i \in 1 .. n : aggs[i].expr = k})

\* program_usage counts the uses that Done and the finished aggregates make.
UsesCounted ==
  m_status = "COMPILING" /\ result # Failed =>
    \A k \in Handles : program_usage[k] = UsesOf(m_exprs, m_aggs, Done, next_agg - 1, k)

\* The operands of the expressions in D, and the first n aggregates, are
\* among the compiled ones.
Closed(exprs, aggs, D, n, compiled) ==
  /\ \A e \in D : exprs[e].op \in ArithOps =>
       exprs[e].left \in compiled /\ exprs[e].right \in compiled
  /\ \A i \in 1 .. n : aggs[i].expr \in compiled

\* The operands of what is done are compiled too.
OperandsCompiled ==
  m_status = "COMPILING" /\ result # Failed =>
    Closed(m_exprs, m_aggs, Done, next_agg - 1, has_been_compiled)

\* Every active call was made for an operand of the one below it.
LEMMA StackDescends ==
  ASSUME Shape, NEW n \in 1 .. Len(stack), NEW m \in 1 .. (n - 1)
  PROVE  stack[n].expr < stack[m].expr
<1> DEFINE Bad == {k \in 1 .. Len(stack) : \E j \in 1 .. (k - 1) : ~(stack[k].expr < stack[j].expr)}
<1>0. /\ TypeOK /\ stack \in Seq(Frame) /\ Len(stack) \in Nat
      /\ \A k \in 1 .. Len(stack) : stack[k].expr \in Handles /\ stack[k].expr \in Nat
  <2>1. TypeOK /\ stack \in Seq(Frame) /\ Len(stack) \in Nat
    BY DEF Shape, Types
  <2>2. \A k \in 1 .. Len(stack) : stack[k] \in Frame
    BY <2>1
  <2>3. \A k \in 1 .. Len(stack) : stack[k].expr \in Handles
    BY <2>2 DEF Frame
  <2> QED BY <2>1, <2>3, HandlesFacts
<1>1. \A k \in 1 .. (Len(stack) - 1) : stack[k + 1].expr < stack[k].expr
  <2> SUFFICES ASSUME NEW k \in 1 .. (Len(stack) - 1) PROVE stack[k + 1].expr < stack[k].expr
    OBVIOUS
  <2>1. k \in 1 .. Len(stack) /\ stack[k].expr \in Handles
    BY <1>0
  <2>2. /\ stack[k].pc \in {"first", "second"}
        /\ stack[k + 1].expr = OperandOf(stack[k], m_exprs)
        /\ CallFits(stack[k], m_exprs, has_been_compiled)
    BY <2>1 DEF Shape, Calls, StackFits
  <2>3. Operation(stack[k].expr) \in ArithOps
    BY <2>2 DEF CallFits, Operation
  <2>4. Left(stack[k].expr) < stack[k].expr /\ Right(stack[k].expr) < stack[k].expr
    BY <1>0, <2>1, <2>3, OperandFacts
  <2> QED BY <2>2, <2>4 DEF OperandOf, Left, Right
<1>2. Bad = {}
  <2> SUFFICES ASSUME Bad # {} PROVE FALSE
    OBVIOUS
  <2>1. Bad \subseteq Nat
    OBVIOUS
  <2>2. PICK k \in Bad : \A j \in Bad : k <= j
    <3> HIDE DEF Bad
    <3> QED BY <2>1, LeastNat
  <2>3. PICK j \in 1 .. (k - 1) : ~(stack[k].expr < stack[j].expr)
    BY <2>2
  <2>4. k \in 1 .. Len(stack) /\ k - 1 \in 1 .. (Len(stack) - 1) /\ k - 1 + 1 = k
        /\ j \in 1 .. Len(stack) /\ k - 1 \in 1 .. Len(stack)
    BY <1>0, <2>2, <2>3
  <2>5. stack[k].expr < stack[k - 1].expr
    BY <1>1, <2>4
  <2>6. j # k - 1
    BY <2>3, <2>5
  <2>7. j \in 1 .. (k - 1 - 1)
    BY <2>3, <2>4, <2>6
  <2>8. k - 1 \notin Bad
    <3>1. ~(k <= k - 1)
      BY <2>4
    <3> HIDE DEF Bad
    <3> QED BY <2>2, <3>1
  <2>9. stack[k - 1].expr < stack[j].expr
    BY <2>4, <2>7, <2>8
  <2>10. \A a, b, c \in Nat : a < b /\ b < c => a < c
    OBVIOUS
  <2>11. {stack[k].expr, stack[k - 1].expr, stack[j].expr} \subseteq Nat
    BY <1>0, <2>4
  <2>12. stack[k].expr < stack[j].expr
    BY <2>5, <2>9, <2>10, <2>11
  <2> QED BY <2>3, <2>12
<1> QED BY <1>2

\* PendingOf, call by call.
LEMMA PendingAppend ==
  ASSUME NEW s \in Seq(Frame), NEW f \in Frame
  PROVE  PendingOf(Append(s, f)) = PendingOf(s) \cup (IF f.first THEN {f.expr} ELSE {})
<1>1. /\ Len(s) \in Nat /\ Len(Append(s, f)) = Len(s) + 1 /\ Append(s, f)[Len(s) + 1] = f
      /\ \A n \in 1 .. Len(s) : Append(s, f)[n] = s[n]
  BY AppendProperties
<1>2. \A n \in 1 .. (Len(s) + 1) : n \in 1 .. Len(s) \/ n = Len(s) + 1
  BY <1>1
<1>3. \A n \in 1 .. Len(s) : n \in 1 .. (Len(s) + 1)
  BY <1>1
<1>4. Len(s) + 1 \in 1 .. (Len(s) + 1)
  BY <1>1
<1>5. ASSUME NEW x
      PROVE  x \in PendingOf(Append(s, f))
               <=> \E n \in 1 .. (Len(s) + 1) : Append(s, f)[n].first /\ Append(s, f)[n].expr = x
  BY <1>1 DEF PendingOf
<1>6. ASSUME NEW x PROVE x \in PendingOf(s) <=> \E n \in 1 .. Len(s) : s[n].first /\ s[n].expr = x
  BY DEF PendingOf
<1>7. ASSUME NEW x
      PROVE  x \in PendingOf(Append(s, f)) <=> x \in PendingOf(s) \/ (f.first /\ f.expr = x)
  BY <1>1, <1>2, <1>3, <1>4, <1>5, <1>6
<1>8. ASSUME NEW x
      PROVE  x \in PendingOf(Append(s, f))
               <=> x \in PendingOf(s) \cup (IF f.first THEN {f.expr} ELSE {})
  BY <1>7
<1> QED BY <1>8

\* A call is compiled for the first time at most once at any moment.
LEMMA TopPendsOnce ==
  ASSUME Shape, stack # <<>>
  PROVE  /\ Top.expr \notin PendingOf(Callers)
         /\ PendingOf(stack) = PendingOf(Callers) \cup (IF Top.first THEN {Top.expr} ELSE {})
<1>1. /\ Callers \in Seq(Frame) /\ Top \in Frame /\ Len(Callers) = Len(stack) - 1
           /\ stack = Append(Callers, Top)
      /\ \A n \in 1 .. (Len(stack) - 1) : Callers[n] = stack[n]
      /\ Len(stack) \in Nat \ {0}
  BY CallersFacts DEF Shape, Types
<1>2. Len(stack) \in 1 .. Len(stack)
  BY <1>1
<1>3. \A n \in 1 .. (Len(stack) - 1) : Top.expr < stack[n].expr
  BY <1>2, StackDescends DEF Top
<1>4. \A n \in 1 .. (Len(stack) - 1) : Top.expr # stack[n].expr
  <2>1. \A n \in 1 .. (Len(stack) - 1) : n \in 1 .. Len(stack) /\ stack[n] \in Frame
    BY <1>1 DEF Shape, Types
  <2>2. TypeOK
    BY DEF Shape, Types
  <2>3. \A n \in 1 .. (Len(stack) - 1) : stack[n].expr \in Nat
    BY <2>1, <2>2, HandlesFacts DEF Frame
  <2>4. Top.expr \in Nat
    BY <1>1, <2>2, HandlesFacts DEF Frame
  <2> QED BY <1>3, <2>3, <2>4
<1>5. Top.expr \notin PendingOf(Callers)
  BY <1>1, <1>4 DEF PendingOf
<1> QED BY <1>1, <1>5, PendingAppend

\* One more expression is done: each of its operands has one more use.
LEMMA UsesGrow ==
  ASSUME TypeOK, NEW D, D \subseteq Handles, NEW t \in Handles, t \notin D,
         NEW n \in 0 .. Len(m_aggs), NEW k
  PROVE  /\ UsesOf(m_exprs, m_aggs, D, n, k) \in Nat
         /\ UsesOf(m_exprs, m_aggs, D \cup {t}, n, k) = UsesOf(m_exprs, m_aggs, D, n, k)
              + (IF Left(t) = k THEN 1 ELSE 0) + (IF Right(t) = k THEN 1 ELSE 0)
<1> DEFINE L(E) == {e \in E : m_exprs[e].left = k}
           R(E) == {e \in E : m_exprs[e].right = k}
           A == {i \in 1 .. n : m_aggs[i].expr = k}
           N == Len(m_exprs)
<1>1. Handles = 1 .. N /\ N \in Nat
  BY HandlesFacts
<1>2. L(D) \subseteq 1 .. N /\ R(D) \subseteq 1 .. N /\ A \subseteq 1 .. n /\ n \in Nat
  BY <1>1, AggFacts
<1>3. L(D \cup {t}) = (IF Left(t) = k THEN L(D) \cup {t} ELSE L(D)) /\ t \notin L(D)
  BY DEF Left
<1>4. R(D \cup {t}) = (IF Right(t) = k THEN R(D) \cup {t} ELSE R(D)) /\ t \notin R(D)
  BY DEF Right
<1>5. /\ UsesOf(m_exprs, m_aggs, D, n, k) = Cardinality(L(D)) + Cardinality(R(D)) + Cardinality(A)
      /\ UsesOf(m_exprs, m_aggs, D \cup {t}, n, k) = Cardinality(L(D \cup {t}))
           + Cardinality(R(D \cup {t})) + Cardinality(A)
  BY DEF UsesOf
<1> HIDE DEF L, R, A, N
<1>6. Cardinality(L(D)) \in Nat /\ Cardinality(R(D)) \in Nat /\ Cardinality(A) \in Nat
  BY <1>1, <1>2, CountIsNat
<1>7. IsFiniteSet(L(D)) /\ IsFiniteSet(R(D))
  <2>1. IsFiniteSet(1 .. N)
    BY <1>1, FS_Interval
  <2> QED BY <1>2, <2>1, FS_Subset
<1>8. Cardinality(L(D \cup {t})) = Cardinality(L(D)) + (IF Left(t) = k THEN 1 ELSE 0)
  <2>1. Cardinality(L(D) \cup {t}) = Cardinality(L(D)) + 1
    BY <1>3, <1>7, FS_AddElement
  <2> QED BY <1>3, <1>6, <2>1
<1>9. Cardinality(R(D \cup {t})) = Cardinality(R(D)) + (IF Right(t) = k THEN 1 ELSE 0)
  <2>1. Cardinality(R(D) \cup {t}) = Cardinality(R(D)) + 1
    BY <1>4, <1>7, FS_AddElement
  <2> QED BY <1>4, <1>6, <2>1
<1> QED BY <1>5, <1>6, <1>8, <1>9

\* One more aggregate is in the program: its expression has one more use.
LEMMA AggUsesGrow ==
  ASSUME TypeOK, NEW D, D \subseteq Handles, NEW n \in 1 .. Len(m_aggs), NEW k
  PROVE  /\ UsesOf(m_exprs, m_aggs, D, n - 1, k) \in Nat
         /\ UsesOf(m_exprs, m_aggs, D, n, k) = UsesOf(m_exprs, m_aggs, D, n - 1, k)
              + (IF m_aggs[n].expr = k THEN 1 ELSE 0)
<1> DEFINE L == {e \in D : m_exprs[e].left = k}
           R == {e \in D : m_exprs[e].right = k}
           A(m) == {i \in 1 .. m : m_aggs[i].expr = k}
           N == Len(m_exprs)
<1>1. Handles = 1 .. N /\ N \in Nat /\ Len(m_aggs) \in Nat
  BY HandlesFacts, AggFacts
<1>2. L \subseteq 1 .. N /\ R \subseteq 1 .. N
  BY <1>1
<1>3. n - 1 \in Nat /\ n - 1 + 1 = n /\ A(n - 1) \subseteq 1 .. (n - 1)
      /\ A(n) \subseteq 1 .. (n - 1 + 1)
  BY <1>1
<1>4. (\A i \in 1 .. (n - 1) : i \in A(n) <=> i \in A(n - 1)) /\ (n \in A(n) <=> m_aggs[n].expr = k)
  BY <1>1
<1>5. /\ UsesOf(m_exprs, m_aggs, D, n - 1, k) = Cardinality(L) + Cardinality(R)
           + Cardinality(A(n - 1))
      /\ UsesOf(m_exprs, m_aggs, D, n, k) = Cardinality(L) + Cardinality(R) + Cardinality(A(n))
  BY DEF UsesOf
<1> HIDE DEF L, R, A, N
<1>6. Cardinality(L) \in Nat /\ Cardinality(R) \in Nat
  BY <1>1, <1>2, CountIsNat
<1>7. Cardinality(A(n - 1)) \in Nat
      /\ Cardinality(A(n)) = Cardinality(A(n - 1)) + (IF n - 1 + 1 \in A(n) THEN 1 ELSE 0)
  BY <1>3, <1>4, CountOneMore
<1> QED BY <1>3, <1>4, <1>5, <1>6, <1>7

\* Nothing is used more often than it is referred to.
LEMMA UsesBounded ==
  ASSUME TypeOK, UsageIsReferenceCount, NEW D, D \subseteq Handles, NEW n \in 0 .. Len(m_aggs),
         NEW k \in Handles
  PROVE  UsesOf(m_exprs, m_aggs, D, n, k) <= usage[k]
<1> DEFINE L(E) == {e \in E : m_exprs[e].left = k}
           R(E) == {e \in E : m_exprs[e].right = k}
           A(m) == {i \in 1 .. m : m_aggs[i].expr = k}
           N == Len(m_exprs)
           M == Len(m_aggs)
<1>1. Handles = 1 .. N /\ N \in Nat /\ M \in Nat /\ n \in Nat /\ n <= M
  BY HandlesFacts, AggFacts
<1>2. L(D) \subseteq L(Handles) /\ R(D) \subseteq R(Handles) /\ A(n) \subseteq A(M)
  <2>1. \A i \in 1 .. n : i \in 1 .. M
    BY <1>1
  <2> HIDE DEF N, M
  <2> QED BY <2>1
<1>3. L(Handles) \subseteq 1 .. N /\ R(Handles) \subseteq 1 .. N /\ A(M) \subseteq 1 .. M
  BY <1>1
<1>4. /\ UsesOf(m_exprs, m_aggs, D, n, k) = Cardinality(L(D)) + Cardinality(R(D))
           + Cardinality(A(n))
      /\ usage[k] = Cardinality(L(Handles)) + Cardinality(R(Handles)) + Cardinality(A(M))
  BY DEF UsesOf, UsageIsReferenceCount, References
<1> HIDE DEF L, R, A, N, M
<1>5. IsFiniteSet(L(Handles)) /\ IsFiniteSet(R(Handles)) /\ IsFiniteSet(A(M))
  <2>1. IsFiniteSet(1 .. N) /\ IsFiniteSet(1 .. M)
    BY <1>1, FS_Interval
  <2> QED BY <1>3, <2>1, FS_Subset
<1>6. Cardinality(L(D)) <= Cardinality(L(Handles))
      /\ Cardinality(R(D)) <= Cardinality(R(Handles))
      /\ Cardinality(A(n)) <= Cardinality(A(M))
  BY <1>2, <1>5, FS_Subset
<1>7. /\ Cardinality(L(D)) \in Nat /\ Cardinality(R(D)) \in Nat /\ Cardinality(A(n)) \in Nat
      /\ Cardinality(L(Handles)) \in Nat /\ Cardinality(R(Handles)) \in Nat
           /\ Cardinality(A(M)) \in Nat
  BY <1>2, <1>5, FS_Subset, FS_CardinalityType
<1> QED BY <1>4, <1>6, <1>7

\* The layer of the inductive invariant about uses.
Uses == UsesCounted /\ OperandsCompiled

\* A Mov is no use of its source.
LEMMA MovNotCounted ==
  ASSUME Types, next_agg > 0, NEW dest \in Regs, NEW src \in Regs, NEW first,
         pushInstr(Instr("Mov", dest, src), first), NEW k \in Handles
  PROVE  program_usage'[k] = program_usage[k]
<1> DEFINE ins == Instr("Mov", dest, src)
<1>1. ins \in Instructions /\ ~IsArith(ins) /\ ~IsAgg(ins)
  BY MovRunnable, MovComputes DEF Runnable
<1>2. program_usage' = IF first THEN Counted(r, ins) ELSE program_usage
  BY DEF pushInstr
<1> HIDE DEF ins
<1> QED BY <1>1, <1>2, CountedFacts

\* What is done is compiled.
LEMMA DoneFacts ==
  ASSUME Shape
  PROVE  Done \subseteq Handles /\ Done \subseteq has_been_compiled
BY DEF Done, DoneOf, Shape, Types

\* A call that goes on, or calls another, is as pending as it was.
LEMMA PendingReplace ==
  ASSUME Shape, stack # <<>>, NEW f \in Frame, Replace(f), f.first = Top.first, f.expr = Top.expr
  PROVE  PendingOf(stack') = PendingOf(stack)
<1>1. stack' = Append(Callers, f) /\ Callers \in Seq(Frame)
  BY SurviveCallers DEF Replace
<1> QED BY <1>1, PendingAppend, TopPendsOnce

\* The call called is not pending.
LEMMA PendingEnter ==
  ASSUME Shape, stack # <<>>, NEW f \in Frame, NEW e \in Handles, Enter(f, e), f.expr = Top.expr
  PROVE  PendingOf(stack') = PendingOf(Callers) \cup (IF f.first THEN {Top.expr} ELSE {})
<1> DEFINE s == Append(Callers, f)
<1>0. Call(e) \in Frame /\ ~Call(e).first
  BY DEF Call, Frame
<1>1. stack' = Append(s, Call(e)) /\ Callers \in Seq(Frame)
  BY SurviveCallers DEF Enter
<1>2. s \in Seq(Frame)
  BY <1>1, AppendProperties
<1>3. PendingOf(s) = PendingOf(Callers) \cup (IF f.first THEN {Top.expr} ELSE {})
  BY <1>1, PendingAppend
<1> HIDE DEF s
<1>4. PendingOf(stack') = PendingOf(s)
  BY <1>0, <1>1, <1>2, PendingAppend
<1> QED BY <1>3, <1>4

\* Every step counts each use once: a first compilation when it emits its
\* operation, a recalculation never.
LEMMA NextKeepsUses == Shape /\ Shape' /\ Locks /\ Tables /\ Values /\ Uses /\ [CompNext]_vars
    => Uses'
<1> SUFFICES ASSUME Shape, Shape', Locks, Tables, Values, Uses, [CompNext]_vars PROVE Uses'
  OBVIOUS
<1> USE DEF At, Return, Idle, NoPush
<1>0. m_status = "COMPILING" /\ result # Failed =>
        /\ \A k \in Handles : program_usage[k] = UsesOf(m_exprs, m_aggs, Done, next_agg - 1, k)
        /\ Closed(m_exprs, m_aggs, Done, next_agg - 1, has_been_compiled)
  BY DEF Uses, UsesCounted, OperandsCompiled
\* Nothing is counted and nothing done.
<1>S. ASSUME m_status = "COMPILING", result # Failed, UNCHANGED <<m_exprs, m_aggs, next_agg>>,
             DoneOf(stack', has_been_compiled') = Done,
             has_been_compiled \subseteq has_been_compiled',
             \A k \in Handles : program_usage'[k] = program_usage[k]
      PROVE  Uses'
  <2>1. Handles' = Handles /\ Done' = Done
    BY <1>S DEF Handles, Done
  <2>2. UsesCounted'
    BY <1>0, <1>S, <2>1 DEF UsesCounted
  <2>3. OperandsCompiled'
    BY <1>0, <1>S, <2>1 DEF OperandsCompiled, Closed
  <2> QED BY <2>2, <2>3 DEF Uses
<1>F. ASSUME result' = Failed \/ m_status' # "COMPILING" PROVE Uses'
  BY <1>F DEF Uses, UsesCounted, OperandsCompiled
\* A call that never was a first compilation returns.
<1>R. ASSUME stack # <<>>, stack' = Callers, ~Top.first PROVE PendingOf(stack') = PendingOf(stack)
  BY <1>R, TopPendsOnce
\* A call keeps what it is.
<1>P. ASSUME stack # <<>>, NEW f \in Frame, Replace(f), f.first = Top.first, f.expr = Top.expr
      PROVE  PendingOf(stack') = PendingOf(stack)
  BY <1>P, PendingReplace
<1>E. ASSUME stack # <<>>, NEW f \in Frame, NEW e \in Handles, Enter(f, e), f.expr = Top.expr
      PROVE  PendingOf(stack') = PendingOf(Callers) \cup (IF f.first THEN {Top.expr} ELSE {})
  BY <1>E, PendingEnter
<1>1. ASSUME ReuseRegister PROVE Uses'
  <2>1. stack # <<>> /\ m_status = "COMPILING" /\ stack' = Callers /\ result = None /\ ~Top.first
        /\ UNCHANGED <<m_exprs, m_aggs, next_agg>> /\ UNCHANGED <<program_usage, has_been_compiled>>
    BY <1>1, StageFacts DEF ReuseRegister, exprVars
  <2>2. DoneOf(stack', has_been_compiled') = Done
    BY <1>R, <2>1 DEF Done, DoneOf
  <2> QED BY <1>S, <2>1, <2>2, RegsFacts
<1>2. ASSUME CompileLeaf PROVE Uses'
  <2>1. stack # <<>> /\ m_status = "COMPILING" /\ stack' = Callers /\ result = None /\ ~Top.first
        /\ UNCHANGED <<m_exprs, m_aggs, next_agg>>
             /\ has_been_compiled' = has_been_compiled \cup {Top.expr}
        /\ Operation(Top.expr) \in {"Load", "LoadConstantInt"} /\ Top.expr \in Handles
             /\ next_agg \in 1 .. Len(m_aggs)
    BY <1>2, StageFacts, TopFacts DEF CompileLeaf, exprVars
  <2>2. PendingOf(stack') = PendingOf(stack)
    BY <1>R, <2>1
  <2>3. CASE ~CanSeizeAny
    BY <1>2, <1>F, <2>3 DEF CompileLeaf
  <2>4. CASE CanSeizeAny
    <3>1. pushInstr(LeafInstr, Top.expr \notin has_been_compiled) /\ result # Failed
      BY <1>2, <2>1, <2>4, RegsFacts DEF CompileLeaf, LeafInstr
    <3>2. LeafInstr \in Instructions /\ ~IsArith(LeafInstr) /\ ~IsAgg(LeafInstr)
      <4>1. LeafInstr \in Runnable /\ IsLoad(LeafInstr)
        BY <1>2, <2>4, LeafRunnable
      <4> QED BY <4>1 DEF Runnable, IsLoad, IsAgg, IsArith, ArithOps, AggFunctions
    <3>3. \A k \in Handles : program_usage'[k] = program_usage[k]
      BY <2>1, <3>1, <3>2, CountedFacts DEF pushInstr, Shape
    <3>4. TypeOK /\ Left(Top.expr) = NULL /\ Right(Top.expr) = NULL /\ NULL \notin Handles
      <4>1. TypeOK
        BY DEF Shape, Types
      <4> QED BY <2>1, <4>1, OperandFacts, HandlesFacts DEF ArithOps
    <3>5. Done' = Done \/ (Top.expr \notin Done /\ Done' = Done \cup {Top.expr})
      BY <2>1, <2>2 DEF Done, DoneOf
    <3>6. next_agg - 1 \in 0 .. Len(m_aggs)
      BY <2>1, <3>4, AggFacts
    <3>7. \A k \in Handles : UsesOf(m_exprs, m_aggs, Done', next_agg - 1, k)
            = UsesOf(m_exprs, m_aggs, Done, next_agg - 1, k)
      <4>1. CASE Done' = Done
        BY <4>1
      <4>2. CASE Top.expr \notin Done /\ Done' = Done \cup {Top.expr}
        <5> SUFFICES ASSUME NEW k \in Handles
                     PROVE  UsesOf(m_exprs, m_aggs, Done \cup {Top.expr}, next_agg - 1, k)
                              = UsesOf(m_exprs, m_aggs, Done, next_agg - 1, k)
          BY <4>2
        <5>1. /\ UsesOf(m_exprs, m_aggs, Done, next_agg - 1, k) \in Nat
              /\ UsesOf(m_exprs, m_aggs, Done \cup {Top.expr}, next_agg - 1, k)
                   = UsesOf(m_exprs, m_aggs, Done, next_agg - 1, k)
                   + (IF Left(Top.expr) = k THEN 1 ELSE 0) + (IF Right(Top.expr) = k THEN 1 ELSE 0)
          BY <2>1, <3>4, <3>6, <4>2, UsesGrow, DoneFacts
        <5>2. Left(Top.expr) # k /\ Right(Top.expr) # k
          BY <3>4
        <5> QED BY <5>1, <5>2
      <4> QED BY <3>5, <4>1, <4>2
    <3>8. Handles' = Handles
      BY <2>1 DEF Handles
    <3>9. UsesCounted'
      BY <1>0, <2>1, <3>1, <3>3, <3>7, <3>8 DEF UsesCounted
    <3>10. OperandsCompiled'
      <4>1. m_exprs[Top.expr].op \notin ArithOps
        BY <2>1 DEF Operation, ArithOps
      <4> QED BY <1>0, <2>1, <3>1, <3>5, <4>1 DEF OperandsCompiled, Closed
    <3> QED BY <3>9, <3>10 DEF Uses
  <2> QED BY <2>3, <2>4
<1>3. ASSUME CompileFirstOperand PROVE Uses'
  <2> DEFINE f == [Top EXCEPT !.first = Top.expr \notin has_been_compiled, !.pc = "first"]
             e == IF LeftFirst(Top.expr) THEN Left(Top.expr) ELSE Right(Top.expr)
  <2>1. stack # <<>> /\ m_status = "COMPILING" /\ Enter(f, e) /\ result = None
        /\ UNCHANGED <<m_exprs, m_aggs, next_agg, program_usage>>
             /\ has_been_compiled' = has_been_compiled \cup {Top.expr}
        /\ Operation(Top.expr) \in ArithOps /\ ~Top.first
    BY <1>3, StageFacts DEF CompileFirstOperand, exprVars
  <2>2. f \in Frame /\ f.expr = Top.expr /\ f.first = (Top.expr \notin has_been_compiled)
    BY TopFacts, <2>1 DEF Frame
  <2>3. e \in Handles
    BY <2>1, TopFacts, OperandFacts DEF Shape, Types
  <2> HIDE DEF f, e
  <2>4. PendingOf(stack') = PendingOf(Callers) \cup (IF f.first THEN {Top.expr} ELSE {})
    BY <1>E, <2>1, <2>2, <2>3
  <2>5. PendingOf(stack) = PendingOf(Callers)
    BY <2>1, TopPendsOnce
  <2>6. DoneOf(stack', has_been_compiled') = Done
    BY <2>1, <2>2, <2>4, <2>5 DEF Done, DoneOf
  <2> QED BY <1>S, <2>1, <2>6, RegsFacts
<1>4. ASSUME LockSameOperand PROVE Uses'
  <2> DEFINE f == [Top EXCEPT !.dest = result, !.src = result, !.pc = "save"]
  <2>1. stack # <<>> /\ result \in Regs /\ m_status = "COMPILING" /\ Replace(f)
        /\ UNCHANGED <<m_exprs, m_aggs, next_agg, program_usage, has_been_compiled>>
    BY <1>4 DEF LockSameOperand, exprVars
  <2>2. f \in Frame /\ f.expr = Top.expr /\ f.first = Top.first
    BY TopFacts, <2>1 DEF Frame
  <2> HIDE DEF f
  <2>3. DoneOf(stack', has_been_compiled') = Done
    BY <1>P, <2>1, <2>2 DEF Done, DoneOf
  <2> QED BY <1>S, <2>1, <2>3, RegsFacts
<1>5. ASSUME LockFirstOperand PROVE Uses'
  <2> DEFINE f == IF LeftFirst(Top.expr) THEN [Top EXCEPT !.dest = result, !.pc = "second"]
                                         ELSE [Top EXCEPT !.src = result, !.pc = "second"]
             e == IF LeftFirst(Top.expr) THEN Right(Top.expr) ELSE Left(Top.expr)
  <2>1. stack # <<>> /\ result \in Regs /\ m_status = "COMPILING" /\ Enter(f, e)
        /\ UNCHANGED <<m_exprs, m_aggs, next_agg, program_usage, has_been_compiled>>
        /\ Operation(Top.expr) \in ArithOps
    BY <1>5, StageFacts DEF LockFirstOperand, exprVars
  <2>2. f \in Frame /\ f.expr = Top.expr /\ f.first = Top.first
    BY TopFacts, <2>1 DEF Frame
  <2>3. e \in Handles
    BY <2>1, TopFacts, OperandFacts DEF Shape, Types
  <2> HIDE DEF f, e
  <2>4. PendingOf(stack') = PendingOf(stack)
    BY <1>E, <2>1, <2>2, <2>3, TopPendsOnce
  <2>5. DoneOf(stack', has_been_compiled') = Done
    BY <2>1, <2>4 DEF Done, DoneOf
  <2> QED BY <1>S, <2>1, <2>5, RegsFacts
<1>6. ASSUME LockSecondOperand PROVE Uses'
  <2> DEFINE f == IF LeftFirst(Top.expr) THEN [Top EXCEPT !.src = result, !.pc = "save"]
                                         ELSE [Top EXCEPT !.dest = result, !.pc = "save"]
  <2>1. stack # <<>> /\ result \in Regs /\ m_status = "COMPILING" /\ Replace(f)
        /\ UNCHANGED <<m_exprs, m_aggs, next_agg, program_usage, has_been_compiled>>
    BY <1>6 DEF LockSecondOperand, exprVars
  <2>2. f \in Frame /\ f.expr = Top.expr /\ f.first = Top.first
    BY TopFacts, <2>1 DEF Frame
  <2> HIDE DEF f
  <2>3. DoneOf(stack', has_been_compiled') = Done
    BY <1>P, <2>1, <2>2 DEF Done, DoneOf
  <2> QED BY <1>S, <2>1, <2>3, RegsFacts
<1>7. ASSUME SaveLeft PROVE Uses'
  <2> DEFINE f == [Top EXCEPT !.pc = "dest"]
  <2>1. stack # <<>> /\ m_status = "COMPILING" /\ Replace(f) /\ result = None /\ Top.pc = "save"
        /\ UNCHANGED <<m_exprs, m_aggs, next_agg, has_been_compiled>>
    BY <1>7, StageFacts DEF SaveLeft, exprVars
  <2>9. \/ program_usage' = program_usage
        \/ Unlocked # {} /\ pushInstr(Instr("Mov", Cheapest, Top.dest), Top.first)
    <3> DEFINE mov == Instr("Mov", Cheapest, Top.dest)
    <3>1. UNCHANGED <<m_program, r, program_usage>> \/ (Unlocked # {} /\ pushInstr(mov, Top.first))
      <4> HIDE DEF f, mov
      <4> QED BY <1>7 DEF SaveLeft, CanSeize, mov
    <3>2. CASE UNCHANGED <<m_program, r, program_usage>>
      BY <3>2
    <3>3. CASE Unlocked # {} /\ pushInstr(mov, Top.first)
      BY <3>3
    <3> HIDE DEF mov
    <3> QED BY <3>1, <3>2, <3>3
  <2>2. f \in Frame /\ f.expr = Top.expr /\ f.first = Top.first
    BY TopFacts, <2>1 DEF Frame
  <2> HIDE DEF f
  <2>3. DoneOf(stack', has_been_compiled') = Done
    BY <1>P, <2>1, <2>2 DEF Done, DoneOf
  <2>4. \A k \in Handles : program_usage'[k] = program_usage[k]
    <3>1. Top.dest \in Regs /\ next_agg > 0
      BY <2>1, BothOperands, TopFacts
    <3>2. Unlocked # {} => Cheapest \in Regs
      BY CheapestFacts DEF Shape
    <3> QED BY <2>9, <3>1, <3>2, MovNotCounted DEF Shape
  <2> QED BY <1>S, <2>1, <2>3, <2>4, RegsFacts
<1>8. ASSUME ChooseDestination PROVE Uses'
  <2>0. stack # <<>> /\ m_status = "COMPILING" /\ result = None /\ Top.pc = "dest"
        /\ UNCHANGED <<m_exprs, m_aggs, next_agg, has_been_compiled>>
    BY <1>8, StageFacts DEF ChooseDestination, exprVars
  <2>1. ASSUME NEW f \in Frame, Replace(f), f.first = Top.first, f.expr = Top.expr,
               \A k \in Handles : program_usage'[k] = program_usage[k]
        PROVE  Uses'
    <3>3. DoneOf(stack', has_been_compiled') = Done
      BY <1>P, <2>0, <2>1 DEF Done, DoneOf
    <3> QED BY <1>S, <2>0, <2>1, <3>3, RegsFacts
  <2>2. ASSUME Replace([Top EXCEPT !.pc = "emit"]), program_usage' = program_usage PROVE Uses'
    <3> DEFINE f == [Top EXCEPT !.pc = "emit"]
    <3>1. f \in Frame /\ f.expr = Top.expr /\ f.first = Top.first
      BY TopFacts, <2>0 DEF Frame
    <3>2. Replace(f)
      BY <2>2
    <3> HIDE DEF f
    <3> QED BY <2>1, <2>2, <3>1, <3>2
  <2>3. ASSUME NEW d \in Regs, MoveDestination(d),
               \A k \in Handles : program_usage'[k] = program_usage[k] PROVE Uses'
    <3> DEFINE f == [Top EXCEPT !.dest = d, !.pc = "emit"]
    <3>1. f \in Frame /\ f.expr = Top.expr /\ f.first = Top.first
      BY TopFacts, <2>0 DEF Frame
    <3>2. Replace(f)
      BY <2>3 DEF MoveDestination
    <3> HIDE DEF f
    <3> QED BY <2>1, <2>3, <3>1, <3>2
  <2>4. FreeCopies # {} => First(FreeCopies) \in Regs
    BY FirstOf DEF FreeCopies, Holding
  <2>5. CanSeizeAny => Cheapest \in Regs
    BY CheapestFacts DEF Shape, CanSeizeAny
  <2>6. Top.dest \in Regs /\ next_agg > 0
    BY <2>0, BothOperands, TopFacts
  <2>7. ASSUME CanSeizeAny, pushInstr(Instr("Mov", Cheapest, Top.dest), Top.first)
        PROVE  \A k \in Handles : program_usage'[k] = program_usage[k]
    BY <2>5, <2>6, <2>7, MovNotCounted DEF Shape
  <2>8. CASE ~DestinationShared /\ Replace([Top EXCEPT !.pc = "emit"])
          /\ program_usage' = program_usage
    BY <2>2, <2>8
  <2>9. CASE FreeCopies # {} /\ MoveDestination(First(FreeCopies)) /\ program_usage' = program_usage
    BY <2>3, <2>4, <2>9
  <2>10. CASE CanSeizeAny /\ MoveDestination(Cheapest)
           /\ pushInstr(Instr("Mov", Cheapest, Top.dest), Top.first)
    BY <2>3, <2>5, <2>7, <2>10
  <2>11. CASE result' = Failed
    BY <1>F, <2>11
  <2> QED BY <1>8, <2>8, <2>9, <2>10, <2>11 DEF ChooseDestination
<1>9. ASSUME Emit PROVE Uses'
  <2>1. stack # <<>> /\ m_status = "COMPILING" /\ stack' = Callers
        /\ UNCHANGED <<m_exprs, m_aggs, next_agg>>
        /\ Top.pc = "emit" /\ pushInstr(OpInstr, Top.first)
             /\ has_been_compiled' = has_been_compiled /\ result = None
    BY <1>9, StageFacts DEF Emit, exprVars, OpInstr
  <2>2. CASE ~Top.first
    <3>1. DoneOf(stack', has_been_compiled') = Done
      BY <1>R, <2>1, <2>2 DEF Done, DoneOf
    <3>2. program_usage' = program_usage
      BY <2>1, <2>2 DEF pushInstr
    <3> QED BY <1>S, <2>1, <3>1, <3>2, RegsFacts
  <2>3. CASE Top.first
    <3>1. PendingOf(stack) = PendingOf(Callers) \cup {Top.expr}
          /\ Top.expr \notin PendingOf(Callers)
      BY <2>1, <2>3, TopPendsOnce
    <3>2. Top.expr \in has_been_compiled /\ Top.expr \in Handles /\ Operation(Top.expr) \in ArithOps
          /\ Top.dest \in Regs /\ Top.src \in Regs /\ next_agg \in 1 .. Len(m_aggs)
      BY <2>1, BothOperands, TopFacts
    <3>3. Top.expr \notin Done /\ Done' = Done \cup {Top.expr}
      BY <2>1, <3>1, <3>2 DEF Done, DoneOf
    <3>4. TypeOK /\ next_agg - 1 \in 0 .. Len(m_aggs)
      BY <3>2, AggFacts DEF Shape, Types
    <3>5. r[Top.dest] = Left(Top.expr) /\ r[Top.src] = Right(Top.expr)
          /\ Left(Top.expr) \in Handles /\ Right(Top.expr) \in Handles
      BY <2>1, OpComputes DEF Values, Tables
    <3>6. OpInstr \in Instructions /\ IsArith(OpInstr) /\ OpInstr.dest = Top.dest
          /\ OpInstr.src = Top.src
      BY <2>1, OpRunnable DEF Runnable
    <3>7. \A k \in Handles : program_usage'[k] = program_usage[k]
             + (IF Left(Top.expr) = k THEN 1 ELSE 0) + (IF Right(Top.expr) = k THEN 1 ELSE 0)
      BY <2>1, <2>3, <3>2, <3>5, <3>6, CountedFacts DEF pushInstr, Shape
    <3>8. \A k \in Handles : UsesOf(m_exprs, m_aggs, Done', next_agg - 1, k)
            = UsesOf(m_exprs, m_aggs, Done, next_agg - 1, k)
             + (IF Left(Top.expr) = k THEN 1 ELSE 0) + (IF Right(Top.expr) = k THEN 1 ELSE 0)
      BY <3>2, <3>3, <3>4, UsesGrow, DoneFacts
    <3>9. Handles' = Handles /\ result # Failed
      BY <2>1, RegsFacts DEF Handles
    <3>10. UsesCounted'
      BY <1>0, <2>1, <3>7, <3>8, <3>9 DEF UsesCounted
    <3>11. Left(Top.expr) \in has_been_compiled /\ Right(Top.expr) \in has_been_compiled
      <4>1. NULL \notin Handles /\ Known(r, has_been_compiled)
        BY <2>1, <3>4, HandlesFacts DEF Values
      <4> QED BY <3>2, <3>5, <4>1 DEF Known
    <3>12. OperandsCompiled'
      BY <1>0, <2>1, <3>3, <3>9, <3>11 DEF OperandsCompiled, Closed, Left, Right
    <3> QED BY <3>10, <3>12 DEF Uses
  <2> QED BY <2>2, <2>3 DEF Top
<1>10. ASSUME ReturnFailure PROVE Uses'
  BY <1>10, <1>F DEF ReturnFailure
<1>11. ASSUME CompileAggregate PROVE Uses'
  <2> DEFINE c == Call(m_aggs[next_agg].expr)
  <2>1. m_status = "COMPILING" /\ result = None /\ stack = <<>> /\ stack' = <<c>>
        /\ UNCHANGED <<m_exprs, m_aggs, next_agg, has_been_compiled, program_usage>>
    BY <1>11 DEF CompileAggregate, exprVars
  <2>2. ~c.first
    BY DEF Call
  <2> HIDE DEF c
  <2>3. Len(stack') = 1 /\ stack'[1] = c /\ Len(stack) = 0
    BY <2>1
  <2>4. PendingOf(stack') = {} /\ PendingOf(stack) = {}
    BY <2>2, <2>3 DEF PendingOf
  <2>5. DoneOf(stack', has_been_compiled') = Done
    BY <2>1, <2>4 DEF Done, DoneOf
  <2> QED BY <1>S, <2>1, <2>5, RegsFacts
<1>12. ASSUME PushAggregate PROVE Uses'
  <2>1. stack = <<>> /\ stack' = <<>> /\ m_status = "COMPILING" /\ result \in Regs
        /\ result' = None /\ next_agg' = next_agg + 1
        /\ pushInstr(AggInstr, TRUE) /\ UNCHANGED <<m_exprs, m_aggs, has_been_compiled>>
    BY <1>12 DEF PushAggregate, AggInstr, exprVars
  <2>2. AggInstr \in Instructions /\ IsAgg(AggInstr) /\ AggInstr.src = result
        /\ next_agg \in 1 .. Len(m_aggs)
    BY <2>1, AggRunnable DEF Runnable
  <2>3. TypeOK /\ Len(m_aggs) \in Nat /\ Types
    BY AggFacts DEF Shape, Types
  <2>4. r[result] = m_aggs[next_agg].expr
    BY <2>1 DEF Values, Awaited
  <2>5. \A k \in Handles : program_usage'[k] = program_usage[k]
          + (IF m_aggs[next_agg].expr = k THEN 1 ELSE 0)
    BY <2>1, <2>2, <2>3, <2>4, CountedFacts DEF pushInstr
  <2>6. Done' = Done
    BY <2>1 DEF Done, DoneOf
  <2>7. \A k \in Handles : UsesOf(m_exprs, m_aggs, Done, next_agg, k)
          = UsesOf(m_exprs, m_aggs, Done, next_agg - 1, k)
          + (IF m_aggs[next_agg].expr = k THEN 1 ELSE 0)
    BY <2>2, <2>3, AggUsesGrow, DoneFacts
  <2>8. Handles' = Handles /\ result # Failed /\ next_agg' - 1 = next_agg
    BY <2>1, <2>2, <2>3, RegsFacts DEF Handles
  <2>9. UsesCounted'
    BY <1>0, <2>1, <2>5, <2>6, <2>7, <2>8 DEF UsesCounted
  <2>10. m_aggs[next_agg].expr \in has_been_compiled
    <3>1. m_aggs[next_agg].expr \in Handles /\ NULL \notin Handles
      BY <2>2, <2>3, AggFacts, HandlesFacts
    <3> QED BY <2>1, <2>4, <3>1 DEF Values, Known
  <2>11. \A i \in 1 .. next_agg : i = next_agg \/ i \in 1 .. (next_agg - 1)
    BY <2>2
  <2>12. OperandsCompiled'
    BY <1>0, <2>1, <2>6, <2>8, <2>10, <2>11 DEF OperandsCompiled, Closed
  <2> QED BY <2>9, <2>12 DEF Uses
<1>13. ASSUME FailCompile \/ FinishCompile PROVE Uses'
  BY <1>13, <1>F DEF FailCompile, FinishCompile
<1>15. ASSUME BeginCompile PROVE Uses'
  <2>1. stack' = <<>> /\ has_been_compiled' = {} /\ next_agg' = 1
        /\ program_usage' = [k \in Handles |-> 0]
        /\ UNCHANGED <<m_exprs, m_aggs>>
    BY <1>15 DEF BeginCompile, Programming, Shape, Phases, Untouched
  <2>2. Done' = {} /\ Handles' = Handles
    BY <2>1 DEF Done, DoneOf, Handles
  <2>3. \A k \in Handles : UsesOf(m_exprs, m_aggs, {}, 0, k) = 0
    <3> SUFFICES ASSUME NEW k \in Handles PROVE UsesOf(m_exprs, m_aggs, {}, 0, k) = 0
      OBVIOUS
    <3>1. {e \in {} : m_exprs[e].left = k} = {} /\ {e \in {} : m_exprs[e].right = k} = {}
          /\ {i \in 1 .. 0 : m_aggs[i].expr = k} = {}
      OBVIOUS
    <3> QED BY <3>1, FS_EmptySet DEF UsesOf
  <2>4. next_agg' - 1 = 0 /\ 1 .. 0 = {}
    BY <2>1
  <2>5. UsesCounted'
    BY <2>1, <2>2, <2>3, <2>4 DEF UsesCounted
  <2>6. OperandsCompiled'
    BY <2>2, <2>4 DEF OperandsCompiled, Closed
  <2> QED BY <2>5, <2>6 DEF Uses
<1>16. ASSUME Program PROVE Uses'
  BY <1>16, <1>F, ProgramSteps
<1>17. ASSUME UNCHANGED vars PROVE Uses'
  BY <1>17 DEF Uses, vars, exprVars, compVars, UsesCounted, OperandsCompiled, Done, Handles
<1> QED
  BY <1>1, <1>2, <1>3, <1>4, <1>5, <1>6, <1>7, <1>8, <1>9, <1>10, <1>11, <1>12, <1>13, <1>15,
     <1>16, <1>17
  DEF CompNext, CompileStep

\* The uses are always counted like this.
LEMMA UsesInvariant == CompSpec => []Uses
<1>1. CompInit => Uses
  BY DEF CompInit, Init, Uses, UsesCounted, OperandsCompiled
<1>2. Shape /\ Shape' /\ Locks /\ Tables /\ Values /\ Uses /\ [CompNext]_vars => Uses'
  BY NextKeepsUses
<1> QED
  BY <1>1, <1>2, ShapeInvariant, LocksInvariant, TablesInvariant, ValuesInvariant, PTL DEF CompSpec

\* Every instruction that is about to be emitted finds values in its
\* registers, computes the expression asked for, overwrites a register nobody
\* else has locked, and finds its uses not yet counted: the asserts of
\* svm_execute and svm_use cannot fail.
THEOREM InstructionsAlwaysSound == CompSpec => []InstructionsAreSound
<1>1. Shape /\ Locks /\ Tables /\ Values /\ Uses => InstructionsAreSound
  <2> SUFFICES ASSUME Shape, Locks, Tables, Values, Uses PROVE InstructionsAreSound
    OBVIOUS
  <2>0. TypeOK /\ Types /\ NoTwins /\ UsageIsReferenceCount /\ Done \subseteq Handles
        /\ Survive(stack, r, m_exprs)
    BY DoneFacts DEF Shape, Types, Tables, Values
  <2>1. ASSUME At("emit")
        PROVE  /\ Executable(r, OpInstr) /\ ValueComputed(r, OpInstr) = Top.expr
               /\ m_locked[Top.dest] = OwnLocks(Top)
               /\ Top.first => UsesRemain(r, OpInstr)
    <3>1. stack # <<>> /\ Top.pc = "emit" /\ m_status = "COMPILING" /\ result = None
      BY <2>1, StageFacts DEF At
    <3>2. OpInstr \in Runnable /\ IsArith(OpInstr) /\ ~IsLoad(OpInstr) /\ ~IsAgg(OpInstr)
          /\ OpInstr.dest = Top.dest /\ OpInstr.src = Top.src /\ Top.dest \in Regs
               /\ Top.src \in Regs
      BY <3>1, OpRunnable, BothOperands
    <3>3. r[Top.dest] = Left(Top.expr) /\ r[Top.src] = Right(Top.expr)
          /\ Left(Top.expr) \in Handles /\ Right(Top.expr) \in Handles
          /\ ValueComputed(r, OpInstr) = Top.expr
      BY <2>0, <3>1, OpComputes
    <3>4. Top.expr \in Handles /\ NULL \notin Handles /\ next_agg \in 1 .. Len(m_aggs)
      BY <2>0, <3>1, TopFacts, HandlesFacts
    <3>5. Executable(r, OpInstr)
      <4> DEFINE u == UsedValues(r, OpInstr)
      <4>1. u = <<r[OpInstr.dest], r[OpInstr.src]>>
        BY <3>2 DEF UsedValues
      <4>2. \A n \in DOMAIN u : u[n] # NULL
        BY <3>2, <3>3, <3>4, <4>1
      <4> QED BY <3>2, <3>3, <3>4, <4>2 DEF Executable
    <3>6. m_locked[Top.dest] = OwnLocks(Top)
      BY <2>1 DEF Values
    <3>7. ASSUME Top.first PROVE UsesRemain(r, OpInstr)
      <4> SUFFICES ASSUME NEW k \in Handles PROVE Counted(r, OpInstr)[k] <= usage[k]
        BY DEF UsesRemain
      <4>1. Counted(r, OpInstr)[k] = program_usage[k]
             + (IF Left(Top.expr) = k THEN 1 ELSE 0) + (IF Right(Top.expr) = k THEN 1 ELSE 0)
        <5>1. OpInstr \in Instructions /\ next_agg > 0
          BY <3>2, <3>4 DEF Runnable
        <5> QED BY <2>0, <3>2, <3>3, <5>1, CountedFacts
      <4>2. program_usage[k] = UsesOf(m_exprs, m_aggs, Done, next_agg - 1, k)
        BY <3>1, RegsFacts DEF Uses, UsesCounted
      <4>3. Top.expr \notin Done
        <5>1. Top.expr \in PendingOf(stack)
          BY <3>1, <3>7, TopPendsOnce
        <5> QED BY <5>1 DEF Done, DoneOf
      <4>4. next_agg - 1 \in 0 .. Len(m_aggs)
        BY <2>0, <3>4, AggFacts
      <4>5. UsesOf(m_exprs, m_aggs, Done \cup {Top.expr}, next_agg - 1, k)
              = UsesOf(m_exprs, m_aggs, Done, next_agg - 1, k)
             + (IF Left(Top.expr) = k THEN 1 ELSE 0) + (IF Right(Top.expr) = k THEN 1 ELSE 0)
        BY <2>0, <3>4, <4>3, <4>4, UsesGrow
      <4>6. UsesOf(m_exprs, m_aggs, Done \cup {Top.expr}, next_agg - 1, k) <= usage[k]
        <5>1. Done \cup {Top.expr} \subseteq Handles
          BY <2>0, <3>4
        <5> QED BY <2>0, <4>4, <5>1, UsesBounded
      <4> QED BY <4>1, <4>2, <4>5, <4>6
    <3> QED BY <3>3, <3>5, <3>6, <3>7
  <2>2. ASSUME Idle, result \in Regs
        PROVE  Executable(r, AggInstr) /\ UsesRemain(r, AggInstr)
    <3>1. AggInstr \in Runnable /\ IsAgg(AggInstr) /\ ~IsArith(AggInstr) /\ ~IsLoad(AggInstr)
          /\ next_agg \in 1 .. Len(m_aggs) /\ AggInstr.dest = next_agg /\ AggInstr.src = result
      BY <2>2, AggRunnable
    <3>2. r[result] = m_aggs[next_agg].expr
      BY <2>2 DEF Values, Awaited, Idle
    <3>3. r[result] \in Handles /\ NULL \notin Handles
      BY <2>0, <3>1, <3>2, AggFacts, HandlesFacts
    <3>4. Executable(r, AggInstr)
      <4> DEFINE u == UsedValues(r, AggInstr)
      <4>1. u = <<r[result]>>
        BY <3>1 DEF UsedValues
      <4>2. \A n \in DOMAIN u : u[n] # NULL
        BY <3>3, <4>1
      <4> QED BY <2>2, <3>1, <3>2, <4>2 DEF Executable
    <3>5. UsesRemain(r, AggInstr)
      <4> SUFFICES ASSUME NEW k \in Handles PROVE Counted(r, AggInstr)[k] <= usage[k]
        BY DEF UsesRemain
      <4>1. Counted(r, AggInstr)[k] = program_usage[k]
              + (IF m_aggs[next_agg].expr = k THEN 1 ELSE 0)
        <5>1. AggInstr \in Instructions /\ next_agg > 0
          BY <3>1 DEF Runnable
        <5> QED BY <2>0, <3>1, <3>2, <5>1, CountedFacts
      <4>2. program_usage[k] = UsesOf(m_exprs, m_aggs, Done, next_agg - 1, k)
        BY <2>2, RegsFacts DEF Uses, UsesCounted, Idle
      <4>3. UsesOf(m_exprs, m_aggs, Done, next_agg, k)
              = UsesOf(m_exprs, m_aggs, Done, next_agg - 1, k)
             + (IF m_aggs[next_agg].expr = k THEN 1 ELSE 0)
        BY <2>0, <3>1, AggUsesGrow
      <4>4. UsesOf(m_exprs, m_aggs, Done, next_agg, k) <= usage[k]
        BY <2>0, <3>1, UsesBounded
      <4> QED BY <4>1, <4>2, <4>3, <4>4
    <3> QED BY <3>4, <3>5
  <2> QED BY <2>1, <2>2 DEF InstructionsAreSound, OpInstr, AggInstr
<1> QED
  BY <1>1, ShapeInvariant, LocksInvariant, TablesInvariant, ValuesInvariant, UsesInvariant, PTL

\* After the last aggregate every operation has been compiled.
LEMMA AllOperationsDone ==
  ASSUME Shape, Tables, Uses, AllCompiled, NEW k \in Handles, Operation(k) \in ArithOps
  PROVE  k \in Done
<1> DEFINE N == Len(m_exprs)
           Bad == {e \in Handles : Operation(e) \in ArithOps /\ e \notin Done}
<1>0. /\ Handles = 1 .. N /\ N \in Nat /\ NULL = 0 /\ TypeOK
      /\ stack = <<>> /\ result = None /\ m_status = "COMPILING" /\ next_agg > Len(m_aggs)
  BY HandlesFacts DEF AllCompiled, Idle, Shape, Types
<1>1. Done = has_been_compiled
  <2>1. Len(stack) = 0
    BY <1>0
  <2>2. PendingOf(stack) = {}
    BY <2>1 DEF PendingOf
  <2> QED BY <2>2 DEF Done, DoneOf
<1>2. next_agg - 1 = Len(m_aggs)
  BY <1>0, AggFacts DEF Shape, Types
<1>3. Closed(m_exprs, m_aggs, Done, Len(m_aggs), has_been_compiled)
  BY <1>0, <1>2, RegsFacts DEF Uses, OperandsCompiled
<1> SUFFICES ASSUME Bad # {} PROVE FALSE
  OBVIOUS
<1>4. Bad \subseteq 0 .. N
  BY <1>0
<1>5. PICK m \in Bad : \A e \in Bad : e <= m
  <2> HIDE DEF Bad, N
  <2> QED BY <1>0, <1>4, GreatestNat
<1>6. m \in Handles /\ Operation(m) \in ArithOps /\ m \notin Done
  BY <1>5
<1>7. usage[m] > 0
  <2>1. NoOrphans
    BY <1>0 DEF Shape, Phases
  <2>2. ~IsConstant(m)
    BY <1>6 DEF IsConstant, Operation, ArithOps
  <2> QED BY <1>6, <2>1, <2>2 DEF NoOrphans
<1>8. \A e \in Handles : Left(e) = m \/ Right(e) = m => e \in Done
  <2> SUFFICES ASSUME NEW e \in Handles, Left(e) = m \/ Right(e) = m, e \notin Done PROVE FALSE
    OBVIOUS
  <2>1. Operation(e) \in ArithOps
    BY <1>0, <1>6, OperandFacts
  <2>2. m < e
    BY <1>0, <2>1, OperandFacts
  <2>3. e \in Bad
    BY <2>1
  <2>4. e <= m
    BY <1>5, <2>3
  <2> QED BY <1>0, <1>6, <2>2, <2>4
<1>9. \A e \in Handles : Left(e) # m /\ Right(e) # m
  <2> SUFFICES ASSUME NEW e \in Handles, Left(e) = m \/ Right(e) = m PROVE FALSE
    OBVIOUS
  <2>1. e \in Done /\ Operation(e) \in ArithOps
    BY <1>0, <1>6, <1>8, OperandFacts
  <2> QED BY <1>1, <1>3, <1>6, <2>1 DEF Closed, Left, Right, Operation
<1>10. \A i \in 1 .. Len(m_aggs) : m_aggs[i].expr # m
  BY <1>1, <1>3, <1>6 DEF Closed
<1>11. usage[m] = 0
  <2>1. {n \in Handles : m_exprs[n].left = m} = {} /\ {n \in Handles : m_exprs[n].right = m} = {}
        /\ {i \in 1 .. Len(m_aggs) : m_aggs[i].expr = m} = {}
    BY <1>9, <1>10 DEF Left, Right
  <2>2. References(m) = 0 + 0 + 0
    BY <2>1, FS_EmptySet DEF References
  <2>3. usage[m] = References(m)
    BY <1>6 DEF Tables, UsageIsReferenceCount
  <2> QED BY <2>2, <2>3
<1> QED BY <1>7, <1>11

\* When every aggregate is compiled each use of each expression has been
\* counted exactly once: the assert after the loop of compile() cannot fail.
THEOREM UsesAlwaysAllCounted == CompSpec => []UsesAllCounted
<1>1. Shape /\ Tables /\ Uses => UsesAllCounted
  <2> SUFFICES ASSUME Shape, Tables, Uses, AllCompiled PROVE program_usage = usage
    BY DEF UsesAllCounted
  <2>0. /\ TypeOK /\ Handles = 1 .. Len(m_exprs) /\ NULL \notin Handles
        /\ result = None /\ m_status = "COMPILING" /\ next_agg > Len(m_aggs)
    BY HandlesFacts DEF AllCompiled, Idle, Shape, Types
  <2>1. next_agg - 1 = Len(m_aggs) /\ next_agg > 0
    BY <2>0, AggFacts DEF Shape, Types
  <2>2. \A e \in Handles, k \in Handles : Left(e) = k \/ Right(e) = k => e \in Done
    <3> SUFFICES ASSUME NEW e \in Handles, NEW k \in Handles, Left(e) = k \/ Right(e) = k
                 PROVE  e \in Done
      OBVIOUS
    <3>1. Operation(e) \in ArithOps
      BY <2>0, OperandFacts
    <3> QED BY <3>1, AllOperationsDone
  <2>3. \A k \in Handles : program_usage[k] = usage[k]
    <3> SUFFICES ASSUME NEW k \in Handles PROVE program_usage[k] = usage[k]
      OBVIOUS
    <3>1. {e \in Done : m_exprs[e].left = k} = {e \in Handles : m_exprs[e].left = k}
      BY <2>2, DoneFacts DEF Left
    <3>2. {e \in Done : m_exprs[e].right = k} = {e \in Handles : m_exprs[e].right = k}
      BY <2>2, DoneFacts DEF Right
    <3>3. program_usage[k] = UsesOf(m_exprs, m_aggs, Done, Len(m_aggs), k)
      BY <2>0, <2>1, RegsFacts DEF Uses, UsesCounted
    <3>4. usage[k] = References(k)
      BY DEF Tables, UsageIsReferenceCount
    <3> QED BY <3>1, <3>2, <3>3, <3>4 DEF UsesOf, References
  <2>4. program_usage \in [Handles -> Nat]
    BY <2>1 DEF Shape, Types
  <2>5. usage \in Seq(Nat) /\ Len(usage) = Len(m_exprs)
    BY <2>0 DEF TypeOK
  <2>6. usage = [k \in Handles |-> usage[k]]
    BY <2>0, <2>5
  <2> QED BY <2>3, <2>4, <2>6
<1> QED
  BY <1>1, ShapeInvariant, TablesInvariant, UsesInvariant, PTL

-----------------------------------------------------------------------------
(* The estimate of new_expr suffices: compile() does not run out of          *)
(* registers if every aggregate's expression was estimated to need no more   *)
(* than there are.                                                           *)

\* An operation on one operand is estimated to need what the operand needs.
SameOperandEst ==
  \A k \in Handles :
    m_exprs[k].op \in ArithOps /\ m_exprs[k].left = m_exprs[k].right =>
      m_exprs[k].est_regs = m_exprs[m_exprs[k].left].est_regs

\* Registers that no call of s below the n-th holds.
RoomOf(s, n) == {i \in Regs : \A m \in 1 .. (n - 1) : s[m].dest # i /\ s[m].src # i}

\* Every call finds as many registers as its expression is estimated to need.
RoomFits(s, exprs) ==
  \A n \in 1 .. Len(s) : Cardinality(RoomOf(s, n)) >= exprs[s[n].expr].est_regs

\* No aggregate's expression is estimated to need more registers than there
\* are.
FitsRegs == \A i \in 1 .. Len(m_aggs) : m_exprs[m_aggs[i].expr].est_regs <= REGS

\* The layer of the inductive invariant about the estimate: if it fits then
\* no call has failed, and each one has the registers it was promised.
RoomLeft == FitsRegs => result # Failed /\ RoomFits(stack, m_exprs)

\* A call of the API adds no row that breaks SameOperandEst.
LEMMA NextKeepsSameOperand == TypeOK /\ SameOperandEst /\ [Next]_exprVars => SameOperandEst'
<1> SUFFICES ASSUME TypeOK, SameOperandEst, [Next]_exprVars
             PROVE  SameOperandEst'
  OBVIOUS
<1>1. CASE m_exprs' = m_exprs
  BY <1>1 DEF SameOperandEst, Handles
<1>2. ASSUME NEW e, Requested(e), Intern(e) PROVE SameOperandEst'
  <2> DEFINE n == Len(m_exprs)
  <2>1. CASE /\ n \in Nat /\ Handles = 1 .. n /\ Handles' = 1 .. (n + 1)
             /\ m_exprs'[n + 1] = e
             /\ \A k \in Handles : m_exprs'[k] = m_exprs[k]
    <3> SUFFICES ASSUME NEW k \in Handles', NEW f, f = m_exprs'[k],
                        f.op \in ArithOps, f.left = f.right
                 PROVE  f.est_regs = m_exprs'[f.left].est_regs
      BY DEF SameOperandEst
    <3>1. CASE k \in Handles
      <4>1. f = m_exprs[k] /\ f.left \in Handles
        BY <2>1, <3>1, OperandFacts DEF Operation, Left
      <4> QED
        BY <2>1, <3>1, <4>1 DEF SameOperandEst
    <3>2. CASE k = n + 1
      <4>1. f = e /\ e.left \in Handles /\ e = Arithmetic(e.op, e.left, e.right)
        BY <1>2, <2>1, <3>2 DEF Requested
      <4>2. m_exprs'[e.left] = m_exprs[e.left]
        BY <2>1, <4>1
      <4>3. Arithmetic(e.op, e.left, e.right).est_regs = m_exprs[e.left].est_regs
        BY <4>1 DEF Arithmetic, EstRegs
      <4> QED
        BY <4>1, <4>2, <4>3
    <3> QED
      BY <2>1, <3>1, <3>2
  <2> QED
    BY <1>1, <1>2, <2>1, InternRows DEF Requested
<1>3. ASSUME NEW type \in AggTypes, NEW k \in Handles, Aggregate(type, k)
      PROVE  SameOperandEst'
  BY <1>1, <1>3 DEF Aggregate
<1> QED
  BY <1>1, <1>2, <1>3, StepsIntern

\* An operation on one operand is never estimated to need more than it.
LEMMA SameOperandInvariant == CompSpec => []SameOperandEst
<1>1. CompInit => SameOperandEst
  BY DEF CompInit, Init, SameOperandEst, Handles
<1>2. Shape /\ SameOperandEst /\ [CompNext]_vars => SameOperandEst'
  <2>1. Shape /\ SameOperandEst /\ Program => SameOperandEst'
    BY NextKeepsSameOperand DEF Program, Shape, Types
  <2>2. SameOperandEst /\ UNCHANGED <<m_exprs, usage, m_aggs>> => SameOperandEst'
    BY DEF SameOperandEst, Handles
  <2> QED
    BY <2>1, <2>2, CompilerLeavesTables DEF CompNext
<1> QED
  BY <1>1, <1>2, ShapeInvariant, PTL DEF CompSpec

\* What the operands of an operation need, and that two of them need two.
LEMMA EstFacts ==
  ASSUME TypeOK, EstRegsIsCheapestOrder, SameOperandEst, NEW e \in Handles
  PROVE  /\ m_exprs[e].est_regs \in Nat \ {0}
         /\ Operation(e) \in ArithOps =>
              LET l == m_exprs[Left(e)].est_regs
                  rr == m_exprs[Right(e)].est_regs
              IN  /\ l <= m_exprs[e].est_regs /\ rr <= m_exprs[e].est_regs
                  /\ Left(e) # Right(e) =>
                       /\ m_exprs[e].est_regs >= 2
                       /\ LeftFirst(e) => rr <= m_exprs[e].est_regs - 1
                       /\ ~LeftFirst(e) => l <= m_exprs[e].est_regs - 1
<1>1. \A k \in Handles : m_exprs[k].est_regs \in Nat \ {0}
  BY HandlesFacts DEF Node
<1> SUFFICES ASSUME Operation(e) \in ArithOps,
                    NEW l, l = m_exprs[Left(e)].est_regs, NEW q, q = m_exprs[Right(e)].est_regs,
                    NEW n, n = m_exprs[e].est_regs
             PROVE  /\ l <= n /\ q <= n
                    /\ Left(e) # Right(e) =>
                         /\ n >= 2
                         /\ LeftFirst(e) => q <= n - 1
                         /\ ~LeftFirst(e) => l <= n - 1
  BY <1>1
<1>2. l \in Nat \ {0} /\ q \in Nat \ {0} /\ n \in Nat \ {0}
  BY <1>1, OperandFacts
<1>3. CASE Left(e) = Right(e)
  BY <1>2, <1>3 DEF SameOperandEst, Left, Right, Operation
<1>4. CASE Left(e) # Right(e)
  <2>1. CheapestOrder(m_exprs[e], l, q)
    BY <1>4 DEF EstRegsIsCheapestOrder, Left, Right, Operation
  <2>2. n = IF LeftFirst(e) THEN MaxOf(l, q + 1) ELSE MaxOf(q, l + 1)
    BY <2>1 DEF CheapestOrder, LeftFirst
  <2>3. MaxOf(l, q + 1) >= l /\ MaxOf(l, q + 1) >= q + 1 /\ MaxOf(q, l + 1) >= q
        /\ MaxOf(q, l + 1) >= l + 1
    BY <1>2 DEF MaxOf
  <2> QED
    BY <1>2, <1>4, <2>2, <2>3
<1> QED BY <1>3, <1>4

\* The room below a stack, and what a call on top of it leaves.
LEMMA RoomFacts ==
  ASSUME NEW s, NEW n
  PROVE  /\ IsFiniteSet(RoomOf(s, n)) /\ Cardinality(RoomOf(s, n)) \in Nat
         /\ RoomOf(s, n) \subseteq Regs
         /\ \A i : Cardinality(RoomOf(s, n) \ {i}) \in Nat
         /\ \A i : Cardinality(RoomOf(s, n) \ {i}) >= Cardinality(RoomOf(s, n)) - 1
<1>1. IsFiniteSet(Regs)
  BY RegsFacts, FS_Interval DEF Regs
<1>2. RoomOf(s, n) \subseteq Regs
  BY DEF RoomOf
<1>3. IsFiniteSet(RoomOf(s, n))
  BY <1>1, <1>2, FS_Subset
<1>4. ASSUME NEW S, IsFiniteSet(S), NEW i
      PROVE  Cardinality(S) \in Nat /\ Cardinality(S \ {i}) \in Nat
               /\ Cardinality(S \ {i}) >= Cardinality(S) - 1
  <2>1. IsFiniteSet(S \ {i})
        /\ Cardinality(S \ {i}) = IF i \in S THEN Cardinality(S) - 1 ELSE Cardinality(S)
    BY <1>4, FS_RemoveElement
  <2>2. Cardinality(S) \in Nat /\ Cardinality(S \ {i}) \in Nat
    BY <1>4, <2>1, FS_CardinalityType
  <2> QED BY <2>1, <2>2
<1> QED BY <1>2, <1>3, <1>4

\* The room of the calls in a stack with one more call.
LEMMA RoomAppend ==
  ASSUME NEW s \in Seq(Frame), NEW f \in Frame
  PROVE  /\ \A n \in 1 .. (Len(s) + 1) : RoomOf(Append(s, f), n) = RoomOf(s, n)
         /\ RoomOf(Append(s, f), Len(s) + 2) = RoomOf(s, Len(s) + 1) \ {f.dest, f.src}
         /\ RoomFits(Append(s, f), m_exprs)
              <=> /\ RoomFits(s, m_exprs)
                  /\ Cardinality(RoomOf(s, Len(s) + 1)) >= m_exprs[f.expr].est_regs
<1> DEFINE t == Append(s, f)
<1>1. /\ Len(s) \in Nat /\ Len(t) = Len(s) + 1 /\ t[Len(s) + 1] = f
      /\ \A n \in 1 .. Len(s) : t[n] = s[n]
  BY AppendProperties
<1> HIDE DEF t
<1>2. ASSUME NEW n \in 1 .. (Len(s) + 1) PROVE RoomOf(t, n) = RoomOf(s, n)
  <2>1. \A m \in 1 .. (n - 1) : m \in 1 .. Len(s)
    BY <1>1
  <2>2. \A m \in 1 .. (n - 1) : t[m] = s[m]
    BY <1>1, <2>1
  <2> QED BY <2>2 DEF RoomOf
<1>3. RoomOf(t, Len(s) + 2) = RoomOf(s, Len(s) + 1) \ {f.dest, f.src}
  <2>1. \A m : m \in 1 .. (Len(s) + 2 - 1) <=> m \in 1 .. (Len(s) + 1 - 1) \/ m = Len(s) + 1
    BY <1>1
  <2>2. \A m \in 1 .. (Len(s) + 1 - 1) : t[m] = s[m]
    BY <1>1
  <2>3. \A i : i \in RoomOf(t, Len(s) + 2)
          <=> i \in RoomOf(s, Len(s) + 1) /\ i # f.dest /\ i # f.src
    BY <1>1, <2>1, <2>2 DEF RoomOf
  <2> QED BY <2>3
<1>4. \A n : n \in 1 .. Len(t) <=> n \in 1 .. Len(s) \/ n = Len(s) + 1
  BY <1>1
<1>5. Len(s) + 1 \in 1 .. (Len(s) + 1) /\ \A n \in 1 .. Len(s) : n \in 1 .. (Len(s) + 1)
  BY <1>1
<1>6. RoomFits(t, m_exprs)
        <=> /\ RoomFits(s, m_exprs)
            /\ Cardinality(RoomOf(s, Len(s) + 1)) >= m_exprs[f.expr].est_regs
  BY <1>1, <1>2, <1>4, <1>5 DEF RoomFits
<1> QED BY <1>2, <1>3, <1>6 DEF t

\* The room of the call on top.
LEMMA RoomOfTop ==
  ASSUME Shape, stack # <<>>, RoomFits(stack, m_exprs)
  PROVE  /\ RoomFits(Callers, m_exprs) /\ Callers \in Seq(Frame) /\ Top \in Frame
         /\ Cardinality(RoomOf(Callers, Len(Callers) + 1)) >= m_exprs[Top.expr].est_regs
<1>1. Callers \in Seq(Frame) /\ Top \in Frame /\ stack = Append(Callers, Top)
  BY CallersFacts DEF Shape, Types
<1>2. RoomFits(Append(Callers, Top), m_exprs)
        <=> /\ RoomFits(Callers, m_exprs)
            /\ Cardinality(RoomOf(Callers, Len(Callers) + 1)) >= m_exprs[Top.expr].est_regs
  BY <1>1, RoomAppend
<1> QED BY <1>1, <1>2

\* A register that no call holds counts as held zero times.
LEMMA NoHoldNoLock ==
  ASSUME NEW s, NEW i, \A m \in 1 .. Len(s) : s[m].dest # i /\ s[m].src # i
  PROVE  Held(s, i) = 0
<1> DEFINE P == {m \in 1 .. Len(s) : s[m].dest = i}
           Q == {m \in 1 .. Len(s) : s[m].src = i}
<1>1. P = {} /\ Q = {}
  OBVIOUS
<1>2. Held(s, i) = Cardinality(P) + Cardinality(Q)
  BY DEF Held
<1> HIDE DEF P, Q
<1> QED BY <1>1, <1>2, FS_EmptySet

\* A register that neither the callers nor the call on top hold is not locked.
LEMMA RoomIsUnlocked ==
  ASSUME Shape, Locks, stack # <<>>, result # Failed,
         NEW i \in RoomOf(Callers, Len(Callers) + 1), i # Top.dest, i # Top.src
  PROVE  i \in Unlocked
<1>1. m_locked[i] = Held(stack, i) /\ i \in Regs
  BY TopFacts, RoomFacts DEF Locks, LocksAreFrames
<1>2. Held(stack, i) = Held(Callers, i) + Unlocks(Top, i)
  BY <1>1, HeldOfTop
<1>3. Unlocks(Top, i) = 0
  BY DEF Unlocks
<1>4. Held(Callers, i) = 0
  <2>1. Callers \in Seq(Frame) /\ Len(Callers) \in Nat
    BY CallersFacts DEF Shape, Types
  <2>2. \A m \in 1 .. Len(Callers) : Callers[m].dest # i /\ Callers[m].src # i
    BY <2>1 DEF RoomOf
  <2> QED BY <2>2, NoHoldNoLock
<1> QED BY <1>1, <1>2, <1>3, <1>4 DEF Unlocked

\* A register that callers hold is not in the room of the call on top.
LEMMA SharedIsNotRoom ==
  ASSUME Shape, Locks, stack # <<>>, result # Failed, DestinationShared, Top.dest \in Regs
  PROVE  Top.dest \notin RoomOf(Callers, Len(Callers) + 1)
<1> SUFFICES ASSUME Top.dest \in RoomOf(Callers, Len(Callers) + 1) PROVE FALSE
  OBVIOUS
<1>1. m_locked[Top.dest] = Held(stack, Top.dest)
  BY TopFacts DEF Locks, LocksAreFrames
<1>2. Held(stack, Top.dest) = Held(Callers, Top.dest) + Unlocks(Top, Top.dest)
  BY HeldOfTop
<1>3. Unlocks(Top, Top.dest) = OwnLocks(Top) /\ OwnLocks(Top) \in Nat
  BY DEF Unlocks, OwnLocks
<1>4. Held(Callers, Top.dest) = 0
  <2>1. Callers \in Seq(Frame) /\ Len(Callers) \in Nat
    BY CallersFacts DEF Shape, Types
  <2>2. \A m \in 1 .. Len(Callers) : Callers[m].dest # Top.dest /\ Callers[m].src # Top.dest
    BY <2>1 DEF RoomOf
  <2> QED BY <2>2, NoHoldNoLock
<1> QED BY <1>1, <1>2, <1>3, <1>4 DEF DestinationShared

\* The steps of compile() keep room for every call and never fail.
LEMMA NextKeepsRoom ==
  Shape /\ Locks /\ Tables /\ SameOperandEst /\ RoomLeft /\ [CompNext]_vars => RoomLeft'
<1> SUFFICES ASSUME Shape, Locks, Tables, SameOperandEst, RoomLeft, [CompNext]_vars,
                    FitsRegs'
             PROVE  result' # Failed /\ RoomFits(stack', m_exprs')
  BY DEF RoomLeft
<1> USE DEF At, Return, Idle, NoPush
<1>F. UNCHANGED <<m_exprs, m_aggs>> => FitsRegs /\ result # Failed /\ RoomFits(stack, m_exprs)
  BY DEF RoomLeft, FitsRegs
<1>T. TypeOK /\ EstRegsIsCheapestOrder
  BY DEF Shape, Types, Tables
\* A call returns a register.
<1>R. ASSUME stack # <<>>, stack' = Callers, UNCHANGED <<m_exprs, m_aggs>>, result' \in Regs
      PROVE  result' # Failed /\ RoomFits(stack', m_exprs')
  BY <1>F, <1>R, RoomOfTop, RegsFacts
\* A call goes on.
<1>P. ASSUME stack # <<>>, NEW f \in Frame, Replace(f), f.expr = Top.expr,
             UNCHANGED <<m_exprs, m_aggs>>
      PROVE  RoomFits(stack', m_exprs')
  BY <1>F, <1>P, RoomOfTop, RoomAppend DEF Replace
\* A call calls another, which finds the room the caller's registers leave.
<1>E. ASSUME stack # <<>>, NEW f \in Frame, NEW e \in Handles, Enter(f, e), f.expr = Top.expr,
             UNCHANGED <<m_exprs, m_aggs>>, NEW i, {f.dest, f.src} = {None, i},
             i = None \/ Left(Top.expr) # Right(Top.expr),
             Operation(Top.expr) \in ArithOps,
             e = Left(Top.expr) \/ e = Right(Top.expr),
             i # None => e = IF LeftFirst(Top.expr) THEN Right(Top.expr) ELSE Left(Top.expr)
      PROVE  RoomFits(stack', m_exprs')
  <2> DEFINE s == Append(Callers, f)
             n == Len(Callers) + 1
             R == RoomOf(Callers, n)
  <2>1. /\ RoomFits(Callers, m_exprs) /\ Callers \in Seq(Frame) /\ Len(Callers) \in Nat
        /\ Cardinality(R) >= m_exprs[Top.expr].est_regs
    BY <1>E, <1>F, RoomOfTop
  <2>2. s \in Seq(Frame) /\ Len(s) = n /\ RoomFits(s, m_exprs) /\ RoomOf(s, n + 1) = R \ {None, i}
    <3>1. n + 1 = Len(Callers) + 2
      BY <2>1
    <3>2. R \ {f.dest, f.src} = R \ {None, i}
      BY <1>E
    <3>3. RoomOf(s, Len(Callers) + 2) = R \ {f.dest, f.src}
      BY <1>E, <2>1, RoomAppend
    <3>4. RoomFits(s, m_exprs)
      BY <1>E, <2>1, RoomAppend
    <3> QED BY <1>E, <2>1, <3>1, <3>2, <3>3, <3>4, AppendProperties
  <2>3. Call(e) \in Frame /\ Call(e).expr = e
    BY DEF Call, Frame
  <2>4. stack' = Append(s, Call(e))
    BY <1>E DEF Enter
  <2> HIDE DEF s
  <2>5. RoomFits(stack', m_exprs) <=> Cardinality(RoomOf(s, n + 1)) >= m_exprs[e].est_regs
    BY <2>2, <2>3, <2>4, RoomAppend
  <2>6. R \subseteq Regs /\ Cardinality(R) \in Nat /\ Cardinality(R \ {i}) \in Nat
        /\ Cardinality(R \ {i}) >= Cardinality(R) - 1
    BY RoomFacts
  <2>7. R \ {None, i} = R \ {i} /\ (i = None => R \ {i} = R)
    BY <2>6, RegsFacts
  <2>8. Top.expr \in Handles
    BY <1>E, TopFacts
  <2> HIDE DEF R
  <2>9. /\ m_exprs[Top.expr].est_regs \in Nat /\ m_exprs[e].est_regs \in Nat
        /\ m_exprs[e].est_regs <= m_exprs[Top.expr].est_regs
        /\ i # None => m_exprs[e].est_regs <= m_exprs[Top.expr].est_regs - 1
    BY <1>E, <1>T, <2>8, EstFacts
  <2>10. Cardinality(R \ {None, i}) >= m_exprs[e].est_regs
    <3> DEFINE a == Cardinality(R)
               b == Cardinality(R \ {i})
               x == m_exprs[Top.expr].est_regs
               y == m_exprs[e].est_regs
    <3>1. a \in Nat /\ b \in Nat /\ x \in Nat /\ y \in Nat /\ a >= x /\ b >= a - 1 /\ y <= x
          /\ (i = None => b = a) /\ (i # None => y <= x - 1)
      BY <2>1, <2>6, <2>7, <2>9 DEF R
    <3>2. Cardinality(R \ {None, i}) = b
      BY <2>7
    <3> HIDE DEF a, b, x, y
    <3>3. b >= y
      BY <3>1
    <3> QED BY <3>2, <3>3 DEF y
  <2> QED BY <1>E, <2>2, <2>5, <2>10
<1>1. ASSUME ReuseRegister PROVE result' # Failed /\ RoomFits(stack', m_exprs')
  <2>1. stack # <<>> /\ stack' = Callers /\ result' = First(Holding(Top.expr))
        /\ Holding(Top.expr) # {} /\ UNCHANGED <<m_exprs, m_aggs>>
    BY <1>1 DEF ReuseRegister, exprVars
  <2>2. result' \in Holding(Top.expr)
    BY <2>1, FirstOf DEF Holding
  <2>3. result' \in Regs
    BY <2>2 DEF Holding
  <2> QED BY <1>R, <2>1, <2>3
<1>2. ASSUME CompileLeaf PROVE result' # Failed /\ RoomFits(stack', m_exprs')
  <2>1. stack # <<>> /\ stack' = Callers /\ UNCHANGED <<m_exprs, m_aggs>> /\ Top.pc = "enter"
    BY <1>2 DEF CompileLeaf, exprVars
  <2>2. CanSeizeAny
    <3> DEFINE R == RoomOf(Callers, Len(Callers) + 1)
    <3>1. Cardinality(R) >= m_exprs[Top.expr].est_regs /\ m_exprs[Top.expr].est_regs \in Nat \ {0}
      BY <1>F, <1>T, <2>1, RoomOfTop, TopFacts, EstFacts
    <3> HIDE DEF R
    <3>2. R # {}
      <4>1. ~(0 >= m_exprs[Top.expr].est_regs)
        BY <3>1
      <4> QED BY <3>1, <4>1, FS_EmptySet
    <3>3. PICK i \in R : TRUE
      BY <3>2
    <3>4. i \in Regs /\ Top.dest = None /\ Top.src = None /\ i \in RoomOf(Callers, Len(Callers) + 1)
      BY <2>1, RoomFacts, StageFacts DEF R
    <3>5. i \in Unlocked
      BY <1>F, <2>1, <3>4, RegsFacts, RoomIsUnlocked
    <3> QED BY <3>5 DEF CanSeizeAny
  <2>3. result' \in Regs
    BY <1>2, <2>2, LeafRunnable DEF CompileLeaf
  <2> QED BY <1>R, <2>1, <2>3
<1>3. ASSUME CompileFirstOperand PROVE result' # Failed /\ RoomFits(stack', m_exprs')
  <2> DEFINE f == [Top EXCEPT !.first = Top.expr \notin has_been_compiled, !.pc = "first"]
             e == IF LeftFirst(Top.expr) THEN Left(Top.expr) ELSE Right(Top.expr)
  <2>1. stack # <<>> /\ Enter(f, e) /\ result' = result /\ UNCHANGED <<m_exprs, m_aggs>>
        /\ Operation(Top.expr) \in ArithOps /\ Top.dest = None /\ Top.src = None
    BY <1>3, StageFacts DEF CompileFirstOperand, exprVars
  <2>2. f \in Frame /\ f.expr = Top.expr /\ {f.dest, f.src} = {None, None}
    BY TopFacts, <2>1 DEF Frame
  <2>3. e \in Handles /\ (e = Left(Top.expr) \/ e = Right(Top.expr))
    BY <2>1, TopFacts, OperandFacts DEF Shape, Types
  <2> HIDE DEF f, e
  <2> QED BY <1>E, <1>F, <2>1, <2>2, <2>3
<1>4. ASSUME LockSameOperand PROVE result' # Failed /\ RoomFits(stack', m_exprs')
  <2> DEFINE f == [Top EXCEPT !.dest = result, !.src = result, !.pc = "save"]
  <2>1. stack # <<>> /\ Replace(f) /\ result' = None /\ UNCHANGED <<m_exprs, m_aggs>>
        /\ result \in Regs
    BY <1>4 DEF LockSameOperand, exprVars
  <2>2. f \in Frame /\ f.expr = Top.expr
    BY TopFacts, <2>1 DEF Frame
  <2> HIDE DEF f
  <2> QED BY <1>P, <2>1, <2>2, RegsFacts
<1>5. ASSUME LockFirstOperand PROVE result' # Failed /\ RoomFits(stack', m_exprs')
  <2> DEFINE f == IF LeftFirst(Top.expr) THEN [Top EXCEPT !.dest = result, !.pc = "second"]
                                         ELSE [Top EXCEPT !.src = result, !.pc = "second"]
             e == IF LeftFirst(Top.expr) THEN Right(Top.expr) ELSE Left(Top.expr)
  <2>1. stack # <<>> /\ result \in Regs /\ Enter(f, e) /\ result' = None
        /\ UNCHANGED <<m_exprs, m_aggs>> /\ Left(Top.expr) # Right(Top.expr)
        /\ Operation(Top.expr) \in ArithOps /\ Top.dest = None /\ Top.src = None
    BY <1>5, StageFacts DEF LockFirstOperand, exprVars
  <2>2. f \in Frame /\ f.expr = Top.expr /\ {f.dest, f.src} = {None, result}
    BY TopFacts, <2>1 DEF Frame
  <2>3. e \in Handles /\ (e = Left(Top.expr) \/ e = Right(Top.expr))
        /\ e = IF LeftFirst(Top.expr) THEN Right(Top.expr) ELSE Left(Top.expr)
    BY <2>1, TopFacts, OperandFacts DEF Shape, Types
  <2> HIDE DEF f, e
  <2> QED BY <1>E, <1>F, <2>1, <2>2, <2>3, RegsFacts
<1>6. ASSUME LockSecondOperand PROVE result' # Failed /\ RoomFits(stack', m_exprs')
  <2> DEFINE f == IF LeftFirst(Top.expr) THEN [Top EXCEPT !.src = result, !.pc = "save"]
                                         ELSE [Top EXCEPT !.dest = result, !.pc = "save"]
  <2>1. stack # <<>> /\ result \in Regs /\ Replace(f) /\ result' = None
        /\ UNCHANGED <<m_exprs, m_aggs>>
    BY <1>6 DEF LockSecondOperand, exprVars
  <2>2. f \in Frame /\ f.expr = Top.expr
    BY TopFacts, <2>1 DEF Frame
  <2> HIDE DEF f
  <2> QED BY <1>P, <2>1, <2>2, RegsFacts
<1>7. ASSUME SaveLeft PROVE result' # Failed /\ RoomFits(stack', m_exprs')
  <2> DEFINE f == [Top EXCEPT !.pc = "dest"]
  <2>1. stack # <<>> /\ Replace(f) /\ result' = result /\ UNCHANGED <<m_exprs, m_aggs>>
    BY <1>7 DEF SaveLeft, exprVars
  <2>2. f \in Frame /\ f.expr = Top.expr
    BY TopFacts, <2>1 DEF Frame
  <2> HIDE DEF f
  <2> QED BY <1>F, <1>P, <2>1, <2>2
<1>8. ASSUME ChooseDestination PROVE result' # Failed /\ RoomFits(stack', m_exprs')
  <2>0. stack # <<>> /\ Top.pc = "dest" /\ UNCHANGED <<m_exprs, m_aggs>>
    BY <1>8 DEF ChooseDestination, exprVars
  <2>1. Top.dest \in Regs /\ Top.src \in Regs /\ Operation(Top.expr) \in ArithOps
        /\ Top.expr \in Handles
        /\ (Left(Top.expr) = Right(Top.expr) => Top.dest = Top.src)
    <3>1. CallFits(Top, m_exprs, has_been_compiled)
      BY <2>0, TopFacts
    <3> QED BY <2>0, <3>1, BothOperands, StageFacts, TopFacts DEF CallFits, Left, Right
  <2>2. ASSUME Replace([Top EXCEPT !.pc = "emit"]), result' = result
        PROVE  result' # Failed /\ RoomFits(stack', m_exprs')
    <3> DEFINE f == [Top EXCEPT !.pc = "emit"]
    <3>1. Replace(f)
      BY <2>2
    <3>2. f \in Frame /\ f.expr = Top.expr
      BY TopFacts, <2>0 DEF Frame
    <3> HIDE DEF f
    <3> QED BY <1>F, <1>P, <2>0, <2>2, <3>1, <3>2
  <2>3. ASSUME NEW d \in Regs, MoveDestination(d)
        PROVE  result' # Failed /\ RoomFits(stack', m_exprs')
    <3> DEFINE f == [Top EXCEPT !.dest = d, !.pc = "emit"]
    <3>1. Replace(f) /\ result' = result
      BY <2>3 DEF MoveDestination
    <3>2. f \in Frame /\ f.expr = Top.expr
      BY TopFacts, <2>0 DEF Frame
    <3> HIDE DEF f
    <3> QED BY <1>F, <1>P, <2>0, <3>1, <3>2
  <2>4. ASSUME FreeCopies # {} PROVE First(FreeCopies) \in Regs
    <3>1. First(FreeCopies) \in FreeCopies
      BY <2>4, FirstOf DEF FreeCopies, Holding
    <3> QED BY <3>1 DEF FreeCopies, Holding
  <2>5. ASSUME CanSeizeAny PROVE Cheapest \in Regs
    BY <2>5, CheapestFacts DEF Shape, CanSeizeAny
  <2>6. DestinationShared => CanSeizeAny
    <3> DEFINE R == RoomOf(Callers, Len(Callers) + 1)
    <3> SUFFICES ASSUME DestinationShared PROVE Unlocked # {}
      BY DEF CanSeizeAny
    <3>1. Cardinality(R) >= m_exprs[Top.expr].est_regs /\ m_exprs[Top.expr].est_regs \in Nat \ {0}
          /\ (Left(Top.expr) # Right(Top.expr) => m_exprs[Top.expr].est_regs >= 2)
      BY <1>F, <1>T, <2>0, <2>1, RoomOfTop, EstFacts
    <3>2. Top.dest \notin R
      BY <1>F, <2>0, <2>1, SharedIsNotRoom
    <3>3. R \ {Top.src} # {}
      <4>1. Cardinality(R) \in Nat /\ Cardinality(R \ {Top.src}) \in Nat
            /\ Cardinality(R \ {Top.src}) >= Cardinality(R) - 1
        BY RoomFacts
      <4> HIDE DEF R
      <4>2. CASE Left(Top.expr) = Right(Top.expr)
        <5>1. Top.src \notin R
          BY <2>1, <3>2, <4>2
        <5>2. R \ {Top.src} = R
          BY <5>1
        <5> QED BY <3>1, <5>2, FS_EmptySet
      <4>3. CASE Left(Top.expr) # Right(Top.expr)
        <5>1. Cardinality(R \ {Top.src}) # 0
          BY <3>1, <4>1, <4>3
        <5> QED BY <5>1, FS_EmptySet
      <4> QED BY <4>2, <4>3
    <3>4. PICK i \in R \ {Top.src} : TRUE
      BY <3>3
    <3>5. i \in R /\ i # Top.src /\ i # Top.dest
      BY <3>2, <3>4
    <3>6. i \in Unlocked
      BY <1>F, <2>0, <3>5, RoomIsUnlocked
    <3> QED BY <3>6
  <2> QED BY <1>8, <2>2, <2>3, <2>4, <2>5, <2>6 DEF ChooseDestination
<1>9. ASSUME Emit PROVE result' # Failed /\ RoomFits(stack', m_exprs')
  <2>1. stack # <<>> /\ stack' = Callers /\ UNCHANGED <<m_exprs, m_aggs>> /\ Top.pc = "emit"
        /\ result' = Top.dest
    BY <1>9 DEF Emit, exprVars
  <2> QED BY <1>R, <2>1, BothOperands
<1>10. ASSUME ReturnFailure PROVE result' # Failed /\ RoomFits(stack', m_exprs')
  BY <1>10, <1>F DEF ReturnFailure, exprVars
<1>11. ASSUME CompileAggregate PROVE result' # Failed /\ RoomFits(stack', m_exprs')
  <2> DEFINE c == Call(m_aggs[next_agg].expr)
  <2>1. result' = result /\ stack' = <<c>> /\ UNCHANGED <<m_exprs, m_aggs>>
        /\ next_agg \in 1 .. Len(m_aggs)
    BY <1>11, AggFacts DEF CompileAggregate, exprVars, Shape, Phases, Types
  <2>2. c.expr = m_aggs[next_agg].expr
    BY DEF Call
  <2> HIDE DEF c
  <2>3. Len(stack') = 1 /\ stack'[1] = c
    BY <2>1
  <2>4. RoomOf(stack', 1) = Regs
    BY DEF RoomOf
  <2>5. Cardinality(Regs) = REGS
    BY RegsFacts, FS_Interval DEF Regs
  <2>6. m_exprs[m_aggs[next_agg].expr].est_regs <= REGS
    BY <1>F, <2>1 DEF FitsRegs
  <2>7. m_exprs[m_aggs[next_agg].expr].est_regs \in Nat
    BY <1>T, <2>1, AggFacts, EstFacts
  <2>8. RoomFits(stack', m_exprs)
    BY <2>2, <2>3, <2>4, <2>5, <2>6, <2>7, RegsFacts DEF RoomFits
  <2> QED BY <1>F, <2>1, <2>8
<1>12. ASSUME PushAggregate PROVE result' # Failed /\ RoomFits(stack', m_exprs')
  BY <1>12, <1>F, RegsFacts DEF PushAggregate, exprVars
<1>13. ASSUME FailCompile \/ FinishCompile PROVE result' # Failed /\ RoomFits(stack', m_exprs')
  BY <1>13, <1>F DEF FailCompile, FinishCompile, compVars
<1>15. ASSUME BeginCompile PROVE result' # Failed /\ RoomFits(stack', m_exprs')
  BY <1>15, <1>F DEF BeginCompile
<1>16. ASSUME Program PROVE result' # Failed /\ RoomFits(stack', m_exprs')
  <2>1. UNCHANGED compVars /\ (next_agg > 0 => UNCHANGED <<m_exprs, m_aggs>>)
    BY <1>16, ProgramSteps
  <2>2. CASE next_agg > 0
    BY <1>F, <2>1, <2>2 DEF compVars
  <2>3. CASE next_agg = 0
    <3>1. stack' = <<>> /\ result' = None /\ Len(stack') = 0
      BY <2>1, <2>3 DEF compVars, Shape, Phases, Untouched
    <3> QED BY <3>1, RegsFacts DEF RoomFits
  <2> QED BY <2>2, <2>3 DEF Shape, Types
<1>17. ASSUME UNCHANGED vars PROVE result' # Failed /\ RoomFits(stack', m_exprs')
  BY <1>17, <1>F DEF vars, exprVars, compVars
<1> QED
  BY <1>1, <1>2, <1>3, <1>4, <1>5, <1>6, <1>7, <1>8, <1>9, <1>10, <1>11, <1>12, <1>13, <1>15,
     <1>16, <1>17
  DEF CompNext, CompileStep

\* There is room for every active call if there was for the aggregates.
LEMMA RoomInvariant == CompSpec => []RoomLeft
<1>1. CompInit => RoomLeft
  <2> SUFFICES ASSUME CompInit PROVE RoomLeft
    OBVIOUS
  <2>1. Len(stack) = 0 /\ result = None
    BY DEF CompInit
  <2> QED BY <2>1, RegsFacts DEF RoomLeft, RoomFits
<1>2. Shape /\ Locks /\ Tables /\ SameOperandEst /\ RoomLeft /\ [CompNext]_vars => RoomLeft'
  BY NextKeepsRoom
<1> QED
  BY <1>1, <1>2, ShapeInvariant, LocksInvariant, TablesInvariant, SameOperandInvariant, PTL
     DEF CompSpec

\* compile() fails only if some aggregate's expression was estimated to need
\* more registers than there are.
THEOREM FailsAlwaysBeyondEstimate == CompSpec => []FailsOnlyBeyondEstimate
<1>1. Shape /\ RoomLeft => FailsOnlyBeyondEstimate
  <2> SUFFICES ASSUME Shape, RoomLeft, m_status = "FAILED", next_agg > 0
               PROVE  \E i \in 1 .. Len(m_aggs) : m_exprs[m_aggs[i].expr].est_regs > REGS
    BY DEF FailsOnlyBeyondEstimate
  <2>1. ~FitsRegs
    BY DEF Shape, Phases, RoomLeft
  <2>2. PICK i \in 1 .. Len(m_aggs) : ~(m_exprs[m_aggs[i].expr].est_regs <= REGS)
    BY <2>1 DEF FitsRegs
  <2>3. m_exprs[m_aggs[i].expr].est_regs \in Nat
    <3>1. m_aggs[i].expr \in Handles
      BY AggFacts DEF Shape, Types
    <3>2. m_exprs[m_aggs[i].expr] \in Node
      BY <3>1, HandlesFacts DEF Shape, Types
    <3> QED BY <3>2 DEF Node
  <2> QED BY <2>2, <2>3, RegsFacts
<1> QED
  BY <1>1, ShapeInvariant, RoomInvariant, PTL

-----------------------------------------------------------------------------
(* Copies of a value, and what is overwritten.                               *)

\* No value is in two registers, unless one of them is d.
Alone(regs, d) ==
  \A i, j \in Regs : i # j /\ regs[i] = regs[j] => regs[i] = NULL \/ d \in {i, j}

\* The value of a call that has begun is in no register.
Absent(s, regs) ==
  \A n \in 1 .. Len(s) : s[n].pc # "enter" => \A i \in Regs : regs[i] # s[n].expr

\* The register that is about to be overwritten, whose value may have been
\* copied already.
Doomed == IF stack # <<>> /\ Top.pc \in {"dest", "emit"} THEN Top.dest ELSE None

\* The layer of the inductive invariant about copies: a value is in two
\* registers only when one of them is about to be overwritten.
Copies ==
  m_status = "COMPILING" =>
    /\ Alone(r, Doomed)
    /\ Absent(stack, r)
    /\ stack # <<>> /\ Top.pc = "dest" =>
         \A i \in Regs \ {Top.dest} : r[i] = r[Top.dest] => m_locked[i] = 0

\* With a register for every expression compile() does not fail, compiles
\* everything at most once, and keeps what will be used again.
Lossless ==
  REGS >= Len(m_exprs) /\ m_status = "COMPILING" =>
    /\ result # Failed
    /\ \A n \in 1 .. Len(stack) : stack[n].pc # "enter" => stack[n].first
    /\ \A e \in Done : usage[e] > program_usage[e] => \E i \in Regs : r[i] = e
    /\ stack # <<>> /\ Top.pc \in {"dest", "emit"} /\ LeftNeededLater =>
         \E i \in Regs \ {Top.dest} : r[i] = Left(Top.expr)

\* A new value in register c is in no other.
LEMMA AloneFresh ==
  ASSUME NEW regs, NEW new, NEW c \in Regs, NEW d \in {None, c}, Alone(regs, d),
         \A i \in Regs \ {c} : regs[i] # new[c] /\ new[i] = regs[i]
  PROVE  Alone(new, None)
<1> SUFFICES ASSUME NEW i \in Regs, NEW j \in Regs, i # j, new[i] = new[j]
             PROVE  new[i] = NULL
  BY DEF Alone
<1>1. i # c /\ j # c
  OBVIOUS
<1>2. d \notin {i, j}
  BY <1>1, RegsFacts
<1>3. regs[i] = regs[j] /\ new[i] = regs[i]
  BY <1>1
<1> QED BY <1>2, <1>3 DEF Alone

\* A copy in register c of the value in d is the only one.
LEMMA AloneCopied ==
  ASSUME NEW regs, NEW new, NEW c \in Regs, NEW d \in Regs, c # d, Alone(regs, None),
         new[c] = regs[d], \A i \in Regs \ {c} : new[i] = regs[i]
  PROVE  Alone(new, d) /\ Alone(new, c)
<1>1. ASSUME NEW i \in Regs, NEW j \in Regs, i # j, regs[i] = regs[j] PROVE regs[i] = NULL
  BY <1>1, RegsFacts DEF Alone
<1>2. ASSUME NEW i \in Regs, NEW j \in Regs, i # j, new[i] = new[j]
      PROVE  new[i] = NULL \/ {i, j} = {c, d}
  <2>1. CASE i # c /\ j # c
    BY <1>1, <1>2, <2>1
  <2>2. CASE i = c
    <3>1. j # c /\ regs[j] = regs[d] /\ new[i] = regs[d]
      BY <1>2, <2>2
    <3>2. CASE j = d
      BY <2>2, <3>2
    <3>3. CASE j # d
      BY <1>1, <3>1, <3>3
    <3> QED BY <3>2, <3>3
  <2>3. CASE j = c
    <3>1. i # c /\ regs[i] = regs[d] /\ new[i] = regs[d]
      BY <1>2, <2>3
    <3>2. CASE i = d
      BY <2>3, <3>2
    <3>3. CASE i # d
      BY <1>1, <3>1, <3>3
    <3> QED BY <3>2, <3>3
  <2> QED BY <2>1, <2>2, <2>3
<1> QED BY <1>2 DEF Alone

\* Which of two registers with one value is the exception makes no difference.
LEMMA AloneSwapped ==
  ASSUME NEW regs, NEW c \in Regs, NEW d \in Regs, c # d, Alone(regs, d), regs[c] = regs[d]
  PROVE  Alone(regs, c)
<1> SUFFICES ASSUME NEW i \in Regs, NEW j \in Regs, i # j, regs[i] = regs[j], regs[i] # NULL
             PROVE  c \in {i, j}
  BY DEF Alone
<1>1. d \in {i, j}
  BY DEF Alone
<1> SUFFICES ASSUME c \notin {i, j} PROVE FALSE
  OBVIOUS
<1>2. PICK k \in {i, j} : k # d
  OBVIOUS
<1>3. k \in Regs /\ k # c /\ regs[k] = regs[c] /\ regs[k] # NULL
  BY <1>1, <1>2
<1>4. d \notin {k, c}
  BY <1>2
<1> QED BY <1>3, <1>4 DEF Alone

\* Writing the value of an older expression brings no active call's value back.
LEMMA AbsentAfterWrite ==
  ASSUME NEW s, NEW regs, NEW new, NEW c, Absent(s, regs),
         \A i \in Regs \ {c} : new[i] = regs[i],
         \A n \in 1 .. Len(s) : s[n].pc # "enter" => new[c] # s[n].expr
  PROVE  Absent(s, new)
BY DEF Absent

\* Absent, call by call.
LEMMA AbsentAppend ==
  ASSUME NEW s \in Seq(Frame), NEW f \in Frame, NEW regs
  PROVE  Absent(Append(s, f), regs)
           <=> Absent(s, regs) /\ (f.pc # "enter" => \A i \in Regs : regs[i] # f.expr)
<1>1. /\ Len(s) \in Nat /\ Len(Append(s, f)) = Len(s) + 1 /\ Append(s, f)[Len(s) + 1] = f
      /\ \A n \in 1 .. Len(s) : Append(s, f)[n] = s[n]
  BY AppendProperties
<1>2. \A n : n \in 1 .. (Len(s) + 1) <=> n \in 1 .. Len(s) \/ n = Len(s) + 1
  BY <1>1
<1> DEFINE Out(f1) == f1.pc # "enter" => \A i \in Regs : regs[i] # f1.expr
<1>3. \A q : Absent(q, regs) <=> \A n \in 1 .. Len(q) : Out(q[n])
  BY DEF Absent
<1>4. (f.pc # "enter" => \A i \in Regs : regs[i] # f.expr) <=> Out(f)
  OBVIOUS
<1> HIDE DEF Out
<1> QED BY <1>1, <1>2, <1>3, <1>4

\* The callers of the call on top compile younger expressions.
LEMMA CallersAreYounger ==
  ASSUME Shape, stack # <<>>, NEW n \in 1 .. Len(Callers)
  PROVE  Top.expr < Callers[n].expr
<1>1. Len(stack) \in Nat \ {0} /\ Len(Callers) = Len(stack) - 1 /\ Callers[n] = stack[n]
  BY CallersFacts DEF Shape, Types
<1>2. Len(stack) \in 1 .. Len(stack) /\ n \in 1 .. (Len(stack) - 1)
  BY <1>1
<1> QED BY <1>1, <1>2, StackDescends DEF Top

\* The steps of compile() make one copy at a time, of the value that is about
\* to be overwritten, and put no value into a register that is in one already.
LEMMA NextKeepsCopies ==
  Shape /\ Shape' /\ Locks /\ Tables /\ Values /\ Copies /\ [CompNext]_vars => Copies'
<1> SUFFICES ASSUME Shape, Shape', Locks, Tables, Values, Copies, [CompNext]_vars PROVE Copies'
  OBVIOUS
<1> USE DEF At, Return, Idle, NoPush
<1>0. m_status = "COMPILING" =>
        /\ Alone(r, Doomed) /\ Absent(stack, r)
        /\ stack # <<>> /\ Top.pc = "dest" =>
             \A i \in Regs \ {Top.dest} : r[i] = r[Top.dest] => m_locked[i] = 0
  BY DEF Copies
<1>C. ASSUME stack # <<>>, NEW regs
      PROVE  /\ Absent(stack, regs) <=>
                  Absent(Callers, regs) /\ (Top.pc # "enter" => \A i \in Regs : regs[i] # Top.expr)
             /\ Callers \in Seq(Frame) /\ Top \in Frame
  <2>1. Callers \in Seq(Frame) /\ Top \in Frame /\ stack = Append(Callers, Top)
    BY <1>C, CallersFacts DEF Shape, Types
  <2>2. Absent(Append(Callers, Top), regs) <=>
          Absent(Callers, regs) /\ (Top.pc # "enter" => \A i \in Regs : regs[i] # Top.expr)
    BY <2>1, AbsentAppend
  <2> QED BY <2>1, <2>2
\* A call returns, after a push or without one.
<1>R. ASSUME stack # <<>>, stack' = Callers, result' # None, Alone(r', None), Absent(Callers, r')
      PROVE  Copies'
  <2>1. stack' # <<>> => Top'.pc \notin {"dest", "emit"}
    BY <1>R DEF Shape, Calls
  <2>2. Doomed' = None
    BY <2>1 DEF Doomed
  <2> QED BY <1>R, <2>1, <2>2 DEF Copies
\* A call goes on, after a push or without one.
<1>P. ASSUME stack # <<>>, NEW f \in Frame, Replace(f), Absent(Callers, r'),
             \A i \in Regs : r'[i] # f.expr,
             Alone(r', IF f.pc \in {"dest", "emit"} THEN f.dest ELSE None),
             f.pc = "dest" => \A i \in Regs \ {f.dest} : r'[i] = r'[f.dest] => m_locked'[i] = 0
      PROVE  Copies'
  <2>1. stack' = Append(Callers, f) /\ Callers \in Seq(Frame)
    BY <1>C, <1>P DEF Replace
  <2>2. Absent(stack', r')
    BY <1>P, <2>1, AbsentAppend
  <2>3. Top' = f /\ stack' # <<>>
    BY <2>1, AppendProperties, EmptySeq DEF Top
  <2>4. Doomed' = IF f.pc \in {"dest", "emit"} THEN f.dest ELSE None
    BY <2>3 DEF Doomed
  <2> QED BY <1>P, <2>2, <2>3, <2>4 DEF Copies
\* A call calls another; nothing is pushed.
<1>E. ASSUME stack # <<>>, NEW f \in Frame, NEW e \in Handles, Enter(f, e), r' = r,
             Absent(Callers, r), \A i \in Regs : r[i] # f.expr, Alone(r, None)
      PROVE  Copies'
  <2> DEFINE s == Append(Callers, f)
  <2>0. Call(e) \in Frame /\ Call(e).pc = "enter"
    BY DEF Call, Frame
  <2>1. stack' = Append(s, Call(e)) /\ Callers \in Seq(Frame)
    BY <1>C, <1>E DEF Enter
  <2>2. s \in Seq(Frame)
    BY <2>1, AppendProperties
  <2>3. Absent(s, r)
    BY <1>E, <2>1, AbsentAppend
  <2> HIDE DEF s
  <2>4. Absent(stack', r')
    BY <1>E, <2>0, <2>1, <2>2, <2>3, AbsentAppend
  <2>5. Top' = Call(e)
    BY <2>0, <2>1, <2>2, AppendProperties DEF Top
  <2>6. Doomed' = None
    BY <2>0, <2>5 DEF Doomed
  <2> QED BY <1>E, <2>0, <2>4, <2>5, <2>6 DEF Copies
\* Writing a value no newer than the call's own is invisible to the callers.
<1>W. ASSUME stack # <<>>, NEW c, \A i \in Regs \ {c} : r'[i] = r[i], r'[c] \in Nat,
             r'[c] <= Top.expr,
             Absent(stack, r)
      PROVE  Absent(Callers, r')
  <2>1. Absent(Callers, r) /\ Callers \in Seq(Frame) /\ Top.expr \in Nat
    BY <1>C, <1>W, TopFacts, HandlesFacts DEF Shape, Types
  <2>2. \A n \in 1 .. Len(Callers) : r'[c] # Callers[n].expr
    <3> SUFFICES ASSUME NEW n \in 1 .. Len(Callers) PROVE r'[c] # Callers[n].expr
      OBVIOUS
    <3>1. Top.expr < Callers[n].expr
      BY <1>W, CallersAreYounger
    <3>2. Callers[n].expr \in Nat
      <4>1. Callers[n] \in Frame
        BY <2>1
      <4> QED BY <4>1, HandlesFacts DEF Frame, Shape, Types
    <3> QED BY <1>W, <2>1, <3>1, <3>2
  <2>3. \A n \in 1 .. Len(Callers) : Callers[n].pc # "enter" => r'[c] # Callers[n].expr
    BY <2>2
  <2>4. Absent(Callers, r) /\ \A i \in Regs \ {c} : r'[i] = r[i]
    BY <1>W, <2>1
  <2> HIDE <1>W
  <2> QED BY <2>3, <2>4, AbsentAfterWrite
<1>1. ASSUME ReuseRegister PROVE Copies'
  <2>1. stack # <<>> /\ m_status = "COMPILING" /\ stack' = Callers
        /\ result' = First(Holding(Top.expr))
        /\ Holding(Top.expr) # {} /\ r' = r /\ Top.pc = "enter"
    BY <1>1 DEF ReuseRegister, exprVars
  <2>2. result' \in Regs
    BY <2>1, FirstOf DEF Holding
  <2>3. Alone(r', None)
    BY <1>0, <2>1 DEF Doomed
  <2> QED BY <1>0, <1>C, <1>R, <2>1, <2>2, <2>3, RegsFacts
<1>2. ASSUME CompileLeaf PROVE Copies'
  <2>1. stack # <<>> /\ m_status = "COMPILING" /\ stack' = Callers /\ Holding(Top.expr) = {}
        /\ Operation(Top.expr) \in {"Load", "LoadConstantInt"} /\ Top.pc = "enter"
    BY <1>2 DEF CompileLeaf, exprVars
  <2>0. Alone(r, None) /\ Absent(Callers, r)
    BY <1>0, <1>C, <2>1 DEF Doomed
  <2>2. CASE CanSeizeAny
    <3>1. pushInstr(LeafInstr, Top.expr \notin has_been_compiled) /\ result' = Cheapest
      BY <1>2, <2>2 DEF CompileLeaf, LeafInstr
    <3>2. LeafInstr \in Runnable /\ Cheapest \in Regs /\ IsLoad(LeafInstr)
          /\ LeafInstr.dest = Cheapest
      BY <1>2, <2>2, LeafRunnable DEF LeafInstr, Instr
    <3>3. ~IsAgg(LeafInstr)
      BY <3>2 DEF IsLoad, IsAgg, AggFunctions
    <3>4. r'[Cheapest] = Top.expr /\ \A i \in Regs \ {Cheapest} : r'[i] = r[i]
      BY <2>1, <3>1, <3>2, <3>3, PushWrites, LeafComputes DEF Tables
    <3>5. \A i \in Regs : r[i] # Top.expr
      BY <2>1 DEF Holding
    <3>6. Alone(r', None)
      BY <2>0, <3>2, <3>4, <3>5, AloneFresh
    <3>7. Top.expr \in Nat
      BY <2>1, TopFacts, HandlesFacts DEF Shape, Types
    <3>8. Absent(Callers, r')
      BY <1>0, <1>W, <2>1, <3>4, <3>7
    <3> QED BY <1>R, <2>1, <3>1, <3>2, <3>6, <3>8, RegsFacts
  <2>3. CASE ~CanSeizeAny
    <3>1. r' = r /\ result' = Failed
      BY <1>2, <2>3 DEF CompileLeaf
    <3> QED BY <1>R, <2>0, <2>1, <3>1, RegsFacts
  <2> QED BY <2>2, <2>3
<1>3. ASSUME CompileFirstOperand PROVE Copies'
  <2> DEFINE f == [Top EXCEPT !.first = Top.expr \notin has_been_compiled, !.pc = "first"]
             e == IF LeftFirst(Top.expr) THEN Left(Top.expr) ELSE Right(Top.expr)
  <2>1. stack # <<>> /\ m_status = "COMPILING" /\ Enter(f, e) /\ r' = r /\ Top.pc = "enter"
        /\ Operation(Top.expr) \in ArithOps /\ Holding(Top.expr) = {}
    BY <1>3 DEF CompileFirstOperand
  <2>2. f \in Frame /\ f.expr = Top.expr
    BY TopFacts, <2>1 DEF Frame
  <2>3. e \in Handles
    BY <2>1, TopFacts, OperandFacts DEF Shape, Types
  <2> HIDE DEF f, e
  <2>4. \A i \in Regs : r[i] # f.expr
    BY <2>1, <2>2 DEF Holding
  <2>5. Alone(r, None) /\ Absent(Callers, r)
    BY <1>0, <1>C, <2>1 DEF Doomed
  <2> QED BY <1>E, <2>1, <2>2, <2>3, <2>4, <2>5
<1>4. ASSUME LockSameOperand PROVE Copies'
  <2> DEFINE f == [Top EXCEPT !.dest = result, !.src = result, !.pc = "save"]
  <2>1. stack # <<>> /\ result \in Regs /\ m_status = "COMPILING" /\ Replace(f) /\ r' = r
        /\ Top.pc = "first"
    BY <1>4 DEF LockSameOperand
  <2>2. f \in Frame /\ f.expr = Top.expr /\ f.pc = "save"
    BY TopFacts, <2>1 DEF Frame
  <2> HIDE DEF f
  <2>3. Alone(r, None) /\ Absent(Callers, r) /\ \A i \in Regs : r[i] # Top.expr
    BY <1>0, <1>C, <2>1 DEF Doomed
  <2> QED BY <1>P, <2>1, <2>2, <2>3
<1>5. ASSUME LockFirstOperand PROVE Copies'
  <2> DEFINE f == IF LeftFirst(Top.expr) THEN [Top EXCEPT !.dest = result, !.pc = "second"]
                                         ELSE [Top EXCEPT !.src = result, !.pc = "second"]
             e == IF LeftFirst(Top.expr) THEN Right(Top.expr) ELSE Left(Top.expr)
  <2>1. stack # <<>> /\ result \in Regs /\ m_status = "COMPILING" /\ Enter(f, e) /\ r' = r
        /\ Top.pc = "first"
        /\ Operation(Top.expr) \in ArithOps
    BY <1>5, StageFacts DEF LockFirstOperand
  <2>2. f \in Frame /\ f.expr = Top.expr
    BY TopFacts, <2>1 DEF Frame
  <2>3. e \in Handles
    BY <2>1, TopFacts, OperandFacts DEF Shape, Types
  <2> HIDE DEF f, e
  <2>4. Alone(r, None) /\ Absent(Callers, r) /\ \A i \in Regs : r[i] # Top.expr
    BY <1>0, <1>C, <2>1 DEF Doomed
  <2> QED BY <1>E, <2>1, <2>2, <2>3, <2>4
<1>6. ASSUME LockSecondOperand PROVE Copies'
  <2> DEFINE f == IF LeftFirst(Top.expr) THEN [Top EXCEPT !.src = result, !.pc = "save"]
                                         ELSE [Top EXCEPT !.dest = result, !.pc = "save"]
  <2>1. stack # <<>> /\ result \in Regs /\ m_status = "COMPILING" /\ Replace(f) /\ r' = r
        /\ Top.pc = "second"
    BY <1>6 DEF LockSecondOperand
  <2>2. f \in Frame /\ f.expr = Top.expr /\ f.pc = "save"
    BY TopFacts, <2>1 DEF Frame
  <2> HIDE DEF f
  <2>3. Alone(r, None) /\ Absent(Callers, r) /\ \A i \in Regs : r[i] # Top.expr
    BY <1>0, <1>C, <2>1 DEF Doomed
  <2> QED BY <1>P, <2>1, <2>2, <2>3
\* The left operand is in its register, and is older than the call's expression.
<1>L. ASSUME stack # <<>>, Top.pc \in {"save", "dest", "emit"}
      PROVE  /\ Top.dest \in Regs /\ r[Top.dest] = Left(Top.expr) /\ Left(Top.expr) \in Handles
             /\ Left(Top.expr) \in Nat /\ Left(Top.expr) < Top.expr /\ Top.expr \in Nat
  <2>1. Top.dest \in Regs /\ Operation(Top.expr) \in ArithOps /\ Top.expr \in Handles /\ TypeOK
    BY <1>L, BothOperands, TopFacts DEF Shape, Types
  <2>2. Keeps(Top, r, m_exprs)
    BY <1>L, SurviveCallers DEF Values
  <2>3. r[Top.dest] = Left(Top.expr)
    BY <2>1, <2>2, RegsFacts DEF Keeps, Left
  <2> QED BY <2>1, <2>3, OperandFacts, HandlesFacts
<1>7. ASSUME SaveLeft PROVE Copies'
  <2> DEFINE f == [Top EXCEPT !.pc = "dest"]
             mov == Instr("Mov", Cheapest, Top.dest)
  <2>1. stack # <<>> /\ m_status = "COMPILING" /\ Replace(f) /\ result = None
        /\ m_locked' = m_locked /\ Top.pc = "save"
    BY <1>7, StageFacts DEF SaveLeft
  <2>2. f \in Frame /\ f.dest = Top.dest /\ f.pc = "dest" /\ f.expr = Top.expr
    BY TopFacts, <2>1 DEF Frame
  <2>3. Alone(r, None) /\ Absent(Callers, r) /\ \A i \in Regs : r[i] # Top.expr
    BY <1>0, <1>C, <2>1 DEF Doomed
  <2>9. /\ Top.dest \in Regs /\ r[Top.dest] = Left(Top.expr) /\ Left(Top.expr) \in Handles
        /\ Left(Top.expr) \in Nat /\ Left(Top.expr) < Top.expr /\ Top.expr \in Nat
             /\ Left(Top.expr) # NULL
    BY <1>L, <2>1, HandlesFacts DEF Shape, Types
  <2>4. CASE UNCHANGED <<m_program, r, program_usage>>
    <3>1. \A i \in Regs \ {Top.dest} : r[i] # r[Top.dest]
      BY <2>3, <2>9, RegsFacts DEF Alone
    <3>2. Alone(r, Top.dest)
      BY <2>3, RegsFacts DEF Alone
    <3> HIDE DEF f
    <3> QED BY <1>P, <2>1, <2>2, <2>3, <2>4, <3>1, <3>2
  <2>5. CASE Unlocked # {} /\ pushInstr(mov, Top.first)
    <3>1. Cheapest \in Regs /\ m_locked[Cheapest] = 0
      BY <2>5, CheapestFacts DEF Shape
    <3>2. mov \in Runnable /\ ~IsAgg(mov) /\ mov.dest = Cheapest
          /\ ValueComputed(r, mov) = r[Top.dest]
      BY <2>9, <3>1, MovRunnable, MovComputes
    <3> HIDE DEF mov
    <3>3. r'[Cheapest] = r[Top.dest] /\ \A i \in Regs \ {Cheapest} : r'[i] = r[i]
      BY <2>5, <3>2, PushWrites
    <3>4. Unlocks(Top, Cheapest) = 0
      BY <2>1, <3>1, UnlockedIsFree, RegsFacts
    <3>5. Cheapest # Top.dest
      BY <3>4 DEF Unlocks
    <3>6. Alone(r', Top.dest)
      BY <2>3, <2>9, <3>1, <3>3, <3>5, AloneCopied
    <3>7. Absent(Callers, r')
      BY <1>0, <1>W, <2>1, <2>9, <3>3
    <3>8. \A i \in Regs : r'[i] # Top.expr
      BY <2>3, <2>9, <3>3
    <3>9. \A i \in Regs \ {Top.dest} : r'[i] = r'[Top.dest] => m_locked[i] = 0
      <4> SUFFICES ASSUME NEW i \in Regs \ {Top.dest}, r'[i] = r'[Top.dest], i # Cheapest
                   PROVE  FALSE
        BY <3>1
      <4>1. r[i] = r[Top.dest]
        BY <2>9, <3>3, <3>5
      <4> QED BY <2>3, <2>9, <4>1, RegsFacts DEF Alone
    <3> HIDE DEF f
    <3> QED BY <1>P, <2>1, <2>2, <3>6, <3>7, <3>8, <3>9
  <2> HIDE DEF f
  <2> QED BY <1>7, <2>4, <2>5 DEF SaveLeft, CanSeize
<1>8. ASSUME ChooseDestination PROVE Copies'
  <2> DEFINE mov == Instr("Mov", Cheapest, Top.dest)
  <2>0. stack # <<>> /\ result = None /\ m_status = "COMPILING" /\ Top.pc = "dest"
    BY <1>8, StageFacts DEF ChooseDestination
  <2>1. Alone(r, Top.dest) /\ Absent(Callers, r) /\ \A i \in Regs : r[i] # Top.expr
    BY <1>0, <1>C, <2>0 DEF Doomed
  <2>2. /\ Top.dest \in Regs /\ r[Top.dest] = Left(Top.expr) /\ Left(Top.expr) \in Handles
        /\ Left(Top.expr) \in Nat /\ Left(Top.expr) < Top.expr /\ Top.expr \in Nat
             /\ Left(Top.expr) # NULL
    BY <1>L, <2>0, HandlesFacts DEF Shape, Types
  <2>3. \A i \in Regs \ {Top.dest} : r[i] = r[Top.dest] => i \in FreeCopies
    BY <1>0, <2>0, <2>2 DEF FreeCopies, Holding, Unlocked
  \* Without a free copy there is no copy at all.
  <2>4. FreeCopies = {} => Alone(r, None)
    <3> SUFFICES ASSUME FreeCopies = {}, NEW i \in Regs, NEW j \in Regs, i # j, r[i] = r[j]
                 PROVE  r[i] = NULL
      BY DEF Alone
    <3> SUFFICES ASSUME Top.dest \in {i, j} PROVE FALSE
      BY <2>1 DEF Alone
    <3> QED BY <2>3
  <2>5. ASSUME Replace([Top EXCEPT !.pc = "emit"]), r' = r
        PROVE  Copies'
    <3> DEFINE f == [Top EXCEPT !.pc = "emit"]
    <3>1. Replace(f)
      BY <2>5
    <3>2. f \in Frame /\ f.dest = Top.dest /\ f.expr = Top.expr /\ f.pc = "emit"
      BY TopFacts, <2>0 DEF Frame
    <3> HIDE DEF f
    <3> QED BY <1>P, <2>0, <2>1, <2>5, <3>1, <3>2
  <2>6. ASSUME NEW d \in Regs, MoveDestination(d), Alone(r', d), Absent(Callers, r'),
               \A i \in Regs : r'[i] # Top.expr
        PROVE  Copies'
    <3> DEFINE f == [Top EXCEPT !.dest = d, !.pc = "emit"]
    <3>1. Replace(f)
      BY <2>6 DEF MoveDestination
    <3>2. f \in Frame /\ f.dest = d /\ f.expr = Top.expr /\ f.pc = "emit"
      BY TopFacts, <2>0, <2>6 DEF Frame
    <3> HIDE DEF f
    <3> QED BY <1>P, <2>0, <2>6, <3>1, <3>2
  <2>N. \A d \in Regs : m_locked[d] = 0 => d # Top.dest
    <3> SUFFICES ASSUME NEW d \in Regs, m_locked[d] = 0 PROVE d # Top.dest
      OBVIOUS
    <3>1. Unlocks(Top, d) = 0
      BY <2>0, UnlockedIsFree, RegsFacts
    <3> QED BY <3>1 DEF Unlocks
  <2>7. ASSUME FreeCopies # {}, MoveDestination(First(FreeCopies)), r' = r PROVE Copies'
    <3>1. First(FreeCopies) \in FreeCopies
      BY <2>7, FirstOf DEF FreeCopies, Holding
    <3>2. First(FreeCopies) \in Regs /\ m_locked[First(FreeCopies)] = 0
          /\ r[First(FreeCopies)] = r[Top.dest]
      BY <2>2, <3>1 DEF FreeCopies, Unlocked, Holding
    <3>3. Alone(r, First(FreeCopies))
      BY <2>1, <2>2, <2>N, <3>2, AloneSwapped
    <3> QED BY <2>1, <2>6, <2>7, <3>2, <3>3
  <2>8. ASSUME FreeCopies = {}, CanSeizeAny, MoveDestination(Cheapest), pushInstr(mov, Top.first)
        PROVE  Copies'
    <3>1. Cheapest \in Regs /\ m_locked[Cheapest] = 0
      BY <2>8, CheapestFacts DEF Shape, CanSeizeAny
    <3>2. mov \in Runnable /\ ~IsAgg(mov) /\ mov.dest = Cheapest
          /\ ValueComputed(r, mov) = r[Top.dest]
      BY <2>2, <3>1, MovRunnable, MovComputes
    <3> HIDE DEF mov
    <3>3. r'[Cheapest] = r[Top.dest] /\ \A i \in Regs \ {Cheapest} : r'[i] = r[i]
      BY <2>8, <3>2, PushWrites
    <3>4. Alone(r', Cheapest)
      BY <2>2, <2>4, <2>8, <2>N, <3>1, <3>3, AloneCopied
    <3>5. Absent(Callers, r')
      BY <1>0, <1>W, <2>0, <2>2, <3>3
    <3>6. \A i \in Regs : r'[i] # Top.expr
      BY <2>1, <2>2, <3>3
    <3> QED BY <2>6, <2>8, <3>1, <3>4, <3>5, <3>6
  <2>9. ASSUME FreeCopies = {}, stack' = Callers, result' = Failed, r' = r PROVE Copies'
    BY <1>R, <2>0, <2>1, <2>4, <2>9, RegsFacts
  <2> QED BY <1>8, <2>5, <2>7, <2>8, <2>9 DEF ChooseDestination
<1>9. ASSUME Emit PROVE Copies'
  <2>1. stack # <<>> /\ m_status = "COMPILING" /\ stack' = Callers
        /\ Top.pc = "emit" /\ pushInstr(OpInstr, Top.first) /\ result' = Top.dest
    BY <1>9 DEF Emit, OpInstr
  <2>2. OpInstr \in Runnable /\ ~IsAgg(OpInstr) /\ OpInstr.dest = Top.dest
        /\ ValueComputed(r, OpInstr) = Top.expr
    BY <2>1, OpRunnable, OpComputes DEF Values, Tables
  <2>3. Top.dest \in Regs /\ Top.expr \in Nat
    BY <1>L, <2>1
  <2>4. r'[Top.dest] = Top.expr /\ \A i \in Regs \ {Top.dest} : r'[i] = r[i]
    BY <2>1, <2>2, PushWrites
  <2>5. Alone(r, Top.dest) /\ \A i \in Regs : r[i] # Top.expr
    BY <1>0, <1>C, <2>1 DEF Doomed
  <2>6. Alone(r', None)
    BY <2>3, <2>4, <2>5, AloneFresh
  <2>7. Absent(Callers, r')
    BY <1>0, <1>W, <2>1, <2>3, <2>4
  <2> QED BY <1>R, <2>1, <2>3, <2>6, <2>7, RegsFacts
<1>10. ASSUME ReturnFailure PROVE Copies'
  <2>1. stack # <<>> /\ m_status = "COMPILING" /\ stack' = Callers /\ result = Failed
        /\ result' = Failed /\ r' = r
    BY <1>10 DEF ReturnFailure
  <2>2. Top.pc \notin {"dest", "emit"}
    BY <2>1, StageFacts, RegsFacts
  <2>3. Alone(r, None) /\ Absent(Callers, r)
    BY <1>0, <1>C, <2>1, <2>2 DEF Doomed
  <2> QED BY <1>R, <2>1, <2>3, RegsFacts
<1>S. ASSUME stack = <<>>, m_status = "COMPILING", r' = r,
             Len(stack') = 0 \/ (Len(stack') = 1 /\ stack'[1].pc = "enter")
      PROVE  Copies'
  <2>1. Alone(r, None)
    BY <1>0, <1>S DEF Doomed
  <2>2. stack' # <<>> => Top'.pc = "enter"
    <3>1. stack' \in Seq(Frame')
      BY DEF Shape, Types
    <3>2. stack' # <<>> => Len(stack') = 1
      BY <1>S, <3>1, EmptySeq
    <3>3. ASSUME stack' # <<>> PROVE Len(stack') = 1 /\ stack'[1].pc = "enter"
      BY <1>S, <3>2, <3>3
    <3>4. ASSUME stack' # <<>> PROVE Top'.pc = "enter"
      <4>1. Top' = stack'[Len(stack')]
        BY DEF Top
      <4> QED BY <3>3, <3>4, <4>1
    <3> QED BY <3>4
  <2>3. Absent(stack', r')
    BY <1>S DEF Absent
  <2> QED BY <1>S, <2>1, <2>2, <2>3 DEF Copies, Doomed
<1>11. ASSUME CompileAggregate PROVE Copies'
  <2> DEFINE c == Call(m_aggs[next_agg].expr)
  <2>1. m_status = "COMPILING" /\ stack = <<>> /\ stack' = <<c>> /\ r' = r
    BY <1>11 DEF CompileAggregate
  <2>2. c.pc = "enter"
    BY DEF Call
  <2> HIDE DEF c
  <2>3. Len(stack') = 1 /\ stack'[1] = c
    BY <2>1
  <2> QED BY <1>S, <2>1, <2>2, <2>3
<1>12. ASSUME PushAggregate PROVE Copies'
  <2>1. stack = <<>> /\ stack' = <<>> /\ m_status = "COMPILING" /\ pushInstr(AggInstr, TRUE)
        /\ result \in Regs
    BY <1>12 DEF PushAggregate, AggInstr
  <2>2. r' = r
    BY <2>1, AggRunnable, PushWrites
  <2>3. Len(stack') = 0
    BY <2>1
  <2> QED BY <1>S, <2>1, <2>2, <2>3
<1>13. ASSUME FailCompile \/ FinishCompile PROVE Copies'
  BY <1>13 DEF FailCompile, FinishCompile, Copies
<1>15. ASSUME BeginCompile PROVE Copies'
  <2>1. stack' = <<>> /\ r' = EmptyRegisters /\ Len(stack') = 0
    BY <1>15 DEF BeginCompile, Programming, Shape, Phases, Untouched
  <2> QED BY <2>1 DEF Copies, Absent, Alone, EmptyRegisters
<1>16. ASSUME Program PROVE Copies'
  BY <1>16, ProgramSteps DEF Copies
<1>17. ASSUME UNCHANGED vars PROVE Copies'
  BY <1>17 DEF Copies, vars, exprVars, compVars, Doomed, Top, Absent, Alone
<1> QED
  BY <1>1, <1>2, <1>3, <1>4, <1>5, <1>6, <1>7, <1>8, <1>9, <1>10, <1>11, <1>12, <1>13, <1>15,
     <1>16, <1>17
  DEF CompNext, CompileStep

\* A value is in two registers only while one is about to be overwritten.
LEMMA CopiesInvariant == CompSpec => []Copies
<1>1. CompInit => Copies
  BY DEF CompInit, Init, Copies
<1>2. Shape /\ Shape' /\ Locks /\ Tables /\ Values /\ Copies /\ [CompNext]_vars => Copies'
  BY NextKeepsCopies
<1> QED
  BY <1>1, <1>2, ShapeInvariant, LocksInvariant, TablesInvariant, ValuesInvariant, PTL DEF CompSpec

-----------------------------------------------------------------------------
(* With a register for every expression nothing is lost before its last use. *)

\* While one expression is in no register and no value in two, some register
\* is empty.
LEMMA EmptyRegister ==
  ASSUME Shape, REGS >= Len(m_exprs), Alone(r, None), NEW e \in Handles, \A i \in Regs : r[i] # e
  PROVE  \E i \in Regs : r[i] = NULL
<1> SUFFICES ASSUME \A i \in Regs : r[i] # NULL PROVE FALSE
  OBVIOUS
<1> DEFINE T == Handles \ {e}
<1>1. TypeOK /\ r \in [Regs -> {NULL} \cup Handles]
  BY DEF Shape, Types
<1>2. Handles = 1 .. Len(m_exprs) /\ Len(m_exprs) \in Nat
  BY <1>1, HandlesFacts
<1>3. IsFiniteSet(Handles) /\ Cardinality(Handles) = Len(m_exprs)
  <2>1. IsFiniteSet(1 .. Len(m_exprs))
        /\ Cardinality(1 .. Len(m_exprs)) = IF 1 <= Len(m_exprs) THEN Len(m_exprs) - 1 + 1 ELSE 0
    BY <1>2, FS_Interval
  <2> QED BY <1>2, <2>1
<1>4. IsFiniteSet(T) /\ Cardinality(T) = Len(m_exprs) - 1
  BY <1>3, FS_RemoveElement
<1>5. IsFiniteSet(Regs) /\ Cardinality(Regs) = REGS
  BY RegsFacts, FS_Interval DEF Regs
<1>6. r \in [Regs -> T]
  BY <1>1
<1>7. Cardinality(T) < Cardinality(Regs)
  BY <1>2, <1>4, <1>5, RegsFacts
<1> HIDE DEF T
<1>8. PICK i \in Regs, j \in Regs : i # j /\ r[i] = r[j]
  BY <1>4, <1>5, <1>6, <1>7, FS_PigeonHole
<1> QED BY <1>8, RegsFacts DEF Alone

\* An empty register is not locked.
LEMMA EmptyIsUnlocked ==
  ASSUME Shape, Locks, Values, stack # <<>>, result # Failed, NEW i \in Regs, r[i] = NULL
  PROVE  i \in Unlocked
<1>1. m_locked[i] = Held(stack, i)
  BY TopFacts DEF Locks, LocksAreFrames
<1>2. \A n \in 1 .. Len(stack) : stack[n].dest # i /\ stack[n].src # i
  <2> SUFFICES ASSUME NEW n \in 1 .. Len(stack) PROVE stack[n].dest # i /\ stack[n].src # i
    OBVIOUS
  <2>1. Keeps(stack[n], r, m_exprs) /\ CallFits(stack[n], m_exprs, has_been_compiled)
    BY DEF Values, Survive, Shape, Calls, StackFits
  <2>2. stack[n] \in Frame /\ TypeOK
    BY DEF Shape, Types
  <2>3. stack[n].expr \in Handles
        /\ stack[n].pc \in {"enter", "first", "second", "save", "dest", "emit"}
    BY <2>2 DEF Frame
  <2>4. CASE stack[n].pc = "enter"
    BY <2>1, <2>4, RegsFacts DEF CallFits
  <2>5. CASE stack[n].pc # "enter"
    <3>1. Operation(stack[n].expr) \in ArithOps
      BY <2>1, <2>5 DEF CallFits, Operation
    <3>2. Left(stack[n].expr) # NULL /\ Right(stack[n].expr) # NULL
      BY <2>2, <2>3, <3>1, OperandFacts, HandlesFacts
    <3>3. i # None
      BY RegsFacts
    <3> QED BY <2>1, <3>2, <3>3 DEF Keeps, Left, Right
  <2> QED BY <2>4, <2>5
<1>3. Held(stack, i) = 0
  BY <1>2, NoHoldNoLock
<1> QED BY <1>1, <1>3 DEF Unlocked

\* A value whose loss changes nothing: there is none, it will not be used
\* again, or another register has it.
Expendable(c) ==
  \/ r[c] = NULL
  \/ usage[r[c]] = program_usage[r[c]]
  \/ \E i \in Regs \ {c} : r[i] = r[c]

\* If a register is empty, seize_register takes one with an expendable value.
LEMMA SeizedIsExpendable ==
  ASSUME Shape, Locks, Values, stack # <<>>, result # Failed, \E i \in Regs : r[i] = NULL
  PROVE  /\ Unlocked # {} /\ Cheapest \in Regs /\ Expendable(Cheapest)
         /\ RegisterCost(Cheapest) = 0
<1>1. PICK i \in Regs : r[i] = NULL
  OBVIOUS
<1>2. i \in Unlocked /\ RegisterCost(i) = 0
  BY <1>1, EmptyIsUnlocked DEF RegisterCost
<1>3. Cheapest \in Regs /\ RegisterCost(Cheapest) <= RegisterCost(i)
  BY <1>2, CheapestFacts DEF Shape
<1>4. next_agg > 0 /\ Types /\ TypeOK
  BY TopFacts DEF Shape, Types
<1>5. RegisterCost(Cheapest) \in Nat
  BY <1>3, <1>4, RegisterCostIsNat
<1>6. RegisterCost(Cheapest) = 0
  BY <1>2, <1>3, <1>5
<1>7. Expendable(Cheapest)
  <2> SUFFICES ASSUME r[Cheapest] # NULL, usage[r[Cheapest]] # program_usage[r[Cheapest]]
               PROVE  \E j \in Regs \ {Cheapest} : r[j] = r[Cheapest]
    BY DEF Expendable
  <2>1. r[Cheapest] \in Handles /\ r[Cheapest] \in 0 .. Len(m_exprs)
    BY <1>3, <1>4, HandlesFacts DEF Types
  <2>2. estimated_cost_of_recalculating(r[Cheapest], Cheapest) = 0
    BY <1>6 DEF RegisterCost
  <2> QED BY <1>4, <2>1, <2>2, CostUnfolds
<1> QED BY <1>2, <1>3, <1>6, <1>7

\* The call about to begin is a use of its expression that is not counted yet.
LEMMA RequestIsUse ==
  ASSUME Shape, Tables, Uses, stack # <<>>, result # Failed, Top.pc = "enter",
         \A n \in 1 .. Len(stack) : stack[n].pc # "enter" => stack[n].first
  PROVE  usage[Top.expr] > program_usage[Top.expr]
<1> DEFINE k == Top.expr
<1>0. /\ TypeOK /\ UsageIsReferenceCount /\ Done \subseteq Handles /\ k \in Handles
      /\ next_agg \in 1 .. Len(m_aggs) /\ m_status = "COMPILING" /\ Len(stack) \in Nat \ {0}
  BY TopFacts, DoneFacts DEF Shape, Types, Tables
<1>1. program_usage[k] = UsesOf(m_exprs, m_aggs, Done, next_agg - 1, k)
  BY <1>0 DEF Uses, UsesCounted
<1>2. next_agg - 1 \in 0 .. Len(m_aggs) /\ usage[k] \in Nat
  <2>1. usage \in Seq(Nat) /\ Len(usage) = Len(m_exprs) /\ Handles = 1 .. Len(m_exprs)
    BY <1>0, HandlesFacts DEF TypeOK
  <2>2. Len(m_aggs) \in Nat
    BY <1>0, AggFacts
  <2>3. next_agg - 1 \in 0 .. Len(m_aggs)
    BY <1>0, <2>2
  <2>4. k \in 1 .. Len(usage)
    BY <1>0, <2>1
  <2>5. usage[k] \in Nat
    <3> HIDE DEF k
    <3> QED BY <2>1, <2>4
  <2> QED BY <2>3, <2>5
<1> HIDE DEF k
<1>3. CASE Len(stack) = 1
  <2>1. m_aggs[next_agg].expr = k
    BY <1>3, <1>0 DEF Shape, Calls, Top, k
  <2>2. /\ UsesOf(m_exprs, m_aggs, Done, next_agg - 1, k) \in Nat
        /\ UsesOf(m_exprs, m_aggs, Done, next_agg, k)
             = UsesOf(m_exprs, m_aggs, Done, next_agg - 1, k) + 1
    BY <1>0, <2>1, AggUsesGrow
  <2>3. UsesOf(m_exprs, m_aggs, Done, next_agg, k) <= usage[k]
    BY <1>0, UsesBounded
  <2> QED BY <1>1, <1>2, <2>2, <2>3 DEF k
<1>4. CASE Len(stack) # 1
  <2> DEFINE c == stack[Len(stack) - 1]
             t == c.expr
  <2>1. Len(stack) - 1 \in 1 .. (Len(stack) - 1) /\ Len(stack) - 1 \in 1 .. Len(stack)
        /\ Len(stack) - 1 + 1 = Len(stack)
    <3>1. \A n \in Nat \ {0} : n # 1 => n - 1 \in 1 .. (n - 1) /\ n - 1 \in 1 .. n /\ n - 1 + 1 = n
      OBVIOUS
    <3> QED BY <1>0, <1>4, <3>1
  <2>2. c.pc \in {"first", "second"} /\ k = OperandOf(c, m_exprs) /\ c.first /\ c \in Frame
    <3>1. \A n \in 1 .. (Len(stack) - 1) :
            stack[n].pc \in {"first", "second"} /\ stack[n + 1].expr = OperandOf(stack[n], m_exprs)
      BY DEF Shape, Calls, StackFits
    <3>2. c.pc \in {"first", "second"} /\ stack[Len(stack)].expr = OperandOf(c, m_exprs)
      BY <2>1, <3>1
    <3> QED BY <2>1, <3>2 DEF k, Top, Shape, Types
  <2>3. t \in Handles /\ (Left(t) = k \/ Right(t) = k)
    BY <2>2 DEF Frame, OperandOf, Left, Right
  <2>4. t \notin Done
    <3>1. t \in PendingOf(stack)
      BY <2>1, <2>2 DEF PendingOf
    <3> QED BY <3>1 DEF Done, DoneOf
  <2> HIDE DEF c, t
  <2>5. /\ UsesOf(m_exprs, m_aggs, Done, next_agg - 1, k) \in Nat
        /\ UsesOf(m_exprs, m_aggs, Done \cup {t}, next_agg - 1, k)
             = UsesOf(m_exprs, m_aggs, Done, next_agg - 1, k)
             + (IF Left(t) = k THEN 1 ELSE 0) + (IF Right(t) = k THEN 1 ELSE 0)
    <3>1. TypeOK /\ Done \subseteq Handles /\ t \in Handles /\ next_agg - 1 \in 0 .. Len(m_aggs)
      BY <1>0, <1>2, <2>3
    <3> QED BY <2>4, <3>1, UsesGrow
  <2>6. UsesOf(m_exprs, m_aggs, Done \cup {t}, next_agg - 1, k) <= usage[k]
    <3>1. Done \cup {t} \subseteq Handles /\ k \in Handles
      BY <1>0, <2>3 DEF k
    <3> QED BY <1>0, <1>2, <3>1, UsesBounded
  <2>7. UsesOf(m_exprs, m_aggs, Done \cup {t}, next_agg - 1, k) >= UsesOf(m_exprs, m_aggs, Done,
          next_agg - 1, k) + 1
        /\ UsesOf(m_exprs, m_aggs, Done \cup {t}, next_agg - 1, k) \in Nat
    BY <2>3, <2>5
  <2> QED BY <1>1, <1>2, <2>5, <2>6, <2>7 DEF k
<1> QED BY <1>3, <1>4

\* The expressions of D with uses that are not counted yet are in registers.
Reserved(D, uses, counts, regs) ==
  \A e \in D : uses[e] > counts[e] => \E i \in Regs : regs[i] = e

\* No call compiles something for the second time.
AllFirst(s) == \A n \in 1 .. Len(s) : s[n].pc # "enter" => s[n].first

\* AllFirst, call by call.
LEMMA AllFirstAppend ==
  ASSUME NEW s \in Seq(Frame), NEW f \in Frame
  PROVE  AllFirst(Append(s, f)) <=> AllFirst(s) /\ (f.pc # "enter" => f.first)
<1>1. /\ Len(s) \in Nat /\ Len(Append(s, f)) = Len(s) + 1 /\ Append(s, f)[Len(s) + 1] = f
      /\ \A n \in 1 .. Len(s) : Append(s, f)[n] = s[n]
  BY AppendProperties
<1>2. \A n : n \in 1 .. (Len(s) + 1) <=> n \in 1 .. Len(s) \/ n = Len(s) + 1
  BY <1>1
<1> QED BY <1>1, <1>2 DEF AllFirst

\* Overwriting an expendable value loses nothing that is reserved.
LEMMA ReservedAfterWrite ==
  ASSUME TypeOK, NEW D, D \subseteq Handles, Reserved(D, usage, program_usage, r), NEW c,
         Expendable(c),
         NEW new, \A i \in Regs \ {c} : new[i] = r[i]
  PROVE  Reserved(D, usage, program_usage, new)
<1> SUFFICES ASSUME NEW e \in D, usage[e] > program_usage[e] PROVE \E i \in Regs : new[i] = e
  BY DEF Reserved
<1>1. PICK i \in Regs : r[i] = e
  BY DEF Reserved
<1>2. CASE i # c
  BY <1>1, <1>2
<1>3. CASE i = c
  <2>1. e # NULL
    BY HandlesFacts
  <2>2. usage[e] # program_usage[e]
    <3>1. usage[e] \in Nat
      BY HandlesFacts DEF TypeOK
    <3> SUFFICES ASSUME usage[e] = program_usage[e] PROVE FALSE
      OBVIOUS
    <3> QED BY <3>1
  <2>3. PICK j \in Regs \ {c} : r[j] = r[c]
    BY <1>1, <1>3, <2>1, <2>2 DEF Expendable
  <2> QED BY <1>1, <1>3, <2>3
<1> QED BY <1>2, <1>3

\* The steps of compile() lose nothing that is still needed.
LEMMA NextKeepsLossless ==
  Shape /\ Shape' /\ Locks /\ Tables /\ Values /\ Uses /\ Copies /\ Lossless /\ [CompNext]_vars
      => Lossless'
<1> SUFFICES ASSUME Shape, Shape', Locks, Tables, Values, Uses, Copies, Lossless, [CompNext]_vars,
                    REGS >= Len(m_exprs'), m_status' = "COMPILING"
             PROVE  Lossless'
  BY DEF Lossless
<1> USE DEF At, Return, Idle, NoPush
<1>0. m_status = "COMPILING" /\ m_exprs' = m_exprs =>
        /\ REGS >= Len(m_exprs) /\ result # Failed /\ AllFirst(stack)
        /\ Reserved(Done, usage, program_usage, r)
        /\ stack # <<>> /\ Top.pc \in {"dest", "emit"} /\ LeftNeededLater =>
             \E i \in Regs \ {Top.dest} : r[i] = Left(Top.expr)
  BY DEF Lossless, Reserved, AllFirst
<1>T. TypeOK /\ Done \subseteq Handles
  BY DoneFacts DEF Shape, Types
\* What is known of the call on top.
<1>C. ASSUME stack # <<>>, AllFirst(stack)
      PROVE  /\ AllFirst(Callers) /\ (Top.pc # "enter" => Top.first)
             /\ Callers \in Seq(Frame) /\ Top \in Frame
  <2>1. Callers \in Seq(Frame) /\ Top \in Frame /\ stack = Append(Callers, Top)
    BY <1>C, CallersFacts DEF Shape, Types
  <2>2. AllFirst(Append(Callers, Top)) <=> AllFirst(Callers) /\ (Top.pc # "enter" => Top.first)
    BY <2>1, AllFirstAppend
  <2> QED BY <1>C, <2>1, <2>2
\* A call returns a register.
<1>R. ASSUME stack # <<>>, stack' = Callers, result' \in Regs,
             UNCHANGED <<m_exprs, usage, m_status>>,
             Reserved(Done', usage, program_usage', r')
      PROVE  Lossless'
  <2>1. stack' # <<>> => Top'.pc \notin {"dest", "emit"}
    BY <1>R, RegsFacts DEF Shape, Calls
  <2>2. AllFirst(stack') /\ result' # Failed
    BY <1>0, <1>C, <1>R, RegsFacts
  <2> QED BY <1>R, <2>1, <2>2 DEF Lossless, AllFirst, Reserved
\* A call goes on.
<1>P. ASSUME stack # <<>>, NEW f \in Frame, Replace(f), result' # Failed,
             UNCHANGED <<m_exprs, usage, m_status, has_been_compiled>>,
             f.first = Top.first, f.expr = Top.expr, Top.pc # "enter",
             Reserved(Done, usage, program_usage', r'),
             f.pc \in {"dest", "emit"}
                 /\ usage[Left(Top.expr)] - program_usage'[Left(Top.expr)] > OwnLocks(f) =>
               \E i \in Regs \ {f.dest} : r'[i] = Left(Top.expr)
      PROVE  Lossless'
  <2>1. stack' = Append(Callers, f) /\ Callers \in Seq(Frame) /\ AllFirst(Callers) /\ f.first
    BY <1>0, <1>C, <1>P DEF Replace
  <2>2. AllFirst(stack')
    BY <2>1, AllFirstAppend
  <2>3. Top' = f
    BY <2>1, AppendProperties DEF Top
  <2>4. Done' = Done
    BY <1>P, PendingReplace DEF Done, DoneOf
  <2>5. Left(Top.expr)' = Left(Top.expr)
    BY <1>P, <2>3 DEF Left
  <2>6. LeftNeededLater' <=> usage[Left(Top.expr)] - program_usage'[Left(Top.expr)] > OwnLocks(f)
    BY <1>P, <2>3, <2>5 DEF LeftNeededLater, OwnLocks
  <2> QED BY <1>P, <2>2, <2>3, <2>4, <2>5, <2>6 DEF Lossless, AllFirst, Reserved
\* A call calls another; nothing is pushed.
<1>E. ASSUME stack # <<>>, NEW f \in Frame, NEW e \in Handles, Enter(f, e), result' # Failed,
             UNCHANGED <<m_exprs, usage, m_status, r, program_usage>>, f.first, Done' = Done
      PROVE  Lossless'
  <2> DEFINE s == Append(Callers, f)
  <2>0. Call(e) \in Frame /\ Call(e).pc = "enter"
    BY DEF Call, Frame
  <2>1. stack' = Append(s, Call(e)) /\ Callers \in Seq(Frame) /\ AllFirst(Callers)
    BY <1>0, <1>C, <1>E DEF Enter
  <2>2. s \in Seq(Frame) /\ AllFirst(s)
    BY <1>E, <2>1, AppendProperties, AllFirstAppend
  <2> HIDE DEF s
  <2>3. AllFirst(stack')
    BY <2>0, <2>1, <2>2, AllFirstAppend
  <2>4. Top' = Call(e)
    BY <2>0, <2>1, <2>2, AppendProperties DEF Top
  <2> QED BY <1>0, <1>E, <2>0, <2>3, <2>4 DEF Lossless, AllFirst, Reserved
\* A value that no register holds leaves a register empty.
<1>N. ASSUME stack # <<>>, m_status = "COMPILING", m_exprs' = m_exprs, Alone(r, None),
             \A i \in Regs : r[i] # Top.expr
      PROVE  /\ Unlocked # {} /\ Cheapest \in Regs /\ m_locked[Cheapest] = 0 /\ Expendable(Cheapest)
             /\ RegisterCost(Cheapest) = 0
  <2>1. \E i \in Regs : r[i] = NULL
    BY <1>0, <1>N, TopFacts, EmptyRegister
  <2> QED BY <1>0, <1>N, <2>1, SeizedIsExpendable, CheapestFacts DEF Shape
<1>1. ASSUME ReuseRegister PROVE Lossless'
  <2>1. stack # <<>> /\ m_status = "COMPILING" /\ stack' = Callers
        /\ result' = First(Holding(Top.expr))
        /\ Holding(Top.expr) # {}
             /\ UNCHANGED <<m_exprs, usage, m_status, r, program_usage, has_been_compiled>>
                  /\ ~Top.first
    BY <1>1, StageFacts DEF ReuseRegister, exprVars
  <2>2. result' \in Regs
    BY <2>1, FirstOf DEF Holding
  <2>3. Done' = Done
    BY <2>1, TopPendsOnce DEF Done, DoneOf
  <2> QED BY <1>0, <1>R, <2>1, <2>2, <2>3
<1>2. ASSUME CompileLeaf PROVE Lossless'
  <2>1. stack # <<>> /\ m_status = "COMPILING" /\ stack' = Callers /\ Holding(Top.expr) = {}
        /\ Operation(Top.expr) \in {"Load", "LoadConstantInt"} /\ Top.pc = "enter" /\ ~Top.first
        /\ UNCHANGED <<m_exprs, usage, m_status>>
             /\ has_been_compiled' = has_been_compiled \cup {Top.expr}
    BY <1>2, StageFacts DEF CompileLeaf, exprVars
  <2>2. \A i \in Regs : r[i] # Top.expr
    BY <2>1 DEF Holding
  <2>3. Alone(r, None)
    BY <2>1 DEF Copies, Doomed
  <2>4. CanSeizeAny /\ Cheapest \in Regs /\ Expendable(Cheapest)
    BY <1>N, <2>1, <2>2, <2>3 DEF CanSeizeAny
  <2>5. pushInstr(LeafInstr, Top.expr \notin has_been_compiled) /\ result' = Cheapest
    BY <1>2, <2>4 DEF CompileLeaf, LeafInstr
  <2>6. LeafInstr \in Runnable /\ IsLoad(LeafInstr) /\ LeafInstr.dest = Cheapest
        /\ LeafInstr \in Instructions
    BY <1>2, <2>4, LeafRunnable DEF LeafInstr, Instr, Runnable
  <2>7. ~IsAgg(LeafInstr) /\ ~IsArith(LeafInstr)
    BY <2>6 DEF IsLoad, IsAgg, AggFunctions, IsArith, ArithOps
  <2>8. r'[Cheapest] = Top.expr /\ \A i \in Regs \ {Cheapest} : r'[i] = r[i]
    BY <2>1, <2>5, <2>6, <2>7, PushWrites, LeafComputes DEF Tables
  <2>9. \A k \in Handles : program_usage'[k] = program_usage[k]
    BY <2>1, <2>5, <2>6, <2>7, CountedFacts, TopFacts DEF pushInstr, Shape
  <2>10. Reserved(Done, usage, program_usage, r')
    BY <1>0, <1>T, <2>1, <2>4, <2>8, ReservedAfterWrite
  <2>11. Done' \subseteq Done \cup {Top.expr}
    BY <2>1, TopPendsOnce DEF Done, DoneOf
  <2>12. Reserved(Done', usage, program_usage', r')
    BY <1>T, <2>4, <2>8, <2>9, <2>10, <2>11 DEF Reserved
  <2> QED BY <1>R, <2>1, <2>4, <2>5, <2>12
<1>3. ASSUME CompileFirstOperand PROVE Lossless'
  <2> DEFINE f == [Top EXCEPT !.first = Top.expr \notin has_been_compiled, !.pc = "first"]
             e == IF LeftFirst(Top.expr) THEN Left(Top.expr) ELSE Right(Top.expr)
  <2>1. stack # <<>> /\ m_status = "COMPILING" /\ Enter(f, e) /\ Top.pc = "enter"
        /\ result' = result /\ ~Top.first
        /\ Operation(Top.expr) \in ArithOps /\ Holding(Top.expr) = {}
             /\ has_been_compiled' = has_been_compiled \cup {Top.expr}
        /\ UNCHANGED <<m_exprs, usage, m_status, r, program_usage>>
    BY <1>3, StageFacts DEF CompileFirstOperand, exprVars
  <2>2. f \in Frame /\ f.expr = Top.expr /\ f.first = (Top.expr \notin has_been_compiled)
    BY TopFacts, <2>1 DEF Frame
  <2>3. e \in Handles
    BY <2>1, TopFacts, OperandFacts DEF Shape, Types
  <2> HIDE DEF f, e
  <2>4. usage[Top.expr] > program_usage[Top.expr]
    BY <1>0, <2>1, RequestIsUse DEF AllFirst
  <2>5. Top.expr \notin Done
    BY <1>0, <2>1, <2>4 DEF Reserved, Holding
  <2>6. Top.expr \notin PendingOf(stack) /\ PendingOf(stack) = PendingOf(Callers)
    BY <2>1, TopPendsOnce
  <2>7. Top.expr \notin has_been_compiled
    BY <2>5, <2>6 DEF Done, DoneOf
  <2>8. PendingOf(stack') = PendingOf(stack) \cup {Top.expr}
    BY <2>1, <2>2, <2>3, <2>6, <2>7, PendingEnter
  <2>9. Done' = Done
    BY <2>1, <2>7, <2>8 DEF Done, DoneOf
  <2> QED BY <1>0, <1>E, <2>1, <2>2, <2>3, <2>7, <2>9
<1>4. ASSUME LockSameOperand PROVE Lossless'
  <2> DEFINE f == [Top EXCEPT !.dest = result, !.src = result, !.pc = "save"]
  <2>1. stack # <<>> /\ result \in Regs /\ m_status = "COMPILING" /\ Replace(f)
        /\ Top.pc = "first" /\ result' = None
        /\ UNCHANGED <<m_exprs, usage, m_status, r, program_usage, has_been_compiled>>
    BY <1>4 DEF LockSameOperand, exprVars
  <2>2. f \in Frame /\ f.expr = Top.expr /\ f.pc = "save" /\ f.first = Top.first
    BY TopFacts, <2>1 DEF Frame
  <2> HIDE DEF f
  <2> QED BY <1>0, <1>P, <2>1, <2>2, RegsFacts
<1>5. ASSUME LockFirstOperand PROVE Lossless'
  <2> DEFINE f == IF LeftFirst(Top.expr) THEN [Top EXCEPT !.dest = result, !.pc = "second"]
                                         ELSE [Top EXCEPT !.src = result, !.pc = "second"]
             e == IF LeftFirst(Top.expr) THEN Right(Top.expr) ELSE Left(Top.expr)
  <2>1. stack # <<>> /\ result \in Regs /\ m_status = "COMPILING" /\ Enter(f, e)
        /\ Top.pc = "first" /\ result' = None
        /\ Operation(Top.expr) \in ArithOps
        /\ UNCHANGED <<m_exprs, usage, m_status, r, program_usage, has_been_compiled>>
    BY <1>5, StageFacts DEF LockFirstOperand, exprVars
  <2>2. f \in Frame /\ f.expr = Top.expr /\ f.first = Top.first
    BY TopFacts, <2>1 DEF Frame
  <2>3. e \in Handles
    BY <2>1, TopFacts, OperandFacts DEF Shape, Types
  <2> HIDE DEF f, e
  <2>4. Top.first
    BY <1>0, <1>C, <2>1
  <2>5. PendingOf(stack') = PendingOf(stack)
    BY <2>1, <2>2, <2>3, <2>4, PendingEnter, TopPendsOnce
  <2>6. Done' = Done
    BY <2>1, <2>5 DEF Done, DoneOf
  <2> QED BY <1>E, <2>1, <2>2, <2>3, <2>4, <2>6, RegsFacts
<1>6. ASSUME LockSecondOperand PROVE Lossless'
  <2> DEFINE f == IF LeftFirst(Top.expr) THEN [Top EXCEPT !.src = result, !.pc = "save"]
                                         ELSE [Top EXCEPT !.dest = result, !.pc = "save"]
  <2>1. stack # <<>> /\ result \in Regs /\ m_status = "COMPILING" /\ Replace(f)
        /\ Top.pc = "second" /\ result' = None
        /\ UNCHANGED <<m_exprs, usage, m_status, r, program_usage, has_been_compiled>>
    BY <1>6 DEF LockSecondOperand, exprVars
  <2>2. f \in Frame /\ f.expr = Top.expr /\ f.pc = "save" /\ f.first = Top.first
    BY TopFacts, <2>1 DEF Frame
  <2> HIDE DEF f
  <2> QED BY <1>0, <1>P, <2>1, <2>2, RegsFacts
\* The left operand is in its register.
<1>L. ASSUME stack # <<>>, Top.pc \in {"save", "dest", "emit"}
      PROVE  /\ Top.dest \in Regs /\ r[Top.dest] = Left(Top.expr) /\ Left(Top.expr) \in Handles
                  /\ next_agg > 0
             /\ Operation(Top.expr) \in ArithOps /\ Top.expr \in Handles
  <2>1. Top.dest \in Regs /\ Operation(Top.expr) \in ArithOps /\ Top.expr \in Handles
        /\ next_agg > 0
    BY <1>L, BothOperands, TopFacts
  <2>2. Keeps(Top, r, m_exprs)
    BY <1>L, SurviveCallers DEF Values
  <2>3. r[Top.dest] = Left(Top.expr)
    BY <2>1, <2>2, RegsFacts DEF Keeps, Left
  <2> QED BY <1>T, <2>1, <2>3, OperandFacts
<1>7. ASSUME SaveLeft PROVE Lossless'
  <2> DEFINE f == [Top EXCEPT !.pc = "dest"]
             mov == Instr("Mov", Cheapest, Top.dest)
             limit == estimated_cost_of_recalculating(Left(Top.expr), Top.dest)
  <2>1. stack # <<>> /\ m_status = "COMPILING" /\ Replace(f) /\ result' = result
        /\ result = None /\ Top.pc = "save"
        /\ UNCHANGED <<m_exprs, usage, m_status, has_been_compiled>>
    BY <1>7, StageFacts DEF SaveLeft, exprVars
  <2>2. f \in Frame /\ f.dest = Top.dest /\ f.src = Top.src /\ f.pc = "dest"
        /\ f.expr = Top.expr /\ f.first = Top.first
    BY TopFacts, <2>1 DEF Frame
  <2>3. Alone(r, None) /\ \A i \in Regs : r[i] # Top.expr
    <3>1. Absent(stack, r) /\ Alone(r, None) /\ Len(stack) \in 1 .. Len(stack)
      BY <2>1, TopFacts DEF Copies, Doomed
    <3> QED BY <2>1, <3>1 DEF Absent, Top
  <2>4. Unlocked # {} /\ Cheapest \in Regs /\ Expendable(Cheapest)
        /\ RegisterCost(Cheapest) = 0 /\ m_locked[Cheapest] = 0
    BY <1>N, <2>1, <2>3
  <2>5. Top.dest \in Regs /\ r[Top.dest] = Left(Top.expr) /\ Left(Top.expr) \in Handles
        /\ next_agg > 0
    BY <1>L, <2>1
  <2>6. limit \in Nat
    <3>1. Left(Top.expr) \in 0 .. Len(m_exprs)
      BY <1>T, <2>5, HandlesFacts
    <3> QED BY <1>T, <3>1, CostUnfolds
  <2>7. CanSeize(limit)
    <3> HIDE DEF limit
    <3> QED BY <2>4, <2>6 DEF CanSeize
  <2>8. OwnLocks(f) = OwnLocks(Top)
    BY <2>2 DEF OwnLocks
  <2>9. CASE LeftNeededLater /\ ~CopyExists
    <3> HIDE DEF f
    <3>1. pushInstr(mov, Top.first)
      BY <1>7, <2>7, <2>9 DEF SaveLeft
    <3>2. mov \in Runnable /\ ~IsAgg(mov) /\ mov.dest = Cheapest
          /\ ValueComputed(r, mov) = r[Top.dest]
      BY <2>4, <2>5, MovRunnable, MovComputes
    <3>3. \A k \in Handles : program_usage'[k] = program_usage[k]
      BY <2>4, <2>5, <3>1, MovNotCounted DEF Shape
    <3> HIDE DEF mov
    <3>4. r'[Cheapest] = r[Top.dest] /\ \A i \in Regs \ {Cheapest} : r'[i] = r[i]
      BY <3>1, <3>2, PushWrites
    <3>5. Unlocks(Top, Cheapest) = 0
      BY <2>1, <2>4, UnlockedIsFree, RegsFacts
    <3>6. Cheapest \in Regs \ {Top.dest}
      BY <2>4, <3>5 DEF Unlocks
    <3>7. Reserved(Done, usage, program_usage, r')
      BY <1>0, <1>T, <2>1, <2>4, <3>4, ReservedAfterWrite
    <3>8. Reserved(Done, usage, program_usage', r')
      BY <1>T, <3>3, <3>7 DEF Reserved
    <3>9. \E i \in Regs \ {f.dest} : r'[i] = Left(Top.expr)
      BY <2>2, <2>5, <3>4, <3>6
    <3> QED BY <1>P, <2>1, <2>2, <3>8, <3>9, RegsFacts
  <2>10. CASE ~(LeftNeededLater /\ ~CopyExists)
    <3> HIDE DEF f
    <3>1. UNCHANGED <<r, program_usage>>
      BY <1>7, <2>10 DEF SaveLeft
    <3>2. usage[Left(Top.expr)] - program_usage'[Left(Top.expr)] > OwnLocks(f) =>
            \E i \in Regs \ {f.dest} : r'[i] = Left(Top.expr)
      BY <2>2, <2>8, <2>10, <3>1 DEF LeftNeededLater, CopyExists
    <3>3. Reserved(Done, usage, program_usage', r')
      BY <1>0, <2>1, <3>1
    <3> QED BY <1>P, <2>1, <2>2, <3>2, <3>3, RegsFacts
  <2> QED BY <2>9, <2>10
<1>8. ASSUME ChooseDestination PROVE Lossless'
  <2> DEFINE mov == Instr("Mov", Cheapest, Top.dest)
  <2>0. stack # <<>> /\ m_status = "COMPILING" /\ result = None /\ Top.pc = "dest"
        /\ UNCHANGED <<m_exprs, usage, m_status, has_been_compiled>>
    BY <1>8, StageFacts DEF ChooseDestination, exprVars
  <2>1. Alone(r, Top.dest) /\ \A i \in Regs : r[i] # Top.expr
    <3>1. Absent(stack, r) /\ Alone(r, Top.dest) /\ Len(stack) \in 1 .. Len(stack)
      BY <2>0, TopFacts DEF Copies, Doomed
    <3> QED BY <2>0, <3>1 DEF Absent, Top
  <2>2. Top.dest \in Regs /\ r[Top.dest] = Left(Top.expr) /\ Left(Top.expr) \in Handles
        /\ next_agg > 0
    BY <1>L, <2>0
  <2>3. \A i \in Regs \ {Top.dest} : r[i] = r[Top.dest] => i \in FreeCopies
    BY <2>0, <2>2 DEF FreeCopies, Holding, Unlocked, Copies
  <2>4. FreeCopies = {} => Alone(r, None)
    <3> SUFFICES ASSUME FreeCopies = {}, NEW i \in Regs, NEW j \in Regs, i # j, r[i] = r[j]
                 PROVE  r[i] = NULL
      BY DEF Alone
    <3> SUFFICES ASSUME Top.dest \in {i, j} PROVE FALSE
      BY <2>1 DEF Alone
    <3> QED BY <2>3
  <2>5. FreeCopies = {} => /\ Unlocked # {} /\ Cheapest \in Regs /\ Expendable(Cheapest)
                                /\ m_locked[Cheapest] = 0
    BY <1>N, <2>0, <2>1, <2>4
  <2>6. ASSUME Replace([Top EXCEPT !.pc = "emit"]), UNCHANGED <<r, program_usage>>, result' = result
        PROVE  Lossless'
    <3> DEFINE f == [Top EXCEPT !.pc = "emit"]
    <3>1. Replace(f)
      BY <2>6
    <3>2. f \in Frame /\ f.dest = Top.dest /\ f.src = Top.src /\ f.expr = Top.expr
          /\ f.first = Top.first /\ f.pc = "emit"
      BY TopFacts, <2>0 DEF Frame
    <3> HIDE DEF f
    <3>3. OwnLocks(f) = OwnLocks(Top)
      BY <3>2 DEF OwnLocks
    <3>4. usage[Left(Top.expr)] - program_usage'[Left(Top.expr)] > OwnLocks(f) =>
            \E i \in Regs \ {f.dest} : r'[i] = Left(Top.expr)
      BY <1>0, <2>0, <2>6, <3>2, <3>3 DEF LeftNeededLater
    <3>5. Reserved(Done, usage, program_usage', r')
      BY <1>0, <2>0, <2>6
    <3> QED BY <1>P, <2>0, <2>6, <3>1, <3>2, <3>4, <3>5, RegsFacts
  <2>7. ASSUME NEW d \in Regs, MoveDestination(d), m_locked[d] = 0,
               Reserved(Done, usage, program_usage', r'),
               \A i \in Regs \ {d} : r'[i] = r[i]
        PROVE  Lossless'
    <3> DEFINE f == [Top EXCEPT !.dest = d, !.pc = "emit"]
    <3>1. Replace(f) /\ result' = result
      BY <2>7 DEF MoveDestination
    <3>2. f \in Frame /\ f.dest = d /\ f.expr = Top.expr /\ f.pc = "emit" /\ f.first = Top.first
      BY TopFacts, <2>0, <2>7 DEF Frame
    <3> HIDE DEF f
    <3>3. Unlocks(Top, d) = 0
      BY <2>0, <2>7, UnlockedIsFree, RegsFacts
    <3>4. Top.dest \in Regs \ {f.dest} /\ r'[Top.dest] = Left(Top.expr)
      BY <2>2, <2>7, <3>2, <3>3 DEF Unlocks
    <3> QED BY <1>P, <2>0, <2>7, <3>1, <3>2, <3>4, RegsFacts
  <2>8. ASSUME FreeCopies # {}, MoveDestination(First(FreeCopies)), UNCHANGED <<r, program_usage>>
        PROVE  Lossless'
    <3>1. First(FreeCopies) \in FreeCopies
      BY <2>8, FirstOf DEF FreeCopies, Holding
    <3>2. First(FreeCopies) \in Regs /\ m_locked[First(FreeCopies)] = 0
      BY <3>1 DEF FreeCopies, Unlocked, Holding
    <3>3. Reserved(Done, usage, program_usage', r')
      BY <1>0, <2>0, <2>8
    <3> QED BY <2>7, <2>8, <3>2, <3>3
  <2>9. ASSUME FreeCopies = {}, MoveDestination(Cheapest), pushInstr(mov, Top.first) PROVE Lossless'
    <3>2. mov \in Runnable /\ ~IsAgg(mov) /\ mov.dest = Cheapest
          /\ ValueComputed(r, mov) = r[Top.dest]
      BY <2>2, <2>5, <2>9, MovRunnable, MovComputes
    <3>3. \A k \in Handles : program_usage'[k] = program_usage[k]
      BY <2>2, <2>5, <2>9, MovNotCounted DEF Shape
    <3> HIDE DEF mov
    <3>4. r'[Cheapest] = r[Top.dest] /\ \A i \in Regs \ {Cheapest} : r'[i] = r[i]
      BY <2>9, <3>2, PushWrites
    <3>7. Reserved(Done, usage, program_usage, r')
      BY <1>0, <1>T, <2>0, <2>5, <2>9, <3>4, ReservedAfterWrite
    <3>8. Reserved(Done, usage, program_usage', r')
      BY <1>T, <3>3, <3>7 DEF Reserved
    <3> QED BY <2>5, <2>7, <2>9, <3>4, <3>8
  <2>10. FreeCopies = {} => CanSeizeAny
    BY <2>5 DEF CanSeizeAny
  <2> QED BY <1>8, <2>6, <2>8, <2>9, <2>10 DEF ChooseDestination
<1>9. ASSUME Emit PROVE Lossless'
  <2>1. stack # <<>> /\ m_status = "COMPILING" /\ stack' = Callers
        /\ has_been_compiled' = has_been_compiled
        /\ Top.pc = "emit" /\ pushInstr(OpInstr, Top.first) /\ result' = Top.dest
             /\ UNCHANGED <<m_exprs, usage, m_status>>
    BY <1>9 DEF Emit, OpInstr, exprVars
  <2>2. OpInstr \in Runnable /\ ~IsAgg(OpInstr) /\ IsArith(OpInstr)
        /\ OpInstr.dest = Top.dest /\ OpInstr.src = Top.src
        /\ ValueComputed(r, OpInstr) = Top.expr /\ r[Top.src] = Right(Top.expr)
    BY <2>1, OpRunnable, OpComputes DEF Values, Tables
  <2>3. Top.dest \in Regs /\ r[Top.dest] = Left(Top.expr) /\ Left(Top.expr) \in Handles
        /\ next_agg > 0 /\ Top.first
    BY <1>0, <1>C, <1>L, <2>1
  <2>4. r'[Top.dest] = Top.expr /\ \A i \in Regs \ {Top.dest} : r'[i] = r[i]
    BY <2>1, <2>2, PushWrites
  <2>5. \A k \in Handles : /\ program_usage[k] \in Nat
                           /\ program_usage'[k] = program_usage[k]
                                + (IF Left(Top.expr) = k THEN 1 ELSE 0)
                                    + (IF Right(Top.expr) = k THEN 1 ELSE 0)
    <3>1. OpInstr \in Instructions
      BY <2>2 DEF Runnable
    <3> QED BY <2>1, <2>2, <2>3, <3>1, CountedFacts DEF pushInstr, Shape
  <2>6. \A k \in Handles : usage[k] \in Nat
    BY <1>T, HandlesFacts DEF TypeOK
  <2>7. Done' \subseteq Done \cup {Top.expr}
    <3>1. PendingOf(stack) = PendingOf(Callers) \cup {Top.expr}
      BY <2>1, <2>3, TopPendsOnce
    <3> QED BY <2>1, <3>1 DEF Done, DoneOf
  <2>8. ASSUME NEW e \in Done, usage[e] > program_usage'[e] PROVE \E i \in Regs : r'[i] = e
    <3>1. usage[e] > program_usage[e] /\ e \in Handles
      BY <1>T, <2>5, <2>6, <2>8
    <3>2. PICK i \in Regs : r[i] = e
      BY <1>0, <2>1, <3>1 DEF Reserved
    <3>3. CASE i # Top.dest
      BY <2>4, <3>2, <3>3
    <3>4. CASE i = Top.dest
      <4>1. e = Left(Top.expr)
        BY <2>3, <3>2, <3>4
      <4>2. usage[e] - program_usage[e] > OwnLocks(Top)
        <5>1. CASE Top.dest = Top.src
          <6>1. Right(Top.expr) = e /\ OwnLocks(Top) = 2
            BY <2>2, <2>3, <4>1, <5>1 DEF OwnLocks
          <6> QED BY <2>5, <2>6, <2>8, <3>1, <4>1, <6>1
        <5>2. CASE Top.dest # Top.src
          <6>1. OwnLocks(Top) = 1
            BY <5>2 DEF OwnLocks
          <6> QED BY <2>5, <2>6, <2>8, <3>1, <4>1, <6>1
        <5> QED BY <5>1, <5>2
      <4>3. LeftNeededLater
        BY <4>1, <4>2 DEF LeftNeededLater
      <4>4. PICK j \in Regs \ {Top.dest} : r[j] = e
        BY <1>0, <2>1, <4>1, <4>3
      <4> QED BY <2>4, <4>4
    <3> QED BY <3>3, <3>4
  <2>9. Reserved(Done', usage, program_usage', r')
    BY <2>3, <2>4, <2>7, <2>8 DEF Reserved
  <2> QED BY <1>R, <2>1, <2>3, <2>9
<1>10. ASSUME ReturnFailure PROVE Lossless'
  BY <1>0, <1>10 DEF ReturnFailure, exprVars
<1>11. ASSUME CompileAggregate PROVE Lossless'
  <2> DEFINE c == Call(m_aggs[next_agg].expr)
  <2>1. m_status = "COMPILING" /\ result' = result /\ stack = <<>> /\ stack' = <<c>>
        /\ UNCHANGED <<m_exprs, usage, r, has_been_compiled, program_usage>>
    BY <1>11 DEF CompileAggregate, exprVars
  <2>2. ~c.first /\ c.pc = "enter"
    BY DEF Call
  <2> HIDE DEF c
  <2>3. Len(stack') = 1 /\ stack'[1] = c /\ Len(stack) = 0 /\ Top' = c
    BY <2>1 DEF Top
  <2>4. PendingOf(stack') = {} /\ PendingOf(stack) = {}
    BY <2>2, <2>3 DEF PendingOf
  <2>5. Done' = Done
    BY <2>1, <2>4 DEF Done, DoneOf
  <2>6. AllFirst(stack')
    BY <2>2, <2>3 DEF AllFirst
  <2> QED BY <1>0, <2>1, <2>2, <2>3, <2>5, <2>6 DEF Lossless, AllFirst, Reserved
<1>12. ASSUME PushAggregate PROVE Lossless'
  <2>1. stack = <<>> /\ stack' = <<>> /\ m_status = "COMPILING" /\ result \in Regs /\ result' = None
        /\ pushInstr(AggInstr, TRUE) /\ UNCHANGED <<m_exprs, usage, has_been_compiled>>
    BY <1>12 DEF PushAggregate, AggInstr, exprVars
  <2>2. AggInstr \in Instructions /\ IsAgg(AggInstr) /\ next_agg \in 1 .. Len(m_aggs) /\ r' = r
    BY <2>1, AggRunnable, PushWrites DEF Runnable
  <2>3. next_agg > 0 /\ Types /\ result' # Failed /\ Len(stack') = 0
    <3>1. Types /\ TypeOK
      BY DEF Shape, Types
    <3>2. Len(m_aggs) \in Nat /\ None # Failed
      BY <3>1, AggFacts, RegsFacts
    <3> QED BY <2>1, <2>2, <3>1, <3>2
  <2>4. \A k \in Handles : program_usage[k] \in Nat /\ usage[k] \in Nat /\ program_usage'[k] \in Nat
                           /\ program_usage'[k] >= program_usage[k]
    <3>1. \A k \in Handles : usage[k] \in Nat
      BY <1>T, HandlesFacts DEF TypeOK
    <3>2. \A k \in Handles : program_usage'[k] = program_usage[k]
            + (IF r[AggInstr.src] = k THEN 1 ELSE 0)
                             /\ program_usage[k] \in Nat
      BY <2>1, <2>2, <2>3, CountedFacts DEF pushInstr
    <3> QED BY <3>1, <3>2
  <2>5. Done' = Done
    BY <2>1 DEF Done, DoneOf
  <2>6. Reserved(Done', usage, program_usage', r')
    <3> SUFFICES ASSUME NEW e \in Done, usage[e] > program_usage'[e] PROVE \E i \in Regs : r[i] = e
      BY <2>2, <2>5 DEF Reserved
    <3>1. usage[e] > program_usage[e]
      BY <1>T, <2>4
    <3> QED BY <1>0, <2>1, <3>1 DEF Reserved
  <2> QED BY <2>1, <2>3, <2>6 DEF Lossless, Reserved
<1>13. ASSUME FailCompile \/ FinishCompile PROVE Lossless'
  BY <1>13 DEF FailCompile, FinishCompile
<1>15. ASSUME BeginCompile PROVE Lossless'
  <2>1. stack' = <<>> /\ has_been_compiled' = {} /\ result' = None /\ Len(stack') = 0
    BY <1>15 DEF BeginCompile, Programming, Shape, Phases, Untouched
  <2>2. Done' = {}
    BY <2>1 DEF Done, DoneOf
  <2> QED BY <2>1, <2>2, RegsFacts DEF Lossless
<1>16. ASSUME Program PROVE Lossless'
  BY <1>16, ProgramSteps
<1>17. ASSUME UNCHANGED vars PROVE Lossless'
  BY <1>17 DEF Lossless, vars, exprVars, compVars, Top, Done, LeftNeededLater, OwnLocks, Left
<1> QED
  BY <1>1, <1>2, <1>3, <1>4, <1>5, <1>6, <1>7, <1>8, <1>9, <1>10, <1>11, <1>12, <1>13, <1>15,
     <1>16, <1>17
  DEF CompNext, CompileStep

\* With a register for every expression nothing needed is ever lost.
LEMMA LosslessInvariant == CompSpec => []Lossless
<1>1. CompInit => Lossless
  BY DEF CompInit, Init, Lossless
<1>2. Shape /\ Shape' /\ Locks /\ Tables /\ Values /\ Uses /\ Copies /\ Lossless
        /\ [CompNext]_vars => Lossless'
  BY NextKeepsLossless
<1> QED
  BY <1>1, <1>2, ShapeInvariant, LocksInvariant, TablesInvariant, ValuesInvariant,
     UsesInvariant, CopiesInvariant,
     PTL DEF CompSpec

\* On a machine with a register for every expression no call of compile(Expr)
\* calculates something for the second time: seize_register never takes the
\* only copy of a value that has uses left.
THEOREM NothingEverRecalculated == CompSpec => []NothingIsRecalculated
<1>1. Shape /\ Lossless => NothingIsRecalculated
  <2> SUFFICES ASSUME Shape, Lossless, REGS >= Len(m_exprs), NEW n \in 1 .. Len(stack),
                      stack[n].pc # "enter"
               PROVE  stack[n].first
    BY DEF NothingIsRecalculated
  <2>1. stack # <<>>
    BY DEF Shape, Types
  <2>2. m_status = "COMPILING"
    BY <2>1, TopFacts
  <2> QED BY <2>2 DEF Lossless
<1> QED
  BY <1>1, ShapeInvariant, LosslessInvariant, PTL

-----------------------------------------------------------------------------
(* Programs as machines: what they leave in the registers and output.        *)

\* Functions of a row, and what a running program consists of.
Columnwise == [Rows -> Long]

\* A running program: what its registers hold and what it has output.
Machines == [regs : [Regs -> Columnwise], out : Seq(AggFunctions \X Columnwise)]

\* Instructions whose column or constant exists.
Valid(constants) ==
  {ins \in Runnable :
     /\ ins.type = "Load" => ins.src \in Columns
     /\ ins.type = "LoadConstantInteger" => ins.src \in 1 .. Len(constants)}

\* The registers and outputs when p ends.
Final(constants, start, p) == Running(constants, start, p)[Len(p)]

\* A register is given a long int for every row.
LEMMA LoadedTyped ==
  ASSUME NEW c \in Seq(Long), NEW regs \in [Regs -> Columnwise], NEW ins \in Valid(c), ~IsAgg(ins)
  PROVE  ins.dest \in Regs /\ Loaded(c, regs, ins) \in Columnwise
<1>1. ins.dest \in Regs /\ (IsLoad(ins) \/ ins.src \in Regs)
  BY DEF Valid, Runnable
<1>2. ins.type \in ArithOps \cup {"Load", "LoadConstantInteger", "Mov"}
  BY DEF Valid, Runnable, Instructions, IsAgg
<1>3. CASE ins.type = "Load"
  <2>1. ins.src \in Columns
    BY <1>3 DEF Valid
  <2>2. \A row \in Rows : row[ins.src] \in Long
    BY <2>1 DEF Rows
  <2> QED BY <1>1, <1>3, <2>2 DEF Loaded, Columnwise, IsArith, ArithOps
<1>4. CASE ins.type = "LoadConstantInteger"
  <2>1. c[ins.src] \in Long
    BY <1>4 DEF Valid
  <2> QED BY <1>1, <1>4, <2>1 DEF Loaded, Columnwise, IsArith, ArithOps
<1>5. CASE ins.type = "Mov"
  BY <1>1, <1>5 DEF Loaded, IsLoad, IsArith, ArithOps
<1>6. CASE IsArith(ins)
  <2>1. ins.type \in ArithOps /\ ins.type \notin {"Load", "LoadConstantInteger", "Mov"}
    BY <1>6 DEF IsArith, ArithOps
  <2>2. ins.src \in Regs
    BY <1>1, <2>1 DEF IsLoad
  <2>3. \A row \in Rows : ValueOf(ins.type, regs[ins.dest][row], regs[ins.src][row]) \in Long
    BY <1>1, <2>1, <2>2, ValueInLong DEF Columnwise
  <2> QED BY <1>1, <1>6, <2>1, <2>3 DEF Loaded, Columnwise
<1> QED
  BY <1>2, <1>3, <1>4, <1>5, <1>6 DEF IsArith

\* An instruction keeps the machine well-formed.
LEMMA SteppedTyped ==
  ASSUME NEW c \in Seq(Long), NEW m \in Machines, NEW ins \in Valid(c)
  PROVE  Stepped(c, m, ins) \in Machines
<1>1. CASE IsAgg(ins)
  <2>1. ins.type \in AggFunctions /\ ins.src \in Regs
    BY <1>1 DEF Valid, Runnable, IsAgg, IsLoad, AggFunctions
  <2>2. <<ins.type, m.regs[ins.src]>> \in AggFunctions \X Columnwise
    BY <2>1 DEF Machines
  <2>3. Append(m.out, <<ins.type, m.regs[ins.src]>>) \in Seq(AggFunctions \X Columnwise)
    BY <2>2, AppendProperties DEF Machines
  <2> QED BY <1>1, <2>3 DEF Stepped, Machines
<1>2. CASE ~IsAgg(ins)
  <2>1. m.regs \in [Regs -> Columnwise]
    BY DEF Machines
  <2>2. ins.dest \in Regs /\ Loaded(c, m.regs, ins) \in Columnwise
    BY <1>2, <2>1, LoadedTyped
  <2>3. [m.regs EXCEPT ![ins.dest] = Loaded(c, m.regs, ins)] \in [Regs -> Columnwise]
    BY <2>1, <2>2
  <2> QED BY <1>2, <2>3 DEF Stepped, Machines
<1> QED
  BY <1>1, <1>2

\* The equation of the local function m of Running.
MachineOf(constants, start, p, m, k) ==
  IF k = 0 THEN [regs |-> start, out |-> <<>>] ELSE Stepped(constants, m[k - 1], p[k])

\* A program runs one instruction after the other.
LEMMA RunningUnfolds ==
  ASSUME NEW c \in Seq(Long), NEW start \in [Regs -> Columnwise], NEW p \in Seq(Valid(c))
  PROVE  \A k \in 0 .. Len(p) :
           /\ Running(c, start, p)[k] \in Machines
           /\ Running(c, start, p)[k] = MachineOf(c, start, p, Running(c, start, p), k)
<1> DEFINE n == Len(p)
           I == 0 .. n
           D == [k \in I |-> [f \in [I -> Machines] |-> MachineOf(c, start, p, f, k)]]
           rank == [k \in I |-> k]
<1>1. n \in Nat /\ \A k \in I : k # 0 => k - 1 \in I /\ k - 1 < k /\ p[k] \in Valid(c)
  OBVIOUS
<1>2. [regs |-> start, out |-> <<>>] \in Machines
  BY EmptySeq DEF Machines
<1>3. \A k \in I : \A g, h : (\A m \in I : m < k => g[m] = h[m])
                             => MachineOf(c, start, p, g, k) = MachineOf(c, start, p, h, k)
  BY <1>1 DEF MachineOf
<1>4. \A k \in I : \A f : (\A m \in I : m < k => f[m] \in Machines)
                          => MachineOf(c, start, p, f, k) \in Machines
  <2> SUFFICES ASSUME NEW k \in I, NEW f, \A m \in I : m < k => f[m] \in Machines
               PROVE  MachineOf(c, start, p, f, k) \in Machines
    OBVIOUS
  <2>1. CASE k = 0
    BY <1>2, <2>1 DEF MachineOf
  <2>2. CASE k # 0
    <3>1. f[k - 1] \in Machines /\ p[k] \in Valid(c)
      BY <1>1, <2>2
    <3>2. Stepped(c, f[k - 1], p[k]) \in Machines
      BY <3>1, SteppedTyped
    <3> QED BY <2>2, <3>2 DEF MachineOf
  <2> QED BY <2>1, <2>2
<1>5. Recursion(I, Machines, n, rank, D)
  <2>1. D \in [I -> [[I -> Machines] -> Machines]]
    BY <1>4
  <2>2. rank \in [I -> 0 .. n]
    BY <1>1
  <2>3. \A k \in I : \A g, h \in [I -> Machines] :
          (\A m \in I : rank[m] < rank[k] => g[m] = h[m]) => D[k][g] = D[k][h]
    BY <1>3
  <2>4. Machines # {}
    BY <1>2
  <2> HIDE DEF I, n, D, rank
  <2> QED BY <1>1, <2>1, <2>2, <2>3, <2>4 DEF Recursion
<1>6. PICK f \in [I -> Machines] : \A k \in I : f[k] = MachineOf(c, start, p, f, k)
  <2>1. PICK f \in [I -> Machines] : \A k \in I : f[k] = D[k][f]
    <3> HIDE DEF I, n, D, rank
    <3> QED BY <1>5, RecursiveFunctionExists
  <2> QED BY <2>1
<1>7. f = [k \in I |-> MachineOf(c, start, p, f, k)]
  BY <1>6
<1> DEFINE run == CHOOSE g : g = [k \in I |-> MachineOf(c, start, p, g, k)]
<1>8. run = [k \in I |-> MachineOf(c, start, p, run, k)]
  BY <1>7
<1>9. Running(c, start, p) = run
  BY DEF Running, MachineOf
<1> HIDE DEF run
<1>10. \A k \in I : run[k] \in Machines
  <2> DEFINE Bad == {k \in I : run[k] \notin Machines}
  <2> SUFFICES ASSUME Bad # {} PROVE FALSE
    OBVIOUS
  <2>1. Bad \subseteq Nat
    BY <1>1
  <2>2. PICK k \in Bad : \A m \in Bad : k <= m
    <3> HIDE DEF Bad
    <3> QED BY <2>1, LeastNat
  <2>3. k \in I /\ run[k] \notin Machines /\ \A m \in I : m < k => run[m] \in Machines
    BY <1>1, <2>2
  <2> QED BY <1>4, <1>8, <2>3
<1> QED
  BY <1>8, <1>9, <1>10

\* Nothing runs before the first instruction.
LEMMA RunningNothing ==
  ASSUME NEW c \in Seq(Long), NEW start \in [Regs -> Columnwise]
  PROVE  Final(c, start, <<>>) = [regs |-> start, out |-> <<>>]
<1>1. <<>> \in Seq(Valid(c)) /\ Len(<<>>) = 0
  BY EmptySeq
<1>2. 0 \in 0 .. Len(<<>>)
  BY <1>1
<1>3. Running(c, start, <<>>)[0] = MachineOf(c, start, <<>>, Running(c, start, <<>>), 0)
  BY <1>1, <1>2, RunningUnfolds
<1> QED
  BY <1>1, <1>3 DEF Final, MachineOf

\* An instruction appended to a program runs when the program has ended.
LEMMA RunningAppend ==
  ASSUME NEW c \in Seq(Long), NEW start \in [Regs -> Columnwise],
         NEW p \in Seq(Valid(c)), NEW ins \in Valid(c)
  PROVE  /\ Final(c, start, p) \in Machines
         /\ Append(p, ins) \in Seq(Valid(c))
         /\ Final(c, start, Append(p, ins)) = Stepped(c, Final(c, start, p), ins)
<1> DEFINE q == Append(p, ins)
           a == Running(c, start, p)
           b == Running(c, start, q)
<1>1. /\ q \in Seq(Valid(c)) /\ Len(p) \in Nat /\ Len(q) = Len(p) + 1 /\ q[Len(p) + 1] = ins
      /\ \A k \in 1 .. Len(p) : q[k] = p[k]
  BY AppendProperties
<1>2. \A k \in 0 .. Len(p) : a[k] \in Machines /\ a[k] = MachineOf(c, start, p, a, k)
  BY RunningUnfolds
<1>3. \A k \in 0 .. Len(q) : b[k] \in Machines /\ b[k] = MachineOf(c, start, q, b, k)
  BY <1>1, RunningUnfolds
<1> HIDE DEF q, a, b
<1>4. \A k \in 0 .. Len(p) : a[k] = b[k]
  <2> DEFINE Bad == {k \in 0 .. Len(p) : a[k] # b[k]}
  <2> SUFFICES ASSUME Bad # {} PROVE FALSE
    OBVIOUS
  <2>1. Bad \subseteq Nat
    BY <1>1
  <2>2. PICK k \in Bad : \A m \in Bad : k <= m
    <3> HIDE DEF Bad
    <3> QED BY <2>1, LeastNat
  <2>3. k \in 0 .. Len(p) /\ k \in 0 .. Len(q) /\ a[k] # b[k]
    BY <1>1, <2>2
  <2>4. a[k] = MachineOf(c, start, p, a, k) /\ b[k] = MachineOf(c, start, q, b, k)
    BY <1>2, <1>3, <2>3
  <2>5. CASE k = 0
    BY <2>3, <2>4, <2>5 DEF MachineOf
  <2>6. CASE k # 0
    <3>1. k - 1 \in 0 .. Len(p) /\ k - 1 < k /\ k \in 1 .. Len(p)
      BY <1>1, <2>3, <2>6
    <3>2. a[k - 1] = b[k - 1]
      <4>1. k - 1 \notin Bad
        BY <1>1, <2>2, <2>3, <3>1
      <4> QED BY <3>1, <4>1
    <3> QED BY <1>1, <2>3, <2>4, <2>6, <3>1, <3>2 DEF MachineOf
  <2> QED BY <2>5, <2>6
<1>5. b[Len(p) + 1] = Stepped(c, b[Len(p)], ins)
  <2>1. Len(p) + 1 \in 0 .. Len(q) /\ Len(p) + 1 # 0 /\ (Len(p) + 1) - 1 = Len(p)
    BY <1>1
  <2> QED BY <1>1, <1>3, <2>1 DEF MachineOf
<1>6. Len(p) \in 0 .. Len(p)
  BY <1>1
<1> QED
  BY <1>1, <1>2, <1>4, <1>5, <1>6 DEF Final, a, b, q

-----------------------------------------------------------------------------
(* Dead code elimination preserves what a program outputs.                   *)

\* The equation of the local function needed of NeededAfter.
NeededOf(p, needed, k) ==
  IF k = Len(p) THEN {} ELSE NeededBefore[p[k + 1]][needed[k + 1]]

\* The registers needed before an instruction are registers.
LEMMA NeededTyped ==
  ASSUME NEW ins \in Runnable, NEW after \in SUBSET Regs
  PROVE  Needed(ins, after) \in SUBSET Regs /\ NeededBefore[ins][after] = Needed(ins, after)
<1>1. ins \in Instructions /\ (IsLoad(ins) \/ ins.src \in Regs)
  BY DEF Runnable
<1>2. IsLoad(ins) => ~IsAgg(ins) /\ ins.type # "Mov"
  BY DEF IsLoad, IsAgg, AggFunctions
<1> QED
  BY <1>1, <1>2 DEF Needed, NeededBefore

\* What is needed after an instruction is what the rest of the program needs.
LEMMA NeededUnfolds ==
  ASSUME NEW p \in Seq(Runnable)
  PROVE  \A k \in 0 .. Len(p) :
           /\ NeededAfter(p)[k] \in SUBSET Regs
           /\ NeededAfter(p)[k] = IF k = Len(p) THEN {}
                                  ELSE Needed(p[k + 1], NeededAfter(p)[k + 1])
<1> DEFINE n == Len(p)
           I == 0 .. n
           V == SUBSET Regs
           D == [k \in I |-> [f \in [I -> V] |-> NeededOf(p, f, k)]]
           rank == [k \in I |-> n - k]
<1>1. n \in Nat /\ \A k \in I : k # n => k + 1 \in I /\ n - (k + 1) < n - k /\ p[k + 1] \in Runnable
  OBVIOUS
<1>2. \A k \in I : \A g, h : (\A m \in I : n - m < n - k => g[m] = h[m])
                             => NeededOf(p, g, k) = NeededOf(p, h, k)
  <2> SUFFICES ASSUME NEW k \in I, NEW g, NEW h, \A m \in I : n - m < n - k => g[m] = h[m]
               PROVE  NeededOf(p, g, k) = NeededOf(p, h, k)
    OBVIOUS
  <2>1. k # n => g[k + 1] = h[k + 1]
    BY <1>1
  <2> QED BY <2>1 DEF NeededOf
<1>3. \A k \in I : \A f : (\A m \in I : n - m < n - k => f[m] \in V) =>
        /\ NeededOf(p, f, k) \in V
        /\ NeededOf(p, f, k) = IF k = n THEN {} ELSE Needed(p[k + 1], f[k + 1])
  <2> SUFFICES ASSUME NEW k \in I, NEW f, \A m \in I : n - m < n - k => f[m] \in V
               PROVE  /\ NeededOf(p, f, k) \in V
                      /\ NeededOf(p, f, k) = IF k = n THEN {} ELSE Needed(p[k + 1], f[k + 1])
    OBVIOUS
  <2>1. CASE k = n
    BY <2>1 DEF NeededOf
  <2>2. CASE k # n
    <3>1. f[k + 1] \in V /\ p[k + 1] \in Runnable
      BY <1>1, <2>2
    <3> QED BY <2>2, <3>1, NeededTyped DEF NeededOf
  <2> QED BY <2>1, <2>2
<1>4. Recursion(I, V, n, rank, D)
  <2>1. D \in [I -> [[I -> V] -> V]]
    <3> HIDE DEF V
    <3> QED BY <1>3
  <2>2. rank \in [I -> 0 .. n]
    BY <1>1
  <2>3. \A k \in I : \A g, h \in [I -> V] :
          (\A m \in I : rank[m] < rank[k] => g[m] = h[m]) => D[k][g] = D[k][h]
    <3> HIDE DEF V
    <3> QED BY <1>2
  <2>4. V # {}
    OBVIOUS
  <2> HIDE DEF I, n, D, rank, V
  <2> QED BY <1>1, <2>1, <2>2, <2>3, <2>4 DEF Recursion
<1> HIDE DEF V
<1>5. PICK f \in [I -> V] : \A k \in I : f[k] = NeededOf(p, f, k)
  <2>1. PICK f \in [I -> V] : \A k \in I : f[k] = D[k][f]
    <3> HIDE DEF I, n, D, rank
    <3> QED BY <1>4, RecursiveFunctionExists
  <2> QED BY <2>1
<1>6. f = [k \in I |-> NeededOf(p, f, k)]
  BY <1>5
<1> DEFINE needed == CHOOSE g : g = [k \in I |-> NeededOf(p, g, k)]
<1>7. needed = [k \in I |-> NeededOf(p, needed, k)]
  BY <1>6
<1>8. NeededAfter(p) = needed
  BY DEF NeededAfter, NeededOf
<1> HIDE DEF needed
<1>9. \A k \in I : needed[k] \in V
  <2> DEFINE Bad == {k \in I : needed[k] \notin V}
  <2> SUFFICES ASSUME Bad # {} PROVE FALSE
    OBVIOUS
  <2>1. Bad \subseteq 0 .. n
    OBVIOUS
  <2>2. PICK k \in Bad : \A m \in Bad : m <= k
    <3> HIDE DEF Bad
    <3> QED BY <1>1, <2>1, GreatestNat
  <2>3. k \in I /\ needed[k] \notin V /\ \A m \in I : n - m < n - k => needed[m] \in V
    BY <1>1, <2>2
  <2> QED BY <1>3, <1>7, <2>3
<1> QED
  BY <1>3, <1>7, <1>8, <1>9 DEF V

\* The program without its useless instructions, run up to where the whole
\* program is, has the same outputs and agrees on the registers needed later.
LEMMA EliminationSimulates ==
  ASSUME NEW c \in Seq(Long), NEW start \in [Regs -> Columnwise], NEW p \in Seq(Valid(c))
  PROVE  \A k \in 0 .. Len(p) :
           /\ Kept(p)[k] \in Seq(Valid(c))
           /\ Final(c, start, Kept(p)[k]).out = Running(c, start, p)[k].out
           /\ \A i \in NeededAfter(p)[k] :
                Final(c, start, Kept(p)[k]).regs[i] = Running(c, start, p)[k].regs[i]
<1> DEFINE a(k) == Running(c, start, p)[k]
           b(k) == Final(c, start, Kept(p)[k])
           Same(k) == /\ b(k).out = a(k).out
                      /\ \A i \in NeededAfter(p)[k] : b(k).regs[i] = a(k).regs[i]
           Bad == {k \in 0 .. Len(p) : ~Same(k)}
<1>1. p \in Seq(Runnable) /\ Len(p) \in Nat /\ \A k \in 1 .. Len(p) : p[k] \in Valid(c)
        /\ p[k] \in Runnable
  <2>1. Valid(c) \subseteq Runnable
    BY DEF Valid
  <2> QED BY <2>1
<1>2. \A k \in 0 .. Len(p) :
        Kept(p)[k] \in Seq(Valid(c)) /\ Kept(p)[k] = KeptOf(p, Kept(p), k)
  BY KeptUnfolds
<1>3. \A k \in 0 .. Len(p) : a(k) \in Machines
        /\ a(k) = MachineOf(c, start, p, Running(c, start, p), k)
  BY RunningUnfolds
<1>4. \A k \in 0 .. Len(p) :
        /\ NeededAfter(p)[k] \in SUBSET Regs
        /\ NeededAfter(p)[k] = IF k = Len(p) THEN {} ELSE Needed(p[k + 1], NeededAfter(p)[k + 1])
  BY <1>1, NeededUnfolds
<1>5. \A k \in 0 .. Len(p) : b(k) \in Machines
  <2> SUFFICES ASSUME NEW k \in 0 .. Len(p) PROVE b(k) \in Machines
    OBVIOUS
  <2>1. Kept(p)[k] \in Seq(Valid(c)) /\ Len(Kept(p)[k]) \in 0 .. Len(Kept(p)[k])
    BY <1>2
  <2> QED BY <2>1, RunningUnfolds DEF Final
<1>6. SUFFICES ASSUME Bad # {} PROVE FALSE
  BY <1>2
<1>7. PICK k \in Bad : \A m \in Bad : k <= m
  <2>1. Bad \subseteq Nat
    BY <1>1
  <2> HIDE DEF Bad
  <2> QED BY <1>6, <2>1, LeastNat
<1>8. k \in 0 .. Len(p) /\ ~Same(k)
  BY <1>7
<1>9. CASE k = 0
  <2>1. Kept(p)[0] = <<>>
    BY <1>2, <1>8, <1>9 DEF KeptOf
  <2>2. b(0) = [regs |-> start, out |-> <<>>]
    BY <2>1, RunningNothing
  <2>3. a(0) = [regs |-> start, out |-> <<>>]
    BY <1>3, <1>8, <1>9 DEF MachineOf
  <2> QED BY <1>8, <1>9, <2>2, <2>3
<1>10. CASE k # 0
  <2> DEFINE j == k - 1
             ins == p[k]
             after == NeededAfter(p)[k]
  <2>1. /\ j \in 0 .. Len(p) /\ j # Len(p) /\ j + 1 = k /\ k \in 1 .. Len(p) /\ j < k
        /\ ins \in Valid(c) /\ ins \in Runnable
    BY <1>1, <1>8, <1>10
  <2>2. Same(j)
    <3>1. j \notin Bad
      BY <1>7, <1>8, <2>1
    <3> QED BY <2>1, <3>1
  <2>3. NeededAfter(p)[j] = Needed(ins, after) /\ NeededAfter(p)[j] \in SUBSET Regs
    BY <1>4, <2>1
  <2>4. after \in SUBSET Regs
    BY <1>4, <1>8
  <2>5. a(k) = Stepped(c, a(j), ins) /\ a(j) \in Machines
    BY <1>3, <1>8, <1>10, <2>1 DEF MachineOf
  <2>6. Kept(p)[j] \in Seq(Valid(c)) /\ b(j) \in Machines
    BY <1>2, <1>5, <2>1
  <2>7. /\ k \in Useful(p) => b(k) = Stepped(c, b(j), ins)
        /\ k \notin Useful(p) => b(k) = b(j)
    <3>1. Kept(p)[k] = IF k \in Useful(p) THEN Append(Kept(p)[j], ins) ELSE Kept(p)[j]
      BY <1>2, <1>8, <1>10 DEF KeptOf
    <3> QED BY <2>1, <2>6, <3>1, RunningAppend
  <2>8. k \in Useful(p) <=> IsAgg(ins) \/ ins.dest \in after
    BY <2>1 DEF Useful
  <2> HIDE DEF a, b, j, ins, after
  <2>9. /\ b(j).out = a(j).out
        /\ \A i \in NeededAfter(p)[j] : b(j).regs[i] = a(j).regs[i]
        /\ a(j).regs \in [Regs -> Columnwise] /\ b(j).regs \in [Regs -> Columnwise]
    BY <2>2, <2>5, <2>6 DEF Machines
  <2>10. CASE IsAgg(ins)
    <3>1. NeededAfter(p)[j] = after \cup {ins.src}
      BY <2>3, <2>10 DEF Needed
    <3>2. /\ a(k) = [a(j) EXCEPT !.out = Append(@, <<ins.type, a(j).regs[ins.src]>>)]
          /\ b(k) = [b(j) EXCEPT !.out = Append(@, <<ins.type, b(j).regs[ins.src]>>)]
      BY <2>5, <2>7, <2>8, <2>10 DEF Stepped
    <3>3. b(j).regs[ins.src] = a(j).regs[ins.src]
      BY <2>9, <3>1
    <3>4. b(k).out = a(k).out /\ b(k).regs = b(j).regs /\ a(k).regs = a(j).regs
      BY <2>5, <2>6, <2>9, <3>2, <3>3 DEF Machines
    <3> QED BY <1>8, <2>9, <3>1, <3>4 DEF after
  <2>11. CASE ~IsAgg(ins) /\ ins.dest \notin after
    <3>1. NeededAfter(p)[j] = after
      BY <2>3, <2>11 DEF Needed
    <3>2. a(k) = [a(j) EXCEPT !.regs[ins.dest] = Loaded(c, a(j).regs, ins)] /\ b(k) = b(j)
      BY <2>5, <2>7, <2>8, <2>11 DEF Stepped
    <3>3. a(k).out = a(j).out /\ \A i \in after : a(k).regs[i] = a(j).regs[i]
      BY <2>4, <2>5, <2>9, <2>11, <3>2 DEF Machines
    <3> QED BY <1>8, <2>9, <3>1, <3>2, <3>3 DEF after
  <2>12. CASE ~IsAgg(ins) /\ ins.dest \in after
    <3>1. /\ a(k) = [a(j) EXCEPT !.regs[ins.dest] = Loaded(c, a(j).regs, ins)]
          /\ b(k) = [b(j) EXCEPT !.regs[ins.dest] = Loaded(c, b(j).regs, ins)]
      BY <2>5, <2>7, <2>8, <2>12 DEF Stepped
    <3>2. Loaded(c, b(j).regs, ins) = Loaded(c, a(j).regs, ins)
      <4>1. ins.type \in ArithOps \cup {"Load", "LoadConstantInteger", "Mov"}
        BY <2>1, <2>12 DEF Runnable, Instructions, IsAgg
      <4>2. CASE IsLoad(ins)
        BY <4>2 DEF Loaded, IsLoad, IsArith, ArithOps
      <4>3. CASE ins.type = "Mov"
        <5>1. ins.src \in NeededAfter(p)[j]
          BY <2>3, <2>12, <4>3 DEF Needed, IsLoad
        <5> QED BY <2>9, <4>3, <5>1 DEF Loaded, IsArith, ArithOps
      <4>4. CASE IsArith(ins)
        <5>1. ins.type \notin {"Load", "LoadConstantInteger", "Mov"}
          BY <4>4 DEF IsArith, ArithOps
        <5>2. ins.src \in NeededAfter(p)[j] /\ ins.dest \in NeededAfter(p)[j]
          BY <2>3, <2>12, <5>1 DEF Needed, IsLoad
        <5>3. b(j).regs[ins.src] = a(j).regs[ins.src] /\ b(j).regs[ins.dest] = a(j).regs[ins.dest]
          BY <2>9, <5>2
        <5> QED BY <4>4, <5>1, <5>3 DEF Loaded
      <4> QED BY <4>1, <4>2, <4>3, <4>4 DEF IsLoad, IsArith
    <3>3. \A i \in after : i # ins.dest => i \in NeededAfter(p)[j]
      BY <2>3, <2>12 DEF Needed
    <3>4. a(k).out = a(j).out /\ b(k).out = b(j).out
      BY <2>5, <2>6, <3>1 DEF Machines
    <3>5. \A i \in Regs : b(k).regs[i]
            = (IF i = ins.dest THEN Loaded(c, b(j).regs, ins) ELSE b(j).regs[i])
      BY <2>6, <2>9, <3>1 DEF Machines
    <3>6. \A i \in Regs : a(k).regs[i]
            = (IF i = ins.dest THEN Loaded(c, a(j).regs, ins) ELSE a(j).regs[i])
      BY <2>5, <2>9, <3>1 DEF Machines
    <3>7. \A i \in after : b(k).regs[i] = a(k).regs[i]
      BY <2>4, <2>9, <3>2, <3>3, <3>5, <3>6
    <3> QED BY <1>8, <2>9, <3>4, <3>7 DEF after
  <2> QED BY <2>10, <2>11, <2>12
<1> QED
  BY <1>9, <1>10

\* dead_code_elimination changes no output, whatever the registers hold when
\* the program starts.
LEMMA EliminationKeepsOutputs ==
  ASSUME NEW c \in Seq(Long), NEW start \in [Regs -> Columnwise], NEW p \in Seq(Valid(c))
  PROVE  /\ Eliminate(p) \in Seq(Valid(c))
         /\ Final(c, start, Eliminate(p)).out = Final(c, start, p).out
<1>1. Eliminate(p) = Kept(p)[Len(p)]
  BY KeptUnfolds
<1>2. Len(p) \in 0 .. Len(p)
  OBVIOUS
<1>3. /\ Kept(p)[Len(p)] \in Seq(Valid(c))
      /\ Final(c, start, Kept(p)[Len(p)]).out = Running(c, start, p)[Len(p)].out
  BY <1>2, EliminationSimulates
<1>4. Final(c, start, p) = Running(c, start, p)[Len(p)]
  BY DEF Final
<1> QED
  BY <1>1, <1>3, <1>4

-----------------------------------------------------------------------------
(* What the program computes while it grows.                                 *)

\* How p can end, whatever the registers held when it began.
Ends(constants, p) == {Final(constants, start, p) : start \in [Regs -> Columnwise]}

\* A machine's registers hold the values the symbolic VM says they hold.
Denotes(m) == \A i \in Regs, k \in Handles : r[i] = k => m.regs[i] = Meaning(k)

\* How many aggregates are in the program.
Reported == IF m_status = "COMPILED" THEN Len(m_aggs) ELSE next_agg - 1

\* A machine has output the first of the aggregates asked for.
Reports(m) ==
  /\ Len(m.out) = Reported
  /\ \A i \in 1 .. Reported, k \in Handles :
       m_aggs[i].expr = k => m.out[i] = <<m_aggs[i].agg_type, Meaning(k)>>

\* The program computes what was asked for so far.
Means ==
  m_status \in {"COMPILING", "COMPILED"} =>
    /\ m_program \in Seq(Valid(m_constants))
    /\ \A m \in Ends(m_constants, m_program) :
         Reports(m) /\ (m_status = "COMPILING" => Denotes(m))

\* An instruction is appended to a program, or the useless ones are dropped.
LEMMA EndsFacts ==
  ASSUME NEW c \in Seq(Long), NEW p \in Seq(Valid(c))
  PROVE  /\ Ends(c, p) \subseteq Machines
         /\ \A ins \in Valid(c) :
              /\ Append(p, ins) \in Seq(Valid(c))
              /\ \A n \in Ends(c, Append(p, ins)) : \E m \in Ends(c, p) : n = Stepped(c, m, ins)
         /\ Eliminate(p) \in Seq(Valid(c))
         /\ \A n \in Ends(c, Eliminate(p)) : \E m \in Ends(c, p) : n.out = m.out
<1>1. ASSUME NEW start \in [Regs -> Columnwise] PROVE Final(c, start, p) \in Machines
  <2>1. Len(p) \in 0 .. Len(p)
    OBVIOUS
  <2> QED BY <2>1, RunningUnfolds DEF Final
<1>2. ASSUME NEW start \in [Regs -> Columnwise], NEW ins \in Valid(c)
      PROVE  Final(c, start, Append(p, ins)) = Stepped(c, Final(c, start, p), ins)
  BY RunningAppend
<1>3. ASSUME NEW start \in [Regs -> Columnwise]
      PROVE  Final(c, start, Eliminate(p)).out = Final(c, start, p).out
  BY EliminationKeepsOutputs
<1>4. \A ins \in Valid(c) : Append(p, ins) \in Seq(Valid(c))
  BY AppendProperties
<1>5. Eliminate(p) \in Seq(Valid(c))
  <2>1. Stale(0) \in [Regs -> Columnwise]
    BY LongAssumption DEF Stale, Columnwise, Long
  <2> QED BY <2>1, EliminationKeepsOutputs
<1> QED
  BY <1>1, <1>2, <1>3, <1>4, <1>5 DEF Ends

\* The tables that give expressions their values do not change.
SameTables == UNCHANGED <<m_exprs, m_constants, m_aggs>>

\* Then no expression's value does.
LEMMA MeaningUnchanged ==
  ASSUME TypeOK, TypeOK', SameTables
  PROVE  Handles' = Handles /\ \A k \in Handles : Meaning(k)' = Meaning(k)
<1>1. Handles' = Handles
  BY DEF SameTables, Handles
<1>2. \A row \in Rows : \A k \in Handles : Denotation(row)'[k] = Denotation(row)[k]
  <2>1. /\ \A k \in Handles : m_exprs'[k] = m_exprs[k]
        /\ \A i \in 1 .. Len(m_constants) : m_constants'[i] = m_constants[i]
    BY DEF SameTables
  <2> QED BY <1>1, <2>1, OlderRowsKeepValue DEF Rows
<1>3. Rows' = Rows
  OBVIOUS
<1> QED
  BY <1>1, <1>2 DEF Meaning

\* A step that pushes nothing.
LEMMA NoPushMeans ==
  ASSUME TypeOK, TypeOK', Means, SameTables, UNCHANGED <<m_status, m_program, r, next_agg>>
  PROVE  Means'
<1>1. Handles' = Handles /\ \A k \in Handles : Meaning(k)' = Meaning(k)
  BY MeaningUnchanged
<1>2. m_status \in {"COMPILING", "COMPILED"} => m_program' \in Seq(Valid(m_constants'))
  BY DEF Means, SameTables
<1>3. Reported' = Reported
  BY DEF Reported, SameTables
<1>4. ASSUME NEW m, Denotes(m) PROVE Denotes(m)'
  BY <1>1, <1>4 DEF Denotes
<1>5. ASSUME NEW m, Reports(m) PROVE Reports(m)'
  BY <1>1, <1>3, <1>5 DEF Reports, SameTables
<1> QED
  BY <1>2, <1>4, <1>5 DEF Means, SameTables

\* A step that pushes an instruction which writes the value its destination
\* stands for from then on.
LEMMA PushMeans ==
  ASSUME TypeOK, TypeOK', Means, SameTables, m_status = "COMPILING", m_status' = m_status,
         next_agg' = next_agg, r \in [Regs -> {NULL} \cup Handles],
         NEW ins \in Valid(m_constants), ~IsAgg(ins), m_program' = Append(m_program, ins),
         \A i \in Regs \ {ins.dest} : r'[i] = r[i], NEW e \in Handles, r'[ins.dest] = e,
         \A m \in Machines : Denotes(m) => Loaded(m_constants, m.regs, ins) = Meaning(e)
  PROVE  Means'
<1>1. Handles' = Handles /\ \A k \in Handles : Meaning(k)' = Meaning(k)
  BY MeaningUnchanged
<1>2. m_program \in Seq(Valid(m_constants)) /\ m_constants \in Seq(Long)
      /\ m_constants' = m_constants
  BY DEF Means, TypeOK, SameTables
<1>3. Reported' = Reported
  BY DEF Reported, SameTables
<1>4. m_program' \in Seq(Valid(m_constants'))
  BY <1>2, EndsFacts
<1>5. ASSUME NEW new \in Ends(m_constants', m_program') PROVE Denotes(new)' /\ Reports(new)'
  <2>1. PICK m \in Ends(m_constants, m_program) : new = Stepped(m_constants, m, ins)
    BY <1>2, <1>5, EndsFacts
  <2>2. m \in Machines /\ Denotes(m) /\ Reports(m)
    BY <1>2, EndsFacts DEF Means
  <2>3. ins.dest \in Regs /\ Loaded(m_constants, m.regs, ins) = Meaning(e)
    BY <2>2 DEF Valid, Runnable
  <2>4. new = [m EXCEPT !.regs[ins.dest] = Meaning(e)]
    BY <2>1, <2>3 DEF Stepped
  <2>5. /\ new.out = m.out /\ new.regs[ins.dest] = Meaning(e)
        /\ \A i \in Regs \ {ins.dest} : new.regs[i] = m.regs[i]
    BY <2>2, <2>3, <2>4 DEF Machines
  <2>6. Denotes(new)'
    <3>1. ASSUME NEW i \in Regs, NEW k \in Handles, r'[i] = k PROVE new.regs[i] = Meaning(k)
      <4>1. CASE i = ins.dest
        BY <2>5, <3>1, <4>1
      <4>2. CASE i # ins.dest
        BY <2>2, <2>5, <3>1, <4>2 DEF Denotes
      <4> QED BY <4>1, <4>2
    <3> QED BY <1>1, <3>1 DEF Denotes
  <2>7. Reports(new)'
    BY <1>1, <1>3, <2>2, <2>5 DEF Reports, SameTables
  <2> QED BY <2>6, <2>7
<1> QED
  BY <1>4, <1>5 DEF Means

\* Loading a leaf gives its value.
LEMMA LeafMeans ==
  ASSUME Shape, CompileLeaf, CanSeizeAny
  PROVE  /\ LeafInstr \in Valid(m_constants)
         /\ \A regs : Loaded(m_constants, regs, LeafInstr) = Meaning(Top.expr)
<1>1. stack # <<>> /\ Operation(Top.expr) \in {"Load", "LoadConstantInt"}
  BY DEF CompileLeaf, At
<1>2. LeafInstr \in Runnable /\ LeafInstr.src = m_exprs[Top.expr].idx
  BY LeafRunnable DEF LeafInstr, Instr
<1>3. TypeOK /\ Top.expr \in Handles
  BY <1>1, TopFacts DEF Shape, Types
<1>4. CASE Operation(Top.expr) = "Load"
  <2>1. LeafInstr.type = "Load" /\ LeafInstr.src \in Columns
    BY <1>2, <1>3, <1>4, OperandFacts DEF LeafInstr, Instr
  <2>2. \A row \in Rows : Denotation(row)[Top.expr] = row[LeafInstr.src]
    BY <1>2, <1>3, <1>4, DenotationCases DEF Rows, Operation
  <2>3. \A regs : Loaded(m_constants, regs, LeafInstr) = [row \in Rows |-> row[LeafInstr.src]]
    BY <2>1 DEF Loaded, IsArith, ArithOps
  <2> QED BY <1>2, <2>1, <2>2, <2>3 DEF Valid, Meaning
<1>5. CASE Operation(Top.expr) = "LoadConstantInt"
  <2>1. LeafInstr.type = "LoadConstantInteger" /\ LeafInstr.src \in 1 .. Len(m_constants)
    BY <1>2, <1>3, <1>5, OperandFacts DEF LeafInstr, Instr
  <2>2. \A row \in Rows : Denotation(row)[Top.expr] = m_constants[LeafInstr.src]
    BY <1>2, <1>3, <1>5, DenotationCases DEF Rows, Operation
  <2>3. \A regs : Loaded(m_constants, regs, LeafInstr)
          = [row \in Rows |-> m_constants[LeafInstr.src]]
    BY <2>1 DEF Loaded, IsArith, ArithOps
  <2> QED BY <1>2, <2>1, <2>2, <2>3 DEF Valid, Meaning
<1> QED
  BY <1>1, <1>4, <1>5

\* A copy has the value of what is copied.
LEMMA MovMeans ==
  ASSUME NEW dest \in Regs, NEW src \in Regs, NEW e \in Handles, r[src] = e
  PROVE  /\ Instr("Mov", dest, src) \in Valid(m_constants)
         /\ \A m \in Machines : Denotes(m)
              => Loaded(m_constants, m.regs, Instr("Mov", dest, src)) = Meaning(e)
<1>1. Instr("Mov", dest, src).type = "Mov" /\ Instr("Mov", dest, src).src = src
  BY DEF Instr
<1>2. \A regs : Loaded(m_constants, regs, Instr("Mov", dest, src)) = regs[src]
  BY <1>1 DEF Loaded, IsArith, ArithOps
<1> QED
  BY <1>1, <1>2, MovRunnable DEF Valid, Denotes

\* An operation on the registers of its operands has the value of the expression.
LEMMA OpMeans ==
  ASSUME Shape, NoTwins, stack # <<>>, Top.pc = "emit", Survive(stack, r, m_exprs)
  PROVE  /\ OpInstr \in Valid(m_constants)
         /\ \A m \in Machines : Denotes(m)
              => Loaded(m_constants, m.regs, OpInstr) = Meaning(Top.expr)
<1>1. /\ r[Top.dest] = Left(Top.expr) /\ r[Top.src] = Right(Top.expr)
      /\ Left(Top.expr) \in Handles /\ Right(Top.expr) \in Handles
  BY OpComputes
<1>2. /\ OpInstr \in Runnable /\ IsArith(OpInstr) /\ OpInstr.type = Operation(Top.expr)
      /\ OpInstr.dest = Top.dest /\ OpInstr.src = Top.src /\ Top.dest \in Regs /\ Top.src \in Regs
      /\ Operation(Top.expr) \in ArithOps
  BY OpRunnable, BothOperands
<1>3. OpInstr.type \notin {"Load", "LoadConstantInteger", "Mov"}
  BY <1>2 DEF ArithOps
<1>4. TypeOK /\ Top.expr \in Handles
  BY TopFacts DEF Shape, Types
<1>5. \A row \in Rows : Denotation(row)[Top.expr] =
        ValueOf(Operation(Top.expr), Denotation(row)[Left(Top.expr)],
            Denotation(row)[Right(Top.expr)])
  BY <1>2, <1>4, DenotationCases DEF Rows, Operation, Left, Right
<1>6. ASSUME NEW m \in Machines, Denotes(m)
      PROVE  Loaded(m_constants, m.regs, OpInstr) = Meaning(Top.expr)
  <2>1. m.regs[Top.dest] = Meaning(Left(Top.expr)) /\ m.regs[Top.src] = Meaning(Right(Top.expr))
    BY <1>1, <1>2, <1>6 DEF Denotes
  <2>2. Loaded(m_constants, m.regs, OpInstr) =
          [row \in Rows |-> ValueOf(OpInstr.type, m.regs[OpInstr.dest][row],
              m.regs[OpInstr.src][row])]
    BY <1>2, <1>3 DEF Loaded
  <2>3. \A row \in Rows : /\ m.regs[Top.dest][row] = Denotation(row)[Left(Top.expr)]
                          /\ m.regs[Top.src][row] = Denotation(row)[Right(Top.expr)]
    BY <2>1 DEF Meaning
  <2> QED BY <1>2, <1>5, <2>2, <2>3 DEF Meaning
<1> QED
  BY <1>2, <1>3, <1>6 DEF Valid

\* An aggregate function is handed the value asked for.
LEMMA AggregateMeans ==
  ASSUME Shape, Shape', Values, Means, PushAggregate
  PROVE  Means'
<1>1. /\ stack = <<>> /\ m_status = "COMPILING" /\ result \in Regs /\ next_agg' = next_agg + 1
      /\ m_program' = Append(m_program, AggInstr) /\ pushInstr(AggInstr, TRUE)
      /\ m_status' = m_status /\ SameTables
  BY DEF PushAggregate, AggInstr, Idle, exprVars, SameTables, pushInstr
<1>2. /\ AggInstr \in Runnable /\ IsAgg(AggInstr) /\ AggInstr.src = result
      /\ next_agg \in 1 .. Len(m_aggs) /\ AggInstr.type = m_aggs[next_agg].agg_type
  BY <1>1, AggRunnable DEF Idle
<1>3. r' = r
  BY <1>1, <1>2, PushWrites
<1>4. r[result] = m_aggs[next_agg].expr /\ m_aggs[next_agg].expr \in Handles
  BY <1>1, <1>2, AggFacts DEF Values, Awaited, Shape, Types
<1>5. Handles' = Handles /\ \A k \in Handles : Meaning(k)' = Meaning(k)
  BY <1>1, MeaningUnchanged DEF Shape, Types
<1>6. AggInstr \in Valid(m_constants)
  BY <1>2 DEF Valid, IsAgg, AggFunctions
<1>7. m_program \in Seq(Valid(m_constants)) /\ m_constants \in Seq(Long)
      /\ m_constants' = m_constants
  BY <1>1 DEF Means, SameTables, Shape, Types, TypeOK
<1>8. m_program' \in Seq(Valid(m_constants'))
  BY <1>1, <1>6, <1>7, EndsFacts
<1>9. Reported = next_agg - 1 /\ Reported' = next_agg
  BY <1>1, <1>2 DEF Reported
<1>10. ASSUME NEW new \in Ends(m_constants', m_program') PROVE Denotes(new)' /\ Reports(new)'
  <2>1. PICK m \in Ends(m_constants, m_program) : new = Stepped(m_constants, m, AggInstr)
    BY <1>1, <1>6, <1>7, <1>10, EndsFacts
  <2>2. m \in Machines /\ Denotes(m) /\ Reports(m)
    BY <1>1, <1>7, EndsFacts DEF Means
  <2>3. new = [m EXCEPT !.out = Append(@, <<m_aggs[next_agg].agg_type, m.regs[result]>>)]
    BY <1>2, <2>1 DEF Stepped
  <2>4. m.regs[result] = Meaning(m_aggs[next_agg].expr)
    BY <1>1, <1>4, <2>2 DEF Denotes
  <2>5. /\ new.regs = m.regs
        /\ new.out = Append(m.out, <<m_aggs[next_agg].agg_type, Meaning(m_aggs[next_agg].expr)>>)
    BY <2>2, <2>3, <2>4 DEF Machines
  <2>6. m.out \in Seq(AggFunctions \X Columnwise) /\ Len(m.out) = next_agg - 1
    BY <1>9, <2>2 DEF Machines, Reports
  <2>7. /\ Len(new.out) = next_agg
        /\ new.out[next_agg] = <<m_aggs[next_agg].agg_type, Meaning(m_aggs[next_agg].expr)>>
        /\ \A i \in 1 .. (next_agg - 1) : new.out[i] = m.out[i]
    <3> DEFINE o == <<m_aggs[next_agg].agg_type, Meaning(m_aggs[next_agg].expr)>>
    <3>1. new.out = Append(m.out, o)
      BY <2>5
    <3> HIDE DEF o
    <3>2. /\ Len(new.out) = Len(m.out) + 1 /\ new.out[Len(m.out) + 1] = o
          /\ \A i \in 1 .. Len(m.out) : new.out[i] = m.out[i]
      BY <2>6, <3>1
    <3>3. Len(m.out) + 1 = next_agg
      BY <1>2, <2>6
    <3> QED BY <2>6, <3>2, <3>3 DEF o
  <2>8. Denotes(new)'
    BY <1>3, <1>5, <2>2, <2>5 DEF Denotes
  <2>9. Reports(new)'
    <3>1. ASSUME NEW i \in 1 .. next_agg, NEW k \in Handles, m_aggs[i].expr = k
          PROVE  new.out[i] = <<m_aggs[i].agg_type, Meaning(k)>>
      <4>1. CASE i = next_agg
        BY <2>7, <3>1, <4>1
      <4>2. CASE i # next_agg
        <5>1. i \in 1 .. (next_agg - 1)
          BY <1>2, <4>2
        <5> QED BY <1>9, <2>2, <2>7, <3>1, <5>1 DEF Reports
      <4> QED BY <4>1, <4>2
    <3> QED BY <1>1, <1>5, <1>9, <2>7, <3>1 DEF Reports, SameTables
  <2> QED BY <2>8, <2>9
<1> QED
  BY <1>8, <1>10 DEF Means

\* Every step keeps the program's meaning in step with the symbolic VM and
\* with the aggregates compiled so far.
LEMMA NextKeepsMeans ==
  Shape /\ Shape' /\ Tables /\ Values /\ Means /\ [CompNext]_vars => Means'
<1> SUFFICES ASSUME Shape, Shape', Tables, Values, Means, [CompNext]_vars PROVE Means'
  OBVIOUS
<1> USE DEF At, Idle, NoPush
<1>0. /\ TypeOK /\ TypeOK' /\ r \in [Regs -> {NULL} \cup Handles] /\ NoTwins
      /\ Survive(stack, r, m_exprs)
  BY DEF Shape, Types, Tables, Values
<1>N. ASSUME UNCHANGED <<exprVars, m_program, r, next_agg>> PROVE Means'
  BY <1>0, <1>N, NoPushMeans DEF exprVars, SameTables
\* A copy of the left operand, which the call on top holds in its destination.
<1>M. ASSUME stack # <<>>, Top.pc \in {"save", "dest"}, NEW d \in Regs, NEW first,
             pushInstr(Instr("Mov", d, Top.dest), first), UNCHANGED <<exprVars, next_agg>>
      PROVE  Means'
  <2> DEFINE mov == Instr("Mov", d, Top.dest)
  <2>1. Top.dest \in Regs /\ Top.dest # None /\ Operation(Top.expr) \in ArithOps
    BY <1>M, BothOperands, RegsFacts
  <2>2. r[Top.dest] = Left(Top.expr) /\ Left(Top.expr) \in Handles
    <3>1. Keeps(Top, r, m_exprs)
      BY <1>0, <1>M, SurviveCallers
    <3>2. Top.expr \in Handles
      BY <1>M, TopFacts
    <3> QED BY <1>0, <2>1, <3>1, <3>2, OperandFacts DEF Keeps, Left
  <2>3. mov \in Runnable /\ ~IsAgg(mov) /\ mov.dest = d /\ ValueComputed(r, mov) = r[Top.dest]
    BY <2>1, MovRunnable, MovComputes
  <2>4. /\ mov \in Valid(m_constants)
        /\ \A m \in Machines : Denotes(m)
             => Loaded(m_constants, m.regs, mov) = Meaning(Left(Top.expr))
    BY <2>1, <2>2, MovMeans
  <2>5. pushInstr(mov, first)
    BY <1>M
  <2> HIDE DEF mov
  <2>6. r'[d] = Left(Top.expr) /\ \A i \in Regs \ {d} : r'[i] = r[i]
    BY <2>2, <2>3, <2>5, PushWrites
  <2>7. m_program' = Append(m_program, mov)
    BY <2>5 DEF pushInstr
  <2>8. SameTables /\ m_status = "COMPILING" /\ m_status' = m_status /\ next_agg' = next_agg
    BY <1>M, TopFacts DEF exprVars, SameTables
  <2> QED BY <1>0, <2>2, <2>3, <2>4, <2>6, <2>7, <2>8, PushMeans
<1>1. ASSUME ReuseRegister PROVE Means'
  BY <1>1, <1>N DEF ReuseRegister
<1>2. ASSUME CompileLeaf PROVE Means'
  <2>1. stack # <<>> /\ m_status = "COMPILING" /\ UNCHANGED <<exprVars, next_agg>>
        /\ Operation(Top.expr) \in {"Load", "LoadConstantInt"}
    BY <1>2 DEF CompileLeaf
  <2>2. CASE CanSeizeAny
    <3>1. pushInstr(LeafInstr, Top.expr \notin has_been_compiled)
      BY <1>2, <2>2 DEF CompileLeaf, LeafInstr
    <3>2. LeafInstr \in Runnable /\ IsLoad(LeafInstr)
      BY <1>2, <2>2, LeafRunnable
    <3>3. ~IsAgg(LeafInstr)
      BY <3>2 DEF IsLoad, IsAgg, AggFunctions
    <3>4. r'[LeafInstr.dest] = Top.expr /\ \A i \in Regs \ {LeafInstr.dest} : r'[i] = r[i]
      BY <1>0, <2>1, <3>1, <3>2, <3>3, PushWrites, LeafComputes
    <3>5. /\ LeafInstr \in Valid(m_constants)
          /\ \A regs : Loaded(m_constants, regs, LeafInstr) = Meaning(Top.expr)
      BY <1>2, <2>2, LeafMeans
    <3>6. m_program' = Append(m_program, LeafInstr) /\ Top.expr \in Handles
      BY <2>1, <3>1, TopFacts DEF pushInstr
    <3>7. SameTables /\ m_status' = m_status /\ next_agg' = next_agg
      BY <2>1 DEF exprVars, SameTables
    <3> QED BY <1>0, <2>1, <3>3, <3>4, <3>5, <3>6, <3>7, PushMeans
  <2>3. CASE ~CanSeizeAny
    BY <1>2, <1>N, <2>1, <2>3 DEF CompileLeaf
  <2> QED BY <2>2, <2>3
<1>3. ASSUME CompileFirstOperand PROVE Means'
  BY <1>3, <1>N DEF CompileFirstOperand
<1>4. ASSUME LockSameOperand PROVE Means'
  BY <1>4, <1>N DEF LockSameOperand
<1>5. ASSUME LockFirstOperand PROVE Means'
  BY <1>5, <1>N DEF LockFirstOperand
<1>6. ASSUME LockSecondOperand PROVE Means'
  BY <1>6, <1>N DEF LockSecondOperand
<1>7. ASSUME SaveLeft PROVE Means'
  <2>1. stack # <<>> /\ Top.pc = "save" /\ UNCHANGED <<exprVars, next_agg>>
    BY <1>7 DEF SaveLeft
  <2>2. CASE Unlocked # {} /\ pushInstr(Instr("Mov", Cheapest, Top.dest), Top.first)
    <3>1. Cheapest \in Regs
      BY <2>2, CheapestFacts DEF Shape
    <3> QED BY <1>M, <2>1, <2>2, <3>1
  <2>3. CASE UNCHANGED <<m_program, r, program_usage>>
    BY <1>N, <2>1, <2>3
  <2> QED BY <1>7, <2>2, <2>3 DEF SaveLeft, CanSeize
<1>8. ASSUME ChooseDestination PROVE Means'
  <2>1. stack # <<>> /\ Top.pc = "dest" /\ UNCHANGED <<exprVars, next_agg>>
    BY <1>8 DEF ChooseDestination
  <2>2. CASE CanSeizeAny /\ pushInstr(Instr("Mov", Cheapest, Top.dest), Top.first)
    <3>1. Cheapest \in Regs
      BY <2>2, CheapestFacts DEF Shape, CanSeizeAny
    <3> QED BY <1>M, <2>1, <2>2, <3>1
  <2>3. CASE UNCHANGED <<m_program, r, program_usage>>
    BY <1>N, <2>1, <2>3
  <2> QED BY <1>8, <2>2, <2>3 DEF ChooseDestination
<1>9. ASSUME Emit PROVE Means'
  <2>1. stack # <<>> /\ Top.pc = "emit" /\ pushInstr(OpInstr, Top.first)
        /\ UNCHANGED <<exprVars, next_agg>>
    BY <1>9 DEF Emit, OpInstr
  <2>2. /\ OpInstr \in Runnable /\ ~IsAgg(OpInstr) /\ ValueComputed(r, OpInstr) = Top.expr
        /\ Top.expr \in Handles /\ m_status = "COMPILING"
    BY <1>0, <2>1, OpRunnable, OpComputes, TopFacts
  <2>3. r'[OpInstr.dest] = Top.expr /\ \A i \in Regs \ {OpInstr.dest} : r'[i] = r[i]
    BY <2>1, <2>2, PushWrites
  <2>4. /\ OpInstr \in Valid(m_constants)
        /\ \A m \in Machines : Denotes(m)
             => Loaded(m_constants, m.regs, OpInstr) = Meaning(Top.expr)
    BY <1>0, <2>1, OpMeans
  <2>5. m_program' = Append(m_program, OpInstr)
    BY <2>1 DEF pushInstr
  <2>6. SameTables /\ m_status' = m_status /\ next_agg' = next_agg
    BY <2>1 DEF exprVars, SameTables
  <2> QED BY <1>0, <2>2, <2>3, <2>4, <2>5, <2>6, PushMeans
<1>10. ASSUME ReturnFailure PROVE Means'
  BY <1>10, <1>N DEF ReturnFailure
<1>11. ASSUME CompileAggregate PROVE Means'
  BY <1>11, <1>N DEF CompileAggregate
<1>12. ASSUME PushAggregate PROVE Means'
  BY <1>12, AggregateMeans
<1>13. ASSUME FailCompile PROVE Means'
  BY <1>13 DEF FailCompile, Means
<1>14. ASSUME FinishCompile PROVE Means'
  <2>1. /\ m_status = "COMPILING" /\ m_status' = "COMPILED" /\ m_program' = Eliminate(m_program)
        /\ SameTables /\ next_agg > Len(m_aggs)
    BY <1>14 DEF FinishCompile, AllCompiled, SameTables
  <2>2. Handles' = Handles /\ \A k \in Handles : Meaning(k)' = Meaning(k)
    BY <1>0, <2>1, MeaningUnchanged
  <2>3. m_program \in Seq(Valid(m_constants)) /\ m_constants \in Seq(Long)
        /\ m_constants' = m_constants
    BY <1>0, <2>1 DEF Means, SameTables, TypeOK
  <2>4. m_program' \in Seq(Valid(m_constants'))
    BY <2>1, <2>3, EndsFacts
  <2>5. Reported = Len(m_aggs) /\ Reported' = Len(m_aggs)
    BY <1>0, <2>1, AggFacts DEF Reported, SameTables, Shape, Types
  <2>6. ASSUME NEW new \in Ends(m_constants', m_program') PROVE Reports(new)'
    <3>1. PICK m \in Ends(m_constants, m_program) : new.out = m.out
      BY <2>1, <2>3, <2>6, EndsFacts
    <3>2. Reports(m)
      BY <2>1 DEF Means
    <3> QED BY <2>1, <2>2, <2>5, <3>1, <3>2 DEF Reports, SameTables
  <2> QED BY <2>1, <2>4, <2>6 DEF Means
<1>15. ASSUME BeginCompile PROVE Means'
  <2>1. /\ m_program' = <<>> /\ r' = EmptyRegisters /\ next_agg' = 1 /\ m_status' = "COMPILING"
    BY <1>15 DEF BeginCompile, Programming, Shape, Phases, Untouched
  <2>2. m_constants' \in Seq(Long) /\ Reported' = 0
    BY <1>0, <2>1 DEF TypeOK, Reported
  <2>3. ASSUME NEW new \in Ends(m_constants', m_program') PROVE Denotes(new)' /\ Reports(new)'
    <3>1. new.out = <<>>
      BY <2>1, <2>2, <2>3, RunningNothing DEF Ends
    <3>2. Denotes(new)'
      <4>1. NULL \notin Handles'
        BY DEF NULL, Handles
      <4> QED BY <2>1, <4>1 DEF Denotes, EmptyRegisters
    <3>3. Reports(new)'
      BY <2>2, <3>1 DEF Reports
    <3> QED BY <3>2, <3>3
  <2>4. m_program' \in Seq(Valid(m_constants'))
    BY <2>1, EmptySeq
  <2> QED BY <2>3, <2>4 DEF Means
<1>16. ASSUME Program PROVE Means'
  BY <1>16, ProgramSteps DEF Means
<1>17. ASSUME UNCHANGED vars PROVE Means'
  BY <1>17, <1>N DEF vars, compVars
<1> QED
  BY <1>1, <1>2, <1>3, <1>4, <1>5, <1>6, <1>7, <1>8, <1>9, <1>10, <1>11, <1>12, <1>13, <1>14,
     <1>15, <1>16, <1>17 DEF CompNext, CompileStep

\* The program always means what was asked for so far.
LEMMA MeansInvariant == CompSpec => []Means
<1>1. CompInit => Means
  BY DEF CompInit, Init, Means
<1>2. Shape /\ Shape' /\ Tables /\ Values /\ Means /\ [CompNext]_vars => Means'
  BY NextKeepsMeans
<1> QED
  BY <1>1, <1>2, ShapeInvariant, TablesInvariant, ValuesInvariant, PTL DEF CompSpec

\* The delivered program outputs, on every row, exactly the aggregates asked
\* for in the order of the requests, each with the value of its expression,
\* whatever the registers held before: register allocation, copies,
\* recalculation and dead code elimination together change nothing.  This is
\* the correctness of compile(), for every set of columns, number of
\* registers and width of the integers.
THEOREM ProgramAlwaysComputes == CompSpec => []ProgramComputesAggregates
<1>1. Shape /\ Means => ProgramComputesAggregates
  <2> SUFFICES ASSUME Shape, Means, m_status = "COMPILED", NEW x \in Long
               PROVE  ProgramMeaning(x) = WantedMeaning
    BY DEF ProgramComputesAggregates
  <2> DEFINE m == Final(m_constants, Stale(x), m_program)
             n == Len(m_aggs)
  <2>1. /\ TypeOK /\ m_constants \in Seq(Long) /\ m_program \in Seq(Valid(m_constants)) /\ n \in Nat
    BY AggFacts DEF Shape, Types, TypeOK, Means
  <2>2. Stale(x) \in [Regs -> Columnwise]
    BY DEF Stale, Columnwise
  <2>3. m \in Ends(m_constants, m_program)
    BY <2>2 DEF Ends
  <2>4. ProgramMeaning(x) = m.out
    BY DEF ProgramMeaning, Final
  <2>5. m \in Machines /\ Reports(m) /\ Reported = n
    <3> HIDE DEF m
    <3> QED BY <2>1, <2>3, EndsFacts DEF Means, Reported
  <2> HIDE DEF m
  <2>6. m.out \in Seq(AggFunctions \X Columnwise) /\ Len(m.out) = n
    BY <2>5 DEF Machines, Reports
  <2>7. \A i \in 1 .. n : m.out[i] = <<m_aggs[i].agg_type, Meaning(m_aggs[i].expr)>>
    BY <2>1, <2>5, AggFacts DEF Reports
  <2>8. m.out = [i \in 1 .. n |-> m.out[i]]
    BY <2>6
  <2> QED BY <2>4, <2>7, <2>8 DEF WantedMeaning
<1> QED
  BY <1>1, ShapeInvariant, MeansInvariant, PTL

-----------------------------------------------------------------------------
(* Dead code elimination leaves no instruction without effect.               *)

\* Instruction ins uses what register i holds.
Reads(ins, i) == (~IsLoad(ins) /\ ins.src = i) \/ (IsArith(ins) /\ ins.dest = i)

\* What an instruction of q writes is read before it is overwritten.
EveryWriteIsRead(q) ==
  \A k \in 1 .. Len(q) :
    ~IsAgg(q[k]) =>
      \E n \in (k + 1) .. Len(q) :
        /\ Reads(q[n], q[k].dest)
        /\ \A j \in (k + 1) .. (n - 1) : ~IsAgg(q[j]) => q[j].dest # q[k].dest

\* A register that is needed is read by a useful instruction, before one writes it.
LEMMA NeededIsRead ==
  ASSUME NEW p \in Seq(Runnable)
  PROVE  \A k \in 0 .. Len(p) : \A i \in NeededAfter(p)[k] :
           \E n \in (k + 1) .. Len(p) :
             /\ n \in Useful(p) /\ Reads(p[n], i)
             /\ \A j \in (k + 1) .. (n - 1) : j \in Useful(p) /\ ~IsAgg(p[j]) => p[j].dest # i
<1> DEFINE Read(k, i, n) ==
             /\ n \in (k + 1) .. Len(p) /\ n \in Useful(p) /\ Reads(p[n], i)
             /\ \A j \in (k + 1) .. (n - 1) : j \in Useful(p) /\ ~IsAgg(p[j]) => p[j].dest # i
           Bad == {k \in 0 .. Len(p) : \E i \in NeededAfter(p)[k] : \A n : ~Read(k, i, n)}
<1>1. Len(p) \in Nat /\ \A k \in 1 .. Len(p) : p[k] \in Runnable
  OBVIOUS
<1>2. SUFFICES ASSUME Bad # {} PROVE FALSE
  OBVIOUS
<1>3. PICK k \in Bad : \A m \in Bad : m <= k
  <2>1. Bad \subseteq 0 .. Len(p)
    OBVIOUS
  <2> HIDE DEF Bad
  <2> QED BY <1>1, <1>2, <2>1, GreatestNat
<1>4. PICK i \in NeededAfter(p)[k] : \A n : ~Read(k, i, n)
  BY <1>3
<1>5. k \in 0 .. Len(p)
  BY <1>3
<1> DEFINE ins == p[k + 1]
           after == NeededAfter(p)[k + 1]
<1>6. /\ k # Len(p) /\ k + 1 \in 0 .. Len(p) /\ k + 1 \in 1 .. Len(p) /\ ins \in Runnable
      /\ i \in Needed(ins, after) /\ after \in SUBSET Regs
  <2>1. NeededAfter(p)[k] = IF k = Len(p) THEN {} ELSE Needed(p[k + 1], NeededAfter(p)[k + 1])
    BY <1>5, NeededUnfolds
  <2>2. k # Len(p)
    BY <1>4, <2>1
  <2>3. k + 1 \in 0 .. Len(p) /\ k + 1 \in 1 .. Len(p)
    BY <1>1, <1>5, <2>2
  <2> QED BY <1>1, <1>4, <2>1, <2>2, <2>3, NeededUnfolds
<1>7. k + 1 \in Useful(p) <=> IsAgg(ins) \/ ins.dest \in after
  BY <1>6 DEF Useful
<1>8. ASSUME i \in after, ~(k + 1 \in Useful(p) /\ ~IsAgg(ins) /\ ins.dest = i) PROVE FALSE
  <2>1. k + 1 \notin Bad
    BY <1>1, <1>3, <1>5, <1>6
  <2>2. PICK n : Read(k + 1, i, n)
    BY <1>6, <1>8, <2>1
  <2>3. n \in (k + 1) .. Len(p) /\ \A j \in (k + 1) .. (n - 1) : j = k + 1
          \/ j \in (k + 1 + 1) .. (n - 1)
    BY <1>1, <1>5, <2>2
  <2>4. Read(k, i, n)
    BY <1>8, <2>2, <2>3
  <2> QED BY <1>4, <2>4
<1>9. ASSUME k + 1 \in Useful(p), Reads(ins, i) PROVE FALSE
  <2>1. Read(k, i, k + 1)
    BY <1>1, <1>5, <1>6, <1>9
  <2> QED BY <1>4, <2>1
<1>10. CASE IsAgg(ins)
  <2>1. i \in after \/ i = ins.src
    BY <1>6, <1>10 DEF Needed
  <2>2. ~IsLoad(ins)
    BY <1>10 DEF IsAgg, IsLoad, AggFunctions
  <2> QED BY <1>7, <1>8, <1>9, <1>10, <2>1, <2>2 DEF Reads
<1>11. CASE ~IsAgg(ins) /\ ins.dest \notin after
  <2>1. i \in after
    BY <1>6, <1>11 DEF Needed
  <2> QED BY <1>7, <1>8, <1>11, <2>1
<1>12. CASE ~IsAgg(ins) /\ ins.dest \in after
  <2>1. ins.type \in ArithOps \cup {"Load", "LoadConstantInteger", "Mov"}
    BY <1>6, <1>12 DEF Runnable, Instructions, IsAgg
  <2>2. CASE IsLoad(ins)
    <3>1. i \in after /\ i # ins.dest
      BY <1>6, <1>12, <2>2 DEF Needed
    <3> QED BY <1>8, <3>1
  <2>3. CASE ins.type = "Mov"
    <3>1. (i \in after /\ i # ins.dest) \/ i = ins.src
      BY <1>6, <1>12, <2>3 DEF Needed, IsLoad
    <3> QED BY <1>7, <1>8, <1>9, <1>12, <2>3, <3>1 DEF Reads, IsLoad
  <2>4. CASE IsArith(ins)
    <3>1. ins.type \notin {"Load", "LoadConstantInteger", "Mov"}
      BY <2>4 DEF IsArith, ArithOps
    <3>2. i \in after \/ i = ins.src
      BY <1>6, <1>12, <3>1 DEF Needed, IsLoad
    <3>3. i = ins.src \/ i = ins.dest => Reads(ins, i)
      BY <2>4, <3>1 DEF Reads, IsLoad
    <3> QED BY <1>7, <1>8, <1>9, <1>12, <3>2, <3>3
  <2> QED BY <2>1, <2>2, <2>3, <2>4 DEF IsLoad, IsArith
<1> QED
  BY <1>10, <1>11, <1>12

\* f lists the useful ones of the first k instructions of p in order, and q
\* consists of these.
Lists(p, f, k, q) ==
  /\ f \in [1 .. Len(q) -> {n \in Useful(p) : n <= k}]
  /\ \A a, b \in 1 .. Len(q) : a < b => f[a] < f[b]
  /\ \A n \in Useful(p) : n <= k => \E a \in 1 .. Len(q) : f[a] = n
  /\ \A a \in 1 .. Len(q) : q[a] = p[f[a]]

\* Eliminate keeps the useful instructions, in order.
LEMMA EliminateLists ==
  ASSUME NEW p \in Seq(Runnable)
  PROVE  \E f : Lists(p, f, Len(p), Eliminate(p))
<1> DEFINE K(k) == Kept(p)[k]
           Bad == {k \in 0 .. Len(p) : \A f : ~Lists(p, f, k, K(k))}
<1>1. Len(p) \in Nat /\ Useful(p) \subseteq 1 .. Len(p)
  BY DEF Useful
<1>2. /\ Eliminate(p) = K(Len(p))
      /\ \A k \in 0 .. Len(p) : K(k) \in Seq(Runnable) /\ K(k) = KeptOf(p, Kept(p), k)
  BY KeptUnfolds
<1>3. SUFFICES ASSUME Bad # {} PROVE FALSE
  BY <1>1, <1>2
<1>4. PICK k \in Bad : \A m \in Bad : k <= m
  <2>1. Bad \subseteq Nat
    BY <1>1
  <2> HIDE DEF Bad
  <2> QED BY <1>3, <2>1, LeastNat
<1>5. k \in 0 .. Len(p) /\ \A f : ~Lists(p, f, k, K(k))
  BY <1>4
<1>6. CASE k = 0
  <2>1. K(k) = <<>> /\ Len(K(k)) = 0
    BY <1>2, <1>5, <1>6 DEF KeptOf
  <2>2. 1 .. 0 = {} /\ \A n \in Useful(p) : ~(n <= 0)
    BY <1>1
  <2>3. Lists(p, [a \in 1 .. 0 |-> 0], k, K(k))
    BY <1>6, <2>1, <2>2 DEF Lists
  <2> QED BY <1>5, <2>3
<1>7. CASE k # 0
  <2>1. k - 1 \in 0 .. Len(p) /\ k - 1 < k /\ k \in 1 .. Len(p) /\ p[k] \in Runnable
    BY <1>1, <1>5, <1>7
  <2>2. PICK f : Lists(p, f, k - 1, K(k - 1))
    <3>1. k - 1 \notin Bad
      BY <1>1, <1>4, <1>5, <2>1
    <3> QED BY <2>1, <3>1
  <2>3. K(k) = IF k \in Useful(p) THEN Append(K(k - 1), p[k]) ELSE K(k - 1)
    BY <1>2, <1>5, <1>7 DEF KeptOf
  <2>4. K(k - 1) \in Seq(Runnable)
    BY <1>2, <2>1
  <2> HIDE DEF K
  <2> DEFINE q == K(k - 1)
             l == Len(q)
  <2>5. l \in Nat
    BY <2>4
  <2>6. CASE k \notin Useful(p)
    <3>1. \A n \in Useful(p) : n <= k <=> n <= k - 1
      BY <1>1, <2>1, <2>6
    <3>2. Lists(p, f, k, K(k))
      BY <2>2, <2>3, <2>6, <3>1 DEF Lists
    <3> QED BY <1>5, <3>2
  <2>7. CASE k \in Useful(p)
    <3> DEFINE g == [a \in 1 .. (l + 1) |-> IF a <= l THEN f[a] ELSE k]
    <3>1. /\ Len(K(k)) = l + 1 /\ K(k)[l + 1] = p[k]
          /\ \A a \in 1 .. l : K(k)[a] = q[a]
      BY <2>1, <2>3, <2>4, <2>7, AppendProperties
    <3>2. /\ \A a \in 1 .. l : f[a] \in Useful(p) /\ f[a] <= k - 1 /\ f[a] < k /\ f[a] <= k
               /\ q[a] = p[f[a]]
          /\ \A a, b \in 1 .. l : a < b => f[a] < f[b]
          /\ \A n \in Useful(p) : n <= k - 1 => \E a \in 1 .. l : f[a] = n
      <4>1. \A a \in 1 .. l : f[a] \in Useful(p) /\ f[a] <= k - 1
        BY <2>2 DEF Lists
      <4>2. \A a \in 1 .. l : f[a] < k /\ f[a] <= k
        BY <1>1, <2>1, <4>1
      <4> QED BY <2>2, <4>1, <4>2 DEF Lists
    <3>3. /\ \A a \in 1 .. (l + 1) : a = l + 1 \/ a \in 1 .. l
          /\ \A a \in 1 .. l : a <= l /\ a \in 1 .. (l + 1)
          /\ l + 1 \in 1 .. (l + 1) /\ ~(l + 1 <= l)
      BY <2>5
    <3>4. g[l + 1] = k /\ \A a \in 1 .. l : g[a] = f[a]
      BY <3>3
    <3>5. g \in [1 .. (l + 1) -> {n \in Useful(p) : n <= k}]
      <4>1. k <= k
        BY <2>1
      <4> QED BY <2>7, <3>2, <3>3, <4>1
    <3> HIDE DEF g
    <3>6. \A a, b \in 1 .. (l + 1) : a < b => g[a] < g[b]
      <4> SUFFICES ASSUME NEW a \in 1 .. (l + 1), NEW b \in 1 .. (l + 1), a < b PROVE g[a] < g[b]
        OBVIOUS
      <4>1. a \in 1 .. l
        BY <2>5
      <4>2. CASE b = l + 1
        BY <3>2, <3>4, <4>1, <4>2
      <4>3. CASE b \in 1 .. l
        BY <3>2, <3>4, <4>1, <4>3
      <4> QED BY <3>3, <4>2, <4>3
    <3>7. \A n \in Useful(p) : n <= k => \E a \in 1 .. (l + 1) : g[a] = n
      <4> SUFFICES ASSUME NEW n \in Useful(p), n <= k PROVE \E a \in 1 .. (l + 1) : g[a] = n
        OBVIOUS
      <4>1. n = k \/ n <= k - 1
        BY <1>1, <2>1
      <4> QED BY <3>2, <3>3, <3>4, <4>1
    <3>8. \A a \in 1 .. (l + 1) : K(k)[a] = p[g[a]]
      BY <3>1, <3>2, <3>3, <3>4
    <3>9. Lists(p, g, k, K(k))
      BY <3>1, <3>5, <3>6, <3>7, <3>8 DEF Lists
    <3> QED BY <1>5, <3>9
  <2> QED BY <2>6, <2>7
<1> QED
  BY <1>6, <1>7

\* Every instruction that is left has an effect.
LEMMA EliminateLeavesNoWaste ==
  ASSUME NEW p \in Seq(Runnable)
  PROVE  EveryWriteIsRead(Eliminate(p))
<1> DEFINE q == Eliminate(p)
<1>1. PICK f : Lists(p, f, Len(p), q)
  BY EliminateLists
<1>2. Len(p) \in Nat /\ Useful(p) \subseteq 1 .. Len(p) /\ q \in Seq(Runnable) /\ Len(q) \in Nat
  <2>1. q \in Seq(Runnable)
    <3>1. Len(p) \in 0 .. Len(p)
      OBVIOUS
    <3> QED BY <3>1, KeptUnfolds
  <2> QED BY <2>1 DEF Useful
<1> HIDE DEF q
<1>3. /\ \A a \in 1 .. Len(q) : f[a] \in Useful(p) /\ q[a] = p[f[a]]
      /\ \A a, b \in 1 .. Len(q) : a < b => f[a] < f[b]
      /\ \A n \in Useful(p) : \E a \in 1 .. Len(q) : f[a] = n
  <2>1. \A n \in Useful(p) : n <= Len(p)
    BY <1>2
  <2> QED BY <1>1, <2>1 DEF Lists
<1> SUFFICES ASSUME NEW k \in 1 .. Len(q), ~IsAgg(q[k])
             PROVE  \E n \in (k + 1) .. Len(q) :
                      /\ Reads(q[n], q[k].dest)
                      /\ \A j \in (k + 1) .. (n - 1) : ~IsAgg(q[j]) => q[j].dest # q[k].dest
  BY DEF EveryWriteIsRead, q
<1>4. f[k] \in Useful(p) /\ f[k] \in 0 .. Len(p) /\ q[k] = p[f[k]]
  BY <1>2, <1>3
<1>5. q[k].dest \in NeededAfter(p)[f[k]]
  BY <1>4 DEF Useful
<1>6. PICK m \in (f[k] + 1) .. Len(p) :
        /\ m \in Useful(p) /\ Reads(p[m], q[k].dest)
        /\ \A j \in (f[k] + 1) .. (m - 1) : j \in Useful(p) /\ ~IsAgg(p[j]) => p[j].dest # q[k].dest
  BY <1>4, <1>5, NeededIsRead
<1>7. PICK n \in 1 .. Len(q) : f[n] = m
  BY <1>3, <1>6
<1>8. ASSUME NEW a \in 1 .. Len(q), NEW b \in 1 .. Len(q), f[a] < f[b] PROVE a < b
  <2>1. f[a] \in Int /\ f[b] \in Int /\ a \in Int /\ b \in Int
    BY <1>2, <1>3
  <2>2. a = b \/ b < a \/ a < b
    BY <2>1
  <2>3. b < a => f[b] < f[a]
    BY <1>3
  <2> QED BY <1>8, <2>1, <2>2, <2>3
<1>9. n \in (k + 1) .. Len(q)
  <2>1. f[k] < f[n]
    BY <1>4, <1>6, <1>7
  <2>2. k < n
    BY <1>7, <1>8, <2>1
  <2> QED BY <1>2, <1>7, <2>2
<1>10. ASSUME NEW j \in (k + 1) .. (n - 1), ~IsAgg(q[j]) PROVE q[j].dest # q[k].dest
  <2>1. j \in 1 .. Len(q) /\ k < j /\ j < n
    BY <1>2, <1>9
  <2>2. f[k] < f[j] /\ f[j] < f[n] /\ f[j] \in Useful(p) /\ q[j] = p[f[j]]
    BY <1>3, <1>7, <2>1
  <2>3. f[j] \in (f[k] + 1) .. (m - 1)
    BY <1>2, <1>4, <1>6, <1>7, <2>2
  <2> QED BY <1>6, <1>10, <2>2, <2>3
<1>11. Reads(q[n], q[k].dest)
  BY <1>3, <1>6, <1>7
<1> QED
  BY <1>9, <1>10, <1>11

-----------------------------------------------------------------------------
(* The compiler pushes no load and no operation in vain.                     *)

\* Every instruction of p but copies has its result needed, if the registers
\* of live are needed after p: g says what is needed after each instruction,
\* or less.
Accounted(p, live) ==
  \E g \in [0 .. Len(p) -> SUBSET Regs] :
    /\ \A k \in 0 .. (Len(p) - 1) : g[k] \subseteq Needed(p[k + 1], g[k + 1])
    /\ \A k \in 1 .. Len(p) : IsAgg(p[k]) \/ p[k].type = "Mov" \/ p[k].dest \in g[k]
    /\ g[Len(p)] \subseteq live

\* The registers that are locked, or whose value was returned and not yet used.
InUse == {i \in Regs : m_locked[i] > 0 \/ result = i}

\* While compile() goes on, everything in the program but a Mov is read, or
\* its destination is in use.
Busy == m_status = "COMPILING" /\ result # Failed => Accounted(m_program, InUse)

\* Nothing is pushed in vain before the first instruction.
LEMMA NothingAccounted == ASSUME NEW live PROVE Accounted(<<>>, live)
<1> DEFINE g == [k \in 0 .. 0 |-> {}]
<1>1. Len(<<>>) = 0 /\ 0 .. (0 - 1) = {} /\ 1 .. 0 = {}
  BY EmptySeq
<1>2. g \in [0 .. 0 -> SUBSET Regs] /\ g[0] = {}
  OBVIOUS
<1> QED
  BY <1>1, <1>2 DEF Accounted

\* More registers may come into use.
LEMMA AccountedMore ==
  ASSUME NEW p, NEW live, Accounted(p, live), NEW more, live \subseteq more
  PROVE  Accounted(p, more)
<1>1. \A s : s \subseteq live => s \subseteq more
  OBVIOUS
<1> QED
  BY <1>1 DEF Accounted

\* An instruction is pushed that needs what was in use, and whose own result
\* is in use from then on.
LEMMA AccountedAppend ==
  ASSUME NEW p \in Seq(Runnable), NEW live, Accounted(p, live), NEW ins \in Runnable,
         NEW after \in SUBSET Regs, live \subseteq Needed(ins, after),
         IsAgg(ins) \/ ins.type = "Mov" \/ ins.dest \in after
  PROVE  Accounted(Append(p, ins), after)
<1> DEFINE q == Append(p, ins)
           n == Len(p)
<1>1. PICK g \in [0 .. n -> SUBSET Regs] :
        /\ \A k \in 0 .. (n - 1) : g[k] \subseteq Needed(p[k + 1], g[k + 1])
        /\ \A k \in 1 .. n : IsAgg(p[k]) \/ p[k].type = "Mov" \/ p[k].dest \in g[k]
        /\ g[n] \subseteq live
  BY DEF Accounted
<1>2. /\ n \in Nat /\ Len(q) = n + 1 /\ q[n + 1] = ins /\ \A k \in 1 .. n : q[k] = p[k]
  BY AppendProperties
<1> DEFINE h == [k \in 0 .. (n + 1) |-> IF k <= n THEN g[k] ELSE after]
<1>3. h[n + 1] = after /\ \A k \in 0 .. n : h[k] = g[k]
  BY <1>2
<1>4. h \in [0 .. (n + 1) -> SUBSET Regs]
  <2>1. \A k \in 0 .. (n + 1) : k <= n => k \in 0 .. n
    BY <1>2
  <2> QED BY <1>1, <2>1
<1> HIDE DEF h, q, n
<1>5. ASSUME NEW k \in 0 .. n PROVE h[k] \subseteq Needed(q[k + 1], h[k + 1])
  <2>1. CASE k = n
    BY <1>1, <1>2, <1>3, <2>1
  <2>2. CASE k # n
    <3>1. k \in 0 .. (n - 1) /\ k + 1 \in 1 .. n /\ k + 1 \in 0 .. n
      BY <1>2, <2>2
    <3> QED BY <1>1, <1>2, <1>3, <3>1
  <2> QED BY <2>1, <2>2
<1>6. ASSUME NEW k \in 1 .. (n + 1) PROVE IsAgg(q[k]) \/ q[k].type = "Mov" \/ q[k].dest \in h[k]
  <2>1. CASE k = n + 1
    BY <1>2, <1>3, <2>1
  <2>2. CASE k # n + 1
    <3>1. k \in 1 .. n /\ k \in 0 .. n
      BY <1>2, <2>2
    <3> QED BY <1>1, <1>2, <1>3, <3>1
  <2> QED BY <2>1, <2>2
<1>7. (n + 1) - 1 = n
  BY <1>2
<1> QED
  BY <1>2, <1>3, <1>4, <1>5, <1>6, <1>7 DEF Accounted, q

\* Needing more after an instruction, one needs no less before it.
LEMMA NeededMonotonic ==
  ASSUME NEW ins, NEW s, NEW t, s \subseteq t
  PROVE  Needed(ins, s) \subseteq Needed(ins, t)
BY DEF Needed, IsLoad, IsAgg, AggFunctions

\* If nothing is in use when the program ends, all it computes is useful.
LEMMA AccountedIsUseful ==
  ASSUME NEW p \in Seq(Runnable), Accounted(p, {}), NEW k \in 1 .. Len(p), k \notin Useful(p)
  PROVE  p[k].type = "Mov"
<1> DEFINE n == Len(p)
           N(m) == NeededAfter(p)[m]
<1>1. PICK g \in [0 .. n -> SUBSET Regs] :
        /\ \A m \in 0 .. (n - 1) : g[m] \subseteq Needed(p[m + 1], g[m + 1])
        /\ \A m \in 1 .. n : IsAgg(p[m]) \/ p[m].type = "Mov" \/ p[m].dest \in g[m]
        /\ g[n] \subseteq {}
  BY DEF Accounted
<1>2. n \in Nat
  OBVIOUS
<1>3. \A m \in 0 .. n : N(m) = IF m = n THEN {} ELSE Needed(p[m + 1], N(m + 1))
  BY NeededUnfolds
<1> HIDE DEF N
<1>4. \A m \in 0 .. n : g[m] \subseteq N(m)
  <2> DEFINE Bad == {m \in 0 .. n : ~(g[m] \subseteq N(m))}
  <2> SUFFICES ASSUME Bad # {} PROVE FALSE
    OBVIOUS
  <2>1. PICK m \in Bad : \A j \in Bad : j <= m
    <3>1. Bad \subseteq 0 .. n
      OBVIOUS
    <3> HIDE DEF Bad, n
    <3> QED BY <1>2, <3>1, GreatestNat
  <2>2. m \in 0 .. n /\ ~(g[m] \subseteq N(m))
    BY <2>1
  <2>3. CASE m = n
    BY <1>1, <2>2, <2>3
  <2>4. CASE m # n
    <3>1. m \in 0 .. (n - 1) /\ m + 1 \in 0 .. n /\ m + 1 > m
      BY <1>2, <2>2, <2>4
    <3>2. g[m + 1] \subseteq N(m + 1)
      <4>1. m + 1 \notin Bad
        BY <1>2, <2>1, <2>2, <3>1
      <4> QED BY <3>1, <4>1
    <3>3. Needed(p[m + 1], g[m + 1]) \subseteq Needed(p[m + 1], N(m + 1))
      BY <3>2, NeededMonotonic
    <3> QED BY <1>1, <1>3, <2>2, <2>4, <3>1, <3>3
  <2> QED BY <2>3, <2>4
<1>5. ~IsAgg(p[k]) /\ p[k].dest \notin N(k)
  BY DEF Useful, N
<1>6. k \in 0 .. n
  BY <1>2
<1> QED
  BY <1>1, <1>4, <1>5, <1>6

\* An instruction pushed while compile() goes on.
LEMMA PushAccounted ==
  ASSUME Shape, Busy, m_status = "COMPILING", result # Failed, NEW ins \in Runnable, NEW first,
         pushInstr(ins, first), InUse \subseteq Needed(ins, InUse'),
         IsAgg(ins) \/ ins.type = "Mov" \/ ins.dest \in InUse'
  PROVE  Busy'
<1>1. Accounted(m_program, InUse) /\ m_program \in Seq(Runnable)
      /\ m_program' = Append(m_program, ins)
  BY DEF Busy, Shape, Types, pushInstr
<1>2. InUse' \in SUBSET Regs
  BY DEF InUse
<1>3. Accounted(Append(m_program, ins), InUse')
  BY <1>1, <1>2, AccountedAppend
<1> QED
  BY <1>1, <1>3 DEF Busy

\* Registers come into use, and none goes out of use, while nothing is pushed.
LEMMA MoreInUse ==
  ASSUME Busy, m_status = "COMPILING", result # Failed, m_program' = m_program,
         InUse \subseteq InUse'
  PROVE  Busy'
<1>1. Accounted(m_program, InUse)
  BY DEF Busy
<1>2. Accounted(m_program, InUse')
  BY <1>1, AccountedMore
<1> QED
  BY <1>2 DEF Busy

\* What the two places that push a Mov rely on.
LEMMA MovIsMov ==
  ASSUME NEW dest \in Regs, NEW src \in Regs
  PROVE  LET mov == Instr("Mov", dest, src)
         IN  /\ mov \in Runnable /\ ~IsAgg(mov) /\ ~IsLoad(mov)
             /\ mov.dest = dest /\ mov.src = src /\ mov.type = "Mov"
<1>1. /\ ~IsAgg(Instr("Mov", dest, src)) /\ ~IsLoad(Instr("Mov", dest, src))
      /\ Instr("Mov", dest, src).dest = dest /\ Instr("Mov", dest, src).src = src
      /\ Instr("Mov", dest, src).type = "Mov"
  BY DEF Instr, IsAgg, AggFunctions, IsLoad
<1> QED
  BY <1>1, MovRunnable

\* Every step uses what it takes out of use.
LEMMA NextKeepsBusy == Shape /\ Shape' /\ Locks /\ Locks' /\ Busy /\ [CompNext]_vars => Busy'
<1> SUFFICES ASSUME Shape, Shape', Locks, Locks', Busy, [CompNext]_vars PROVE Busy'
  OBVIOUS
<1> USE DEF At, Idle, NoPush, Return
<1>0. m_locked \in [Regs -> Nat] /\ m_locked' \in [Regs -> Nat] /\ None \notin Regs /\ Failed # None
  BY RegsFacts DEF Locks
<1>F. ASSUME m_status' # "COMPILING" \/ result' = Failed PROVE Busy'
  BY <1>F DEF Busy
<1>1. ASSUME ReuseRegister PROVE Busy'
  <2>1. stack # <<>> /\ Top.pc = "enter" /\ m_status = "COMPILING"
        /\ UNCHANGED <<m_program, m_locked>>
    BY <1>1 DEF ReuseRegister
  <2>2. result = None
    BY <2>1, StageFacts
  <2>3. InUse \subseteq InUse'
    BY <1>0, <2>1, <2>2 DEF InUse
  <2> QED BY <1>0, <2>1, <2>2, <2>3, MoreInUse
<1>2. ASSUME CompileLeaf PROVE Busy'
  <2>1. stack # <<>> /\ Top.pc = "enter" /\ m_status = "COMPILING" /\ m_locked' = m_locked
    BY <1>2 DEF CompileLeaf
  <2>2. result = None
    BY <2>1, StageFacts
  <2>3. CASE CanSeizeAny
    <3>1. pushInstr(LeafInstr, Top.expr \notin has_been_compiled) /\ result' = Cheapest
      BY <1>2, <2>3 DEF CompileLeaf, LeafInstr
    <3>2. LeafInstr \in Runnable /\ IsLoad(LeafInstr) /\ LeafInstr.dest = Cheapest
      BY <1>2, <2>3, LeafRunnable DEF LeafInstr, Instr
    <3>3. ~IsAgg(LeafInstr)
      BY <3>2 DEF IsLoad, IsAgg, AggFunctions
    <3>4. Cheapest \in Regs /\ m_locked[Cheapest] = 0
      BY <2>3, CheapestFacts DEF Shape, CanSeizeAny
    <3>5. InUse' = InUse \cup {Cheapest} /\ Cheapest \notin InUse
      BY <1>0, <2>1, <2>2, <3>1, <3>4 DEF InUse
    <3>6. InUse \subseteq Needed(LeafInstr, InUse')
      BY <3>2, <3>3, <3>5 DEF Needed
    <3> QED BY <1>0, <2>1, <2>2, <3>1, <3>2, <3>5, <3>6, PushAccounted
  <2>4. CASE ~CanSeizeAny
    BY <1>2, <1>F, <2>4 DEF CompileLeaf
  <2> QED BY <2>3, <2>4
\* Nothing is pushed, returned or unlocked.
<1>S. ASSUME m_status = "COMPILING", result = None, result' = None,
             \A i \in Regs : m_locked[i] > 0 => m_locked'[i] > 0, m_program' = m_program
      PROVE  Busy'
  <2>1. InUse \subseteq InUse'
    BY <1>0, <1>S DEF InUse
  <2> QED BY <1>0, <1>S, <2>1, MoreInUse
\* The register returned is locked.
<1>L. ASSUME m_status = "COMPILING", result \in Regs, result' = None, m_program' = m_program,
             NEW n \in Nat \ {0}, m_locked' = [m_locked EXCEPT ![result] = @ + n]
      PROVE  Busy'
  <2>1. m_locked'[result] > 0 /\ \A i \in Regs : m_locked[i] > 0 => m_locked'[i] > 0
    BY <1>0, <1>L
  <2>2. InUse \subseteq InUse'
    BY <1>0, <1>L, <2>1 DEF InUse
  <2>3. result # Failed
    BY <1>L, RegsFacts
  <2> QED BY <1>L, <2>2, <2>3, MoreInUse
<1>3. ASSUME CompileFirstOperand PROVE Busy'
  <2>1. stack # <<>> /\ Top.pc = "enter" /\ m_status = "COMPILING"
        /\ UNCHANGED <<m_program, m_locked, result>>
    BY <1>3 DEF CompileFirstOperand
  <2>2. result = None
    BY <2>1, StageFacts
  <2> QED BY <1>S, <2>1, <2>2
<1>4. ASSUME LockSameOperand PROVE Busy'
  <2>1. m_status = "COMPILING" /\ result \in Regs /\ result' = None /\ m_program' = m_program
        /\ m_locked' = [m_locked EXCEPT ![result] = @ + 2]
    BY <1>4 DEF LockSameOperand
  <2>2. 2 \in Nat \ {0}
    OBVIOUS
  <2> QED BY <1>L, <2>1, <2>2
<1>5. ASSUME LockFirstOperand \/ LockSecondOperand PROVE Busy'
  <2>1. m_status = "COMPILING" /\ result \in Regs /\ result' = None /\ m_program' = m_program
        /\ m_locked' = [m_locked EXCEPT ![result] = @ + 1]
    BY <1>5 DEF LockFirstOperand, LockSecondOperand, LockedOnce
  <2>2. 1 \in Nat \ {0}
    OBVIOUS
  <2> QED BY <1>L, <2>1, <2>2
<1>7. ASSUME SaveLeft PROVE Busy'
  <2>1. stack # <<>> /\ Top.pc = "save" /\ m_status = "COMPILING" /\ UNCHANGED <<m_locked, result>>
    BY <1>7 DEF SaveLeft
  <2>2. Top.dest \in Regs /\ result = None
    BY <2>1, BothOperands
  <2>3. CASE Unlocked # {} /\ pushInstr(Instr("Mov", Cheapest, Top.dest), Top.first)
    <3> DEFINE mov == Instr("Mov", Cheapest, Top.dest)
    <3>1. Cheapest \in Regs /\ m_locked[Cheapest] = 0
      BY <2>3, CheapestFacts DEF Shape
    <3>2. mov \in Runnable /\ ~IsAgg(mov) /\ mov.dest = Cheapest /\ mov.type = "Mov"
      BY <2>2, <3>1, MovIsMov
    <3>3. pushInstr(mov, Top.first)
      BY <2>3
    <3> HIDE DEF mov
    <3>4. InUse' = InUse /\ Cheapest \notin InUse
      BY <1>0, <2>1, <2>2, <3>1 DEF InUse
    <3>5. InUse \subseteq Needed(mov, InUse')
      BY <3>2, <3>4 DEF Needed
    <3> QED BY <1>0, <2>1, <2>2, <3>2, <3>3, <3>5, PushAccounted
  <2>4. CASE UNCHANGED <<m_program, r, program_usage>>
    BY <1>S, <2>1, <2>2, <2>4
  <2> QED BY <1>7, <2>3, <2>4 DEF SaveLeft, CanSeize
<1>8. ASSUME ChooseDestination PROVE Busy'
  <2>1. stack # <<>> /\ Top.pc = "dest" /\ m_status = "COMPILING"
    BY <1>8 DEF ChooseDestination
  <2>2. Top.dest \in Regs /\ result = None
    BY <2>1, BothOperands
\* A destination that callers share stays locked when it is exchanged.
  <2>3. ASSUME DestinationShared, NEW d \in Regs, m_locked[d] = 0, MoveDestination(d)
        PROVE  /\ result' = None /\ d # Top.dest /\ m_locked[Top.dest] > 0
               /\ \A i \in Regs : m_locked'[i] > 0 <=> m_locked[i] > 0 \/ i = d
    <3>1. m_locked[Top.dest] > 1
      BY <1>0, <2>2, <2>3 DEF DestinationShared, OwnLocks
    <3>2. m_locked' = [m_locked EXCEPT ![d] = @ + 1, ![Top.dest] = @ - 1] /\ result' = result
      BY <2>3 DEF MoveDestination
    <3> QED BY <1>0, <2>2, <2>3, <3>1, <3>2
  <2>4. CASE ~DestinationShared /\ NoPush /\ UNCHANGED <<m_locked, result>>
    BY <1>S, <2>1, <2>2, <2>4
  <2>5. CASE DestinationShared /\ FreeCopies # {} /\ MoveDestination(First(FreeCopies)) /\ NoPush
    <3>1. First(FreeCopies) \in FreeCopies
      BY <2>5, FirstOf DEF FreeCopies, Holding
    <3>2. First(FreeCopies) \in Regs /\ m_locked[First(FreeCopies)] = 0
      BY <3>1 DEF FreeCopies, Unlocked
    <3>3. result' = None /\ \A i \in Regs : m_locked[i] > 0 => m_locked'[i] > 0
      BY <2>3, <2>5, <3>2
    <3> QED BY <1>S, <2>1, <2>2, <2>5, <3>3
  <2>6. CASE /\ DestinationShared /\ CanSeizeAny /\ MoveDestination(Cheapest)
             /\ pushInstr(Instr("Mov", Cheapest, Top.dest), Top.first)
    <3> DEFINE mov == Instr("Mov", Cheapest, Top.dest)
    <3>1. Cheapest \in Regs /\ m_locked[Cheapest] = 0
      BY <2>6, CheapestFacts DEF Shape, CanSeizeAny
    <3>2. /\ mov \in Runnable /\ ~IsAgg(mov) /\ mov.dest = Cheapest /\ mov.type = "Mov"
          /\ mov.src = Top.dest /\ ~IsLoad(mov)
      BY <2>2, <3>1, MovIsMov
    <3>3. pushInstr(mov, Top.first)
      BY <2>6
    <3> HIDE DEF mov
    <3>4. /\ result' = None /\ Cheapest # Top.dest
          /\ \A i \in Regs : m_locked'[i] > 0 <=> m_locked[i] > 0 \/ i = Cheapest
      BY <2>3, <2>6, <3>1
    <3>5. InUse' = InUse \cup {Cheapest} /\ Cheapest \notin InUse
      BY <1>0, <2>2, <3>1, <3>4 DEF InUse
    <3>6. InUse \subseteq Needed(mov, InUse')
      BY <3>2, <3>5 DEF Needed
    <3> QED BY <1>0, <2>1, <2>2, <3>2, <3>3, <3>6, PushAccounted
  <2>7. CASE result' = Failed
    BY <1>F, <2>7
  <2> QED BY <1>8, <2>4, <2>5, <2>6, <2>7 DEF ChooseDestination
<1>9. ASSUME Emit PROVE Busy'
  <2>1. /\ stack # <<>> /\ Top.pc = "emit" /\ m_status = "COMPILING"
             /\ pushInstr(OpInstr, Top.first)
        /\ result' = Top.dest /\ m_locked' = [i \in Regs |-> m_locked[i] - Unlocks(Top, i)]
    BY <1>9 DEF Emit, OpInstr
  <2>2. Top.dest \in Regs /\ Top.src \in Regs /\ result = None
    BY <2>1, BothOperands
  <2>3. /\ OpInstr \in Runnable /\ IsArith(OpInstr) /\ ~IsLoad(OpInstr) /\ ~IsAgg(OpInstr)
        /\ OpInstr.dest = Top.dest /\ OpInstr.src = Top.src
    BY <2>1, OpRunnable
  <2>4. OpInstr.type # "Mov"
    BY <2>3 DEF IsArith, ArithOps
  <2>5. Top.dest \in InUse'
    BY <2>1, <2>2 DEF InUse
  <2>6. InUse \subseteq InUse' \cup {Top.src}
    <3>1. \A i \in Regs : i # Top.dest /\ i # Top.src => m_locked'[i] = m_locked[i]
      BY <1>0, <2>1 DEF Unlocks
    <3> QED BY <1>0, <2>2, <2>5, <3>1 DEF InUse
  <2>7. InUse \subseteq Needed(OpInstr, InUse')
    BY <2>3, <2>4, <2>5, <2>6 DEF Needed
  <2> QED BY <1>0, <2>1, <2>2, <2>3, <2>5, <2>7, PushAccounted
<1>10. ASSUME ReturnFailure PROVE Busy'
  BY <1>10, <1>F DEF ReturnFailure
<1>11. ASSUME CompileAggregate PROVE Busy'
  BY <1>11, <1>S DEF CompileAggregate
<1>12. ASSUME PushAggregate PROVE Busy'
  <2>1. stack = <<>> /\ m_status = "COMPILING" /\ result \in Regs /\ pushInstr(AggInstr, TRUE)
    BY <1>12 DEF PushAggregate, AggInstr
  <2>2. AggInstr \in Runnable /\ IsAgg(AggInstr) /\ AggInstr.src = result /\ result # Failed
    BY <2>1, AggRunnable, RegsFacts
  <2>3. \A i \in Regs : m_locked[i] = 0
    BY <2>1, <2>2, HeldEmpty DEF Locks, LocksAreFrames
  <2>4. InUse \subseteq {result}
    BY <2>3 DEF InUse
  <2>5. InUse \subseteq Needed(AggInstr, InUse')
    BY <2>2, <2>4 DEF Needed
  <2> QED BY <2>1, <2>2, <2>5, PushAccounted
<1>13. ASSUME FailCompile \/ FinishCompile PROVE Busy'
  BY <1>13, <1>F DEF FailCompile, FinishCompile
<1>14. ASSUME BeginCompile PROVE Busy'
  <2>1. m_program' = <<>>
    BY <1>14 DEF BeginCompile, Programming, Shape, Phases, Untouched
  <2> QED BY <2>1, NothingAccounted DEF Busy
<1>15. ASSUME Program PROVE Busy'
  BY <1>15, <1>F, ProgramSteps
<1>16. ASSUME UNCHANGED vars PROVE Busy'
  BY <1>16 DEF Busy, InUse, vars, exprVars, compVars
<1> QED
  BY <1>1, <1>2, <1>3, <1>4, <1>5, <1>7, <1>8, <1>9, <1>10, <1>11, <1>12, <1>13, <1>14, <1>15, <1>16
  DEF CompNext, CompileStep

\* The program never holds a load or an operation that nothing in use needs.
LEMMA BusyInvariant == CompSpec => []Busy
<1>1. CompInit => Busy
  BY DEF CompInit, Init, Busy
<1>2. Shape /\ Shape' /\ Locks /\ Locks' /\ Busy /\ [CompNext]_vars => Busy'
  BY NextKeepsBusy
<1> QED
  BY <1>1, <1>2, ShapeInvariant, LocksInvariant, PTL DEF CompSpec

\* A compiled program has no instruction without effect.
Wasteless == m_status = "COMPILED" => EveryWriteIsRead(m_program)

\* Dead code elimination makes it so, and nothing touches it afterwards.
LEMMA WastelessInvariant == CompSpec => []Wasteless
<1>1. CompInit => Wasteless
  BY DEF CompInit, Init, Wasteless
<1>2. Shape /\ Wasteless /\ [CompNext]_vars => Wasteless'
  <2> SUFFICES ASSUME Shape, Wasteless, [CompNext]_vars, m_status' = "COMPILED"
               PROVE  EveryWriteIsRead(m_program')
    BY DEF Wasteless, EveryWriteIsRead, Reads
  <2>1. CASE FinishCompile
    <3>1. m_program' = Eliminate(m_program) /\ m_program \in Seq(Runnable)
      BY <2>1 DEF FinishCompile, Shape, Types
    <3> QED BY <3>1, EliminateLeavesNoWaste
  <2>2. CASE UNCHANGED vars
    BY <2>2 DEF vars, exprVars, compVars, Wasteless
  <2>3. CASE Program \/ BeginCompile
    BY <2>3, ProgramSteps DEF BeginCompile
  <2>4. CASE CompileStep /\ ~FinishCompile
    BY <2>4 DEF CompileStep, ReuseRegister, CompileLeaf, CompileFirstOperand, LockSameOperand,
       LockFirstOperand, LockSecondOperand, SaveLeft, ChooseDestination, Emit, ReturnFailure,
       CompileAggregate, PushAggregate, FailCompile, At, Idle, exprVars
  <2> QED BY <2>1, <2>2, <2>3, <2>4 DEF CompNext
<1> QED
  BY <1>1, <1>2, ShapeInvariant, PTL DEF CompSpec

\* The compiler generates no useless instruction of any other type than Mov,
\* as a comment of dead_code_elimination believes, and the program it delivers
\* has none at all.
THEOREM OnlyMovIsEverUseless == CompSpec => []OnlyMovIsUseless
<1>1. Shape /\ Locks /\ Busy /\ Wasteless => OnlyMovIsUseless
  <2> SUFFICES ASSUME Shape, Locks, Busy, Wasteless PROVE OnlyMovIsUseless
    OBVIOUS
  <2>1. ASSUME AllCompiled, NEW k \in 1 .. Len(m_program), k \notin Useful(m_program)
        PROVE  m_program[k].type = "Mov"
    <3>1. stack = <<>> /\ result = None /\ m_status = "COMPILING" /\ m_program \in Seq(Runnable)
      BY <2>1 DEF AllCompiled, Idle, Shape, Types
    <3>2. InUse = {}
      <4>1. \A i \in Regs : m_locked[i] = 0
        BY <3>1, RegsFacts, HeldEmpty DEF Locks, LocksAreFrames
      <4>2. \A i \in Regs : result # i /\ ~(m_locked[i] > 0)
        BY <3>1, <4>1, RegsFacts
      <4> QED BY <4>2 DEF InUse
    <3>3. Accounted(m_program, {})
      BY <3>1, <3>2, RegsFacts DEF Busy
    <3> QED BY <2>1, <3>1, <3>3, AccountedIsUseful
  <2>2. m_status = "COMPILED" => EveryWriteIsRead(m_program)
    BY DEF Wasteless
  <2> QED BY <2>1, <2>2 DEF OnlyMovIsUseless, EveryWriteIsRead, Reads
<1> QED
  BY <1>1, ShapeInvariant, LocksInvariant, BusyInvariant, WastelessInvariant, PTL

-----------------------------------------------------------------------------
(* The compiler implements AggPromise.                                       *)

\* Constants are only ever appended to the pool.
LEMMA ConstantsStay ==
  ASSUME TypeOK, Next
  PROVE  \A i \in 1 .. Len(m_constants) : m_constants'[i] = m_constants[i]
<1>1. m_constants \in Seq(Long)
  BY DEF TypeOK
<1>2. \A v : \A i \in 1 .. Len(m_constants) : Append(m_constants, v)[i] = m_constants[i]
  BY <1>1
<1>3. m_constants' = m_constants \/ \E v : m_constants' = Append(m_constants, v)
  BY DEF Next, Load, LoadUnknown, ConstantInteger, Arith, Fold, Aggregate
<1> QED
  BY <1>2, <1>3

\* Expressions are only ever appended to the table.
LEMMA ExpressionsStay ==
  ASSUME TypeOK, Next
  PROVE  Handles \subseteq Handles' /\ \A k \in Handles : m_exprs'[k] = m_exprs[k]
<1>1. CASE m_exprs' = m_exprs
  BY <1>1 DEF Handles
<1>2. ASSUME NEW e, Requested(e), Intern(e)
      PROVE  Handles \subseteq Handles' /\ \A k \in Handles : m_exprs'[k] = m_exprs[k]
  BY <1>2, InternReturnsRequest DEF Requested
<1>3. ASSUME NEW type, NEW k, Aggregate(type, k) PROVE m_exprs' = m_exprs
  BY <1>3 DEF Aggregate
<1> QED
  BY <1>1, <1>2, <1>3, StepsIntern

\* Whatever is built later, an expression keeps its meaning.
LEMMA MeaningStays ==
  ASSUME TypeOK, TypeOK', Next
  PROVE  Handles \subseteq Handles' /\ \A k \in Handles : Meaning(k)' = Meaning(k)
<1>1. \A row \in Rows : \A k \in Handles : Denotation(row)'[k] = Denotation(row)[k]
  BY ConstantsStay, ExpressionsStay, OlderRowsKeepValue DEF Rows
<1>2. Rows' = Rows
  OBVIOUS
<1> QED
  BY <1>1, <1>2, ExpressionsStay DEF Meaning

\* What is wanted is a sequence, as long as that of the requests.
LEMMA WantedFacts ==
  ASSUME TypeOK
  PROVE  /\ Len(m_aggs) \in Nat /\ Len(WantedMeaning) = Len(m_aggs)
         /\ WantedMeaning \in Seq({WantedMeaning[i] : i \in 1 .. Len(m_aggs)})
         /\ \A i \in 1 .. Len(m_aggs) :
              /\ m_aggs[i].expr \in Handles
              /\ WantedMeaning[i] = <<m_aggs[i].agg_type, Meaning(m_aggs[i].expr)>>
<1> DEFINE n == Len(m_aggs)
           S == {WantedMeaning[i] : i \in 1 .. n}
<1>1. n \in Nat /\ \A i \in 1 .. n : m_aggs[i].expr \in Handles
  BY AggFacts
<1>2. WantedMeaning \in [1 .. n -> S]
  BY SMTT(30) DEF WantedMeaning
<1>3. WantedMeaning \in Seq(S)
  BY <1>1, <1>2, SeqDef
<1>4. Len(WantedMeaning) = n
  <2>1. DOMAIN WantedMeaning = 1 .. Len(WantedMeaning) /\ Len(WantedMeaning) \in Nat
    BY <1>3, LenProperties
  <2>2. DOMAIN WantedMeaning = 1 .. n
    BY <1>2
  <2>3. \A a, b \in Nat : 1 .. a = 1 .. b => a = b
    <3> SUFFICES ASSUME NEW a \in Nat, NEW b \in Nat, 1 .. a = 1 .. b, a # b PROVE FALSE
      OBVIOUS
    <3>1. CASE a < b
      BY <3>1, b \in 1 .. b
    <3>2. CASE b < a
      BY <3>2, a \in 1 .. a
    <3> QED BY <3>1, <3>2
  <2> HIDE DEF S, n
  <2> QED BY <1>1, <2>1, <2>2, <2>3
<1> QED
  BY <1>1, <1>3, <1>4 DEF WantedMeaning

\* The same in the state after a step.
LEMMA WantedFactsAfter ==
  (TypeOK =>
     /\ Len(m_aggs) \in Nat /\ Len(WantedMeaning) = Len(m_aggs)
     /\ WantedMeaning \in Seq({WantedMeaning[i] : i \in 1 .. Len(m_aggs)})
     /\ \A i \in 1 .. Len(m_aggs) :
          /\ m_aggs[i].expr \in Handles
          /\ WantedMeaning[i] = <<m_aggs[i].agg_type, Meaning(m_aggs[i].expr)>>)'
BY WantedFacts, PTL

\* The requests do not change, and neither does what is wanted.
LEMMA WantedUnchanged ==
  ASSUME TypeOK, m_aggs' = m_aggs,
         \A k \in Handles : Meaning(k)' = Meaning(k)
  PROVE  WantedMeaning' = WantedMeaning
<1>1. \A i \in 1 .. Len(m_aggs) : Meaning(m_aggs[i].expr)' = Meaning(m_aggs[i].expr)
  <2>1. ASSUME NEW i \in 1 .. Len(m_aggs) PROVE Meaning(m_aggs[i].expr)' = Meaning(m_aggs[i].expr)
    <3>1. m_aggs[i].expr \in Handles
      BY WantedFacts
    <3> QED BY <3>1
  <2> QED BY <2>1
<1> QED
  BY <1>1 DEF WantedMeaning

\* A call of the API, as the caller sees it.
LEMMA ProgramPromise ==
  ASSUME Shape, Shape', Program
  PROVE  [Promise!Next]_(Promise!promiseVars)
<1>1. /\ TypeOK /\ TypeOK' /\ Next /\ UNCHANGED compVars
      /\ \A k \in Handles : Meaning(k)' = Meaning(k)
  BY MeaningStays DEF Shape, Types, Program
<1>2. m_status # "COMPILED" /\ m_status' # "COMPILED"
  BY ProgramSteps
<1>3. CASE m_aggs' = m_aggs
  <2>1. WantedMeaning' = WantedMeaning
    BY <1>1, <1>3, WantedUnchanged
  <2>2. PhaseOf' = PhaseOf \/ (PhaseOf = "asking" /\ PhaseOf' \in {"failed", "stopped"})
    <3>1. CASE \E col \in Columns : Load(col)
      BY <3>1 DEF Load, Programming, PhaseOf
    <3>2. CASE LoadUnknown
      BY <3>2 DEF LoadUnknown, Programming, PhaseOf
    <3>3. CASE \E v \in Literals : ConstantInteger(v)
      BY <3>3 DEF ConstantInteger, PhaseOf
    <3>4. CASE \E op \in Ops, left, right \in Handles : Arith(op, left, right)
      BY <3>4 DEF Arith, Fold, Programming, PhaseOf
    <3>5. CASE \E type \in AggTypes, k \in Handles : Aggregate(type, k)
      BY <3>5 DEF Aggregate, Programming, PhaseOf
    <3> QED BY <1>1, <3>1, <3>2, <3>3, <3>4, <3>5 DEF Next
  <2> QED BY <1>2, <2>1, <2>2 DEF Promise!Next, Promise!GiveUp, Promise!promiseVars
<1>4. ASSUME NEW type \in AggTypes, NEW k \in Handles, Aggregate(type, k), m_aggs' # m_aggs
      PROVE  [Promise!Next]_(Promise!promiseVars)
  <2> DEFINE agg == [agg_type |-> type, expr |-> k]
             n == Len(m_aggs)
  <2>1. m_aggs' = Append(m_aggs, agg) /\ PhaseOf = "asking" /\ PhaseOf' = "asking"
    BY <1>4 DEF Aggregate, Programming, PhaseOf
  <2>2. m_aggs \in Seq([agg_type : AggTypes, expr : Handles]) /\ n \in Nat
    BY <1>1, AggFacts
  <2>3. Len(m_aggs') = n + 1 /\ \A i \in 1 .. n : m_aggs'[i] = m_aggs[i]
    BY <2>1, <2>2
  <2>4. /\ Len(WantedMeaning) = n /\ Len(WantedMeaning)' = n + 1
        /\ \A i \in 1 .. n : WantedMeaning'[i] = WantedMeaning[i]
    <3>1. /\ Len(WantedMeaning) = n /\ Len(WantedMeaning)' = n + 1
      BY <1>1, <2>3, WantedFacts, WantedFactsAfter
    <3>2. ASSUME NEW i \in 1 .. n PROVE WantedMeaning'[i] = WantedMeaning[i]
      <4>1. i \in 1 .. Len(m_aggs')
        BY <2>2, <2>3
      <4>2. WantedMeaning'[i] = <<m_aggs'[i].agg_type, Meaning(m_aggs[i].expr)'>>
        BY <1>1, <4>1, WantedFactsAfter
      <4>3. m_aggs'[i] = m_aggs[i] /\ m_aggs[i].expr \in Handles
        BY <1>1, <2>3, WantedFacts
      <4>4. WantedMeaning[i] = <<m_aggs[i].agg_type, Meaning(m_aggs[i].expr)>>
        BY <1>1, WantedFacts
      <4>5. Meaning(m_aggs[i].expr)' = Meaning(m_aggs[i].expr)
        BY <1>1, <4>3
      <4> QED BY <4>2, <4>3, <4>4, <4>5
    <3> QED BY <3>1, <3>2
  <2>5. SubSeq(WantedMeaning', 1, n) = WantedMeaning
    <3>1. WantedMeaning = [i \in 1 .. n |-> WantedMeaning[i]]
      BY DEF WantedMeaning
    <3>2. SubSeq(WantedMeaning', 1, n) = [i \in 1 .. n |-> WantedMeaning'[i]]
      BY <2>2
    <3> QED BY <2>4, <3>1, <3>2
  <2> QED BY <1>2, <2>1, <2>4, <2>5 DEF Promise!Next, Promise!Ask
<1>5. ASSUME \A type \in AggTypes, k \in Handles : ~Aggregate(type, k) PROVE m_aggs' = m_aggs
  BY <1>1, <1>5 DEF Next, Load, LoadUnknown, ConstantInteger, Arith
<1> QED
  BY <1>3, <1>4, <1>5

\* A step of compile(), as the caller sees it: nothing, until it delivers what
\* was asked for or fails.
LEMMA CompilePromise ==
  ASSUME Shape, Shape', ProgramComputesAggregates', BeginCompile \/ CompileStep
  PROVE  [Promise!Next]_(Promise!promiseVars)
<1>1. TypeOK /\ TypeOK' /\ SameTables
  BY DEF Shape, Types, SameTables, BeginCompile, CompileStep, ReuseRegister, CompileLeaf,
     CompileFirstOperand, LockSameOperand, LockFirstOperand, LockSecondOperand, SaveLeft,
     ChooseDestination, Emit, ReturnFailure, CompileAggregate, PushAggregate, FailCompile,
     FinishCompile, exprVars
<1>2. WantedMeaning' = WantedMeaning
  BY <1>1, MeaningUnchanged, WantedUnchanged DEF SameTables
<1>3. CASE BeginCompile
  <2>1. PhaseOf = "asking" /\ PhaseOf' = "working" /\ m_status # "COMPILED"
        /\ m_status' # "COMPILED"
    BY <1>3 DEF BeginCompile, Programming, PhaseOf
  <2> QED BY <1>2, <2>1 DEF Promise!Next, Promise!Start
<1>4. CASE CompileStep
  <2>1. m_status = "COMPILING" /\ ~fault /\ fault' = fault
    BY <1>4 DEF Shape, Phases, CompileStep, ReuseRegister, CompileLeaf,
       CompileFirstOperand, LockSameOperand, LockFirstOperand, LockSecondOperand, SaveLeft,
       ChooseDestination, Emit, ReturnFailure, CompileAggregate, PushAggregate, FailCompile,
       FinishCompile, AllCompiled, At, Idle, exprVars
  <2>2. CASE m_status' = m_status
    BY <1>2, <2>1, <2>2 DEF PhaseOf, Promise!promiseVars
  <2>3. CASE FailCompile
    BY <1>2, <2>1, <2>3 DEF FailCompile, PhaseOf, Promise!Next, Promise!Fail
  <2>4. CASE FinishCompile
    <3>1. m_status' = "COMPILED"
      BY <2>4 DEF FinishCompile
    <3>2. ProgramMeaning(0)' = WantedMeaning'
      BY <3>1, LongAssumption DEF ProgramComputesAggregates, Long
    <3> QED BY <1>2, <2>1, <3>1, <3>2 DEF PhaseOf, Promise!Next, Promise!Deliver
  <2> QED
    BY <1>4, <2>2, <2>3, <2>4 DEF CompileStep, ReuseRegister, CompileLeaf,
       CompileFirstOperand, LockSameOperand, LockFirstOperand, LockSecondOperand, SaveLeft,
       ChooseDestination, Emit, ReturnFailure, CompileAggregate, PushAggregate, exprVars
<1> QED
  BY <1>3, <1>4

\* Every step of the API and the compiler is a step of the promise or changes
\* nothing a caller can see: compile() delivers exactly the aggregates asked
\* for, in that order, or fails; building more never changes what an earlier
\* request means.  (That compile() returns is a liveness property.)
THEOREM CompilerKeepsPromise == CompSpec => Promise!Init /\ [][Promise!Next]_(Promise!promiseVars)
<1>1. CompInit => Promise!Init
  <2> SUFFICES ASSUME CompInit PROVE Promise!Init
    OBVIOUS
  <2>1. m_status = "PROGRAMMING" /\ ~fault /\ m_aggs = <<>>
    BY DEF CompInit, Init
  <2>2. WantedMeaning = <<>>
    BY <2>1 DEF WantedMeaning
  <2> QED BY <2>1, <2>2 DEF Promise!Init, PhaseOf
<1>2. Shape /\ Shape' /\ ProgramComputesAggregates' /\ [CompNext]_vars
      => [Promise!Next]_(Promise!promiseVars)
  <2> SUFFICES ASSUME Shape, Shape', ProgramComputesAggregates', [CompNext]_vars
               PROVE  [Promise!Next]_(Promise!promiseVars)
    OBVIOUS
  <2>1. CASE UNCHANGED vars
    <3>1. /\ TypeOK /\ TypeOK' /\ SameTables /\ UNCHANGED <<m_status, fault, m_program>>
      BY <2>1 DEF Shape, Types, SameTables, vars, exprVars, compVars
    <3>2. WantedMeaning' = WantedMeaning
      BY <3>1, MeaningUnchanged, WantedUnchanged DEF SameTables
    <3>3. PhaseOf' = PhaseOf /\ ProgramMeaning(0)' = ProgramMeaning(0)
      BY <3>1 DEF PhaseOf, ProgramMeaning, SameTables
    <3> QED BY <3>1, <3>2, <3>3 DEF Promise!promiseVars
  <2> QED BY <2>1, ProgramPromise, CompilePromise DEF CompNext
<1> QED
  BY <1>1, <1>2, ShapeInvariant, ProgramAlwaysComputes, PTL DEF CompSpec
=============================================================================
