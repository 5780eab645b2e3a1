---------------------------- MODULE AggCompiler ----------------------------
(* The symbolic VM and the compiler of AggregationAPICompiler                *)
(* (AggregationAPICompiler.cpp, lines 273-840).  compile() is one call that  *)
(* nothing interrupts; the recursion of compile(Expr) is unrolled into a     *)
(* stack of frames, and a step of the specification is the code between two  *)
(* calls.  The asserts of the code are not guards: what they state is in the *)
(* properties OperandsSurvive, LocksAreFrames, InstructionsAreSound,         *)
(* UsesAllCounted and OnlyMovIsUseless.  The exception is the assert at the  *)
(* top of compile(), which is the caller's obligation (NoOrphans).           *)
EXTENDS AggExprs

CONSTANT REGS    \* number of registers of the VM

ASSUME RegsAssumption == REGS \in Nat \ {0}

Regs == 0 .. (REGS - 1)
None == -1       \* no register yet
Failed == -2     \* compile(Expr) returned false

VARIABLES
  r,                  \* the registers of the symbolic VM: handles or NULL
  m_locked,           \* how often each register is locked
  m_program,          \* the instructions pushed so far
  program_usage,      \* uses of each expression in the program so far
  has_been_compiled,  \* the expressions whose compilation has begun
  stack,              \* the active calls of compile(Expr)
  result,             \* what the last of them returned: a register or Failed
  next_agg            \* the loop variable of compile()

compVars == <<r, m_locked, m_program, program_usage, has_been_compiled,
              stack, result, next_agg>>
vars == <<exprVars, compVars>>

-----------------------------------------------------------------------------
(* The symbolic VM                                                           *)

Instructions ==
  [type : ArithOps \cup AggFunctions \cup {"Load", "LoadConstantInteger", "Mov"},
   dest : Nat, src : Nat \cup Columns]

Instr(type, dest, src) == [type |-> type, dest |-> dest, src |-> src]

IsLoad(ins) == ins.type \in {"Load", "LoadConstantInteger"}
IsArith(ins) == ins.type \in ArithOps
IsAgg(ins) == ins.type \in AggFunctions

EmptyRegisters == [i \in Regs |-> NULL]

\* What new_expr returns outside PROGRAMMING: the expression, which must be
\* in the table already (NULL stands for the failed assert if it is not).
Interned(e) == IF Matching(e) = {} THEN NULL ELSE First(Matching(e))

\* The value instruction ins computes from the registers regs.
ValueComputed(regs, ins) ==
  CASE ins.type = "Load" -> Interned(Leaf("Load", ins.src))
    [] ins.type = "LoadConstantInteger" -> Interned(Leaf("LoadConstantInt", ins.src))
    [] ins.type = "Mov" -> regs[ins.src]
    [] IsArith(ins) ->
         IF NULL \in {regs[ins.dest], regs[ins.src]} THEN NULL
         ELSE Interned(Arithmetic(ins.type, regs[ins.dest], regs[ins.src]))

svm_execute(regs, ins) ==
  IF IsAgg(ins) THEN regs ELSE [regs EXCEPT ![ins.dest] = ValueComputed(regs, ins)]

\* Mutant of UsedValues: an operation uses only its source.
UsedSources(regs, ins) ==
  IF IsArith(ins) \/ IsAgg(ins) THEN <<regs[ins.src]>> ELSE <<>>

\* The values whose use svm_use reports, one entry per use.
UsedValues(regs, ins) ==
  IF IsArith(ins) THEN <<regs[ins.dest], regs[ins.src]>>
  ELSE IF IsAgg(ins) THEN <<regs[ins.src]>> ELSE <<>>

\* svm_use in a first compilation; a recalculation is not counted.
Counted(regs, ins) ==
  [k \in Handles |->
     program_usage[k]
     + Cardinality({n \in DOMAIN UsedValues(regs, ins) : UsedValues(regs, ins)[n] = k})]

\* The asserts of svm_execute and svm_use on an instruction about to run.
Executable(regs, ins) ==
  /\ ins.dest \in Regs \/ (IsAgg(ins) /\ ins.dest \in 1 .. Len(m_aggs))
  /\ IsLoad(ins) \/ ins.src \in Regs
  /\ \A n \in DOMAIN UsedValues(regs, ins) : UsedValues(regs, ins)[n] # NULL
  /\ IsAgg(ins) => m_aggs[ins.dest].expr = regs[ins.src]
  /\ IsLoad(ins) \/ IsArith(ins) => ValueComputed(regs, ins) # NULL

UsesRemain(regs, ins) == \A k \in Handles : Counted(regs, ins)[k] <= usage[k]

-----------------------------------------------------------------------------
(* pushInstr: append an instruction and execute it symbolically.             *)

pushInstr(ins, is_first_compilation) ==
  /\ m_program' = Append(m_program, ins)
  /\ r' = svm_execute(r, ins)
  /\ program_usage' = IF is_first_compilation THEN Counted(r, ins) ELSE program_usage

NoPush == UNCHANGED <<m_program, r, program_usage>>

-----------------------------------------------------------------------------
(* Choosing registers                                                        *)

\* Instructions needed to calculate expr from the registers other than
\* without, not counting reuse.
estimated_cost_of_recalculating(expr, without) ==
  LET cost[k \in 0 .. Len(m_exprs)] ==
        IF k = NULL \/ (\E i \in Regs \ {without} : r[i] = k) THEN 0
        ELSE IF m_exprs[k].op = "Load" THEN 1
        ELSE 1 + cost[m_exprs[k].left] + cost[m_exprs[k].right]
  IN  cost[expr]

\* A value with no use left, as the program was counted so far, costs nothing.
RegisterCost(i) ==
  IF r[i] = NULL THEN 0
  ELSE IF usage[r[i]] = program_usage[r[i]] THEN 0
  ELSE estimated_cost_of_recalculating(r[i], i)

\* Mutant of Unlocked: a register locked once may be seized.
UnlockedOrOnce == {i \in Regs : m_locked[i] <= 1}

Unlocked == {i \in Regs : m_locked[i] = 0}

\* The register seize_register picks: the first of the cheapest unlocked ones.
Cheapest ==
  First({i \in Unlocked : \A j \in Unlocked : RegisterCost(i) <= RegisterCost(j)})

\* seize_register succeeds with any cost (max_cost is UINT_MAX).
CanSeizeAny == Unlocked # {}
\* seize_register succeeds with a given max_cost.
CanSeize(max_cost) == Unlocked # {} /\ RegisterCost(Cheapest) <= max_cost

-----------------------------------------------------------------------------
(* compile(Expr)                                                             *)

Operation(e) == m_exprs[e].op
Left(e) == m_exprs[e].left
Right(e) == m_exprs[e].right
LeftFirst(e) == m_exprs[e].eval_left_first

\* A call of compile(Expr): where it is, the value of is_first_compilation,
\* and the registers of the operands compiled so far.
\*   enter   at the beginning
\*   first   waiting for the first operand    second  for the second operand
\*   save    both are in locked registers     dest    the copy is made
\*   emit    dest may be overwritten
Call(e) ==
  [expr |-> e, first |-> FALSE, pc |-> "enter", dest |-> None, src |-> None]

Top == stack[Len(stack)]
Callers == SubSeq(stack, 1, Len(stack) - 1)

At(pc) == m_status = "COMPILING" /\ stack # <<>> /\ Top.pc = pc

Replace(frame) == stack' = Append(Callers, frame)
Return(value) == stack' = Callers /\ result' = value
Enter(frame, e) == stack' = Append(Append(Callers, frame), Call(e))

\* Mutant of LockedOnce: the lock is forgotten.
NotLocked(i) == m_locked

LockedOnce(i) == [m_locked EXCEPT ![i] = @ + 1]

\* The locks a frame with both operands has on its destination.
OwnLocks(frame) == IF frame.dest = frame.src THEN 2 ELSE 1

Holding(e) == {i \in Regs : r[i] = e}

ReuseRegister ==
  /\ At("enter")
  /\ Holding(Top.expr) # {}
  /\ Return(First(Holding(Top.expr)))
  /\ NoPush
  /\ UNCHANGED <<exprVars, m_locked, has_been_compiled, next_agg>>

\* Both leaf operations: seize any register and load it.
CompileLeaf ==
  /\ At("enter")
  /\ Holding(Top.expr) = {}
  /\ Operation(Top.expr) \in {"Load", "LoadConstantInt"}
  /\ has_been_compiled' = has_been_compiled \cup {Top.expr}
  /\ \/ /\ CanSeizeAny
        /\ pushInstr(Instr(IF Operation(Top.expr) = "Load" THEN "Load"
                                                           ELSE "LoadConstantInteger",
                           Cheapest, m_exprs[Top.expr].idx),
                     Top.expr \notin has_been_compiled)
        /\ Return(Cheapest)
     \/ ~CanSeizeAny /\ Return(Failed) /\ NoPush
  /\ UNCHANGED <<exprVars, m_locked, next_agg>>

\* Begin an operation with the operand that is evaluated first.
CompileFirstOperand ==
  /\ At("enter")
  /\ Holding(Top.expr) = {}
  /\ Operation(Top.expr) \in ArithOps
  /\ has_been_compiled' = has_been_compiled \cup {Top.expr}
  /\ Enter([Top EXCEPT !.first = Top.expr \notin has_been_compiled, !.pc = "first"],
           IF LeftFirst(Top.expr) THEN Left(Top.expr) ELSE Right(Top.expr))
  /\ NoPush
  /\ UNCHANGED <<exprVars, m_locked, result, next_agg>>

\* The operands are the same expression: its register is both dest and src,
\* and is locked twice.
LockSameOperand ==
  /\ At("first") /\ result \in Regs
  /\ Left(Top.expr) = Right(Top.expr)
  /\ m_locked' = [m_locked EXCEPT ![result] = @ + 2]
  /\ Replace([Top EXCEPT !.dest = result, !.src = result, !.pc = "save"])
  /\ result' = None
  /\ NoPush
  /\ UNCHANGED <<exprVars, has_been_compiled, next_agg>>

\* Lock the first operand and compile the other one.
LockFirstOperand ==
  /\ At("first") /\ result \in Regs
  /\ Left(Top.expr) # Right(Top.expr)
  /\ m_locked' = LockedOnce(result)
  /\ Enter(IF LeftFirst(Top.expr) THEN [Top EXCEPT !.dest = result, !.pc = "second"]
                                  ELSE [Top EXCEPT !.src = result, !.pc = "second"],
           IF LeftFirst(Top.expr) THEN Right(Top.expr) ELSE Left(Top.expr))
  /\ result' = None
  /\ NoPush
  /\ UNCHANGED <<exprVars, has_been_compiled, next_agg>>

LockSecondOperand ==
  /\ At("second") /\ result \in Regs
  /\ m_locked' = LockedOnce(result)
  /\ Replace(IF LeftFirst(Top.expr) THEN [Top EXCEPT !.src = result, !.pc = "save"]
                                    ELSE [Top EXCEPT !.dest = result, !.pc = "save"])
  /\ result' = None
  /\ NoPush
  /\ UNCHANGED <<exprVars, has_been_compiled, next_agg>>

\* Mutant of LeftNeededLater: the last use but one is taken for the last.
LeftNeededTwiceLater ==
  usage[Left(Top.expr)] - program_usage[Left(Top.expr)] > OwnLocks(Top) + 1

\* The left operand has uses that this operation does not make.
LeftNeededLater ==
  usage[Left(Top.expr)] - program_usage[Left(Top.expr)] > OwnLocks(Top)

CopyExists == \E i \in Regs \ {Top.dest} : r[i] = Left(Top.expr)

\* The operation overwrites dest: first copy a value that is needed later, if
\* a register can be had for less than the value is worth.
SaveLeft ==
  /\ At("save")
  /\ \/ /\ LeftNeededLater /\ ~CopyExists
        /\ CanSeize(estimated_cost_of_recalculating(Left(Top.expr), Top.dest))
        /\ pushInstr(Instr("Mov", Cheapest, Top.dest), Top.first)
     \/ /\ ~(/\ LeftNeededLater /\ ~CopyExists
             /\ CanSeize(estimated_cost_of_recalculating(Left(Top.expr), Top.dest)))
        /\ NoPush
  /\ Replace([Top EXCEPT !.pc = "dest"])
  /\ UNCHANGED <<exprVars, m_locked, has_been_compiled, result, next_agg>>

\* Mutant of DestinationShared: a caller's lock is overlooked.
DestinationNeverShared == FALSE

\* Callers further up still hold the destination.
DestinationShared == m_locked[Top.dest] > OwnLocks(Top)

FreeCopies == Holding(Left(Top.expr)) \cap Unlocked

MoveDestination(new_dest) ==
  /\ m_locked' = [m_locked EXCEPT ![new_dest] = @ + 1, ![Top.dest] = @ - 1]
  /\ Replace([Top EXCEPT !.dest = new_dest, !.pc = "emit"])
  /\ UNCHANGED result

\* A destination that a caller has locked is exchanged for a free copy of the
\* value, or for any register the value can be copied to.
ChooseDestination ==
  /\ At("dest")
  /\ \/ /\ ~DestinationShared
        /\ Replace([Top EXCEPT !.pc = "emit"])
        /\ NoPush
        /\ UNCHANGED <<m_locked, result>>
     \/ /\ DestinationShared /\ FreeCopies # {}
        /\ MoveDestination(First(FreeCopies))
        /\ NoPush
     \/ /\ DestinationShared /\ FreeCopies = {} /\ CanSeizeAny
        /\ MoveDestination(Cheapest)
        /\ pushInstr(Instr("Mov", Cheapest, Top.dest), Top.first)
     \/ /\ DestinationShared /\ FreeCopies = {} /\ ~CanSeizeAny
        /\ Return(Failed)
        /\ NoPush
        /\ UNCHANGED m_locked
  /\ UNCHANGED <<exprVars, has_been_compiled, next_agg>>

\* Mutant of Unlocks: a register that is both operands is unlocked once.
UnlocksOnce(frame, i) == IF i \in {frame.dest, frame.src} THEN 1 ELSE 0

Unlocks(frame, i) ==
  (IF i = frame.dest THEN 1 ELSE 0) + (IF i = frame.src THEN 1 ELSE 0)

Emit ==
  /\ At("emit")
  /\ m_locked' = [i \in Regs |-> m_locked[i] - Unlocks(Top, i)]
  /\ pushInstr(Instr(Operation(Top.expr), Top.dest, Top.src), Top.first)
  /\ Return(Top.dest)
  /\ UNCHANGED <<exprVars, has_been_compiled, next_agg>>

\* A call whose operand could not be compiled returns false, keeping its locks.
ReturnFailure ==
  /\ m_status = "COMPILING" /\ stack # <<>> /\ result = Failed
  /\ Return(Failed)
  /\ NoPush
  /\ UNCHANGED <<exprVars, m_locked, has_been_compiled, next_agg>>

-----------------------------------------------------------------------------
(* dead_code_elimination                                                     *)

\* Mutant of Needed: an operation does not read its destination.
NeededForgetsDestination(ins, after) ==
  IF IsAgg(ins) THEN after \cup {ins.src}
  ELSE IF ins.dest \notin after THEN after
  ELSE IF IsLoad(ins) THEN after \ {ins.dest}
  ELSE (after \ {ins.dest}) \cup {ins.src}

\* The registers needed before an instruction, given those needed after it.
Needed(ins, after) ==
  IF IsAgg(ins) THEN after \cup {ins.src}
  ELSE IF ins.dest \notin after THEN after
  ELSE IF IsLoad(ins) THEN after \ {ins.dest}
  ELSE IF ins.type = "Mov" THEN (after \ {ins.dest}) \cup {ins.src}
  ELSE after \cup {ins.src}

NeededBefore == [ins \in Instructions |-> [after \in SUBSET Regs |-> Needed(ins, after)]]

\* The registers needed after the k-th instruction of program p.
NeededAfter(p) ==
  LET needed[k \in 0 .. Len(p)] ==
        IF k = Len(p) THEN {} ELSE NeededBefore[p[k + 1]][needed[k + 1]]
  IN  needed

\* Mutant of Useful: nothing is eliminated.
AllUseful(p) == 1 .. Len(p)

Useful(p) ==
  {k \in 1 .. Len(p) : IsAgg(p[k]) \/ p[k].dest \in NeededAfter(p)[k]}

\* p without its useless instructions.
Eliminate(p) ==
  LET kept[k \in 0 .. Len(p)] ==
        IF k = 0 THEN <<>>
        ELSE IF k \in Useful(p) THEN Append(kept[k - 1], p[k]) ELSE kept[k - 1]
  IN  kept[Len(p)]

Executed == [regs \in [Regs -> Nat] |-> [ins \in Instructions |-> svm_execute(regs, ins)]]

\* The registers after each instruction of p, executed from svm_init on.
Execution(p) ==
  LET regs[k \in 0 .. Len(p)] ==
        IF k = 0 THEN EmptyRegisters
        ELSE Executed[regs[k - 1]][p[k]]
  IN  regs

-----------------------------------------------------------------------------
(* compile()                                                                 *)

\* The contract the assert at the top of compile() states: every expression
\* but a constant is used.
NoOrphans == \A k \in Handles : usage[k] > 0 \/ IsConstant(k)

CompInit ==
  /\ Init
  /\ r = EmptyRegisters
  /\ m_locked = [i \in Regs |-> 0]
  /\ m_program = <<>>
  /\ program_usage = <<>>
  /\ has_been_compiled = {}
  /\ stack = <<>>
  /\ result = None
  /\ next_agg = 0

\* A call of the high-level API.
Program == Next /\ UNCHANGED compVars

\* The handle of the last call is of no more use: ret forgets it.
BeginCompile ==
  /\ Programming /\ NoOrphans
  /\ m_status' = "COMPILING"
  /\ r' = EmptyRegisters
  /\ m_locked' = [i \in Regs |-> 0]
  /\ program_usage' = [k \in Handles |-> 0]
  /\ next_agg' = 1
  /\ ret' = NULL
  /\ UNCHANGED <<m_exprs, usage, m_aggs, m_constants, fault,
                 m_program, has_been_compiled, stack, result>>

Idle == m_status = "COMPILING" /\ stack = <<>>

CompileAggregate ==
  /\ Idle /\ result = None /\ next_agg <= Len(m_aggs)
  /\ stack' = <<Call(m_aggs[next_agg].expr)>>
  /\ NoPush
  /\ UNCHANGED <<exprVars, m_locked, has_been_compiled, result, next_agg>>

PushAggregate ==
  /\ Idle /\ result \in Regs
  /\ pushInstr(Instr(m_aggs[next_agg].agg_type, next_agg, result), TRUE)
  /\ next_agg' = next_agg + 1
  /\ result' = None
  /\ UNCHANGED <<exprVars, m_locked, has_been_compiled, stack>>

FailCompile ==
  /\ Idle /\ result = Failed
  /\ m_status' = "FAILED"
  /\ UNCHANGED <<m_exprs, usage, m_aggs, m_constants, ret, fault, compVars>>

AllCompiled == Idle /\ result = None /\ next_agg > Len(m_aggs)

\* Eliminate dead code and run the program once more on the symbolic VM.
FinishCompile ==
  /\ AllCompiled
  /\ m_status' = "COMPILED"
  /\ m_program' = Eliminate(m_program)
  /\ r' = Execution(Eliminate(m_program))[Len(Eliminate(m_program))]
  /\ UNCHANGED <<m_exprs, usage, m_aggs, m_constants, ret, fault, m_locked,
                 program_usage, has_been_compiled, stack, result, next_agg>>

\* The object is only printed from here on, or the process is gone.
Finished == m_status \in {"COMPILED", "FAILED"} \/ fault

CompileStep ==
  \/ ReuseRegister \/ CompileLeaf \/ CompileFirstOperand
  \/ LockSameOperand \/ LockFirstOperand \/ LockSecondOperand
  \/ SaveLeft \/ ChooseDestination \/ Emit \/ ReturnFailure
  \/ CompileAggregate \/ PushAggregate \/ FailCompile \/ FinishCompile

CompNext == Program \/ BeginCompile \/ CompileStep \/ (Finished /\ UNCHANGED vars)

\* compile() is one call of a sequential program: once begun it runs on.
CompSpec == CompInit /\ [][CompNext]_vars /\ WF_vars(CompileStep)

-----------------------------------------------------------------------------
(* Properties                                                                *)

Frame ==
  [expr : Handles, first : BOOLEAN,
   pc : {"enter", "first", "second", "save", "dest", "emit"},
   dest : Regs \cup {None}, src : Regs \cup {None}]

\* Types of the compiler's state.
CompTypeOK ==
  /\ TypeOK
  /\ r \in [Regs -> {NULL} \cup Handles]
  /\ m_locked \in [Regs -> Nat]
  /\ m_program \in Seq(Instructions)
  /\ m_status # "PROGRAMMING" /\ next_agg > 0 => program_usage \in [Handles -> Nat]
  /\ has_been_compiled \subseteq Handles
  /\ stack \in Seq(Frame)
  /\ result \in Regs \cup {None, Failed}
  /\ next_agg \in 0 .. (Len(m_aggs) + 1)

\* The locks that the calls in s have on register i: one for every operand
\* that a call holds in it.
Held(s, i) ==
  Cardinality({n \in 1 .. Len(s) : s[n].dest = i})
  + Cardinality({n \in 1 .. Len(s) : s[n].src = i})

\* A register is locked once for every operand that an active call holds in
\* it and for nothing else, so no lock leaks from one aggregate into the next
\* (unless the compilation has failed: a failing call keeps its locks).
LocksAreFrames ==
  m_status = "COMPILING" /\ result # Failed =>
    \A i \in Regs : m_locked[i] = Held(stack, i)

\* The operand registers of every active call, the callers' included, still
\* hold the operands: no instruction pushed in between has overwritten them.
\* (The asserts `r[dest] == expr->left' and `r[src] == expr->right'.)
OperandsSurvive ==
  \A n \in 1 .. Len(stack) :
    LET f == stack[n]
    IN  /\ f.dest # None => r[f.dest] = Left(f.expr)
        /\ f.src # None => r[f.src] = Right(f.expr)
        /\ n < Len(stack) => f.pc \in {"first", "second"}

\* The remaining asserts on the way to an operation or an aggregate: its
\* operands are registers with values, it computes the expression asked for,
\* it overwrites a register nobody else has locked, and the uses counted so
\* far leave room for these ("usage - program_usage > 0" in svm_use).
InstructionsAreSound ==
  /\ At("emit") =>
       LET ins == Instr(Operation(Top.expr), Top.dest, Top.src)
       IN  /\ Executable(r, ins)
           /\ ValueComputed(r, ins) = Top.expr
           /\ m_locked[Top.dest] = OwnLocks(Top)
           /\ Top.first => UsesRemain(r, ins)
  /\ Idle /\ result \in Regs =>
       LET ins == Instr(m_aggs[next_agg].agg_type, next_agg, result)
       IN  Executable(r, ins) /\ UsesRemain(r, ins)

\* When every aggregate is compiled, every use of every expression has been
\* counted exactly once, recalculations left out (assert after the loop of
\* compile()).  RegisterCost relies on these counts while they grow.
UsesAllCounted == AllCompiled => program_usage = usage

Rows == [Columns -> Long]

\* The value of expression k, as a function of the row.
Meaning(k) == [row \in Rows |-> Denotation(row)[k]]

\* What instruction ins leaves in its destination, given what the registers
\* hold, all as functions of the row.
Loaded(constants, regs, ins) ==
  CASE ins.type = "Load" -> [row \in Rows |-> row[ins.src]]
    [] ins.type = "LoadConstantInteger" -> [row \in Rows |-> constants[ins.src]]
    [] ins.type = "Mov" -> regs[ins.src]
    [] IsArith(ins) ->
         [row \in Rows |-> ValueOf(ins.type, regs[ins.dest][row], regs[ins.src][row])]

\* One instruction of a running program: it writes a register, or hands one to
\* an aggregate function.
Stepped(constants, m, ins) ==
  IF IsAgg(ins) THEN [m EXCEPT !.out = Append(@, <<ins.type, m.regs[ins.src]>>)]
  ELSE [m EXCEPT !.regs[ins.dest] = Loaded(constants, m.regs, ins)]

\* The registers and the outputs after each instruction of p, begun with start
\* in the registers.
Running(constants, start, p) ==
  LET m[k \in 0 .. Len(p)] ==
        IF k = 0 THEN [regs |-> start, out |-> <<>>]
        ELSE Stepped(constants, m[k - 1], p[k])
  IN  m

\* What an earlier row left in the registers.
Stale(x) == [i \in Regs |-> [row \in Rows |-> x]]

\* The outputs of m_program in order: an aggregate function and what it is
\* given on every row.
ProgramMeaning(x) == Running(m_constants, Stale(x), m_program)[Len(m_program)].out

\* The aggregates asked for, in order, with the value of their expressions.
WantedMeaning == [i \in 1 .. Len(m_aggs) |-> <<m_aggs[i].agg_type, Meaning(m_aggs[i].expr)>>]

\* The delivered program computes, on every row, exactly the aggregates asked
\* for in the order of the requests, whatever its registers held before.
ProgramComputesAggregates ==
  m_status = "COMPILED" => \A x \in Long : ProgramMeaning(x) = WantedMeaning

\* "We believe the compiler will not generate useless instructions of any
\* other type than Mov"; and once they are eliminated something reads every
\* register between writing it and writing it again, or the end: the program
\* delivered has no instruction without effect.
OnlyMovIsUseless ==
  /\ AllCompiled =>
       \A k \in 1 .. Len(m_program) : k \notin Useful(m_program) => m_program[k].type = "Mov"
  /\ m_status = "COMPILED" =>
       \A k \in 1 .. Len(m_program) :
         ~IsAgg(m_program[k]) =>
           \E n \in (k + 1) .. Len(m_program) :
             /\ \/ ~IsLoad(m_program[n]) /\ m_program[n].src = m_program[k].dest
                \/ IsArith(m_program[n]) /\ m_program[n].dest = m_program[k].dest
             /\ \A j \in (k + 1) .. (n - 1) :
                  ~IsAgg(m_program[j]) => m_program[j].dest # m_program[k].dest

\* est_regs is an estimate that can be relied on: compile() fails only if some
\* aggregate's expression was estimated to need more registers than there are.
FailsOnlyBeyondEstimate ==
  m_status = "FAILED" /\ next_agg > 0 =>
    \E i \in 1 .. Len(m_aggs) : m_exprs[m_aggs[i].expr].est_regs > REGS

\* With a register for every expression no value is lost before its last use:
\* nothing is calculated a second time.
NothingIsRecalculated ==
  REGS >= Len(m_exprs) =>
    \A n \in 1 .. Len(stack) :
      stack[n].pc # "enter" => stack[n].first

=============================================================================
