---------------------------- MODULE AggInterpreter ----------------------------
(* The aggregation interpreter (interpreter.cc, 816-1125): a register        *)
(* machine that runs its program once for every record and keeps one row of  *)
(* result items for each group.  An instruction is a record of its fields,   *)
(* not a word of bits; columns, registers and items are numbered from 1.     *)
EXTENDS RegArith, Sequences, FiniteSetsExt

CONSTANTS
  Schema,      \* the columns of a record: [type, is_unsigned] each
  Programs,    \* the programs a caller passes to the constructor
  Records,     \* the records a caller passes to ProcessRec
  kRegTotal,   \* the number of registers
  MaxRecords   \* bound on the number of records

Regs == 1 .. kRegTotal
NumericTypes == {"BigInt", "Double"}

\* A program: the columns of GROUP BY, the types of the result items, the code.
Instructions ==
  [op : {"LoadCol"}, reg : Regs, col : DOMAIN Schema, type : NumericTypes, is_unsigned : BOOLEAN]
    \cup [op : ArithOps, reg : Regs, reg2 : Regs]
    \cup [op : AggFunctions, reg : Regs, agg : Nat, type : NumericTypes]
    \cup [op : {"Store", "Unknown"}]
ProgramTexts ==
  [gb_cols : Seq(DOMAIN Schema), agg_types : Seq(NumericTypes), code : Seq(Instructions)]

Wider(s, t) == IF "Unknown" \in {s, t} THEN "Unknown"
               ELSE IF "Double" \in {s, t} THEN "Double" ELSE "BigInt"

\* The types of the registers after each instruction, if nothing is NULL.
StaticTypes(code) ==
  LET types[k \in 0 .. Len(code)] ==
        IF k = 0 THEN [r \in Regs |-> "Unknown"]
        ELSE LET i == code[k]
             IN  IF i.op = "LoadCol" THEN [types[k - 1] EXCEPT ![i.reg] = i.type]
                 ELSE IF i.op \in ArithOps
                 THEN [types[k - 1] EXCEPT ![i.reg] = Wider(@, types[k - 1][i.reg2])]
                 ELSE types[k - 1]
  IN  types

\* What a caller must see to: registers are loaded before they are used, and
\* the types in the instructions are those of the columns and of the items.
WellFormed(p) ==
  /\ p \in ProgramTexts /\ Len(p.gb_cols) <= Len(Schema)
  /\ \A k \in DOMAIN p.code :
       LET i == p.code[k]
           static == StaticTypes(p.code)[k - 1]
       IN  CASE i.op = "LoadCol" ->
                  i.type = Schema[i.col].type /\ i.is_unsigned = Schema[i.col].is_unsigned
             [] i.op \in ArithOps -> {static[i.reg], static[i.reg2]} \subseteq NumericTypes
             [] i.op \in AggFunctions ->
                  /\ i.agg \in DOMAIN p.agg_types /\ i.type = p.agg_types[i.agg]
                  /\ IF i.op = "Count" THEN i.type = "BigInt" /\ static[i.reg] # "Unknown"
                                       ELSE i.type = static[i.reg]
             [] OTHER -> TRUE

ASSUME SchemaAssumption ==
  Schema \in Seq([type : NumericTypes, is_unsigned : BOOLEAN]) /\ Schema # <<>>
ASSUME ProgramsAssumption == \A p \in Programs : WellFormed(p)
ASSUME RecordsAssumption ==
  \A r \in Records :
    /\ r \in Seq(Bits \cup Doubles) /\ Len(r) = Len(Schema)
    /\ \A c \in DOMAIN Schema : r[c] \in IF Schema[c].type = "Double" THEN Doubles ELSE Bits
\* There are fewer records than a COUNT can tell apart.
ASSUME SizesAssumption == kRegTotal \in Nat \ {0} /\ MaxRecords \in 0 .. (Word - 1)

VARIABLES
  prog,          \* prog_: never changes
  inited,        \* Init() has been called
  registers,     \* registers_, which keep their values between records
  agg_results,   \* agg_results_: the result items of a program without GROUP BY
  gb_map,        \* gb_map_: the result items of each group
  rec,           \* the record ProcessRec works on
  exec_pos,      \* the next instruction
  fault,         \* an assert failed, or a division trapped
  processed      \* history: the records ProcessRec has returned for

interpVars ==
  <<prog, inited, registers, agg_results, gb_map, rec, exec_pos, fault, processed>>

NoRecord == <<>>
Cleared == [type |-> "Unknown", value |-> 0, is_unsigned |-> FALSE, is_null |-> FALSE]

Grouped == prog.gb_cols # <<>>

\* Mutant of NewItem: the type of a new group's item is left zero.
NewItemUntyped(type) ==
  [type |-> "Unknown", value |-> 0, is_unsigned |-> FALSE, inited |-> FALSE]

\* An item of a new group: zeroed memory, and the type of the program's item.
NewItem(type) ==
  [type |-> type, value |-> 0, is_unsigned |-> FALSE, inited |-> FALSE]

\* Mutant of KeyOf: the last column of the key is dropped.
KeyOfTooShort(r) == [c \in 1 .. Len(prog.gb_cols) - 1 |-> r[c]]

\* The group's key: as many columns of the record as GROUP BY names, from the
\* first one on (interpreter.cc:897, 906).
KeyOf(r) == [c \in 1 .. Len(prog.gb_cols) |-> r[c]]

\* The items ProcessRec works on: agg_res_ptr.
Result == IF Grouped THEN gb_map[KeyOf(rec)] ELSE agg_results

Init ==
  /\ prog \in Programs
  /\ inited = FALSE /\ fault = "none"
  /\ registers = [r \in Regs |-> Cleared]
  /\ agg_results = <<>> /\ gb_map = <<>>
  /\ rec = NoRecord /\ exec_pos = 1 /\ processed = <<>>

\* AggInterpreter::Init: `new AggResItem[n]' leaves is_unsigned uninitialised.
Initialize ==
  /\ ~inited
  /\ inited' = TRUE
  /\ \E garbage \in [DOMAIN prog.agg_types -> BOOLEAN] :
       agg_results' = [j \in DOMAIN prog.agg_types |->
                         [NewItem(prog.agg_types[j]) EXCEPT !.is_unsigned = garbage[j]]]
  /\ registers' = [r \in Regs |-> Cleared]
  /\ UNCHANGED <<prog, gb_map, rec, exec_pos, fault, processed>>

\* ProcessRec, up to the loop: find or make the record's group.
ProcessRec(r) ==
  /\ inited /\ fault = "none" /\ rec = NoRecord
  /\ Len(processed) < MaxRecords
  /\ rec' = r /\ exec_pos' = 1
  /\ gb_map' =
       IF ~Grouped \/ KeyOf(r) \in DOMAIN gb_map
       THEN gb_map
       ELSE [key \in DOMAIN gb_map \cup {KeyOf(r)} |->
               IF key \in DOMAIN gb_map THEN gb_map[key]
               ELSE [j \in DOMAIN prog.agg_types |-> NewItem(agg_results[j].type)]]
  /\ UNCHANGED <<prog, inited, registers, agg_results, fault, processed>>

Running == rec # NoRecord /\ fault = "none" /\ exec_pos <= Len(prog.code)
Instruction == prog.code[exec_pos]

\* A negative result fails `assert(ret >= 0)'.
FaultOf(ret) ==
  CASE ret = -1 -> "abort" [] ret = -2 -> "trap" [] OTHER -> "none"

\* Mutant of Loaded: a register that was NULL stays NULL.
LoadedKeepsNull(reg, i) ==
  [reg EXCEPT !.type = i.type, !.is_unsigned = i.is_unsigned, !.value = rec[i.col]]

Loaded(reg, i) ==
  [ResetRegister(reg) EXCEPT !.type = i.type, !.is_unsigned = i.is_unsigned,
                             !.is_null = FALSE, !.value = rec[i.col]]

LoadCol ==
  LET i == Instruction
  IN  /\ Running /\ i.op = "LoadCol"
      /\ IF i.type = Schema[i.col].type
         THEN registers' = [registers EXCEPT ![i.reg] = Loaded(@, i)] /\ fault' = fault
         ELSE UNCHANGED registers /\ fault' = "abort"
      /\ exec_pos' = exec_pos + 1
      /\ UNCHANGED <<prog, inited, agg_results, gb_map, rec, processed>>

\* kOpPlus to kOpMod: the first register is operand and result.
Calculate ==
  LET i == Instruction
      out == RegOp(i.op, registers[i.reg], registers[i.reg2])
  IN  /\ Running /\ i.op \in ArithOps
      /\ IF {registers[i.reg].type, registers[i.reg2].type} \subseteq NumericTypes
         THEN /\ registers' = [registers EXCEPT ![i.reg] = out.reg]
              /\ fault' = FaultOf(out.ret)
         ELSE UNCHANGED registers /\ fault' = "abort"
      /\ exec_pos' = exec_pos + 1
      /\ UNCHANGED <<prog, inited, agg_results, gb_map, rec, processed>>

\* The assert before an aggregate function looks at the program's items, also
\* when the record's group has items of its own.
DeclaredFor(i) ==
  IF i.op = "Count" THEN agg_results[i.agg].type \in {"Unknown", "BigInt"}
                    ELSE agg_results[i.agg].type = i.type

\* kOpCount to kOpMin.
Aggregate ==
  LET i == Instruction
      out == AggOp(i.op, registers[i.reg], Result[i.agg])
  IN  /\ Running /\ i.op \in AggFunctions
      /\ IF ~DeclaredFor(i)
         THEN UNCHANGED <<agg_results, gb_map>> /\ fault' = "abort"
         ELSE /\ IF Grouped
                 THEN /\ gb_map' = [gb_map EXCEPT ![KeyOf(rec)][i.agg] = out.reg]
                      /\ UNCHANGED agg_results
                 ELSE /\ agg_results' = [agg_results EXCEPT ![i.agg] = out.reg]
                      /\ UNCHANGED gb_map
              /\ fault' = FaultOf(out.ret)
      /\ exec_pos' = exec_pos + 1
      /\ UNCHANGED <<prog, inited, registers, rec, processed>>

\* Every other operation, kOpStore among them, is ignored.
Ignore ==
  /\ Running /\ Instruction.op \notin {"LoadCol"} \cup ArithOps \cup AggFunctions
  /\ exec_pos' = exec_pos + 1
  /\ UNCHANGED <<prog, inited, registers, agg_results, gb_map, rec, fault, processed>>

Return ==
  /\ rec # NoRecord /\ fault = "none" /\ exec_pos > Len(prog.code)
  /\ rec' = NoRecord /\ exec_pos' = 1
  /\ processed' = Append(processed, rec)
  /\ UNCHANGED <<prog, inited, registers, agg_results, gb_map, fault>>

Next ==
  \/ Initialize
  \/ \E r \in Records : ProcessRec(r)
  \/ LoadCol \/ Calculate \/ Aggregate \/ Ignore
  \/ Return

Spec == Init /\ [][Next]_interpVars

-----------------------------------------------------------------------------
(* Properties                                                                *)

\* The value of a BIGINT or DOUBLE cell is in range, in registers and items.
CellOK(cell) ==
  /\ cell.type \in Types /\ cell.is_unsigned \in BOOLEAN
  /\ cell.value \in IF cell.type = "Double" THEN Doubles ELSE Bits

\* Registers and items hold what their type allows, every row of items has the
\* program's length, and groups exist only for a program with GROUP BY.
InterpTypeOK ==
  /\ prog \in Programs /\ inited \in BOOLEAN
  /\ fault \in {"none", "abort", "trap"}
  /\ DOMAIN registers = Regs
  /\ \A r \in Regs : CellOK(registers[r]) /\ registers[r].is_null \in BOOLEAN
  /\ \A row \in {agg_results} \cup {gb_map[key] : key \in DOMAIN gb_map} :
       /\ row # <<>> => DOMAIN row = DOMAIN prog.agg_types
       /\ \A j \in DOMAIN row : CellOK(row[j]) /\ row[j].inited \in BOOLEAN
  /\ ~Grouped => DOMAIN gb_map = {}
  /\ rec \in Records \cup {NoRecord}
  /\ exec_pos \in 1 .. Len(prog.code) + 1

\* The type asserts of ProcessRec (960, 1054, 1078, 1089) and of the functions it
\* calls (572, 724) hold when they are reached: whatever was NULL, divided or
\* widened before, only an overflow makes the interpreter abort.
AssertsHold ==
  Running =>
    LET i == Instruction
    IN  CASE i.op = "LoadCol" -> i.type = Schema[i.col].type
          [] i.op \in ArithOps ->
               {registers[i.reg].type, registers[i.reg2].type} \subseteq NumericTypes
          [] i.op \in AggFunctions ->
               DeclaredFor(i) /\ Accepts(i.op, registers[i.reg], Result[i.agg])
          [] OTHER -> TRUE

\* The registers a fresh interpreter has after each instruction for record r.
FreshRun(r) ==
  LET code == prog.code
      regs[k \in 0 .. Len(code)] ==
        IF k = 0 THEN [x \in Regs |-> Cleared]
        ELSE LET i == code[k]
             IN  IF i.op = "LoadCol"
                 THEN [regs[k - 1] EXCEPT ![i.reg] =
                         [type |-> i.type, value |-> r[i.col],
                          is_unsigned |-> i.is_unsigned, is_null |-> FALSE]]
                 ELSE IF i.op \in ArithOps
                 THEN [regs[k - 1] EXCEPT ![i.reg] = RegOp(i.op, @, regs[k - 1][i.reg2]).reg]
                 ELSE regs[k - 1]
  IN  regs

AtRest == inited /\ rec = NoRecord /\ fault = "none"

\* The groups there are and their items; one without a key if there is no GROUP BY.
Keys == IF Grouped THEN DOMAIN gb_map ELSE {<<>>}
Item(key, j) == IF Grouped THEN gb_map[key][j] ELSE agg_results[j]

\* The processed records of a group, and those whose operand of instruction k
\* is not NULL.
Members(key) == {n \in DOMAIN processed : Grouped => SubSeq(processed[n], 1, Len(key)) = key}
Operand(n, k) == FreshRun(processed[n])[k - 1][prog.code[k].reg]
Given(key, k) == {n \in Members(key) : ~Operand(n, k).is_null}

\* The aggregate instructions with an item of their own.
Aggregates(op) ==
  {k \in DOMAIN prog.code :
     /\ prog.code[k].op = op
     /\ \A m \in DOMAIN prog.code :
          prog.code[m].op \in AggFunctions /\ prog.code[m].agg = prog.code[k].agg => m = k}

\* Between records every COUNT is the number, and every SUM of BIGINTs the exact
\* sum, of the non-NULL operands of its own group, each computed as a fresh
\* interpreter would: nothing a record leaves in the registers, in another group
\* or in uninitialised flags reaches a later result (interpreter.cc:705-814,
\* 891-1094).  A SUM of DOUBLEs is rounded at every step and is left out.
CountsAndIntSumsAreExact ==
  AtRest => \A key \in Keys :
    /\ \A k \in Aggregates("Count") :
         Item(key, prog.code[k].agg).value = Cardinality(Given(key, k))
    /\ \A k \in Aggregates("Sum") :
         prog.code[k].type = "BigInt" =>
           Value(Item(key, prog.code[k].agg)) =
             MapThenSumSet(LAMBDA n : Value(Operand(n, k)), Given(key, k))

BigOperands(key, k) == {Operand(n, k) : n \in Given(key, k)}

\* MIN and MAX of BIGINTs are the least and the greatest of the operands, MIN
\* if none is above LLONG_MAX, MAX if the operands and the item agree on the
\* sign: the mixed branches of both are exact for no more (571-703).
ExtremesAreExact ==
  AtRest => \A key \in Keys :
    /\ \A k \in Aggregates("Min") :
         LET values == {Value(x) : x \in BigOperands(key, k)}
         IN  prog.code[k].type = "BigInt" /\ values # {} /\ Max(values) <= LongLongMax
             => Value(Item(key, prog.code[k].agg)) = Min(values)
    /\ \A k \in Aggregates("Max") :
         LET values == {Value(x) : x \in BigOperands(key, k)}
             signs == {x.is_unsigned : x \in BigOperands(key, k)}
         IN  prog.code[k].type = "BigInt" /\ (signs = {TRUE} \/ (signs = {FALSE} /\ Grouped))
             => Value(Item(key, prog.code[k].agg)) = Max(values)

\* "Get all the group by columns id" (interpreter.cc:838): there are as many
\* groups as the records have values in the columns of GROUP BY.
GroupsFollowGroupBy ==
  AtRest /\ Grouped =>
    Cardinality(DOMAIN gb_map) =
      Cardinality({[c \in DOMAIN prog.gb_cols |-> processed[n][prog.gb_cols[c]]] :
                     n \in DOMAIN processed})
=============================================================================
