# Formal model of the aggregation interpreter

TLA+ modules, TLC configurations and TLAPS proofs for the program in `src/`: a
compiler from a small subset of SQL (`src/parser-and-compiler`) to pushdown
aggregation programs, and the interpreter for such programs (`src/interpreter.cc`).

The whole program is sequential: no threads, no messages, no timers, no
persistent state. What is hard in it is the state one call leaves for the next:
tables shared by pointers, registers reused while callers still need them,
counters trusted before they are complete, a lexer one token ahead of the
grammar, memory that several strings share, and integers at their limits. There
is nothing to crash and recover, to lose or to reorder; what can go wrong in the
middle is an exception of the allocator, an arithmetic trap and a failed assert,
and these are modelled where they occur.

## 1. Inventory

| Component (source) | State | Operations | Module |
| --- | --- | --- | --- |
| Lexer (`RestSQLLexer.l`) | the buffer and the place in it, the start condition, `yytext`, `yylloc`, `yylval` | `yylex` | `RestSQLLexer` on bytes; lexemes in `RestSQLParser` |
| Keyword tables (`Keywords.hpp`) | two sorted tables | the search in the rule for words | `KeywordSearch`; the words are data |
| Parser (`RestSQLParser.y`) | the LALR stack, one token of lookahead, the syntax tree | `rsqlp_parse`, grammar actions, `rsqlp_error` | `RestSQLParser`, conditions in `RestSQLConditions` |
| RestSQLPreparer (`.hpp`, `.cpp`) | `m_status`, the error state, `m_identifiers`, `m_agg` | `parse`, `load`, `compile`, `print`, `set_err_state`, `has_width`, `column_name_to_idx` | `RestSQLPreparer`; `SyntaxErrors`, `ErrorReport`, `RestSQLDiagnostics`; the print of conditions in `RestSQLConditions` |
| High-level API (`AggregationAPICompiler.cpp` 54-271) | `m_status`, `m_exprs`, `m_aggs`, `m_constants`, `usage` | `Load`, `ConstantInteger`, `Add`..`Rem`, `Sum`..`Count` | `AggExprs` |
| Symbolic VM (273-354) | registers `r` that hold expressions, `program_usage` | `svm_init`, `svm_execute`, `svm_use` | `AggCompiler` |
| Compiler (356-840) | `m_locked`, `m_program`, `has_been_compiled`, the recursion of `compile(Expr*)` | `compile`, `seize_register`, `pushInstr`, `dead_code_elimination` | `AggCompiler`, its promise in `AggPromise` |
| Program printer (842-1018) | none | `print_aggregates`, `print_program` | not modelled: formatting |
| ArenaAllocator (`.hpp`, `.cpp`) | pages, `m_point`, `m_stop`, `m_page_data_size` | `alloc`, `realloc` | `ArenaAllocator` |
| DynamicArray (`.hpp`) | table of pages, `item_count`, `pages_capacity` | `push`, `[]`, `has_item`, `truncate`, copies | `Containers` |
| LexString (`.hpp`, `.cpp`) | pointer and length | `concat`, `==` | `Containers` |
| AggInterpreter (`interpreter.cc` 816-1125) | registers, result items, map of groups | `Init`, `ProcessRec` | `AggInterpreter` |
| Register arithmetic (`interpreter.cc` 29-814) | the registers and the item it is given | `RegPlusReg`..`RegModReg`, `Min`, `Max`, `Count`, `Sum` | `RegArith`, `RegMachine` |
| Record, Column (`record.*`, `column.h`) | a fixed test record | `GetColumn` | constants of `AggInterpreter` |
| Byte order macros, demos, tests | | | not modelled: vendored code, drivers |

How they interact. The caller (`ParseCompileTest.cpp`) constructs a preparer and
calls `parse`, `load`, `compile`, `print`. `parse` runs the bison parser, which
calls the lexer for tokens and, in its actions, the high-level API: the first
operand creates the API object, whose callback gives indexes to column names.
`load` asks the API for the aggregates, `compile` compiles them. The compiler
pushes instructions; every push executes the instruction on the symbolic VM,
whose registers hold expressions, so `new_expr` is called again and must find
every expression in the table. `print` calls the API once more, for the same
aggregates. All strings, tree nodes and arrays live in one arena. The
interpreter is a program of its own and executes hand-written programs of the
same kind, record by record.

What makes each part correct, and what is hard about it:

* API: every handle denotes the value asked for, whatever was folded or shared;
  no two rows alike (the compiler compares pointers); reference counts exact
  (the compiler drops values on their word).
* Compiler: an operand in a register survives the compilation of the other one;
  locks are returned; copies, recalculation and dead code elimination keep the
  meaning; it fails only if the estimate of registers says so; it returns.
* Lexer: it accepts UTF-8 and nothing else, although it never decodes it; a token
  has the value MySQL gives it; no keyword becomes a name.
* Parser and preparer: a condition and an expression have the structure of their
  text; a column has one index; the place of an error is where the message says, and is underlined; the asserts about errors, and about the
  order of calls, hold.
* Containers: nothing is overwritten although blocks are extended in place,
  pointers to items stay good, exceptions leave arrays usable.
* Interpreter: signed, unsigned and double operands, NULL, overflow; no residue
  of one record or group in the next.

## 2. Modules

`AggExprs` is the API as a state machine. An `Expr*` is an index into `m_exprs`;
`usage` is a sequence beside it. `Arith` is one call, with folding and
deduplication. Arithmetic wraps at `LongMax`, the width of `long int`; a trap of
the constant folder sets `fault`.

`AggCompiler` extends it with the symbolic VM and `compile()`. The recursion of
`compile(Expr*)` is a stack of frames, and one step is the code between two
calls: `ReuseRegister`, `CompileLeaf` (seize a register, push),
`CompileFirstOperand`, `LockSameOperand`, `LockFirstOperand`,
`LockSecondOperand`, `SaveLeft` (the copy made before an operation overwrites its
left operand), `ChooseDestination` (another register if a caller holds this one),
`Emit`, `ReturnFailure`; around them `CompileAggregate`, `PushAggregate`,
`FailCompile`, `FinishCompile`. Asserts of the code are properties, not guards,
except the obligation of the caller `NoOrphans`: every expression has a user.

`AggPromise` is what the compiler promises, without expressions or registers: it
delivers exactly the aggregates asked for, in order, or fails and delivers
nothing, and it returns. `AggCompilerRefinement` instantiates it: an aggregate
means a function from rows to values, a program what it outputs on every row
(`Running`: a machine whose registers and outputs are functions of the row, begun
with whatever an earlier row left in the registers, since the interpreter never
clears them).

`SyntaxErrors` is what lexer and parser share: `yytext`, `yylloc`, the error state,
`set_err_state` and `rsqlp_error`, with their asserts (`failed` names the function
whose assert stopped the process).

`RestSQLParser` extends `AggExprs` and `SyntaxErrors` with the lexer, on lexemes,
and the parser. Every lexeme may follow every other; a condition is one lexeme. The LALR automaton is reduced to what it can still read
(`at`), the operators and operands on its stack (`ops`, `args`) and its lookahead
(`look`). Reductions that need no lookahead belong to the step that shifts;
those that do are actions of their own (`ReduceBinary`, `ReduceNegation`,
`ReduceOutput`) and happen on any token that cannot be shifted, `T_ERR` included,
as default reductions do. Positions count bytes, so that the places of errors and
the 64-byte limit of names are exact.

`RestSQLPreparer` composes it with `load`, `compile` and `print`; the loops of
`load` and `print` make one call of the API per step. `Compile` is the compiler by
its promise (`AggPromise`): COMPILED or FAILED, the tables kept.

`RestSQLLexer` is the lexer on bytes. A rule is a name and the length of its match;
`Winner` is the longest match and, of several, the first, as flex has it. The
actions of the rules are actions (`MatchError`, `MatchWord`, `Open`, `Concatenate`,
`Close`, ...). The rule for words goes through `KeywordSearch`, one comparison a
step. Here it is the parser that is reduced: it takes a token (`Proceed`), accepts
the end (`Accept`), or refuses any token whatever (`Refuse`, the call of `rsqlp_error`). The one
error the grammar reports itself, of an unaliased output that is too long, is `GiveUpOutput`. It comes when
the token behind the output has been read, which may be a lexical error already recorded. Which tokens
are an output is left open: any tokens in a row that end before the lookahead may be one (`output`), so that
the model has every order of calls of `set_err_state` the code has, and more.

`ErrorReport` is the loop of `parse()` that prints a refused statement with carets:
a step is a byte printed, `line` the places of the bytes printed in the line,
`marked` the rows of carets so far. `RestSQLDiagnostics` composes it with the lexer:
every text, every refusal, every report.

`RestSQLConditions` is the grammar behind WHERE. The productions are data
(`Productions`, `Level`); a shift-reduce parser, reduced to what bison's does with
them, builds the tree. A symbol on the stack has its value and its location, as the first and the
last of its tokens (`YYLLOC_DEFAULT`). `nodes` are the nodes in the order in which they are
allocated, and a pointer is an index; a node records which member of the union was written. `print`
yields the rows of the output, or `undefined` where it would read another
member or follow NULL.

`ArenaAllocator` holds the operators `Alloc` and `Realloc` on an arena of pages
of cells; `Containers` composes it with strings, tree nodes, an array and the
copy that `dead_code_elimination` takes. Every allocation may throw. `text` and
`items` record what was put in, to compare with what memory holds.

`RegArith` holds the arithmetic and aggregate functions of the interpreter on
words of any even width (`LongLongMax`, `HalfWord`) as operators; `RegMachine` calls
one arithmetic function on any two registers; `AggInterpreter` is `Init` and
`ProcessRec`, one action per kind of instruction, with `rec` as the record under
way. Flags the code leaves uninitialised are chosen freely. A double
is a whole number that a mantissa of `Precision` (2^53 in the code) can hold; every conversion to double and
every operation on doubles rounds to the nearest such number, ties to even (`Rounded`, `Ulp`, `AsDouble`).

The theorems are in modules of their own: `AggExprs_proofs`; `AggCompiler_proofs`, for
`AggCompilerRefinement` too; `RestSQLPreparer_proofs`; `RestSQLConditions_proofs`;
`Containers_proofs`; `AggInterpreter_proofs`, with the arithmetic of `RegMachine` first;
`RestSQLDiagnostics_proofs`; and `RecursionTheorems`, a small library on recursive
functions and finite sums that the others use.

`MCAggExprs`, `MCAggCompiler`, `MCRestSQLPreparer`, `MCRestSQLDiagnostics`,
`MCRestSQLConditions`, `MCContainers` and `MCAggInterpreter` give values to
constants, constraints and symmetry.

## 3. Runs

| Run | What it asks | Bounds |
| --- | --- | --- |
| `compile` | locks, surviving operands, the asserts, use counts, dead code, the meaning of the program, failure only beyond the estimate | 2 registers, 5 expressions, 2 aggregates |
| `refine` | the API's types, reference counts, rows without twins, cheapest order of evaluation, and that every handle denotes the requested value on every row; the compiler implements `AggPromise`, with liveness, and recalculates nothing when there is a register for every expression | 1 column, literal 1, 2-bit numbers, 4 expressions, 2 aggregates, 2 constants, 3 registers |
| `lex` | what is accepted is UTF-8 (a backslash in single quotes takes one byte) and an encoding error is where reading stops, values of tokens, keywords found and no names, asserts about errors, underlining | 50,453 texts of up to 6 bytes in six families, 7 keywords, words of 2 and names of 3 bytes |
| `where` | conditions have MySQL's structure, and print reads what was built | five sets of tokens, 5 to 8 tokens |
| `prepare` | places of errors, structure of expressions, the calls of `print`, indexes of columns | 22 lexemes, among them `+`, `-`, `*` and `/`, a column of 1 and one of 3 bytes, 4 lexical errors, texts of 11 bytes, 6 symbols of an expression on the stack |
| `contain` | nothing overwritten, items never moved, `has_item` exact, with an exception in any allocation | pages of 3 and 4 cells, at most 3 of them, 4 strings of at most 5 bytes, arrays of 3 items with 2 items per page |
| `arith` | integer sums and products exact or refused, results that fit stored | all pairs of 4-bit registers, doubles up to 20, rounded above 4 |
| `interpret` | type asserts, counts and sums of BIGINTs exact for their group, extremes | 408 programs, up to 3 records out of 4, doubles up to 40, rounded above 4 |
| `trap` | expected violation: folding a constant division by zero ends the process | |
| `errors` | expected violation: the first error recorded is not the left-most | as `prepare`, without its constraints, 5 symbols |
| `unary` | expected violation: a minus takes the product behind it | expressions only, 6 symbols |
| `groups` | expected violation: GROUP BY a column that is not the first | programs that group by column 2 |

Why the bounds are enough. *API*: four expressions allow an operation over shared
operations; the theorems of section 5 drop the bounds for every property of it.
*Compiler*: all its invariants are theorems as well; with two registers, five expressions force copies, locked
destinations, recalculation and failure. Columns are interchangeable
(`ColumnSymmetry`); the compiler never compares indices, so one order of building
each program is enough (`OneBuildOrder`), and programs whose unused expressions
can no longer get a user are left out (`CanStillBeUsed`). Larger instances (3
registers, 6 expressions) and random programs for 2 to 4 registers were
explored as well, without a violation. *Preparer*: 11 bytes hold an aggregate with two operators and parentheses around either of them, or with an
alias, a whole statement with AVG and GROUP BY, and every error at every place before. `MaxName` 6 stands for 64: an
aggregate of one operator is longer. Two constraints leave out what shows nothing new: texts in which, behind an
operand, the parentheses can no longer be closed (`CanStillBeClosed`), and operators in COUNT, which are parsed as
those in AVG are (`OneFunctionOfExpressions`). A column list that exhausts the stack needs
longer texts than these; only nested parentheses and prefixes do here. *Lexer*: the bytes of
`MCTexts` are the ends of every range of the rules; a text is long enough for two
characters, or a character of four bytes, behind a quote, and for every way to end,
double, escape and continue a string. `MaxKeyword` 2 stands for 18, `MaxName` 3 for
64, `IntMax` 15 and `LongMax` 127 for the limits of int and long; the tables have gaps
before, between and behind their words. *Conditions*: an operator of every level
with every other on both sides needs five tokens, parentheses and functions with an
operator inside and outside need eight; both properties are theorems for every length. *Containers*: pages so small that every request
can end on, before or behind the end of a page, be doubled for, or be too large
(`TooLarge`); one more item (134,581 states) also held, and all four properties are
theorems for every size. *Arithmetic*: every case of
sign, flag and overflow exists with four bits; the theorems cover every width.
*Interpreter*: the values are negative, zero, above `LLONG_MAX`, and a zero divisor;
its four invariants are theorems for all programs and records.

CHECK_DEADLOCK is FALSE where a bound, or the end of the only statement, stops the
system; it is on for `compile` and `refine`, whose specification stutters once
`compile()` has returned.

## 4. Fairness

`WF_vars(CompileStep)`, in `CompSpec`: `compile()` is one call of a sequential
program, so once begun it takes its next step. Nothing obliges the caller to ask
for anything. It is used for `AggPromise!Returns`, a part of `ImplementsPromise`.
The other specifications have no fairness and only safety properties.

## 5. Proofs

### The high-level API

`AggExprs_proofs` proves, for any set of columns, any literals and width of `long
int` and any bounds (assumptions `OpsAssumption`, `LongAssumption`,
`BoundsAssumption` of `AggExprs`):

* `TypeCorrect`: `Spec => []TypeOK`. `TypeOK` is inductive by itself because its
  `RowOK` says that operands are older rows. What needs work is arithmetic: that
  wrapping, truncating division and its remainder stay in `Long`.
* `NoTwinsAlways`: `Spec => []NoTwins`, from `TypeOK`: `Intern` appends only what
  `Matching` did not find.
* `EstRegsAlwaysCheapest`: `Spec => []EstRegsIsCheapestOrder`. Appending a row
  leaves the estimates of older rows alone, and operands are older rows.
* `UsageAlwaysCounts`: `Spec => []UsageIsReferenceCount`. The references of an
  expression are three cardinalities; the lemmas say how an appended row or
  aggregate changes each of them, for an operand on one side, on both, or on none.
* `HandleAlwaysDenotesRequest`: `Spec => HandleDenotesRequest`. The value of an
  expression on a row is defined by recursion over the table. `DenotationUnfolds`
  shows that the definition has its meaning, `OlderRowsKeepValue` that rows and
  constants appended change no older value (the least row that changed would have
  operands that changed), and `ArithDenotes` follows the request through folding,
  the lookup and the append.

Induction over data. `RecursionTheorems` proves without any operator parameter
that a set of numbers with a member has a least one and, if
bounded, a greatest one, and from it that a recursive function exists whose value
at a place depends on places of lower rank only (`RecursiveFunctionExists`). Every recursion of the model is
reduced to it by naming the body of the function (`RowValue`, `CostOf`, `KeptOf`,
`RunOf`, `NeededOf`, `MachineOf`, `StaticStep`, `FreshStep`) and proving that the body
looks at smaller arguments only. `SumsExist` and `SumsAgree` say the same of the sum over
a finite set: it exists and does not depend on the order in which elements are chosen; induction is then the argument by a least counterexample.

### The compiler

All invariants the runs check of `AggCompiler` are theorems of `CompSpec`, for
any number of registers (`RegsAssumption`: at least one) and the assumptions of
`AggExprs`. None of them is inductive alone. The inductive invariant has layers,
each proved from those before it, one step of the proof per action:

| Layer | What it says | Why the next one needs it |
| --- | --- | --- |
| `Shape` | types; what status, loop and stack say of each other; at which stage of `compile(Expr*)` each call is, and that each but the last waits for the operand the next compiles | every guard is read off the stages |
| `Locks` | the locks on a register are the operands the calls hold in it | a register that may be seized is held by no call |
| `Tables` | what the API guarantees: no twins, exact reference counts, cheapest order | the symbolic VM finds the expression it describes, and no other |
| `Values` | held registers have the operands (`Survive`), the result is what was asked for (`Awaited`), a destination about to be overwritten has no other holder | an operation computes the expression of its call |
| `Uses` | `program_usage` counts the uses made by what is done, and the operands of what is done are compiled | uses remain for what is not done |
| `RoomLeft` | if the estimate fits, every call has as many free registers as its expression claims; uses `SameOperandEst` | a register is free when one is needed |
| `Copies` | a value is in two registers only while one of them is to be overwritten | a register is empty while something is missing |
| `Lossless` | with a register for every expression, what has uses left is in a register | nothing is compiled again |
| `Means` | however its registers began, a machine that has run the program holds in each register the meaning of the expression the symbolic VM sees there, and has output the aggregates compiled so far | the delivered program means what was asked for |
| `Busy` | everything in the program but a Mov is read, or its destination is in use | dead code elimination finds nothing else |

`AggCompiler_proofs` begins with the first four and `CompTypesCorrect`,
`LocksAlwaysFrames`, `OperandsAlwaysSurvive`. `CompTypeOK` itself is not inductive:
that a lock count is natural follows only from `Locks`.

Its second part has the layers about counts and registers:

* `InstructionsAlwaysSound` and `UsesAlwaysAllCounted`: the asserts of
  `svm_execute`, `svm_use` and `compile()` cannot fail. Uses are cardinalities
  over the expressions done (`UsesOf`). At the end an expression that was not
  compiled would have a user that was not (`AllOperationsDone`, by the greatest
  such handle), unless it is an unused constant.
* `FailsAlwaysBeyondEstimate`: with two operands to compile, the one compiled first
  has all the free registers and the other one register less, which `est_regs`
  provides for by `CheapestOrder`; a copy always finds a register because the
  destination it replaces is shared with a caller.
* `NothingEverRecalculated`: while something is not in a register and every
  expression has a register, two registers hold the same value or one is empty;
  `Copies` excludes the first, and an empty register costs nothing, so that
  `seize_register` takes one whose value has no use left (`SeizedIsExpendable`).

The third part has what compiled programs compute:

* `ProgramAlwaysComputes`: on every row the delivered program outputs exactly the
  aggregates asked for, in the order of the requests, whatever its registers held
  before. For a growing program this is `Means`; dead code elimination keeps
  outputs because the registers needed agree between the runs of the program and
  of what is kept of it (`EliminationSimulates`, backwards over the program).
* `OnlyMovIsEverUseless`: by `Busy` before the elimination; and afterwards, since an
  instruction is kept only if a later one that is kept reads its destination
  first (`EliminateLeavesNoWaste`).
* `CompilerKeepsPromise`: the safety part of the refinement. `Promise!Init` holds
  initially and every step is a step of `AggPromise` or changes nothing it sees: a
  new request extends `wanted` and changes nothing before it (`MeaningStays`),
  `FinishCompile` is `Deliver` by `ProgramAlwaysComputes`.

### The interpreter

The first part of `AggInterpreter_proofs` proves, for every word with `WordAssumption` (a word is the
square of `HalfWord`) and `DoubleAssumption`:

* `RegTypesCorrect`: a register holds only what its type allows;
* `PlusAlwaysExact`: a sum is stored exactly or refused, in all cases of flags;
* `MulAlwaysExact`: the product by halves finds every overflow;
* `RepresentableAlwaysStored`: differences, quotients and remainders that fit are
  stored, with the two exceptions the property names.

All four follow from `RegTypeOK` and one lemma per function, by cases on flags
and signs: each `RegPlusReg`..`RegModReg` is a function of its two registers.

The rest of it proves the four invariants of the run `interpret` for every
schema, every set of well-formed programs and of records, and every word size. The
assumptions are what a caller owes the code: `ProgramsAssumption`, that instructions
name columns, registers and items there are, with their types, and load a register
before it is used (`WellFormed`; the code only asserts it); `RecordsAssumption`, that a
record has a value of its type in every column; `SizesAssumption`, that there are fewer
records than `val_uint64` of a COUNT can count.

* `InterpTypesCorrect` and `AssertsAlwaysHold`. `InterpTypeOK` does not say why the
  operands of an instruction are numbers. The inductive invariant `Shape` adds that
  items have the types the program declares (`RowsOK`) and, in `FollowsFresh`, that
  every register the static types call loaded holds what a fresh interpreter would hold
  after as many instructions for this record: NULL, or a number of the static type.
  A step keeps this because the arithmetic widens as `Wider` does unless it fails
  (`RegOpWidens`), and `LoadCol` forgets what was in its register (`LoadedForgets`). What a
  register that is not loaded holds stays open: it comes from an earlier record.
* `CountsAndIntSumsAlwaysExact` and `ExtremesAlwaysExact`. These are statements about a whole
  sequence of records, and false in the middle of one. `ItemsExact` generalizes
  them to every state: the item of instruction `k` in group `key` summarises the operands
  of the records that `k` has seen (`SoFar`): those processed, and the current one if
  `k` is already behind the program counter. `Summary` says what a summary is: the cardinality
  for COUNT, the sum for SUM, and for MIN and MAX the least and greatest together with
  what `inited` and `is_unsigned` say of the operands so far, without which the next
  comparison would be of different numbers. `SummaryStep` is the one step that
  matters, by one lemma per function (`CountStep`, `SumStep`, `MinIntStep`, `MaxIntStep`). `LogOK`
  adds that every processed record has its group in the map, so that a new group has
  missed nothing. An operand does not depend on the records before it by
  `FollowsFresh`.

`Shape`, `LogOK` and `ItemsExact` were checked with TLC on the instance of `interpret`
before they were proved.

### The containers

`Containers_proofs` proves all properties of the run `contain`, for any sizes of
pages, headers, requests and tables, any SQL buffer and contents, any bounds, and any
sequence of operations in which any allocation may fail. The assumptions are that
sizes are positive and a header is smaller than a page (`PageAssumption`,
`ArrayAssumption`), and that what the statement, the strings and the arrays consist
of are cells (`CellAssumption`, `ContentAssumption`); `Cells` exists for this only, and
says nothing about which cells are strings, items or pointers.

The properties say what memory reads; what keeps it is that blocks do not overlap. The
inductive invariant `Inv` says:

* `ArenaOK`: `m_point` is within the last page;
* `TextOK`: a string or node is readable, in a page and before `m_point` if the page is the
  current one, or in the statement, and reads as its text. Two strings *may*
  overlap: `concat` extends the left one in place, and both go on using its bytes;
* `ArrayOK`: the table of pages and the pages are in use and apart from each other, and the
  items read as pushed;
* `TextOff` and `Separate`: no string has a cell in common with an array, nor the array with its copy.

Memory is reasoned about by a few lemmas. `AllocIs`: a block handed out has no cell
in use before (`Unused`), and all that was in use is kept. It rests on `PageForFits`: the
loop that doubles the page size ends, at a page larger than request and header, a size
that an earlier exception left behind included. `ReallocIs`: in place only the part behind `m_point` is
added, and otherwise the old cells are copied. `ConcatenatedIs` composes the two copies of
`concat`; the second reads its source after the first was written, and is right
because the first one writes to a new block or writes what is there already (`WriteBack`).
`PushedIs` follows a push through `GrowIs`, `AddPageIs` and `StoreItemIs`, each of which writes to
a new block, or to the entry or place behind those counted (`Undisturbed`), also where
the second allocation throws and the larger table stays.

* `TextsAlwaysSurvive`, `ArraysAlwaysSurvive` follow from `Inv`.
* `HasItemAlwaysExact`: an address belongs to one page at most because pages are apart, so
  that the first page found decides rightly, for the last page by the item count.
* `ItemsAreNeverMoved`: every step keeps the entries of the table (`SamePages`), and the
  copy begins with the same table.

### The preparer

`RestSQLPreparer_proofs` proves the five properties of the run `prepare`, for any
set of lexemes and lexical errors, any bound on names and on the text and any depth of the
stack. `LexemesAssumption` says which tokens there are and that a lexeme has at least one
byte; `CallsAssumption` that the API's constants cover what the parser asks it for: the
operations and literals of the statement, the 0 of a minus and the 1 of `COUNT(*)`, and an
index for every name. The inductive invariant `Inv` is `TypeOK` with

* `LookOK`: the lookahead is none, a lexeme that ends where the text read so far ends, the
  end one byte behind it, or T_ERR with a text that can be located;
* `ErrOK`: while the parser runs an error is recorded exactly if the lookahead is T_ERR, so
  that the lexer can record none over another and `rsqlp_error` only adds one where the
  lexer has none (`FirstError`, `LaterError`);
* `StackOK`: the operands on the stack are as many as the operators between two say, one more
  behind an operand, none outside of an expression. A reduction then finds its operands
  (`ReductionFindsOperands`);
* `TreeOK`: outputs and lists refer to handles of the API and to columns, and the
  output under way begins before the place of the lexer;
* `ColumnsOK`: `OneIndexPerColumn`. `column_name_to_idx` finds a name or appends it
  (`ColumnIndex`), and every call that creates a row of `m_exprs` is followed through `new_expr`
  and its folding (`StepCallsApi`);
* `CallsOK`: what `load` still has to ask for, together with what it has asked for, is
  what `print` will ask for. It rests on `Flattened`, on the sequences of calls of
  all outputs (`CallsOfLoad`, `CallsOfPrint`), and on the table of aggregates not losing a
  row (`LoadedStays`).

From it follow `PreparerTypesAlwaysHold`, `SyntaxErrorAlwaysLocated`,
`PrintAlwaysFindsAggregates`, and with `NamedOK` also `ColumnsAlwaysHaveOneIndex`. `NamedOK` says that the columns
that have an index, and those `print()` is still to ask for, are named by the statement: an output keeps the
column of its text (`Own`) when it gets an alias. TLC checked `Inv` on the instance of `prepare` as well.

`PrecedenceAlwaysAsMySQL` is the second part of the module. `TextValue` reads a text from
outside: of all the operators outside of parentheses the last of the weakest kind is applied
last. The parser works from left to right with a stack, folds constants and shares
expressions on the way. The proof relates the two:

* `Valued` fixes a text `T` with no minus before a product and the values `v` of all of its
  parts. They exist, and are `TextValue`, by `RecursiveFunctionExists`, with the length of a part as
  its rank (`ValuesExist`, `ReferenceIsValue`).
* `Nested` says that the parentheses of a part belong to each other. Outermost operators of a part
  composed of nested parts are those of the parts and what is between them (`OutermostBeside`,
  `OutermostInside`); from it come the values of a part with an operator (`BinaryPart`), a minus
  (`NegatedPart`) or parentheses around it (`BracketedPart`).
* `Chain` is the invariant of the stack. Each symbol is the token of `T` at a place, each
  operand that waits below an operator is a nested part with its value and ends where the operator
  stands, and operators that wait one above the other bind stronger upwards. `Level` says
  the same of the last operand and the lookahead, which is why a reduction applies the rightmost of
  the weakest operators of its part (`OperatorApplied`). A minus before a literal or a column
  is on the stack as it is or as `0 - x`, as the grammar's action builds it
  (`DifferenceOfZero`).
* `ParsedOK` says so for every `T` that begins with what has been read, for every row, while
  the parser runs, and says that finished outputs have their values. It is kept by
  `Inv /\ ParsedOK /\ [Next]_vars`, one lemma per action, and with `Inv`, since a
  row's columns have their index for good (`ColumnsGrow`) and expressions their value
  (`OlderRowsKeepValue`).

`ParsedOK` speaks of all texts and was not checked with TLC; `PrecedenceAsMySQL` was.

### The lexer, keywords and error messages

`RestSQLDiagnostics_proofs` has eight theorems. Two are about loops by themselves:

`SearchAlwaysExact`, for any two sorted tables
(`KeywordTables`): a word is found if and only if it is in a table. The inductive
invariant `SearchInv` says that a place of the table with the word sought lies in what is left,
`low .. high`, and that while the second table is searched the first is known not to
have the word; the order of the table carries it over a comparison with the middle.

`WidthIsExact`: at every place of every text `has_width`
is false exactly for the bytes that continue a sequence begun up to three bytes
before. It is a case distinction on the bytes before, with no assumption that the
text is UTF-8 or that there are three of them.

Six are about the lexer, the parser's refusals and the report together, for every set of texts
(`TextsAssumption`: sequences of bytes) and any limits (`LimitsAssumption`). The words of the
tables consist of capital letters, digits and underscores, and `Dictionary`, the order `strcmp`
gives to all words, has every word of a text once (`DictionaryAssumption`);
`KeywordsUnitTest.cpp:25-43` checks the tables for that.

* `OnlyTooLongOutputsAssert`: no assert of `rsqlp_error`, `set_err_state` or `parse()` fails, except that
  of `set_err_state` when an output is found too long behind which the lexer has already refused a token
  (the finding `errors`).
* `LexerSearchIsExact`: the search is exact also as the rule for words starts it, one word after another.
* `KeywordsAreNeverNames`: what is taken for an unquoted name is no keyword.
* `AlwaysDecodesUTF8`: what is accepted can be read from the front to its end as UTF-8, with all quotes closed
  and a backslash in single quotes taking one byte whichever it is; what is refused for its encoding is
  refused where such reading stops, at a byte no character begins with.
* `TokensAreTheirText`: strings and quoted names have the value MySQL gives them, numbers what their digits write.
* `ErrorIsAlwaysUnderlined`: the carets are below the characters of the error and below nothing else.

They share the inductive invariant `LexOK`, of which they cite the part they need:

* `TypesOK`: the text does not change, and the lexer and its last location are within it;
* `QuoteOK`: in quotes the last location begins with the quote that opened them;
* `WordOK`: a word that is being looked up is the last match, of letters, no longer than
  the rule allows, and its rank in the dictionary is what is sought;
* `TokenOK`: which tokens there are, in which start condition, and where they end. The end of
  the text, whose location is a byte behind it, is the reason for the 1 in the assert of `parse()`;
* `NameOK`: an unquoted name is too long for a keyword, has a byte that is no letter, or is of a
  rank that both tables lack. The rule for names wins over the one for words only if its
  match is longer, and the longer one has such a byte or more than `MaxKeyword` letters;
* `ErrorOK`: an error is recorded exactly if the token is `ERR` or the text refused, and wherever
  the parser then reports another, the recorded one is to the left of it, or at the same place and
  no longer: `ReportsWithoutAssert` without this is not inductive.

Beside it, `OutputOK` says that an output under way lies before the token the parser looks at. An output
given up is therefore to the left of every error of this token: nothing fails if the token is no error,
and the assert does if it is.

That the rules make steps of this kind is a matter of the patterns. `LongestIs` and `RunExists` say what
`Longest` and `Repeated` yield, `FirstLongest` that `Winner` is the first of the longest rules, and
`WinnerIsTaken` puts together for each rule what is known of a match that wins (`Taken`). The only rule
that can win without a byte is the first one, where nothing matches; it reports an error,
which is why `LexOK` does not depend on the patterns to cover every byte.

For `AlwaysDecodesUTF8` the invariant `UTF8OK` is added: while there is no error what has been read is
whole, `Whole(0, NUL, pos, QuoteOf(mode))`, and a recorded encoding error is behind something whole, where
no character begins (`NoneAt`). `Whole(b, q, e, r)` says that units (characters, and in single quotes pairs
of a backslash and a byte) lead from `b`, within the quotes `q`, to `e`, within `r`, in the form that is
composed without induction: every set of such pairs that has `<<b, q>>` and is closed under the next unit
(`Forward`) has `<<e, r>>`. `WholeIsRead` turns it into the recursive function of the property
(`QuotesAt`), whose existence is `FormedExists`. The proof has four layers:

* `SingleIs`, `DoubleIs`, `TripleIs` and `QuadrupleIs`: the arithmetic of `CodePoint` is equivalent to
  ranges of the first two bytes, which is where overlong forms, surrogates and the last plane are decided;
* `CharacterTaken`: the rules are complete. Where a character begins, the match that wins is as
  long as the character at least; for a byte below 128 it is not empty (`SingleTaken`, `WinnerCovers`);
* `TakenIsWhole`: the rules are sound. A match of a rule that is no error is whole;
* `EncodingErrorIs`: where a rule for an encoding error wins no character begins, since it would
  have been longer or is excluded by the ranges of bytes.

For `TokensAreTheirText` the invariant `ValueOK` is added. `TokenIsItsText` reads a token
once more from its end to its front (`Quoted`), whereas the lexer puts the value together from front to end in
steps of its own. In quotes, `Follows(b, pos, value)` relates the two: wherever the quotes
may end, the value of the whole is what there is so far, followed by that of the rest. A complete token
`Spells` its text.

* `UnquotesExists`: the recursive function exists, and `StepIs` unfolds it; that the order of its
  cases does not matter is `CasesAreApart`.
* For each way to go on in quotes there is a lemma that keeps `Follows`: `PlainContinues` for a run of
  bytes, which has neither the quote nor, in a string, a backslash (`RunsAvoid`), `DoubledContinues`, `EscapeContinues`
  with `EscapesAreMySQLs` about the rules' escapes, and `GapContinues` for two strings with white space
  between them. At the closing quote `FollowsToTheEnd` yields the value.
* Numbers: `DecimalIs` unfolds the digits, and `AtoiIs` compares them with `atoi`, which agrees as long
  as the number fits an int (`CutToInt`).

For `ErrorIsAlwaysUnderlined` the invariant `UnderlineOK` is added, in two parts.

* `PlaceOK`: a recorded error is `Underlinable`: it is not empty, does not begin with the end
  of a line, and lies in the text or is the NUL behind it. Otherwise the loop may find no byte to put
  a caret under, or draw the row below another line. For this, no token may
  begin with the end of a line, as the parser reports where one begins. The rules see to that:
  every match that wins has a byte (`SomethingTaken`, since the rules cover every byte), and no
  match that is an error or token begins with a newline (`NewlineIsNoToken`). An output begins with a
  token (`OutputBegins`).
* `ReportOK`, the invariant of the loop: the line printed so far is known (`InLine`), and
  what the rows below the finished lines underline is the part of the error before
  `line_started_at`.

The loop counts bytes that `has_width`, `Spaces` to the left of the error and `Carets` below it; the
property compares places. `CountBetween` and `UnderlinedIs` relate the two by cardinalities of
intervals: as many columns precede a place as there are bytes with a width between the beginning of
the line and it (`FewerBelow`), where `WidthIsExact` says that these are the bytes that begin a
character. `RowIs` concludes that the row below a line is below the error's
characters in this line, and `PrintKeeps` that they add up line by line. The exceptions in
`Misprinted` are needed for `ColumnsAre`, the end of the last line and the first caret.

### Conditions

`RestSQLConditions_proofs` has two theorems, for any sets of tokens and any length of a
condition. For `PrintAlwaysReadsWhatWasBuilt` the invariant `CondOK` says

* of each node (`Readable`): the member that was written is the one its operator stands for, and the
  pointers `print` follows are those of older nodes. A minus has one operand or two, and `print` tells
  from the left pointer, which is NULL if there is one;
* of each symbol on the stack: an expression has a node, an interval its unit, a leaf its value
  (`Fits`). A production on top of the stack therefore has the values its action takes
  (`HandleFits`), and the node it makes is readable (`BuiltIsReadable`).

Since pointers lead to older nodes `print` comes to an end (`PrintUnfolds`, by
`RecursiveFunctionExists`), and by induction over the nodes no row is `undefined` (`PrintIsClean`).

`ConditionsAlwaysAsMySQL` is the rest of the module. `RowsOfMySQL` reads the tokens from the
top: it looks for the operator that is applied last outside of parentheses and goes on with what is to
the left and to the right of it. The parser works from the bottom and sees one token ahead. The
invariant `ConditionOK` adds to `CondOK`

* `Placed`: the symbols on the stack lie behind each other from the first token to the last one
  read, a terminal is the token where it lies, and continues a production that begins below it
  (`Chained`, `Lies`);
* `Ranked`: each expression `i .. j` on the stack is a nested part of the text (`Expr`) whose tree is
  printed as MySQL reads the part (`AsMySQL`). All operators outermost in it bind stronger than
  an operator before it (`Stronger`) and no weaker than one behind it (`Binds`), and the former is weaker
  than the latter. The topmost expression is not touched by the lookahead, either because nothing
  is outermost in it (`Quiet`) or because the lookahead is known (`Waits`). This is what
  makes the property inductive: a tree alone does not tell whether an operator that follows
  belongs to a part of it;
* `Accepted`: what is accepted is one expression, with the end behind it.

The argument has four parts.

* MySQL's reading exists (`RowsUnfold`), and that of a part depends only on its tokens, so that it
  stays when more are read (`RowsStay`, `SpanStays`). For each form of a production a lemma says
  how a part is read that is put together in this way (`InfixReads`, `PrefixReads`, `IsReads`,
  `ParenthesesRead`, `DateReads`, ...): the depth of parentheses adds up (`DepthInside`,
  `Bracketed`), which yields the outermost operators, and the levels yield the weakest of them.
* Reading and shifting keep the trees (`ReadTokenRanked`, `ShiftRanked`). That a shifted operator
  binds stronger than the one below the expression is due to the lookahead: otherwise the
  production would have been reducible (`OperatorIsBelow`, `ShiftBinds`).
* A reduction finds its symbols as `Context` says (`ContextIs`). MySQL reads their tokens as the
  lemmas `LeafReduced` to `BangReduced` say, the node that is made is printed as `LeafMade` to
  `MinusMade` say, and the two agree (`ReducedAsMySQL`, `ReduceRanked`).
* A NOT or a stronger operator where MySQL has none (`NotInMySQL`) and a minus before a product
  leave the invariant with nothing to say of the trees; once read they stay in the text
  (`ExceptionsStay`). A minus before an integer is part of it, and before another it takes the sign away:
  no other node is printed as an integer is (`FirstRow`).

### What is only model-checked

That `compile()` returns (`Returns`, the liveness part of `ImplementsPromise`): it needs
ENABLED, for which there is no backend. The run `refine` checks it on the instances of section 3.

## 6. Findings

* `trap`: folding a constant division by zero raises SIGFPE (`AggregationAPICompiler.cpp:134`), although
  the preparer promises a result like MySQL's or a failure. The trace of the run is as short as can be:
  the constant 0, divided by itself (`0/0` or `0%0`).
* `errors`: an unaliased aggregate that is too long, followed by a lexical error,
  fails the assert of `set_err_state` (`RestSQLPreparer.cpp:740`).
* `unary`: `a / -b * c` is parsed as `a / -(b * c)` (`RestSQLParser.y:272`).
* `groups`: the key of a group is read from the first columns of the record
  instead of those of GROUP BY (`interpreter.cc:897`).

Two more are disagreements with `spec.md` that passing runs have in their models and leave out of their
properties:

* Constants are folded in `long int` (`AggregationAPICompiler.cpp:124-138`): `Sum(1/2)` adds 0, where MySQL's
  `/` is decimal and gives 0.5, and a constant that overflows wraps around, where MySQL reports an error.
  `spec.md:4` promises to "always produce the same result as MySQL". `PrecedenceAsMySQL` therefore claims
  the structure MySQL gives to an expression, with values in the API's own arithmetic, and not MySQL's values.
* In single quotes a backslash takes one byte (`RestSQLLexer.l:439`). A backslash before a character of
  several bytes, which is UTF-8 and legal in MySQL, is refused with `LEX_U_ENC_ERR`; a backslash before NUL or
  half a character is accepted, which `spec.md:79-80` excludes. `DecodesUTF8` reads the text with this one
  exception (`Unit`), and only there.

Seen on the way and followed by the models, without a run of their own: the
estimate of recalculation is no upper bound (`AggregationAPICompiler.cpp:647`);
MIN of positive DOUBLEs is 0, as it never looks at `inited` (`interpreter.cc:633`), MAX of mixed signs stores a
boolean (692), and `ExtremesAreExact` leaves both out; `x * 0` leaves `x` (263); an integer division by zero traps (418);
negative quotients of mixed operands are stored as huge numbers (444);
`is_unsigned` of results is uninitialised without GROUP BY (857); the difference of
two signed numbers is never checked and wraps around (181);
`print()` calls a member function through `m_agg`, which is NULL without aggregates
(`RestSQLPreparer.cpp:442`; the function uses no member).

Of the lexer and the error message: words of more than 18 letters and words with digits
are never looked up (282), so that MySQL's `SQL_CALC_FOUND_ROWS` and `INT1` are names
although `spec.md:61` says that no keyword may be one; integers beyond `INT_MAX` are cut to an
int (252); no property covers these two, which the properties leave out. Three things are not underlined right: an error in a line with a carriage
return, which takes no column; the end of input behind a final newline, for which no
row is printed; and an error that begins on a continuation byte behind an escaped
first byte, which has no column. `KeywordsAreNoNames`, `TokenIsItsText`, `ReportsWithoutAssert`
and `Misprinted` name their exceptions; without any one of them the run `lex` fails.
`ConditionAsMySQL` leaves out the minus before a product (the finding `unary` again),
and conditions MySQL has no syntax for (`NotInMySQL`).

## 7. What is not modelled

Formatting (the program printer, the wording of messages, the layout of what is
printed); the value of a float (`atof`), which no rule of the grammar uses; the
words of the keyword tables, of which only the order matters; the generated LALR
tables; doubles with a fraction, infinities and NaN, so that no property speaks of what a SUM of
DOUBLEs is (in the model it rounds, as the code does); MySQL's own arithmetic; the encoding of instructions and records as words; byte order macros; demos
and tests.

## 8. Plan

Several statements in one arena, and the next phase the code announces
(remapping of column indexes in `load()`) when it is written.
