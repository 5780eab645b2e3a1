----------------------------- MODULE AggPromise -----------------------------
(* What AggregationAPICompiler promises its caller, without expressions,     *)
(* registers or instructions: the caller asks for aggregates, each one an    *)
(* aggregate function of some value of a row, and compile() delivers exactly *)
(* these, in the order they were asked for, or fails and delivers nothing.   *)
EXTENDS Sequences, Integers

VARIABLES
  phase,      \* asking, working, delivered, failed or stopped
  wanted,     \* the aggregates asked for
  delivered   \* what the compiled program computes

promiseVars == <<phase, wanted, delivered>>

Init == phase = "asking" /\ wanted = <<>> /\ delivered = <<>>

\* One more aggregate is asked for.
Ask ==
  /\ phase = "asking" /\ phase' = "asking"
  /\ Len(wanted') = Len(wanted) + 1
  /\ SubSeq(wanted', 1, Len(wanted)) = wanted
  /\ UNCHANGED delivered

\* A column does not exist, or folding constants traps.
GiveUp ==
  /\ phase = "asking" /\ phase' \in {"failed", "stopped"}
  /\ UNCHANGED <<wanted, delivered>>

Start == phase = "asking" /\ phase' = "working" /\ UNCHANGED <<wanted, delivered>>

Deliver ==
  /\ phase = "working" /\ phase' = "delivered"
  /\ delivered' = wanted
  /\ UNCHANGED wanted

Fail == phase = "working" /\ phase' = "failed" /\ UNCHANGED <<wanted, delivered>>

Next == Ask \/ GiveUp \/ Start \/ Deliver \/ Fail

\* A call of compile() returns.
Returns == phase = "working" ~> phase \in {"delivered", "failed"}

Spec == Init /\ [][Next]_promiseVars /\ Returns
=============================================================================
