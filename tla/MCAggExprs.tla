----------------------------- MODULE MCAggExprs -----------------------------
(* Model checking of the high-level API on a few columns and literals.       *)
EXTENDS AggExprs

\* The smallest literals with which a division by zero can be written.
SmallLiterals == {0, 1}

\* "we promise to either produce a result equivalent with that produced by
\* MySQL, or fail" (RestSQLPreparer.cpp): building an expression never stops
\* the process, so that the caller gets an expression or status FAILED.
BuildingReturns == ~fault
=============================================================================
