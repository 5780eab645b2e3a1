----------------------- MODULE AggCompilerRefinement -----------------------
(* The compiler implements AggPromise.  An aggregate means the function that *)
(* gives for every row the value of its expression; a compiled program means *)
(* what it outputs on every row.                                             *)
EXTENDS AggCompiler

PhaseOf ==
  IF fault THEN "stopped"
  ELSE CASE m_status = "PROGRAMMING" -> "asking"
         [] m_status = "COMPILING" -> "working"
         [] m_status = "COMPILED" -> "delivered"
         [] m_status = "FAILED" -> "failed"

Promise ==
  INSTANCE AggPromise WITH
    phase <- PhaseOf,
    wanted <- WantedMeaning,
    delivered <- IF m_status = "COMPILED" THEN ProgramMeaning(0) ELSE <<>>

\* The compiled program computes what was asked for, in order; building more
\* expressions never changes the meaning of an earlier request; and compile()
\* returns, because the process runs on.
ImplementsPromise == Promise!Spec
=============================================================================
