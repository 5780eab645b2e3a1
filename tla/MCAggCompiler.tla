--------------------------- MODULE MCAggCompiler ---------------------------
(* Model checking of the compiler: every program the API can build with a    *)
(* few expressions, compiled for a machine with very few registers.          *)
EXTENDS AggCompiler, TLC

\* The columns are only compared with each other, so they are interchangeable.
ColumnSymmetry == Permutations(Columns)

SmallLiterals == {0, 1}

\* The compiler reads only what m_exprs and m_aggs hold and never compares
\* indices, so one order of building each program is enough: leaves first, then
\* the operations by their newest operand, the aggregates last.
Age(e) == <<MaxOf(e.left, e.right), e.left, e.right>>

NotOlder(a, b) ==
  \/ a[1] < b[1]
  \/ a[1] = b[1] /\ a[2] < b[2]
  \/ a[1] = b[1] /\ a[2] = b[2] /\ a[3] <= b[3]

OneBuildOrder ==
  m_exprs' # m_exprs =>
    /\ m_aggs = <<>>
    /\ m_exprs # <<>> => NotOlder(Age(m_exprs[Len(m_exprs)]), Age(m_exprs'[Len(m_exprs')]))

\* A program whose unused expressions cannot all get a user within the bounds
\* is never compiled.
CanStillBeUsed ==
  Cardinality({k \in Handles : usage[k] = 0 /\ ~IsConstant(k)})
    <= (MaxExprs - Len(m_exprs)) + (MaxAggs - Len(m_aggs))
=============================================================================
