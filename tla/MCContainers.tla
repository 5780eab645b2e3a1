---------------------------- MODULE MCContainers ----------------------------
(* Model checking of the containers on an arena of few and small pages.      *)
EXTENDS Containers, TLC

CONSTANTS x, y, node

MaxPages == 3

\* A SQL buffer of two different bytes, and a node of two cells.
SmallSql == <<x, y>>
SmallNodes == {<<node, node>>}
SmallCells == {x, y, node, Garbage} \cup Items

FewPages == Len(arena.pages) <= MaxPages
=============================================================================
