----------------------------- MODULE MCPixelDamage -----------------------------
(***************************************************************************)
(* Constant values for the runs of PixelDamage.                            *)
(***************************************************************************)
EXTENDS PixelDamage

\* Up to three changed pixels, or almost all.
MCChanges ==
  {c \in SUBSET Grid : Cardinality(c) <= 3 \/ Cardinality(Grid \ c) <= 1}

\* Segments in several directions, some of them clipped at an edge.
MCPenPoints == {<<0, 0>>, <<2, 1>>, <<1, 2>>}
================================================================================
