------------------------------- MODULE MCPenInput -------------------------------
(***************************************************************************)
(* The runs of PenInput give its constants plain values.                   *)
(***************************************************************************)
EXTENDS PenInput
================================================================================
