------------------------------ MODULE MCFrameFlow ------------------------------
(***************************************************************************)
(* Constant values for the runs of FrameFlow.                              *)
(***************************************************************************)
EXTENDS FrameFlow
================================================================================
