------------------------------ MODULE MCTouchInput ------------------------------
(***************************************************************************)
(* Constant values for the runs of TouchInput.                             *)
(***************************************************************************)
EXTENDS TouchInput, TLC

SlotSymmetry == Permutations(Slots)

\* Every packet of a driver that releases a slot before it reuses it.
DriverPackets == AllPackets \ {"replace"}
================================================================================
