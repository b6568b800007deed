----------------------------- MODULE MCDisplayCore -----------------------------
(***************************************************************************)
(* Constant values for the runs of DisplayCore.                            *)
(***************************************************************************)
EXTENDS DisplayCore, TLC

\* A motion profile without automatic cleanups, and one that cleans often.
MotionConfig ==
  [for_profile("Realtime") EXCEPT !.clean_first_frame = FALSE]

CustomConfig ==
  [for_profile("Custom") EXCEPT
     !.cleanup_after_updates = 2, !.static_cleanup_after_fast_updates = 2,
     !.large_update_threshold_percent = 100]

MCMotion   == {MotionConfig}
MCPolicies == {MotionConfig, CustomConfig}
TileSymmetry == Permutations(Tiles)
MCBudget   == [p \in NamedProfiles |-> [screens |-> 2, idle |-> 1]]

--------------------------------------------------------------------------------
(* An endless stream of frames.                                             *)

\* Frame ids never run out, but the model's do.  The core compares an id with
\* the newest logical id and with 0 and nothing else, so a state is like the one
\* in which all its ids are moved down to 1: a producer that has used the last id
\* of the model goes on from there.
Rebase ==
  LET Moved(id) == IF id = 0 THEN 0 ELSE 1
  IN /\ Ready
     /\ logical_frame_id = MaxFrameId
     /\ logical_frame_id' = Moved(logical_frame_id)
     /\ presented_frame_id' = Moved(presented_frame_id)
     /\ pending' = [pending EXCEPT !.frame_id = Moved(@)]
     /\ Quiet
     /\ UNCHANGED <<surfaceVars, planeVars, base_valid, policyVars, debtVars,
                    timerVars, panelVars, call, alive>>

StreamSpec == Init /\ [][Next \/ Rebase]_vars /\ IdleFairness
================================================================================
