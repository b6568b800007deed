----------------------------- MODULE FrameContract -----------------------------
(***************************************************************************)
(* What the receiver promises a producer about its frames (protocol-v2.md  *)
(* sections 6 and 7), with nothing said about pixels, panels or time:      *)
(*   - at most one frame waits for presentation;                           *)
(*   - a waiting LATEST may be replaced, by a newer frame only, and is     *)
(*     then reported SUPERSEDED; a waiting SETTLED is never replaced;      *)
(*   - a frame stops waiting in exactly the step that reports its one      *)
(*     terminal result, unless the connection itself ends;                 *)
(*   - the presented frame id moves only to a frame reported PRESENTED.    *)
(***************************************************************************)
EXTENDS Integers

CONSTANTS FrameId, NoFrame, NoTerminal

VARIABLES
  waiting,   \* NoFrame or the frame waiting for presentation
  report,    \* the terminal result of the last step, or NoTerminal
  shown,     \* id of the frame last presented on this surface, 0 at first
  ended      \* the last step ended the connection

contractVars == <<waiting, report, shown, ended>>

Frame == [frame_id : FrameId, intent : {"Latest", "Settled"}]

Result(outcome) == [frame_id |-> waiting.frame_id, outcome |-> outcome]

Init == waiting = NoFrame /\ report = NoTerminal /\ shown = 0 /\ ended = FALSE

Accept ==
  /\ waiting = NoFrame
  /\ waiting' \in Frame
  /\ report' = NoTerminal
  /\ UNCHANGED shown
  /\ ended' = FALSE

Supersede ==
  /\ waiting # NoFrame /\ waiting.intent = "Latest"
  /\ waiting' \in Frame /\ waiting'.frame_id > waiting.frame_id
  /\ report' = Result("Superseded")
  /\ UNCHANGED shown
  /\ ended' = FALSE

Present ==
  /\ waiting # NoFrame /\ waiting' = NoFrame
  /\ report' = Result("Presented")
  /\ shown' = waiting.frame_id
  /\ ended' = FALSE

Fail ==
  /\ waiting # NoFrame /\ waiting' = NoFrame
  /\ report' = Result("BackendFailure")
  /\ UNCHANGED shown
  /\ ended' = FALSE

\* A freeze keeps the presented frame; a new surface starts without one.
Cancel ==
  /\ waiting # NoFrame /\ waiting' = NoFrame
  /\ report' = Result("Cancelled")
  /\ shown' \in {shown, 0}
  /\ ended' = FALSE

\* Anything that concerns no waiting frame, opening a surface included.
Other ==
  /\ UNCHANGED waiting
  /\ report' = NoTerminal
  /\ shown' = shown \/ (waiting = NoFrame /\ shown' = 0)
  /\ ended' = FALSE

Disconnect ==
  /\ waiting' = NoFrame /\ report' = NoTerminal /\ shown' = 0 /\ ended' = TRUE

Next == Accept \/ Supersede \/ Present \/ Fail \/ Cancel \/ Other \/ Disconnect

Spec == Init /\ [][Next]_contractVars
================================================================================
