----------------------------- MODULE SessionFrames -----------------------------
(***************************************************************************)
(* The receiver session as a producer's frames meet it                     *)
(* (rm-display-receiver/src/session.rs): admission, credits, the exact-base *)
(* rule and the terminal results, in the order of accept_frame.            *)
(*                                                                         *)
(* Presentation is DisplayCore's; here it is the moment at which poll      *)
(* returns the terminal of the pending frame.  Pixels are the name of the  *)
(* picture they make: a delta applied to the picture it was encoded        *)
(* against gives its own picture, applied to any other it gives Mixed.     *)
(***************************************************************************)
EXTENDS Connection

CONSTANTS
  MaxInflight,       \* ReceiverLimits.max_inflight
  MaxInflightBytes   \* ReceiverLimits.max_inflight_bytes

ASSUME LimitsAssumption ==
  MaxInflight \in Nat \ {0} /\ MaxInflightBytes \in Nat \ {0}

VARIABLES
  generation,          \* of the open surface, 0 while there is none
  logical_frame_id, presented_frame_id, base_valid,
  base, presented_base,  \* pictures
  pending,             \* NoFrame or the frame awaiting presentation
  ink_frozen

coreVars    == <<logical_frame_id, presented_frame_id, base_valid, base,
                 presented_base, pending>>
sessionVars == <<generation, coreVars, ink_frozen>>

NoFrame == [frame_id |-> 0]
Blank   == <<0, 0>>
Mixed   == <<0, 1>>

--------------------------------------------------------------------------------
(* Credits are absolute: the receiver reports what is left right now.       *)

session_credits(p) == MaxInflight - (IF p = NoFrame THEN 0 ELSE 1)

pending_bytes(p) == IF p = NoFrame THEN 0 ELSE p.bytes

byte_credits_enabled == selected_minor >= 1

session_byte_credits(p) ==
  IF ~byte_credits_enabled \/ pending_bytes(p) > MaxInflightBytes THEN 0
  ELSE MaxInflightBytes - pending_bytes(p)

\* A result reports the credits and the logical frame after the step.
FrameResult(frame_id, result, reason, logical) ==
  [type |-> "FrameResult", frame_id |-> frame_id, result |-> result,
   reason |-> reason, credits |-> session_credits(pending'),
   byte_credits |-> session_byte_credits(pending'), logical_frame_id |-> logical]

SurfaceReady(g) ==
  [type |-> "SurfaceReady", generation |-> g, max_inflight |-> MaxInflight,
   max_inflight_bytes |-> IF byte_credits_enabled THEN MaxInflightBytes ELSE 0]

\* The results of one handled message go out together.
Reply(results) == Send(to_client, results)

--------------------------------------------------------------------------------
(* accept_frame                                                             *)

Verdict(result, reason) == [result |-> result, reason |-> reason]

\* Mutant: a delta may build on a base that was invalidated.
BaseUsable_IdOnly(f) ==
  f.base_frame_id = 0 \/ f.base_frame_id = logical_frame_id

\* The exact-base rule: of validate_and_decode_frame, then of commit_timed.
BaseUsable(f) ==
  f.base_frame_id = 0 \/ (base_valid /\ f.base_frame_id = logical_frame_id)

\* Every check of accept_frame in its order; "Accepted" is not sent.
FrameVerdict(f) ==
  IF ink_frozen THEN Verdict("Rejected", "InkFrozen")
  ELSE IF session_credits(pending) = 0 THEN Verdict("Rejected", "NoCredit")
  ELSE IF byte_credits_enabled /\ f.bytes > session_byte_credits(pending)
       THEN Verdict("Rejected", "NoCredit")
  ELSE IF generation = 0 THEN Verdict("Rejected", "ProtocolState")
  ELSE IF f.generation # generation THEN Verdict("Rejected", "WrongSurface")
  ELSE IF f.frame_id <= logical_frame_id
       THEN Verdict("Rejected", "ProtocolState")
  ELSE IF f.base_frame_id \notin {0, logical_frame_id}
       THEN Verdict("NeedKeyframe", "BadBase")
  ELSE IF pending # NoFrame /\ pending.intent = "Settled"
       THEN Verdict("Rejected", "ProtocolState")
  ELSE IF ~BaseUsable(f) THEN Verdict("NeedKeyframe", "BadBase")
  ELSE Verdict("Accepted", "None")

\* The picture after a frame's regions were applied to the base.
Applied(f) == IF f.whole \/ base = f.previous THEN f.picture ELSE Mixed

\* Mutant: the superseded frame is dropped without its terminal.
Superseded_Silent == <<>>

\* commit_timed: the frame it replaces gets its terminal.
Superseded ==
  IF pending = NoFrame THEN <<>>
  ELSE <<FrameResult(pending.frame_id, "Superseded", "None", logical_frame_id')>>

Commit(f) ==
  /\ base' = Applied(f)
  /\ logical_frame_id' = f.frame_id
  /\ base_valid' = TRUE
  /\ pending' = [frame_id |-> f.frame_id, intent |-> f.intent,
                 bytes |-> f.bytes]
  /\ Reply(Superseded)
  /\ UNCHANGED <<presented_frame_id, presented_base>>

AcceptFrame ==
  /\ conn /\ to_receiver # <<>> /\ Head(to_receiver).type = "Frame"
  /\ to_receiver' = Tail(to_receiver)
  /\ LET f == Head(to_receiver)
         v == FrameVerdict(f)
     IN \/ v.result = "Accepted" /\ Commit(f)
        \/ /\ v.result # "Accepted"
           /\ UNCHANGED coreVars
           /\ Reply(<<FrameResult(f.frame_id, v.result, v.reason,
                               logical_frame_id)>>)
  /\ UNCHANGED <<selected_minor, conn, generation, ink_frozen>>

--------------------------------------------------------------------------------
(* Terminals of the pending frame.                                          *)

\* The frame is presented, or the panel fails and the delta base is lost.
Resolve(outcome) ==
  /\ pending' = NoFrame
  /\ \/ /\ outcome = "Presented"
        /\ presented_frame_id' = pending.frame_id
        /\ presented_base' = base
        /\ UNCHANGED <<logical_frame_id, base_valid>>
     \/ /\ outcome = "BackendFailure"
        /\ logical_frame_id' = 0 /\ base_valid' = FALSE
        /\ UNCHANGED <<presented_frame_id, presented_base>>
  /\ UNCHANGED base

TerminalOf(outcome) ==
  IF outcome = "Presented"
    THEN FrameResult(pending.frame_id, "Presented", "None", logical_frame_id')
    ELSE FrameResult(pending.frame_id, "Rejected", outcome, logical_frame_id')

\* poll, or a local plane that completes the pending frame first.
Poll(outcome) ==
  /\ conn /\ pending # NoFrame
  /\ Resolve(outcome)
  /\ Reply(<<TerminalOf(outcome)>>)
  /\ UNCHANGED <<selected_minor, conn, generation, ink_frozen, to_receiver>>

\* A failed cleanup or profile refresh with no frame waiting.
PanelFailure ==
  /\ conn /\ presented_frame_id # 0 /\ pending = NoFrame
  /\ logical_frame_id' = 0 /\ base_valid' = FALSE
  /\ UNCHANGED <<selected_minor, conn, generation, ink_frozen, to_receiver,
                 to_client, presented_frame_id, base, presented_base, pending>>

\* cancel_pending: its terminal still names the old surface's logical frame.
Cancelled(reason) ==
  IF pending = NoFrame THEN <<>>
  ELSE <<FrameResult(pending.frame_id, "Rejected", reason, logical_frame_id)>>

\* freeze_presented: the pixels go back to the presented frame, the logical id
\* does not, and only a fresh keyframe may resume.
set_frame_frozen(frozen) ==
  /\ conn /\ generation # 0 /\ ink_frozen # frozen
  /\ frozen => presented_frame_id # 0
  /\ ink_frozen' = frozen
  /\ \/ /\ frozen
        /\ pending' = NoFrame
        /\ base' = presented_base /\ base_valid' = FALSE
        /\ UNCHANGED <<logical_frame_id, presented_frame_id, presented_base>>
        /\ Reply(Cancelled("InkFrozen"))
     \/ ~frozen /\ UNCHANGED <<coreVars, to_client>>
  /\ UNCHANGED <<selected_minor, conn, generation, to_receiver>>

--------------------------------------------------------------------------------
(* Other messages and the end of the session.                               *)

\* SurfaceOpen: the pending frame of the old surface is cancelled first.
open_surface ==
  /\ conn /\ to_receiver # <<>> /\ Head(to_receiver).type = "SurfaceOpen"
  /\ to_receiver' = Tail(to_receiver)
  /\ generation' = generation + 1
  /\ base' = Blank /\ presented_base' = Blank /\ base_valid' = FALSE
  /\ logical_frame_id' = 0 /\ presented_frame_id' = 0 /\ pending' = NoFrame
  /\ ink_frozen' = FALSE
  /\ Reply(Append(Cancelled("ProtocolState"), SurfaceReady(generation')))
  /\ UNCHANGED <<selected_minor, conn>>

\* OverlayUpdate with local_ink = FALSE: the freeze ends and present_overlay
\* completes the pending frame.
overlay_update ==
  /\ conn /\ to_receiver # <<>> /\ Head(to_receiver).type = "OverlayUpdate"
  /\ to_receiver' = Tail(to_receiver)
  /\ ink_frozen' = FALSE
  /\ LET result == [type |-> "OverlayResult", applied |-> TRUE]
     IN \/ pending = NoFrame /\ Reply(<<result>>) /\ UNCHANGED coreVars
        \/ \E outcome \in {"Presented", "BackendFailure"} :
             /\ pending # NoFrame
             /\ Resolve(outcome)
             /\ Reply(<<TerminalOf(outcome), result>>)
  /\ UNCHANGED <<selected_minor, conn, generation>>

\* An error or an exit request ends the session; nothing more is written.
Disconnect ==
  /\ conn /\ conn' = FALSE
  /\ UNCHANGED <<selected_minor, generation, coreVars, ink_frozen, to_receiver,
                 to_client>>

SessionInit ==
  /\ generation = 0 /\ logical_frame_id = 0 /\ presented_frame_id = 0
  /\ base_valid = FALSE /\ base = Blank /\ presented_base = Blank
  /\ pending = NoFrame /\ ink_frozen = FALSE

SessionNext ==
  \/ AcceptFrame
  \/ \E outcome \in {"Presented", "BackendFailure"} : Poll(outcome)
  \/ PanelFailure
  \/ \E frozen \in BOOLEAN : set_frame_frozen(frozen)
  \/ open_surface
  \/ overlay_update
  \/ Disconnect
================================================================================
