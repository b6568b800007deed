------------------------------- MODULE FrameFlow -------------------------------
(***************************************************************************)
(* A producer and the receiver's session joined by one connection: frames  *)
(* with credits and delta bases one way, terminal results the other, while *)
(* the receiver presents, fails, freezes and disconnects on its own.       *)
(***************************************************************************)
EXTENDS ProducerClient, SessionFrames, FiniteSets

flowVars == <<selected_minor, conn, to_receiver, to_client, clientVars,
              sessionVars>>

FlowInit == ConnectionInit /\ ClientInit /\ SessionInit

FlowNext ==
  \/ ClientNext /\ UNCHANGED sessionVars
  \/ SessionNext /\ UNCHANGED clientVars

FlowSpec == FlowInit /\ [][FlowNext]_flowVars

(* The server loop decodes what arrived and polls the core on every pass;   *)
(* a call of the producer keeps reading until it returns.                   *)
FairFlow ==
  /\ FlowSpec
  /\ WF_flowVars((AcceptFrame \/ open_surface \/ overlay_update)
                   /\ UNCHANGED clientVars)
  /\ WF_flowVars((\E o \in {"Presented", "BackendFailure"} : Poll(o))
                   /\ UNCHANGED clientVars)
  /\ WF_flowVars((op # "idle" /\ Receive) /\ UNCHANGED sessionVars)
  /\ WF_flowVars((QueueSends \/ ReportSends \/ CallFails \/ FlushReturns
                    \/ ReceiveFails) /\ UNCHANGED sessionVars)

--------------------------------------------------------------------------------
(* Properties.                                                              *)

Picture  == (0..MaxGeneration) \X (0..MaxFrameId)
AnyBytes == DeltaBytes \cup {KeyframeBytes}
Intent   == {"Latest", "Settled"}

\* Envelopes of each direction.
ToReceiver ==
  [type : {"SurfaceOpen", "OverlayUpdate"}] \cup
  [type : {"Frame"}, generation : 1..MaxGeneration, frame_id : 1..MaxFrameId,
   base_frame_id : 0..MaxFrameId, intent : Intent, bytes : AnyBytes,
   whole : BOOLEAN, previous : Picture, picture : Picture]

ToClient ==
  [type : {"SurfaceReady"}, generation : 1..MaxGeneration,
   max_inflight : {MaxInflight}, max_inflight_bytes : {0, MaxInflightBytes}] \cup
  [type : {"OverlayResult"}, applied : {TRUE}] \cup
  [type : {"FrameResult"}, frame_id : 1..MaxFrameId,
   result : {"Presented", "Superseded", "NeedKeyframe", "Rejected"},
   reason : {"None", "InkFrozen", "NoCredit", "ProtocolState", "WrongSurface",
             "BadBase", "BackendFailure"},
   credits : 0..MaxInflight, byte_credits : 0..MaxInflightBytes,
   logical_frame_id : 0..MaxFrameId]

SeqOver(set, seq) == \A i \in DOMAIN seq : seq[i] \in set

(* Credits never go below zero or above the limits, ids and pictures stay   *)
(* in range and the channels carry only envelopes of their direction        *)
(* (ProducerClient's fields, ActiveSurface and the wire messages).          *)
FlowTypeOK ==
  /\ selected_minor \in {0, 1} /\ conn \in BOOLEAN
  /\ SeqOver(ToReceiver, to_receiver) /\ SeqOver(ToClient, to_client)
  /\ op \in Waiting \cup {"idle", "closed", "unexpected"}
  /\ surface \in 0..MaxGeneration /\ next_frame_id \in 1..MaxFrameId + 1
  /\ sent_frame_id \in 0..MaxFrameId
  /\ receiver_logical_frame_id \in 0..MaxFrameId
  /\ needs_keyframe \in BOOLEAN
  /\ credits \in 0..MaxInflight /\ credit_limit \in {0, MaxInflight}
  /\ byte_credits \in 0..Unlimited + MaxInflightBytes
  /\ byte_credit_limit \in {0, MaxInflightBytes, Unlimited}
  /\ SeqOver([frame_id : 1..MaxFrameId, bytes : AnyBytes, intent : Intent],
             pending_frames)
  /\ SeqOver(1..MaxFrameId, completed_frame_reports)
  /\ picture \in Picture
  /\ generation \in 0..MaxGeneration
  /\ logical_frame_id \in 0..MaxFrameId
  /\ presented_frame_id \in 0..MaxFrameId
  /\ base_valid \in BOOLEAN /\ ink_frozen \in BOOLEAN
  /\ base \in Picture \cup {Mixed} /\ presented_base \in Picture \cup {Mixed}
  /\ pending \in [frame_id : 1..MaxFrameId, intent : Intent, bytes : AnyBytes]
                  \cup {NoFrame}

\* Frames and results on the wire, by their place.
FramesSent  == {i \in DOMAIN to_receiver : to_receiver[i].type = "Frame"}
ResultsSent == {i \in DOMAIN to_client : to_client[i].type = "FrameResult"}

\* The frame that waits on the receiver.
PendingFrame == IF pending = NoFrame THEN {} ELSE {pending.frame_id}

(* A delta is only ever applied to the picture it was encoded against:      *)
(* through pipelining, freezes, panel failures, retries and a reopened      *)
(* surface the base never becomes a mixture of two pictures (commit_timed's *)
(* base_valid and exact-base checks, the producer's speculative tail).      *)
BaseNeverMixed == base # Mixed /\ presented_base # Mixed

(* Every frame in flight is in exactly one place: still on the wire,        *)
(* pending on the receiver, or in one result on its way back, so that no    *)
(* result is lost, doubled or unexpected to apply_frame_result; a report    *)
(* the caller has yet to fetch is of no frame in flight.                    *)
FramesAccounted ==
  /\ op # "unexpected"
  /\ conn =>
       /\ Len(pending_frames) = Cardinality(PendingIds)
       /\ PendingIds = {to_receiver[i].frame_id : i \in FramesSent}
                         \cup {to_client[i].frame_id : i \in ResultsSent}
                         \cup PendingFrame
       /\ Len(pending_frames) = Cardinality(FramesSent) + Cardinality(ResultsSent)
                                  + Cardinality(PendingFrame)
       /\ \A i \in DOMAIN completed_frame_reports :
            completed_frame_reports[i] \notin PendingIds

(* The producer never has more frames in flight than the receiver granted,  *)
(* although it overwrites its count with a result that was sent before the  *)
(* receiver saw its latest frame (credits in apply_frame_result), so the    *)
(* receiver never refuses a frame for want of a frame credit; and it sends  *)
(* nothing after a SETTLED frame that is still unfinished                   *)
(* (send_frame_report waits for its own frame).                             *)
InflightBounded ==
  /\ Len(pending_frames) <= credit_limit
  /\ conn /\ FramesSent # {} => session_credits(pending) > 0 \/ ink_frozen
  /\ \A i \in DOMAIN pending_frames :
       pending_frames[i].intent = "Settled" => i = Len(pending_frames)

(* When the producer has nothing in flight and owes no keyframe, the frame  *)
(* the receiver presented last carries the producer's latest picture.       *)
PictureArrives ==
  conn /\ op = "idle" /\ surface # 0 /\ pending_frames = <<>> /\ ~needs_keyframe
    => presented_base = picture

(* Every call of the producer returns, with a result or with an error: a    *)
(* producer waiting for credit and a receiver waiting for its deadline      *)
(* never wait for each other.                                               *)
CallsReturn == op \in Waiting ~> op \notin Waiting
================================================================================
