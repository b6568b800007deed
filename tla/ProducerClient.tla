----------------------------- MODULE ProducerClient -----------------------------
(***************************************************************************)
(* The producer library (rm-display-cli/src/client.rs): a blocking client  *)
(* that keeps at most two frames in flight, mirrors the receiver's credits *)
(* and decides between deltas and keyframes.                               *)
(*                                                                         *)
(* `op' is the public call in progress and `job' its arguments; a call     *)
(* that waits takes one Receive step per message read.  The caller draws a *)
(* new picture for every frame call and passes the picture of its previous *)
(* call as `previous'.  A picture is named by its surface and by the frame *)
(* id that first carries it.                                               *)
(***************************************************************************)
EXTENDS Connection, SequencesExt

CONSTANTS
  KeyframeBytes,  \* decoded length of a whole surface
  DeltaBytes,     \* decoded lengths a delta can have
  MaxFrameId,     \* bound on the frames sent on one surface
  MaxGeneration   \* bound on the surfaces opened on one connection

ASSUME ClientAssumption ==
  /\ KeyframeBytes \in Nat \ {0}
  /\ DeltaBytes \subseteq 1..KeyframeBytes
  /\ MaxFrameId \in Nat /\ MaxGeneration \in Nat

VARIABLES
  op, job,
  surface,                    \* generation of the open surface, 0 before
  next_frame_id,
  sent_frame_id,              \* logical_frame_id, the speculative tail included
  receiver_logical_frame_id,
  needs_keyframe,
  credits, byte_credits, credit_limit, byte_credit_limit,
  pending_frames,             \* frames sent and not yet reported
  completed_frame_reports,    \* ids of reports the caller has not fetched
  picture                     \* the caller's latest pixels

frameIdVars == <<next_frame_id, sent_frame_id, receiver_logical_frame_id,
                 needs_keyframe>>
creditVars  == <<credits, byte_credits, credit_limit, byte_credit_limit>>
queueVars   == <<pending_frames, completed_frame_reports>>
clientVars  == <<op, job, surface, frameIdVars, creditVars, queueVars, picture>>

\* u64::MAX: more than all frames of a surface can claim.
Unlimited == KeyframeBytes * (MaxFrameId + 1)

MaxPending == 2

NoJob == [intent |-> "Latest"]

\* Calls that read the connection before they return.
Waiting == {"opening", "overlay", "queueing", "settling", "awaiting",
            "crediting", "flushing"}

--------------------------------------------------------------------------------
(* Starting a call.                                                         *)

Idle == op = "idle"

Start(call, arguments) ==
  /\ Idle /\ op' = call /\ job' = arguments
  /\ UNCHANGED <<selected_minor, conn, to_client, surface, frameIdVars,
                 creditVars, queueVars>>

\* open_surface, also to replace a surface with frames still in flight.
OpenSurface ==
  /\ Start("opening", NoJob)
  /\ surface < MaxGeneration
  /\ Send(to_receiver, <<[type |-> "SurfaceOpen"]>>)
  /\ UNCHANGED picture

\* update_overlay with local_ink = FALSE, which releases a frozen background.
UpdateOverlay ==
  /\ Start("overlay", NoJob)
  /\ surface # 0
  /\ Send(to_receiver, <<[type |-> "OverlayUpdate"]>>)
  /\ UNCHANGED picture

FrameCall(call, arguments) ==
  /\ surface # 0 /\ next_frame_id <= MaxFrameId
  /\ picture' = <<surface, next_frame_id>>
  /\ Start(call, arguments)
  /\ UNCHANGED to_receiver

FrameJob(intent, delta, bytes) ==
  [intent |-> intent, delta |-> delta, bytes |-> bytes, previous |-> picture,
   retry |-> FALSE, frame_id |-> 0]

\* send_frame_report and send_delta_frame_report.
SendFrameReport(intent, delta, bytes) ==
  FrameCall("settling", FrameJob(intent, delta, bytes))

\* queue_delta_frame_report, which falls back to a keyframe.
QueueDelta(bytes) ==
  IF needs_keyframe \/ sent_frame_id = 0
    THEN FrameCall("settling", FrameJob("Latest", FALSE, KeyframeBytes))
    ELSE FrameCall("queueing", FrameJob("Latest", TRUE, bytes))

\* wait_for_frame_credit_report: a completed report, nothing, or a wait.
WaitForCredit ==
  /\ Idle /\ surface # 0
  /\ \/ /\ completed_frame_reports # <<>>
        /\ completed_frame_reports' = Tail(completed_frame_reports)
        /\ UNCHANGED op
     \/ /\ completed_frame_reports = <<>> /\ pending_frames # <<>>
        /\ ~(credits > 0 /\ byte_credits > 0
             /\ Len(pending_frames) < MaxPending)
        /\ op' = "crediting"
        /\ UNCHANGED completed_frame_reports
  /\ UNCHANGED <<selected_minor, conn, to_receiver, to_client, job, surface,
                 frameIdVars, creditVars, pending_frames, picture>>

\* flush_frame_reports
Flush ==
  /\ Start("flushing", NoJob)
  /\ UNCHANGED <<to_receiver, picture>>

--------------------------------------------------------------------------------
(* Sending a frame.                                                         *)

\* A delta builds on the speculative tail.
DeltaBase == sent_frame_id

\* Both credits are claimed before the frame is written.
Claim(bytes) ==
  /\ credits' = credits - 1
  /\ byte_credits' = IF bytes > byte_credits THEN 0 ELSE byte_credits - bytes

SendFrame(base_frame_id, whole, bytes) ==
  /\ Send(to_receiver,
       <<[type |-> "Frame", generation |-> surface, frame_id |-> next_frame_id,
        base_frame_id |-> base_frame_id, intent |-> job.intent,
        bytes |-> bytes, whole |-> whole, previous |-> job.previous,
        picture |-> picture]>>)
  /\ Claim(bytes)
  /\ sent_frame_id' = next_frame_id
  /\ next_frame_id' = next_frame_id + 1
  /\ pending_frames' = Append(pending_frames,
       [frame_id |-> next_frame_id, bytes |-> bytes, intent |-> job.intent])

\* Mutant: the queue counts bytes, not frames.
Blocked_BytesOnly == job.bytes > byte_credits

\* The wait condition of queue_delta_frame_report.
Blocked ==
  \/ Len(pending_frames) >= MaxPending
  \/ credits = 0
  \/ job.bytes > byte_credits

\* The queued delta goes out, and the caller gets one completed report.
QueueSends ==
  /\ op = "queueing" /\ ~Blocked
  /\ SendFrame(DeltaBase, FALSE, job.bytes)
  /\ op' = "idle" /\ job' = NoJob
  /\ completed_frame_reports' = IF completed_frame_reports = <<>> THEN <<>>
                                ELSE Tail(completed_frame_reports)
  /\ UNCHANGED <<selected_minor, conn, to_client, surface, needs_keyframe,
                 receiver_logical_frame_id, credit_limit, byte_credit_limit,
                 picture>>

\* settle_pending_frames has nothing left to wait for.
Settled == pending_frames = <<>>

\* What send_frame_report_inner sends: a keyframe, the whole surface, or a delta.
ReportKey   == needs_keyframe \/ receiver_logical_frame_id = 0 \/ job.retry
ReportWhole == ReportKey \/ ~job.delta
ReportBytes == IF ReportWhole THEN KeyframeBytes ELSE job.bytes

AfterReport == "awaiting"

\* send_frame_report_inner, once the frames in flight are settled.
ReportSends ==
  /\ op = "settling" /\ Settled
  /\ credits > 0 /\ ReportBytes <= byte_credits
  /\ next_frame_id <= MaxFrameId
  /\ SendFrame(IF ReportKey THEN 0 ELSE DeltaBase, ReportWhole, ReportBytes)
  /\ op' = AfterReport
  /\ job' = [job EXCEPT !.frame_id = next_frame_id, !.retry = ReportKey]
  /\ needs_keyframe' = (needs_keyframe /\ ~ReportKey)
  /\ UNCHANGED <<selected_minor, conn, to_client, surface, picture,
                 receiver_logical_frame_id, credit_limit, byte_credit_limit,
                 completed_frame_reports>>

\* NoCredit, or the frame ids are exhausted: the caller keeps its old picture.
CallFails ==
  /\ \/ op = "queueing" /\ Blocked /\ pending_frames = <<>>
     \/ /\ op = "settling" /\ Settled
        /\ \/ credits = 0
           \/ ReportBytes > byte_credits
           \/ next_frame_id > MaxFrameId
  /\ op' = "idle" /\ job' = NoJob
  /\ picture' = job.previous
  /\ UNCHANGED <<selected_minor, conn, to_receiver, to_client, surface,
                 frameIdVars, creditVars, queueVars>>

FlushReturns ==
  /\ op = "flushing" /\ Settled
  /\ op' = "idle"
  /\ completed_frame_reports' = <<>>
  /\ UNCHANGED <<selected_minor, conn, to_receiver, to_client, job, surface,
                 frameIdVars, creditVars, pending_frames, picture>>

--------------------------------------------------------------------------------
(* Receiving.                                                               *)

PendingIds == {pending_frames[i].frame_id : i \in DOMAIN pending_frames}

\* apply_frame_result refuses a result that no frame in flight explains.
Expected(m) ==
  /\ m.credits <= credit_limit
  /\ selected_minor >= 1 => m.byte_credits <= byte_credit_limit
  /\ m.frame_id \in PendingIds

\* Mutant: only NEED_KEYFRAME invalidates the base.
Good_Any(m) == m.result # "NeedKeyframe"

Good(m) == m.result \in {"Presented", "Superseded"}

\* The next delta's base after a result.
NextBase(pendings, key, logical) ==
  IF key \/ pendings = <<>> THEN logical ELSE pendings[Len(pendings)].frame_id

\* Where frame_id is among the frames in flight.
Position(frame_id) ==
  CHOOSE i \in DOMAIN pending_frames : pending_frames[i].frame_id = frame_id

apply_frame_result(m) ==
  LET rest == RemoveAt(pending_frames, Position(m.frame_id))
      key  == needs_keyframe \/ ~Good(m)
  IN /\ pending_frames' = rest
     /\ credits' = m.credits
     /\ byte_credits' = IF selected_minor >= 1 THEN m.byte_credits
                                               ELSE byte_credits
     /\ receiver_logical_frame_id' = m.logical_frame_id
     /\ needs_keyframe' = key
     /\ sent_frame_id' = NextBase(rest, key, m.logical_frame_id)
     /\ UNCHANGED <<next_frame_id, credit_limit, byte_credit_limit, surface>>

\* wait_for_frame_report hands its own frame's report to send_frame_report_inner,
\* which retries a refused delta once as a keyframe; every other report is kept.
AfterResult(m) ==
  LET mine == op = "awaiting" /\ m.frame_id = job.frame_id
  IN IF mine
     THEN /\ completed_frame_reports' = completed_frame_reports
          /\ IF m.result = "NeedKeyframe" /\ ~job.retry
               THEN op' = "settling" /\ job' = [job EXCEPT !.retry = TRUE]
               ELSE op' = "idle" /\ job' = NoJob
     ELSE IF op = "crediting"
     THEN op' = "idle" /\ UNCHANGED <<job, completed_frame_reports>>
     ELSE /\ completed_frame_reports' =
               Append(completed_frame_reports, m.frame_id)
          /\ IF op = "queueing" /\ needs_keyframe'
               THEN /\ op' = "settling"
                    /\ job' = [job EXCEPT !.delta = FALSE]
               ELSE UNCHANGED <<op, job>>

accept_surface(m) ==
  /\ op = "opening" /\ op' = "idle"
  /\ surface' = m.generation
  /\ next_frame_id' = 1 /\ receiver_logical_frame_id' = 0
  /\ sent_frame_id' = 0 /\ needs_keyframe' = TRUE
  /\ credits' = m.max_inflight /\ credit_limit' = m.max_inflight
  /\ byte_credits' = IF selected_minor >= 1 THEN m.max_inflight_bytes
                                            ELSE Unlimited
  /\ byte_credit_limit' = byte_credits'
  /\ pending_frames' = <<>> /\ completed_frame_reports' = <<>>
  /\ UNCHANGED job

\* A call that waits, or pump_once between calls, reads one message.
Receive ==
  /\ \/ op \in {"opening", "overlay", "crediting", "awaiting"}
     \/ op \in {"settling", "flushing"} /\ ~Settled
     \/ op = "queueing" /\ Blocked /\ pending_frames # <<>>
     \/ Idle
  /\ to_client # <<>>
  /\ to_client' = Tail(to_client)
  /\ LET m == Head(to_client)
     IN \/ /\ m.type = "FrameResult"
           /\ IF Expected(m)
                THEN apply_frame_result(m) /\ AfterResult(m)
                ELSE /\ op' = "unexpected"
                     /\ UNCHANGED <<job, surface, frameIdVars, creditVars,
                                    queueVars>>
        \/ m.type = "SurfaceReady" /\ accept_surface(m)
        \/ /\ m.type = "OverlayResult"
           /\ op = "overlay" /\ op' = "idle"
           /\ needs_keyframe' = (needs_keyframe \/ m.applied)
           /\ UNCHANGED <<job, surface, next_frame_id, sent_frame_id,
                          receiver_logical_frame_id, creditVars, queueVars>>
  /\ UNCHANGED <<selected_minor, conn, to_receiver, picture>>

\* The receiver is gone: a blocked read returns an error.
ReceiveFails ==
  /\ ~conn /\ op \in Waiting /\ op' = "closed"
  /\ UNCHANGED <<selected_minor, conn, to_receiver, to_client, job, surface,
                 frameIdVars, creditVars, queueVars, picture>>

ClientInit ==
  /\ op = "idle" /\ job = NoJob /\ surface = 0
  /\ next_frame_id = 1 /\ sent_frame_id = 0 /\ receiver_logical_frame_id = 0
  /\ needs_keyframe = TRUE
  /\ credits = 0 /\ byte_credits = 0
  /\ credit_limit = 0 /\ byte_credit_limit = 0
  /\ pending_frames = <<>> /\ completed_frame_reports = <<>>
  /\ picture = <<0, 0>>

ClientNext ==
  \/ OpenSurface
  \/ UpdateOverlay
  \/ \E intent \in {"Latest", "Settled"} :
       \/ SendFrameReport(intent, FALSE, KeyframeBytes)
       \/ \E bytes \in DeltaBytes : SendFrameReport(intent, TRUE, bytes)
  \/ \E bytes \in DeltaBytes : QueueDelta(bytes)
  \/ WaitForCredit
  \/ Flush
  \/ QueueSends
  \/ ReportSends
  \/ CallFails
  \/ FlushReturns
  \/ Receive
  \/ ReceiveFails
================================================================================
