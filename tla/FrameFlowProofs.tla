---------------------------- MODULE FrameFlowProofs ----------------------------
(***************************************************************************)
(* Proofs about a producer and the receiver's session joined by one        *)
(* connection, for any limits, frame sizes and bounds.                     *)
(***************************************************************************)
EXTENDS FrameFlow, FiniteSetTheorems, SequenceTheorems, TLAPS

--------------------------------------------------------------------------------
(* The inductive invariant.                                                 *)

\* Frames in flight, and the arguments of a frame call.
Flight == [frame_id : 1..MaxFrameId, bytes : AnyBytes, intent : Intent]

Jobs ==
  [intent : Intent, delta : BOOLEAN, bytes : AnyBytes, previous : Picture,
   retry : BOOLEAN, frame_id : 0..MaxFrameId]

FrameCalls == {"queueing", "settling", "awaiting"}

FlowTypes ==
  /\ FlowTypeOK
  /\ to_receiver \in Seq(ToReceiver) /\ to_client \in Seq(ToClient)
  /\ pending_frames \in Seq(Flight)
  /\ completed_frame_reports \in Seq(1..MaxFrameId)
  /\ op \in FrameCalls => job \in Jobs

\* A call that is not about frames sends one message and waits: the message is
\* the last one on its way, and so is its answer.
Lone ==
  /\ \A i \in DOMAIN to_receiver : to_receiver[i].type # "Frame" =>
       i = Len(to_receiver) /\ op \in {"opening", "overlay", "closed"}
  /\ \A i \in DOMAIN to_client : to_client[i].type # "FrameResult" =>
       /\ i = Len(to_client) /\ op \in {"opening", "overlay", "closed"}
       /\ to_receiver = <<>> /\ pending = NoFrame

\* Both sides know the same surface, unless the new one's answer is on its way.
Surfaces ==
  /\ \A i \in DOMAIN to_receiver : to_receiver[i].type = "SurfaceOpen" =>
       op \in {"opening", "closed"} /\ surface < MaxGeneration
  /\ \A i \in DOMAIN to_client : to_client[i].type = "SurfaceReady" =>
       /\ op \in {"opening", "closed"} /\ logical_frame_id = 0
       /\ generation = surface + 1 /\ to_client[i].generation = generation
       /\ selected_minor >= 1 => to_client[i].max_inflight_bytes = MaxInflightBytes
  /\ \/ \E i \in DOMAIN to_client : to_client[i].type = "SurfaceReady"
     \/ generation = surface

\* The frames in flight, oldest first.
InFlight ==
  /\ \A i, j \in DOMAIN pending_frames :
       i < j => pending_frames[i].frame_id < pending_frames[j].frame_id
  /\ \A i \in DOMAIN pending_frames : pending_frames[i].frame_id < next_frame_id
  /\ \A i \in DOMAIN completed_frame_reports :
       /\ completed_frame_reports[i] < next_frame_id
       /\ completed_frame_reports[i] \notin PendingIds
  /\ Len(pending_frames) <= MaxPending
  /\ logical_frame_id < next_frame_id

\* Each of them is in one place, and frames are read in the order of their ids.
Places ==
  /\ \A id \in PendingIds :
       \/ \E i \in FramesSent : to_receiver[i].frame_id = id
       \/ \E i \in ResultsSent : to_client[i].frame_id = id
       \/ id \in PendingFrame
  /\ \A i \in FramesSent :
       /\ to_receiver[i].frame_id \in PendingIds
       /\ \A j \in FramesSent :
            i < j => to_receiver[i].frame_id < to_receiver[j].frame_id
       /\ \A id \in PendingFrame : id < to_receiver[i].frame_id
       /\ \A j \in ResultsSent : to_client[j].frame_id < to_receiver[i].frame_id
  /\ \A i \in ResultsSent :
       /\ to_client[i].frame_id \in PendingIds \ PendingFrame
       /\ \A j \in ResultsSent : i < j => to_client[i].frame_id # to_client[j].frame_id
  /\ PendingFrame \subseteq PendingIds

\* A good result follows those of the frames before it, and tells what the
\* next delta builds on.
Results ==
  \A i \in ResultsSent :
    /\ Good(to_client[i]) => \A id \in PendingIds :
         id < to_client[i].frame_id =>
           \E j \in ResultsSent : j < i /\ to_client[j].frame_id = id
    /\ to_client[i].result = "Presented" =>
         to_client[i].logical_frame_id = to_client[i].frame_id
    /\ to_client[i].result = "Superseded" =>
         /\ to_client[i].logical_frame_id \in PendingIds
         /\ \A j \in ResultsSent :
              j <= i => to_client[j].frame_id # to_client[i].logical_frame_id

\* The frame that waits is the logical one and is in the base.
Waits == pending # NoFrame => base_valid /\ logical_frame_id = pending.frame_id

\* Unless the producer owes a keyframe, it builds on its newest frame.
Newest ==
  ~needs_keyframe =>
    /\ sent_frame_id # 0 /\ sent_frame_id < next_frame_id
    /\ pending_frames # <<>> =>
         sent_frame_id = pending_frames[Len(pending_frames)].frame_id

\* What the frame calls rely on while they wait.
CallStates ==
  /\ op # "unexpected" /\ (op = "closed" => ~conn)
  /\ op = "queueing" =>
       ~needs_keyframe /\ next_frame_id <= MaxFrameId /\ job.intent = "Latest"
  /\ op = "settling" /\ job.retry => needs_keyframe
  /\ op = "awaiting" =>
       Len(pending_frames) = 1 /\ pending_frames[1].frame_id = job.frame_id
  /\ \A i \in DOMAIN pending_frames : pending_frames[i].intent = "Settled" =>
       op \in {"awaiting", "closed"} /\ Len(pending_frames) = 1
  /\ surface = 0 => pending_frames = <<>> /\ op \notin FrameCalls

\* A receiver that grants one frame has at most that one.
Granted ==
  /\ credit_limit = IF surface = 0 THEN 0 ELSE MaxInflight
  /\ surface # 0 /\ selected_minor >= 1 => byte_credit_limit = MaxInflightBytes
  /\ MaxInflight = 1 /\ pending_frames # <<>> =>
       credits = 0 /\ Len(pending_frames) = 1

\* The picture the next delta is encoded against.
Latest == IF op \in {"queueing", "settling"} THEN job.previous ELSE picture

\* A delta on its way was encoded against the base it will meet.
Chain ==
  /\ picture # Mixed /\ (op \in FrameCalls => job.previous # Mixed)
  /\ \A i \in FramesSent :
       /\ to_receiver[i].picture # Mixed
       /\ ~to_receiver[i].whole =>
            /\ to_receiver[i].base_frame_id # 0
            /\ base_valid /\ logical_frame_id = to_receiver[i].base_frame_id =>
                 to_receiver[i].previous = base
            /\ \A j \in FramesSent :
                 j < i /\ to_receiver[j].frame_id = to_receiver[i].base_frame_id =>
                   to_receiver[i].previous = to_receiver[j].picture

\* The newest frame carries the caller's picture, on its way and in the base ...
Tip ==
  op # "closed" /\ ~needs_keyframe =>
    /\ \A i \in FramesSent :
         to_receiver[i].frame_id = sent_frame_id => to_receiver[i].picture = Latest
    /\ base_valid /\ logical_frame_id = sent_frame_id => base = Latest

\* ... and on the panel, once it no longer waits and was not refused.
Shown ==
  /\ op # "closed" /\ ~needs_keyframe /\ generation = surface
  /\ sent_frame_id \notin PendingFrame
  /\ \A i \in FramesSent : to_receiver[i].frame_id # sent_frame_id
  /\ \A i \in ResultsSent :
       to_client[i].frame_id = sent_frame_id => Good(to_client[i])
  => presented_base = Latest /\ pending = NoFrame

FlowInv ==
  /\ FlowTypes /\ Lone /\ Surfaces /\ InFlight /\ Places /\ Results /\ Waits
  /\ Newest /\ CallStates /\ Granted /\ Chain /\ Tip /\ Shown /\ BaseNeverMixed

--------------------------------------------------------------------------------
(* Channels and envelopes.                                                  *)

(* What is left of a channel after its head was read.                       *)
LEMMA ReadFacts ==
  ASSUME NEW S, NEW s \in Seq(S), s # <<>>
  PROVE  /\ Tail(s) \in Seq(S) /\ Len(s) \in Nat \ {0} /\ 1 \in DOMAIN s
         /\ DOMAIN s = 1..Len(s) /\ Len(Tail(s)) = Len(s) - 1
         /\ DOMAIN Tail(s) = 1..Len(s) - 1 /\ Head(s) = s[1] /\ Head(s) \in S
         /\ \A i \in DOMAIN Tail(s) : i + 1 \in DOMAIN s /\ Tail(s)[i] = s[i + 1]
         /\ \A i \in DOMAIN s : i # 1 => i - 1 \in DOMAIN Tail(s)
                                         /\ Tail(s)[i - 1] = s[i]
  OBVIOUS

(* A channel after one more envelope was written.                           *)
LEMMA WriteFacts ==
  ASSUME NEW S, NEW s \in Seq(S), NEW m \in S
  PROVE  /\ s \o <<m>> = Append(s, m) /\ Append(s, m) \in Seq(S) /\ Len(s) \in Nat
         /\ DOMAIN s = 1..Len(s) /\ Len(Append(s, m)) = Len(s) + 1
         /\ DOMAIN Append(s, m) = 1..Len(s) + 1
         /\ Append(s, m)[Len(s) + 1] = m
         /\ \A i \in DOMAIN s : i \in DOMAIN Append(s, m) /\ Append(s, m)[i] = s[i]
<1>1. s \o <<m>> = Append(s, m)
  OBVIOUS
<1> QED BY <1>1

(* A result and the answer that follows it are written one after the other. *)
LEMMA WriteBoth ==
  ASSUME NEW S, NEW s \in Seq(S), NEW m \in S, NEW n \in S
  PROVE  s \o <<m, n>> = Append(Append(s, m), n)
  OBVIOUS

LEMMA TwoOf ==
  ASSUME NEW S, NEW m \in S, NEW n \in S
  PROVE  Append(<<m>>, n) = <<m, n>>
<1>1. <<m>> \in Seq(S) /\ <<m, n>> \in Seq(S)
  OBVIOUS
<1>2. Append(<<m>>, n) \in Seq(S) /\ Len(Append(<<m>>, n)) = 2
  BY <1>1
<1>3. Append(<<m>>, n)[1] = m /\ Append(<<m>>, n)[2] = n
  BY <1>1
<1>4. Len(<<m, n>>) = 2 /\ <<m, n>>[1] = m /\ <<m, n>>[2] = n
  OBVIOUS
<1>5. \A i \in 1..2 : Append(<<m>>, n)[i] = <<m, n>>[i]
  <2> SUFFICES ASSUME NEW i \in 1..2 PROVE Append(<<m>>, n)[i] = <<m, n>>[i]
    OBVIOUS
  <2>1. i = 1 \/ i = 2
    OBVIOUS
  <2> QED BY <1>3, <1>4, <2>1
<1> QED BY <1>1, <1>2, <1>4, <1>5, SeqEqual

(* The two ways of saying what a sequence holds.                            *)
LEMMA SeqOverSeq ==
  ASSUME NEW S, NEW s \in Seq(S)
  PROVE  SeqOver(S, s)
  BY DEF SeqOver

(* What a step of the producer may set, in its types.                       *)
LEMMA ClientTypes ==
  ASSUME FlowInv, UNCHANGED <<selected_minor, conn, sessionVars>>,
         to_receiver' \in Seq(ToReceiver), to_client' \in Seq(ToClient),
         pending_frames' \in Seq(Flight), completed_frame_reports' \in Seq(1..MaxFrameId),
         op' \in Waiting \cup {"idle", "closed"}, op' \in FrameCalls => job' \in Jobs,
         surface' \in 0..MaxGeneration, next_frame_id' \in 1..MaxFrameId + 1,
         sent_frame_id' \in 0..MaxFrameId, receiver_logical_frame_id' \in 0..MaxFrameId,
         needs_keyframe' \in {TRUE, FALSE}, picture' \in Picture,
         credits' \in 0..MaxInflight, credit_limit' \in {0, MaxInflight},
         byte_credits' \in 0..Unlimited + MaxInflightBytes,
         byte_credit_limit' \in {0, MaxInflightBytes, Unlimited}
  PROVE  FlowTypes'
<1>1. /\ SeqOver(ToReceiver, to_receiver') /\ SeqOver(ToClient, to_client')
      /\ SeqOver(1..MaxFrameId, completed_frame_reports')
      /\ SeqOver([frame_id : 1..MaxFrameId, bytes : AnyBytes, intent : Intent],
                 pending_frames')
  BY SeqOverSeq DEF Flight
<1>2. FlowTypeOK
  BY DEF FlowInv, FlowTypes
<1>3. /\ selected_minor' \in {0, 1} /\ conn' \in BOOLEAN
      /\ generation' \in 0..MaxGeneration /\ logical_frame_id' \in 0..MaxFrameId
      /\ presented_frame_id' \in 0..MaxFrameId
      /\ base_valid' \in BOOLEAN /\ ink_frozen' \in BOOLEAN
      /\ base' \in Picture \cup {Mixed} /\ presented_base' \in Picture \cup {Mixed}
      /\ pending' \in [frame_id : 1..MaxFrameId, intent : Intent, bytes : AnyBytes]
                      \cup {NoFrame}
  BY ONLY <1>2, UNCHANGED <<selected_minor, conn, sessionVars>>
  DEF FlowTypeOK, sessionVars, coreVars
<1>4. needs_keyframe' \in BOOLEAN /\ op' \in Waiting \cup {"idle", "closed", "unexpected"}
  OBVIOUS
<1>5. FlowTypeOK'
  BY <1>1, <1>3, <1>4 DEF FlowTypeOK
<1> QED BY <1>5 DEF FlowTypes

(* The envelopes of each direction.                                         *)
LEMMA ToReceiverFields ==
  ASSUME NEW m \in ToReceiver
  PROVE  /\ m.type \in {"Frame", "SurfaceOpen", "OverlayUpdate"}
         /\ m.type = "Frame" =>
              /\ m.generation \in 1..MaxGeneration /\ m.frame_id \in 1..MaxFrameId
              /\ m.base_frame_id \in 0..MaxFrameId /\ m.intent \in Intent
              /\ m.bytes \in AnyBytes /\ m.whole \in {TRUE, FALSE}
              /\ m.previous \in Picture /\ m.picture \in Picture
  BY DEF ToReceiver

LEMMA ToClientFields ==
  ASSUME NEW m \in ToClient
  PROVE  /\ m.type \in {"SurfaceReady", "OverlayResult", "FrameResult"}
         /\ m.type = "SurfaceReady" =>
              /\ m.generation \in 1..MaxGeneration /\ m.max_inflight = MaxInflight
              /\ m.max_inflight_bytes \in {0, MaxInflightBytes}
         /\ m.type = "OverlayResult" => m.applied = TRUE
         /\ m.type = "FrameResult" =>
              /\ m.frame_id \in 1..MaxFrameId
              /\ m.result \in {"Presented", "Superseded", "NeedKeyframe", "Rejected"}
              /\ m.credits \in 0..MaxInflight
              /\ m.byte_credits \in 0..MaxInflightBytes
              /\ m.logical_frame_id \in 0..MaxFrameId
  BY DEF ToClient

(* A report of credits is within the limits (FrameResult).                  *)
LEMMA FrameResultType ==
  ASSUME NEW id \in 1..MaxFrameId,
         NEW result \in {"Presented", "Superseded", "NeedKeyframe", "Rejected"},
         NEW reason \in {"None", "InkFrozen", "NoCredit", "ProtocolState",
                         "WrongSurface", "BadBase", "BackendFailure"},
         NEW logical \in 0..MaxFrameId,
         pending' \in [frame_id : 1..MaxFrameId, intent : Intent, bytes : AnyBytes]
                        \cup {NoFrame}
  PROVE  /\ FrameResult(id, result, reason, logical) \in ToClient
         /\ FrameResult(id, result, reason, logical).type = "FrameResult"
         /\ FrameResult(id, result, reason, logical).frame_id = id
         /\ FrameResult(id, result, reason, logical).result = result
         /\ FrameResult(id, result, reason, logical).logical_frame_id = logical
<1>1. session_credits(pending') \in 0..MaxInflight
  BY LimitsAssumption DEF session_credits
<1>2. pending_bytes(pending') \in Nat
  <2>1. \A n \in AnyBytes : n \in Nat
    BY ClientAssumption DEF AnyBytes
  <2> QED BY <2>1 DEF pending_bytes
<1>3. session_byte_credits(pending') \in 0..MaxInflightBytes
  BY <1>2, LimitsAssumption DEF session_byte_credits
<1> QED BY <1>1, <1>3 DEF FrameResult, ToClient

--------------------------------------------------------------------------------
(* Steps of the producer that send and read nothing.                        *)

\* What such a step leaves alone.
quietVars == <<selected_minor, conn, to_receiver, to_client, surface, frameIdVars,
               creditVars, pending_frames, sessionVars>>

\* No answer is on its way and no question waits to be read.
NoQuestion ==
  /\ \A i \in DOMAIN to_receiver : to_receiver[i].type = "Frame"
  /\ \A i \in DOMAIN to_client : to_client[i].type = "FrameResult"

(* Only a call that asks has a question on its way.                         *)
LEMMA NoQuestionFacts ==
  ASSUME FlowInv, op \notin {"opening", "overlay", "closed"}
  PROVE  NoQuestion /\ generation = surface
<1>1. NoQuestion
  BY DEF FlowInv, Lone, NoQuestion
<1> QED BY <1>1 DEF FlowInv, Surfaces, NoQuestion

(* Such a step keeps the invariant if the call that follows may wait for    *)
(* what is in flight and the caller's picture is not lost.                  *)
LEMMA QuietKeeps ==
  ASSUME FlowInv, UNCHANGED quietVars, op' \in Waiting \cup {"idle", "closed"},
         NoQuestion \/ op' = "closed", CallStates',
         op' \in FrameCalls => job' \in Jobs /\ job'.previous # Mixed,
         picture' \in Picture, picture' # Mixed,
         op' = "closed" \/ Latest' = Latest,
         op = "closed" => op' = "closed",
         completed_frame_reports' \in Seq(1..MaxFrameId),
         \A i \in DOMAIN completed_frame_reports' :
           \E j \in DOMAIN completed_frame_reports :
             completed_frame_reports'[i] = completed_frame_reports[j]
  PROVE  FlowInv'
<1> USE DEF quietVars, frameIdVars, creditVars, sessionVars, coreVars
<1>1. FlowTypes'
  <2>1. \A i \in DOMAIN completed_frame_reports' :
          completed_frame_reports'[i] \in 1..MaxFrameId
    <3>1. SeqOver(1..MaxFrameId, completed_frame_reports)
      BY DEF FlowInv, FlowTypes, FlowTypeOK
    <3> QED BY ONLY <3>1,
                \A i \in DOMAIN completed_frame_reports' :
                  \E j \in DOMAIN completed_frame_reports :
                    completed_frame_reports'[i] = completed_frame_reports[j]
            DEF SeqOver
  <2> QED BY <2>1 DEF FlowInv, FlowTypes, FlowTypeOK, SeqOver
<1>2. Lone' /\ Surfaces'
  BY DEF FlowInv, Lone, Surfaces, NoQuestion
<1>3. /\ PendingIds' = PendingIds /\ FramesSent' = FramesSent
      /\ ResultsSent' = ResultsSent /\ PendingFrame' = PendingFrame
  BY DEF PendingIds, FramesSent, ResultsSent, PendingFrame
<1>4. InFlight'
  BY <1>3 DEF FlowInv, InFlight
<1>5. Places' /\ Results' /\ Waits'
  BY <1>3 DEF FlowInv, Places, Results, Waits, Good
<1>6. Newest' /\ Granted' /\ BaseNeverMixed'
  BY DEF FlowInv, Newest, Granted, BaseNeverMixed
<1>7. Chain'
  BY <1>3 DEF FlowInv, Chain
<1>8. Tip' /\ Shown'
  BY <1>3 DEF FlowInv, Tip, Shown, Good
<1> QED BY <1>1, <1>2, <1>4, <1>5, <1>6, <1>7, <1>8 DEF FlowInv


(* A frame call begins (FrameCall).                                         *)
LEMMA FrameCallKeeps ==
  ASSUME FlowInv, UNCHANGED sessionVars, NEW intent \in Intent, NEW delta \in {TRUE, FALSE},
         NEW bytes \in AnyBytes, NEW call \in {"queueing", "settling"},
         FrameCall(call, FrameJob(intent, delta, bytes)),
         call = "queueing" => ~needs_keyframe /\ intent = "Latest"
  PROVE  FlowInv'
<1>1. /\ op = "idle" /\ op' = call /\ surface # 0 /\ next_frame_id <= MaxFrameId
      /\ picture' = <<surface, next_frame_id>>
      /\ UNCHANGED <<to_receiver, selected_minor, conn, to_client, surface,
                     frameIdVars, creditVars, queueVars>>
  BY DEF FrameCall, Start, Idle
<1> PICK j : j = FrameJob(intent, delta, bytes)
  OBVIOUS
<1>2. /\ job' = j /\ j \in Jobs /\ j.previous = picture /\ j.intent = intent
      /\ j.retry = FALSE /\ picture # Mixed
  <2>1. picture \in Picture /\ picture # Mixed
    BY DEF FlowInv, FlowTypes, FlowTypeOK, Chain
  <2>2. 0 \in 0..MaxFrameId
    BY ClientAssumption
  <2>3. job' = j
    BY DEF FrameCall, Start
  <2> QED BY <2>1, <2>2, <2>3 DEF FrameJob, Jobs
<1>3. NoQuestion
  BY <1>1, NoQuestionFacts
<1>4. picture' \in Picture /\ picture' # Mixed
  <2>1. surface \in 0..MaxGeneration /\ next_frame_id \in 0..MaxFrameId
    BY <1>1, ClientAssumption DEF FlowInv, FlowTypes, FlowTypeOK
  <2> QED BY <1>1, <2>1 DEF Picture, Mixed
<1>5. CallStates'
  BY <1>1, <1>2 DEF FlowInv, CallStates, frameIdVars, creditVars, queueVars
<1>6. Latest' = Latest
  BY <1>1, <1>2 DEF Latest
<1>7. completed_frame_reports' = completed_frame_reports
  BY <1>1 DEF queueVars
<1>8. completed_frame_reports \in Seq(1..MaxFrameId)
  BY DEF FlowInv, FlowTypes
<1>9. UNCHANGED quietVars
  BY <1>1 DEF quietVars, queueVars
<1>10. op' \in Waiting
  BY <1>1 DEF Waiting
<1> QED
  BY <1>1, <1>2, <1>3, <1>4, <1>5, <1>6, <1>7, <1>8, <1>9, <1>10, QuietKeeps

(* The calls that send a frame (send_frame_report, queue_delta_frame_report). *)
LEMMA FrameCallsKeep ==
  ASSUME FlowInv, UNCHANGED sessionVars,
         \/ \E intent \in {"Latest", "Settled"} :
              \/ SendFrameReport(intent, FALSE, KeyframeBytes)
              \/ \E bytes \in DeltaBytes : SendFrameReport(intent, TRUE, bytes)
         \/ \E bytes \in DeltaBytes : QueueDelta(bytes)
  PROVE  FlowInv'
<1>1. /\ KeyframeBytes \in AnyBytes /\ DeltaBytes \subseteq AnyBytes
      /\ Intent = {"Latest", "Settled"}
  BY DEF AnyBytes, Intent
<1>2. CASE \E intent \in {"Latest", "Settled"} :
             \/ SendFrameReport(intent, FALSE, KeyframeBytes)
             \/ \E bytes \in DeltaBytes : SendFrameReport(intent, TRUE, bytes)
  BY <1>1, <1>2, FrameCallKeeps DEF SendFrameReport
<1>3. ASSUME NEW bytes \in DeltaBytes, QueueDelta(bytes)
      PROVE  FlowInv'
  <2>1. CASE needs_keyframe \/ sent_frame_id = 0
    <3>1. FrameCall("settling", FrameJob("Latest", FALSE, KeyframeBytes))
      BY <1>3, <2>1 DEF QueueDelta
    <3> QED BY <1>1, <3>1, FrameCallKeeps
  <2>2. CASE ~(needs_keyframe \/ sent_frame_id = 0)
    <3>1. FrameCall("queueing", FrameJob("Latest", TRUE, bytes))
      BY <1>3, <2>2 DEF QueueDelta
    <3> QED BY <1>1, <2>2, <3>1, FrameCallKeeps
  <2> QED BY <2>1, <2>2
<1> QED BY <1>2, <1>3

(* A call ends, fails or starts to wait for results (WaitForCredit, Flush,  *)
(* CallFails, FlushReturns, ReceiveFails).                                  *)
LEMMA WaitForCreditKeeps ==
  ASSUME FlowInv, UNCHANGED sessionVars, WaitForCredit
  PROVE  FlowInv'
<1>1. /\ op = "idle" /\ op' \in {"idle", "crediting"} /\ surface # 0
      /\ UNCHANGED <<job, picture, quietVars>>
  BY DEF WaitForCredit, Idle, quietVars
<1>2. NoQuestion
  BY <1>1, NoQuestionFacts
<1>3. CallStates' /\ Latest' = Latest /\ op' \in Waiting \cup {"idle"}
  BY <1>1
  DEF FlowInv, CallStates, FrameCalls, Latest, Waiting, quietVars, frameIdVars
<1>4. picture \in Picture /\ picture # Mixed
  BY DEF FlowInv, FlowTypes, FlowTypeOK, Chain
<1>5. PICK c : c = completed_frame_reports
  OBVIOUS
<1>6. c \in Seq(1..MaxFrameId)
  BY <1>5 DEF FlowInv, FlowTypes
<1>7. \/ completed_frame_reports' = c
      \/ completed_frame_reports' = Tail(c) /\ c # <<>>
  BY <1>5 DEF WaitForCredit
<1>8. /\ completed_frame_reports' \in Seq(1..MaxFrameId)
      /\ \A i \in DOMAIN completed_frame_reports' :
           \E j \in DOMAIN c : completed_frame_reports'[i] = c[j]
  BY <1>6, <1>7, ReadFacts
<1> QED
  BY <1>1, <1>2, <1>3, <1>4, <1>5, <1>8, QuietKeeps DEF FrameCalls

LEMMA FlushKeeps ==
  ASSUME FlowInv, UNCHANGED sessionVars, Flush
  PROVE  FlowInv'
<1>1. /\ op = "idle" /\ op' = "flushing"
      /\ UNCHANGED <<completed_frame_reports, picture, quietVars>>
  BY DEF Flush, Start, Idle, quietVars, queueVars
<1>2. NoQuestion
  BY <1>1, NoQuestionFacts
<1>3. CallStates' /\ Latest' = Latest /\ op' \in Waiting
  BY <1>1
  DEF FlowInv, CallStates, FrameCalls, Latest, Waiting, quietVars, frameIdVars
<1>4. /\ picture \in Picture /\ picture # Mixed
      /\ completed_frame_reports \in Seq(1..MaxFrameId)
  BY DEF FlowInv, FlowTypes, FlowTypeOK, Chain
<1> QED
  BY <1>1, <1>2, <1>3, <1>4, QuietKeeps DEF FrameCalls

LEMMA CallFailsKeeps ==
  ASSUME FlowInv, UNCHANGED sessionVars, CallFails
  PROVE  FlowInv'
<1>1. /\ op \in {"queueing", "settling"} /\ op' = "idle" /\ picture' = job.previous
      /\ UNCHANGED <<completed_frame_reports, quietVars>>
  BY DEF CallFails, quietVars, queueVars
<1>2. NoQuestion
  BY <1>1, NoQuestionFacts
<1>3. CallStates' /\ Latest' = Latest /\ op' \in Waiting \cup {"idle"}
  BY <1>1
  DEF FlowInv, CallStates, FrameCalls, Latest, Waiting, quietVars, frameIdVars
<1>4. /\ job.previous \in Picture /\ job.previous # Mixed
      /\ completed_frame_reports \in Seq(1..MaxFrameId)
  BY <1>1 DEF FlowInv, FlowTypes, FlowTypeOK, Chain, FrameCalls, Jobs
<1> QED
  BY <1>1, <1>2, <1>3, <1>4, QuietKeeps DEF FrameCalls

LEMMA FlushReturnsKeeps ==
  ASSUME FlowInv, UNCHANGED sessionVars, FlushReturns
  PROVE  FlowInv'
<1>1. /\ op = "flushing" /\ op' = "idle" /\ completed_frame_reports' = <<>>
      /\ UNCHANGED <<picture, quietVars>>
  BY DEF FlushReturns, quietVars
<1>2. NoQuestion
  BY <1>1, NoQuestionFacts
<1>3. CallStates' /\ Latest' = Latest /\ op' \in Waiting \cup {"idle"}
  BY <1>1
  DEF FlowInv, CallStates, FrameCalls, Latest, Waiting, quietVars, frameIdVars
<1>4. picture \in Picture /\ picture # Mixed
  BY DEF FlowInv, FlowTypes, FlowTypeOK, Chain
<1> QED
  BY <1>1, <1>2, <1>3, <1>4, QuietKeeps DEF FrameCalls

LEMMA ReceiveFailsKeeps ==
  ASSUME FlowInv, UNCHANGED sessionVars, ReceiveFails
  PROVE  FlowInv'
<1>1. /\ ~conn /\ op \in Waiting /\ op' = "closed"
      /\ UNCHANGED <<completed_frame_reports, picture, quietVars>>
  BY DEF ReceiveFails, quietVars, queueVars
<1>2. CallStates'
  BY <1>1 DEF FlowInv, CallStates, FrameCalls, quietVars, frameIdVars
<1>3. /\ picture \in Picture /\ picture # Mixed
      /\ completed_frame_reports \in Seq(1..MaxFrameId)
  BY DEF FlowInv, FlowTypes, FlowTypeOK, Chain
<1> QED
  BY <1>1, <1>2, <1>3, QuietKeeps DEF FrameCalls


--------------------------------------------------------------------------------
(* Steps of the producer that send.                                         *)

(* A surface is opened or an overlay updated (open_surface, update_overlay): *)
(* one question goes out, and the call waits for its answer.                *)
LEMMA AsksKeeps ==
  ASSUME FlowInv, UNCHANGED sessionVars, OpenSurface \/ UpdateOverlay
  PROVE  FlowInv'
<1> USE DEF frameIdVars, creditVars, queueVars, sessionVars, coreVars
<1>1. PICK q \in ToReceiver :
        /\ to_receiver' = to_receiver \o <<q>>
        /\ \/ q.type = "SurfaceOpen" /\ op' = "opening" /\ surface < MaxGeneration
           \/ q.type = "OverlayUpdate" /\ op' = "overlay" /\ surface # 0
  <2>1. CASE OpenSurface
    <3>1. [type |-> "SurfaceOpen"] \in ToReceiver
      BY DEF ToReceiver
    <3> WITNESS [type |-> "SurfaceOpen"] \in ToReceiver
    <3> QED BY <2>1 DEF OpenSurface, Start, Send
  <2>2. CASE UpdateOverlay
    <3>1. [type |-> "OverlayUpdate"] \in ToReceiver
      BY DEF ToReceiver
    <3> WITNESS [type |-> "OverlayUpdate"] \in ToReceiver
    <3> QED BY <2>2 DEF UpdateOverlay, Start, Send
  <2> QED BY <2>1, <2>2
<1>2. /\ op = "idle"
      /\ UNCHANGED <<selected_minor, conn, to_client, surface, frameIdVars,
                     creditVars, queueVars, picture>>
  BY DEF OpenSurface, UpdateOverlay, Start, Idle
<1>3. NoQuestion /\ generation = surface
  BY <1>2, NoQuestionFacts
<1>4. PICK s : s = to_receiver
  OBVIOUS
<1>5. /\ to_receiver' \in Seq(ToReceiver) /\ Len(s) \in Nat
      /\ DOMAIN s = 1..Len(s) /\ Len(to_receiver') = Len(s) + 1
      /\ DOMAIN to_receiver' = 1..Len(s) + 1
      /\ to_receiver'[Len(s) + 1] = q
      /\ \A i \in DOMAIN s : to_receiver'[i] = s[i] /\ s[i].type = "Frame"
  <2>1. s \in Seq(ToReceiver)
    BY <1>4 DEF FlowInv, FlowTypes
  <2> QED BY <1>1, <1>3, <1>4, <2>1, WriteFacts DEF NoQuestion
<1>6. FlowTypes'
  <2>1. SeqOver(ToReceiver, to_receiver)'
    BY <1>5, ElementOfSeq DEF SeqOver
  <2>2. op' \in Waiting /\ op' \notin FrameCalls
    BY <1>1 DEF Waiting, FrameCalls
  <2> QED
    BY <1>2, <1>5, <2>1, <2>2 DEF FlowInv, FlowTypes, FlowTypeOK, SeqOver
<1>7. Lone'
  BY <1>1, <1>2, <1>3, <1>5 DEF Lone, NoQuestion
<1>8. Surfaces'
  BY <1>1, <1>2, <1>3, <1>5 DEF Surfaces, NoQuestion
<1>9. /\ PendingIds' = PendingIds /\ FramesSent' = FramesSent
      /\ ResultsSent' = ResultsSent /\ PendingFrame' = PendingFrame
  <2>1. FramesSent' = FramesSent
    BY <1>1, <1>4, <1>5 DEF FramesSent
  <2> QED BY <1>2, <2>1 DEF PendingIds, ResultsSent, PendingFrame
<1>10. \A i \in FramesSent : to_receiver'[i] = to_receiver[i]
  BY <1>4, <1>5 DEF FramesSent
<1>11. InFlight' /\ Waits' /\ Newest' /\ Granted' /\ BaseNeverMixed'
  BY <1>2, <1>9 DEF FlowInv, InFlight, Waits, Newest, Granted, BaseNeverMixed
<1>12. Places' /\ Results'
  BY <1>2, <1>9, <1>10 DEF FlowInv, Places, Results, Good
<1>13. CallStates'
  BY <1>1, <1>2 DEF FlowInv, CallStates, FrameCalls
<1>14. Latest' = Latest /\ op' \notin FrameCalls \cup {"closed"}
  BY <1>1, <1>2 DEF Latest, FrameCalls
<1>15. Chain'
  BY <1>2, <1>9, <1>10, <1>14 DEF FlowInv, Chain
<1>16. Tip' /\ Shown'
  BY <1>2, <1>9, <1>10, <1>14 DEF FlowInv, Tip, Shown, Good
<1> QED
  BY <1>6, <1>7, <1>8, <1>11, <1>12, <1>13, <1>15, <1>16 DEF FlowInv


(* A frame goes out (SendFrame): it is the newest, carries the caller's     *)
(* picture and, if it is a delta, was encoded against the one before it.    *)
LEMMA SendsKeeps ==
  ASSUME FlowInv, UNCHANGED sessionVars, NEW b \in 0..MaxFrameId,
         NEW whole \in {TRUE, FALSE}, NEW bytes \in AnyBytes,
         SendFrame(b, whole, bytes), op \in {"queueing", "settling"},
         next_frame_id <= MaxFrameId, credits > 0, Len(pending_frames) < MaxPending,
         ~whole => ~needs_keyframe /\ b = sent_frame_id, ~needs_keyframe',
         needs_keyframe' \in {TRUE, FALSE},
         UNCHANGED <<selected_minor, conn, to_client, surface, picture,
                     receiver_logical_frame_id, credit_limit, byte_credit_limit>>,
         \/ op' = "idle" /\ job.intent = "Latest"
         \/ /\ op' = "awaiting" /\ pending_frames = <<>>
            /\ job' \in Jobs /\ job'.frame_id = next_frame_id
            /\ job'.previous = job.previous,
         completed_frame_reports' \in Seq(1..MaxFrameId),
         \A i \in DOMAIN completed_frame_reports' :
           \E j \in DOMAIN completed_frame_reports :
             completed_frame_reports'[i] = completed_frame_reports[j]
  PROVE  FlowInv'
<1> USE DEF sessionVars, coreVars
<1>1. /\ job \in Jobs /\ job.previous # Mixed /\ surface # 0
      /\ surface \in 1..MaxGeneration /\ next_frame_id \in 1..MaxFrameId
      /\ picture \in Picture /\ picture # Mixed /\ Latest = job.previous
  BY ClientAssumption
  DEF FlowInv, FlowTypes, FlowTypeOK, FrameCalls, CallStates, Chain, Latest
<1>2. NoQuestion /\ generation = surface
  BY NoQuestionFacts
<1> DEFINE frame == [type |-> "Frame", generation |-> surface,
                     frame_id |-> next_frame_id, base_frame_id |-> b,
                     intent |-> job.intent, bytes |-> bytes, whole |-> whole,
                     previous |-> job.previous, picture |-> picture]
           flight == [frame_id |-> next_frame_id, bytes |-> bytes,
                      intent |-> job.intent]
<1>3. PICK f : f = frame
  OBVIOUS
<1>4. /\ f \in ToReceiver /\ f.type = "Frame" /\ f.frame_id = next_frame_id
      /\ f.base_frame_id = b /\ f.whole = whole /\ f.previous = job.previous
      /\ f.picture = picture
  BY <1>1, <1>3 DEF ToReceiver, Jobs
<1>5. PICK p : p = flight
  OBVIOUS
<1>6. p \in Flight /\ p.frame_id = next_frame_id /\ p.intent = job.intent
  BY <1>1, <1>5 DEF Flight, Jobs
<1>7. /\ to_receiver' = to_receiver \o <<f>>
      /\ pending_frames' = Append(pending_frames, p)
      /\ sent_frame_id' = next_frame_id /\ next_frame_id' = next_frame_id + 1
      /\ credits' = credits - 1
      /\ byte_credits' = IF bytes > byte_credits THEN 0 ELSE byte_credits - bytes
  BY <1>3, <1>5 DEF SendFrame, Send, Claim
<1> HIDE DEF frame, flight
<1>8. PICK s : s = to_receiver
  OBVIOUS
<1>9. /\ to_receiver' \in Seq(ToReceiver) /\ Len(s) \in Nat
      /\ DOMAIN s = 1..Len(s) /\ Len(to_receiver') = Len(s) + 1
      /\ DOMAIN to_receiver' = 1..Len(s) + 1
      /\ to_receiver'[Len(s) + 1] = f
      /\ \A i \in DOMAIN s : to_receiver'[i] = s[i] /\ s[i].type = "Frame"
  <2>1. s \in Seq(ToReceiver)
    BY <1>8 DEF FlowInv, FlowTypes
  <2> QED BY <1>2, <1>4, <1>7, <1>8, <2>1, WriteFacts DEF NoQuestion
<1>10. PICK w : w = pending_frames
  OBVIOUS
<1>11. /\ pending_frames' \in Seq(Flight) /\ Len(w) \in Nat
       /\ DOMAIN w = 1..Len(w) /\ Len(pending_frames') = Len(w) + 1
       /\ DOMAIN pending_frames' = 1..Len(w) + 1
       /\ pending_frames'[Len(w) + 1] = p
       /\ \A i \in DOMAIN w : pending_frames'[i] = w[i]
  <2>1. w \in Seq(Flight)
    BY <1>10 DEF FlowInv, FlowTypes
  <2> QED BY <1>6, <1>7, <1>10, <2>1, WriteFacts
<1>12. /\ PendingIds' = PendingIds \cup {next_frame_id}
       /\ FramesSent' = FramesSent \cup {Len(s) + 1} /\ FramesSent = DOMAIN s
       /\ ResultsSent' = ResultsSent /\ PendingFrame' = PendingFrame
  <2>1. PendingIds' = PendingIds \cup {next_frame_id}
    BY <1>6, <1>10, <1>11 DEF PendingIds
  <2>2. FramesSent' = FramesSent \cup {Len(s) + 1} /\ FramesSent = DOMAIN s
    BY <1>4, <1>8, <1>9 DEF FramesSent
  <2> QED BY <2>1, <2>2 DEF ResultsSent, PendingFrame
<1>13. /\ \A id \in PendingIds : id < next_frame_id /\ id \in Nat
       /\ \A i \in FramesSent : /\ to_receiver[i].frame_id \in PendingIds
                                /\ to_receiver'[i] = to_receiver[i]
       /\ \A i \in ResultsSent : to_client[i].frame_id \in PendingIds
       /\ PendingFrame \subseteq PendingIds
  <2>1. \A i \in DOMAIN pending_frames : pending_frames[i].frame_id \in 1..MaxFrameId
    BY DEF FlowInv, FlowTypes, FlowTypeOK, SeqOver
  <2>2. \A id \in PendingIds : id < next_frame_id /\ id \in Nat
    BY <2>1 DEF FlowInv, InFlight, PendingIds
  <2> QED BY <1>8, <1>9, <1>12, <2>2 DEF FlowInv, Places
<1>14. FlowTypes'
  <2>4. credits' \in 0..MaxInflight /\ byte_credits' \in 0..Unlimited + MaxInflightBytes
    <3>1. PICK u : u = Unlimited + MaxInflightBytes
      OBVIOUS
    <3>2. \A n \in AnyBytes : n \in Nat
      BY ClientAssumption DEF AnyBytes
    <3>3. u \in Int
      BY <3>1, ClientAssumption, LimitsAssumption DEF Unlimited
    <3>4. credits \in 0..MaxInflight /\ byte_credits \in 0..u /\ bytes \in Nat
      BY <3>1, <3>2 DEF FlowInv, FlowTypes, FlowTypeOK
    <3> QED BY <1>7, <3>1, <3>3, <3>4, LimitsAssumption
  <2>2. next_frame_id' \in 1..MaxFrameId + 1 /\ sent_frame_id' \in 0..MaxFrameId
    BY ONLY <1>1, <1>7, ClientAssumption
  <2>3. op' \in Waiting \cup {"idle"}
    BY DEF Waiting
  <2>5. op' \in FrameCalls => job' \in Jobs
    BY DEF FrameCalls
  <2>6. /\ surface' \in 0..MaxGeneration /\ picture' \in Picture
        /\ to_client' \in Seq(ToClient) /\ credit_limit' \in {0, MaxInflight}
        /\ receiver_logical_frame_id' \in 0..MaxFrameId
        /\ byte_credit_limit' \in {0, MaxInflightBytes, Unlimited}
    BY DEF FlowInv, FlowTypes, FlowTypeOK
  <2> QED BY <1>9, <1>11, <2>2, <2>3, <2>4, <2>5, <2>6, ClientTypes
<1>15. Lone' /\ Surfaces'
  BY <1>2, <1>4, <1>8, <1>9 DEF Lone, Surfaces, NoQuestion
<1>16. InFlight'
  <2>0. \A i \in DOMAIN w : w[i].frame_id \in PendingIds
    BY <1>10 DEF PendingIds
  <2>6. \A i, j \in DOMAIN w : i < j => w[i].frame_id < w[j].frame_id
    BY <1>10 DEF FlowInv, InFlight
  <2>1. /\ \A i, j \in DOMAIN pending_frames' :
             i < j => pending_frames'[i].frame_id < pending_frames'[j].frame_id
        /\ \A i \in DOMAIN pending_frames' : pending_frames'[i].frame_id < next_frame_id'
    <3>1. \A i \in DOMAIN w : /\ pending_frames'[i] = w[i]
                              /\ w[i].frame_id < next_frame_id /\ w[i].frame_id \in Nat
      BY ONLY <1>11, <1>13, <2>0
    <3>2. \A i \in DOMAIN pending_frames' : i \in DOMAIN w \/ i = Len(w) + 1
      BY ONLY <1>11
    <3>3. pending_frames'[Len(w) + 1].frame_id = next_frame_id /\ next_frame_id \in Nat
      BY ONLY <1>1, <1>6, <1>11
    <3>4. \A i \in DOMAIN w : i < Len(w) + 1
      BY ONLY <1>11
    <3>5. \A i \in DOMAIN w : ~(Len(w) + 1 < i)
      BY ONLY <1>11
    <3>6. ~(Len(w) + 1 < Len(w) + 1)
      BY ONLY <1>11
    <3>7. \A i \in DOMAIN pending_frames' : pending_frames'[i].frame_id < next_frame_id'
      <4> SUFFICES ASSUME NEW i \in DOMAIN pending_frames'
                   PROVE  pending_frames'[i].frame_id < next_frame_id + 1
        BY <1>7
      <4>1. CASE i \in DOMAIN w
        <5>1. pending_frames'[i].frame_id < next_frame_id /\ pending_frames'[i].frame_id \in Nat
          BY ONLY <3>1, <4>1
        <5> QED BY ONLY <3>3, <5>1
      <4>2. CASE i = Len(w) + 1
        BY ONLY <3>3, <4>2
      <4> QED BY <3>2, <4>1, <4>2
    <3> QED BY ONLY <2>6, <3>1, <3>2, <3>3, <3>5, <3>6, <3>7
  <2>2. \A j \in DOMAIN completed_frame_reports :
          /\ completed_frame_reports[j] < next_frame_id
          /\ completed_frame_reports[j] \notin PendingIds
          /\ completed_frame_reports[j] \in Nat
    <3>1. \A j \in DOMAIN completed_frame_reports :
            completed_frame_reports[j] \in 1..MaxFrameId
      BY DEF FlowInv, FlowTypes, FlowTypeOK, SeqOver
    <3> QED BY <3>1 DEF FlowInv, InFlight
  <2>3. \A i \in DOMAIN completed_frame_reports' :
          /\ completed_frame_reports'[i] < next_frame_id'
          /\ completed_frame_reports'[i] \notin PendingIds'
    BY <1>1, <1>7, <1>12, <2>2
  <2>4. Len(pending_frames') <= MaxPending
    BY <1>10, <1>11 DEF MaxPending
  <2>5. logical_frame_id' < next_frame_id'
    BY <1>1, <1>7 DEF FlowInv, InFlight, FlowTypes, FlowTypeOK
  <2> QED BY <2>1, <2>3, <2>4, <2>5 DEF InFlight
<1>17. Places'
  <2>1. to_receiver'[Len(s) + 1].frame_id = next_frame_id
    BY <1>4, <1>9
  <2>2. \A i \in FramesSent : i < Len(s) + 1
    BY <1>9, <1>12
  <2>3. ~(Len(s) + 1 < Len(s) + 1) /\ \A i \in FramesSent : ~(Len(s) + 1 < i)
    BY <1>9, <1>12
  <2>4. Places /\ next_frame_id \notin PendingIds
    BY <1>1, <1>13 DEF FlowInv
  <2>5. \A id \in PendingIds' :
          \/ \E i \in FramesSent' : to_receiver'[i].frame_id = id
          \/ \E i \in ResultsSent : to_client[i].frame_id = id
          \/ id \in PendingFrame
    BY ONLY <1>12, <1>13, <2>1, <2>4 DEF Places
  <2>6. \A i \in FramesSent' :
          /\ to_receiver'[i].frame_id \in PendingIds'
          /\ \A j \in FramesSent' :
               i < j => to_receiver'[i].frame_id < to_receiver'[j].frame_id
          /\ \A id \in PendingFrame : id < to_receiver'[i].frame_id
          /\ \A j \in ResultsSent : to_client[j].frame_id < to_receiver'[i].frame_id
    BY ONLY <1>12, <1>13, <2>1, <2>3, <2>4 DEF Places
  <2>7. \A i \in ResultsSent :
          /\ to_client[i].frame_id \in PendingIds' \ PendingFrame
          /\ \A j \in ResultsSent :
               i < j => to_client[i].frame_id # to_client[j].frame_id
    BY ONLY <1>12, <2>4 DEF Places
  <2>8. PendingFrame \subseteq PendingIds'
    BY ONLY <1>12, <1>13
  <2> QED BY <1>12, <2>5, <2>6, <2>7, <2>8 DEF Places
<1>18. Results'
  BY <1>1, <1>12, <1>13 DEF FlowInv, Results, Good
<1>19. Waits' /\ BaseNeverMixed'
  BY DEF FlowInv, Waits, BaseNeverMixed
<1>20. Newest'
  BY <1>1, <1>6, <1>7, <1>11 DEF Newest
<1>21. CallStates'
  <2>1. \A i \in DOMAIN pending_frames : pending_frames[i].intent # "Settled"
    BY DEF FlowInv, CallStates
  <2>2. CASE op' = "idle" /\ job.intent = "Latest"
    BY <1>1, <1>6, <1>10, <1>11, <2>1, <2>2 DEF CallStates, FrameCalls
  <2>3. CASE op' = "awaiting" /\ pending_frames = <<>> /\ job'.frame_id = next_frame_id
    BY <1>1, <1>6, <1>10, <1>11, <2>3 DEF CallStates, FrameCalls
  <2> QED BY <2>2, <2>3
<1>22. Granted'
  <2>1. credits \in 0..MaxInflight
    BY DEF FlowInv, FlowTypes, FlowTypeOK
  <2> QED BY <1>1, <1>7, <1>10, <1>11, <2>1, LimitsAssumption DEF FlowInv, Granted
<1>23. /\ Latest' = picture /\ op' # "closed"
       /\ op' \in FrameCalls => job'.previous # Mixed
  BY <1>1 DEF Latest, FrameCalls
<1>24. Chain'
  <2>1. Chain /\ \A i \in FramesSent : ~(Len(s) + 1 < i)
    BY <1>9, <1>12 DEF FlowInv
  <2>2. ASSUME NEW i \in FramesSent
        PROVE  /\ to_receiver'[i].picture # Mixed
               /\ ~to_receiver'[i].whole =>
                    /\ to_receiver'[i].base_frame_id # 0
                    /\ base_valid /\ logical_frame_id = to_receiver'[i].base_frame_id =>
                         to_receiver'[i].previous = base
                    /\ \A j \in FramesSent' :
                         /\ j < i
                         /\ to_receiver'[j].frame_id = to_receiver'[i].base_frame_id
                         => to_receiver'[i].previous = to_receiver'[j].picture
    BY ONLY <1>12, <1>13, <2>1 DEF Chain
  <2>3. ~whole => /\ b # 0
                  /\ base_valid /\ logical_frame_id = b => job.previous = base
                  /\ \A j \in FramesSent : to_receiver[j].frame_id = b =>
                       job.previous = to_receiver[j].picture
    BY <1>1 DEF FlowInv, Newest, Tip
  <2>4. PICK n : n = Len(s) + 1
    OBVIOUS
  <2>5. ~(n < n) /\ to_receiver'[n] = f /\ FramesSent' = FramesSent \cup {n}
    BY <1>9, <1>12, <2>4
  <2> QED
    BY ONLY <1>1, <1>4, <1>13, <1>23, <2>2, <2>3, <2>5,
            UNCHANGED <<sessionVars, picture>>
    DEF Chain, sessionVars, coreVars
<1>25. Tip'
  <2>1. PICK n : n = Len(s) + 1
    OBVIOUS
  <2>2. to_receiver'[n].picture = picture /\ FramesSent' = FramesSent \cup {n}
    BY <1>4, <1>9, <1>12, <2>1
  <2>3. \A i \in FramesSent : to_receiver'[i].frame_id < next_frame_id
                              /\ to_receiver'[i].frame_id \in Nat
    BY ONLY <1>13
  <2>4. \A i \in FramesSent : to_receiver'[i].frame_id # sent_frame_id'
    <3>1. sent_frame_id' = next_frame_id /\ next_frame_id \in Nat
      BY <1>1, <1>7
    <3> QED BY ONLY <2>3, <3>1
  <2>5. logical_frame_id' # sent_frame_id'
    <3>1. logical_frame_id < next_frame_id /\ logical_frame_id \in Nat
      BY DEF FlowInv, FlowTypes, FlowTypeOK, InFlight
    <3> QED BY <1>1, <1>7, <3>1
  <2> QED BY ONLY <1>23, <2>2, <2>4, <2>5, UNCHANGED picture DEF Tip
<1>26. Shown'
  BY <1>4, <1>7, <1>9, <1>12 DEF Shown
<1> QED
  BY <1>14, <1>15, <1>16, <1>17, <1>18, <1>19, <1>20, <1>21, <1>22, <1>24, <1>25, <1>26
  DEF FlowInv


(* The queued delta is sent (queue_delta_frame_report).                     *)
LEMMA QueueSendsKeeps ==
  ASSUME FlowInv, UNCHANGED sessionVars, QueueSends
  PROVE  FlowInv'
<1>1. /\ op = "queueing" /\ ~Blocked /\ op' = "idle"
      /\ UNCHANGED <<selected_minor, conn, to_client, surface, needs_keyframe, picture,
                     receiver_logical_frame_id, credit_limit, byte_credit_limit>>
  BY DEF QueueSends
<1>2. /\ job \in Jobs /\ job.bytes \in AnyBytes /\ job.intent = "Latest"
      /\ sent_frame_id \in 0..MaxFrameId /\ ~needs_keyframe
      /\ needs_keyframe \in {TRUE, FALSE} /\ next_frame_id <= MaxFrameId
  BY <1>1 DEF FlowInv, FlowTypes, FlowTypeOK, FrameCalls, CallStates, Jobs
<1>3. credits > 0 /\ Len(pending_frames) < MaxPending
  <2>1. credits \in 0..MaxInflight /\ pending_frames \in Seq(Flight)
    BY DEF FlowInv, FlowTypes, FlowTypeOK
  <2> QED BY <1>1, <2>1, LimitsAssumption DEF Blocked, MaxPending
<1>4. PICK c : c = completed_frame_reports
  OBVIOUS
<1>5. /\ c \in Seq(1..MaxFrameId)
      /\ completed_frame_reports' = IF c = <<>> THEN <<>> ELSE Tail(c)
  BY <1>4 DEF FlowInv, FlowTypes, QueueSends
<1>6. /\ completed_frame_reports' \in Seq(1..MaxFrameId)
      /\ \A i \in DOMAIN completed_frame_reports' :
           \E j \in DOMAIN c : completed_frame_reports'[i] = c[j]
  <2>1. CASE c = <<>>
    BY <1>5, <2>1
  <2>2. CASE c # <<>>
    BY <1>5, <2>2, ReadFacts
  <2> QED BY <2>1, <2>2
<1>7. ~needs_keyframe' /\ needs_keyframe' \in {TRUE, FALSE}
  BY <1>1, <1>2
<1>8. \A i \in DOMAIN completed_frame_reports' :
        \E j \in DOMAIN completed_frame_reports :
          completed_frame_reports'[i] = completed_frame_reports[j]
  BY <1>4, <1>6
<1>9. PICK whole \in {TRUE, FALSE} : whole = FALSE
  OBVIOUS
<1>10. PICK b, bytes : b = sent_frame_id /\ bytes = job.bytes
  OBVIOUS
<1>11. SendFrame(b, whole, bytes)
  BY <1>9, <1>10 DEF QueueSends, DeltaBase, SendFrame
<1> QED BY <1>1, <1>2, <1>3, <1>6, <1>7, <1>8, <1>10, <1>11, SendsKeeps

(* The frame of a report call is sent (send_frame_report_inner).            *)
LEMMA ReportSendsKeeps ==
  ASSUME FlowInv, UNCHANGED sessionVars, ReportSends
  PROVE  FlowInv'
<1>1. /\ op = "settling" /\ pending_frames = <<>> /\ credits > 0
      /\ next_frame_id <= MaxFrameId /\ op' = "awaiting"
      /\ job' = [job EXCEPT !.frame_id = next_frame_id, !.retry = ReportKey]
      /\ UNCHANGED <<selected_minor, conn, to_client, surface, picture,
                     receiver_logical_frame_id, credit_limit, byte_credit_limit,
                     completed_frame_reports>>
  BY DEF ReportSends, Settled, AfterReport
<1>2. /\ job \in Jobs /\ job.bytes \in AnyBytes /\ job.retry \in {TRUE, FALSE}
      /\ sent_frame_id \in 0..MaxFrameId /\ needs_keyframe \in {TRUE, FALSE}
      /\ next_frame_id \in 0..MaxFrameId
      /\ completed_frame_reports \in Seq(1..MaxFrameId)
  <2>1. job \in Jobs
    BY <1>1 DEF FlowInv, FlowTypes, FrameCalls
  <2>2. next_frame_id \in 0..MaxFrameId
    BY <1>1, ClientAssumption DEF FlowInv, FlowTypes, FlowTypeOK
  <2> QED BY <2>1, <2>2 DEF FlowInv, FlowTypes, FlowTypeOK, Jobs
<1>3. PICK whole \in {TRUE, FALSE} : whole = ReportWhole
  BY <1>2 DEF ReportWhole, ReportKey
<1>4. PICK b : b = IF ReportKey THEN 0 ELSE DeltaBase
  OBVIOUS
<1>5. PICK bytes : bytes = ReportBytes
  OBVIOUS
<1>6. SendFrame(b, whole, bytes)
  BY <1>3, <1>4, <1>5 DEF ReportSends, SendFrame
<1>7. /\ b \in 0..MaxFrameId /\ bytes \in AnyBytes
      /\ ~whole => ~needs_keyframe /\ b = sent_frame_id
  <2>1. 0 \in 0..MaxFrameId
    BY ClientAssumption
  <2> QED
    BY <1>2, <1>3, <1>4, <1>5, <2>1
    DEF ReportWhole, ReportKey, ReportBytes, DeltaBase, AnyBytes
<1>8. ~needs_keyframe' /\ needs_keyframe' \in {TRUE, FALSE}
  <2>1. needs_keyframe' = (needs_keyframe /\ ~ReportKey)
    BY DEF ReportSends
  <2> QED BY <2>1 DEF ReportKey
<1>9. /\ job' \in Jobs /\ job'.frame_id = next_frame_id
      /\ job'.previous = job.previous
  <2>1. PICK k \in {TRUE, FALSE} : k = ReportKey
    BY <1>2 DEF ReportKey
  <2>2. job' = [job EXCEPT !.frame_id = next_frame_id, !.retry = k]
    BY <1>1, <2>1
  <2> QED BY <1>2, <2>2 DEF Jobs
<1>10. Len(pending_frames) < MaxPending
  BY <1>1 DEF MaxPending
<1> QED BY <1>1, <1>2, <1>6, <1>7, <1>8, <1>9, <1>10, SendsKeeps


--------------------------------------------------------------------------------
(* Steps of the producer that read.                                         *)

(* What is left of a queue after one element was taken out (VecDeque::remove). *)
LEMMA RemoveAtFacts ==
  ASSUME NEW S, NEW w \in Seq(S), NEW k \in DOMAIN w
  PROVE  /\ RemoveAt(w, k) \in Seq(S) /\ Len(w) \in Nat \ {0} /\ k \in 1..Len(w)
         /\ Len(RemoveAt(w, k)) = Len(w) - 1
         /\ DOMAIN RemoveAt(w, k) = 1..Len(w) - 1
         /\ \A i \in 1..Len(w) - 1 :
              RemoveAt(w, k)[i] = IF i < k THEN w[i] ELSE w[i + 1]
<1>1. Len(w) \in Nat \ {0} /\ k \in 1..Len(w) /\ DOMAIN w = 1..Len(w)
  OBVIOUS
<1>2. PICK a : a = SubSeq(w, 1, k - 1)
  OBVIOUS
<1>3. /\ a \in Seq(S) /\ Len(a) = k - 1 /\ \A i \in 1..k - 1 : a[i] = w[i]
  BY <1>1, <1>2
<1>4. PICK b : b = SubSeq(w, k + 1, Len(w))
  OBVIOUS
<1>5. /\ b \in Seq(S) /\ Len(b) = Len(w) - k
      /\ \A i \in 1..Len(w) - k : b[i] = w[k + i]
  BY <1>1, <1>4
<1>6. RemoveAt(w, k) = a \o b
  BY <1>2, <1>4 DEF RemoveAt
<1>7. PICK n \in Nat : n = Len(w)
  BY <1>1
<1>8. PICK c : c = a \o b
  OBVIOUS
<1>9. /\ c \in Seq(S) /\ Len(c) = n - 1
      /\ \A i \in 1..n - 1 : c[i] = IF i <= k - 1 THEN a[i] ELSE b[i - (k - 1)]
  <2>1. /\ c \in Seq(S) /\ Len(c) = Len(a) + Len(b)
        /\ \A i \in 1..Len(a) + Len(b) :
             c[i] = IF i <= Len(a) THEN a[i] ELSE b[i - Len(a)]
    BY ONLY <1>3, <1>5, <1>8, ConcatProperties, Zenon
  <2>2. Len(a) + Len(b) = n - 1 /\ Len(a) = k - 1
    BY <1>1, <1>3, <1>5, <1>7
  <2> QED BY ONLY <2>1, <2>2
<1>10. ASSUME NEW i \in 1..n - 1
       PROVE  c[i] = IF i < k THEN w[i] ELSE w[i + 1]
  <2>1. CASE i < k
    BY <1>1, <1>3, <1>7, <1>9, <2>1
  <2>2. CASE ~(i < k)
    <3>1. i - (k - 1) \in 1..n - k /\ k + (i - (k - 1)) = i + 1 /\ ~(i <= k - 1)
      BY ONLY <1>1, <1>7, <2>2, i \in 1..n - 1
    <3> QED BY <1>5, <1>7, <1>9, <2>2, <3>1
  <2> QED BY <2>1, <2>2
<1>11. DOMAIN c = 1..n - 1
  BY <1>9
<1> QED BY <1>1, <1>6, <1>7, <1>8, <1>9, <1>10, <1>11

(* The producer takes a new surface (accept_surface).                       *)
LEMMA ReceiveSurfaceKeeps ==
  ASSUME FlowInv, UNCHANGED sessionVars, to_client # <<>>, to_client' = Tail(to_client),
         Head(to_client).type = "SurfaceReady", accept_surface(Head(to_client)),
         UNCHANGED <<selected_minor, conn, to_receiver, picture>>
  PROVE  FlowInv'
<1> USE DEF sessionVars, coreVars
<1>1. PICK m : m = Head(to_client)
  OBVIOUS
<1>2. /\ m \in ToClient /\ m.type = "SurfaceReady" /\ m = to_client[1]
      /\ 1 \in DOMAIN to_client /\ Len(Tail(to_client)) = Len(to_client) - 1
      /\ Tail(to_client) \in Seq(ToClient) /\ Len(to_client) \in Nat
  BY <1>1, ReadFacts DEF FlowInv, FlowTypes
<1>3. /\ Len(to_client) = 1 /\ to_receiver = <<>> /\ pending = NoFrame
      /\ logical_frame_id = 0 /\ m.generation = generation
  BY <1>2 DEF FlowInv, Lone, Surfaces
<1>4. to_client' = <<>>
  BY <1>2, <1>3
<1>5. /\ m.generation \in 1..MaxGeneration /\ m.max_inflight = MaxInflight
      /\ m.max_inflight_bytes \in {0, MaxInflightBytes}
  BY <1>2, ToClientFields
<1>6. /\ op' = "idle" /\ surface' = generation /\ next_frame_id' = 1
      /\ receiver_logical_frame_id' = 0 /\ sent_frame_id' = 0 /\ needs_keyframe' = TRUE
      /\ credits' = MaxInflight /\ credit_limit' = MaxInflight
      /\ byte_credits' = (IF selected_minor >= 1 THEN m.max_inflight_bytes ELSE Unlimited)
      /\ byte_credit_limit' = byte_credits'
      /\ pending_frames' = <<>> /\ completed_frame_reports' = <<>>
  BY <1>1, <1>3, <1>5 DEF accept_surface
<1>7. FlowTypes'
  <2>1. PICK u : u = Unlimited
    OBVIOUS
  <2>2. u \in Nat
    BY <2>1, ClientAssumption DEF Unlimited
  <2>3. /\ byte_credits' \in 0..Unlimited + MaxInflightBytes
        /\ byte_credit_limit' \in {0, MaxInflightBytes, Unlimited}
    BY <1>5, <1>6, <2>1, <2>2, LimitsAssumption
  <2>4. /\ credits' \in 0..MaxInflight /\ surface' \in 0..MaxGeneration
        /\ next_frame_id' \in 1..MaxFrameId + 1 /\ sent_frame_id' \in 0..MaxFrameId
        /\ receiver_logical_frame_id' \in 0..MaxFrameId
        /\ credit_limit' \in {0, MaxInflight} /\ needs_keyframe' \in BOOLEAN
    BY <1>3, <1>5, <1>6, ClientAssumption, LimitsAssumption
  <2> QED
    BY <1>4, <1>6, <2>3, <2>4 DEF FlowInv, FlowTypes, FlowTypeOK, SeqOver, FrameCalls
<1>8. /\ PendingIds' = {} /\ FramesSent' = {} /\ ResultsSent' = {}
      /\ PendingFrame' = {} /\ pending' = NoFrame
  BY <1>3, <1>4, <1>6 DEF PendingIds, FramesSent, ResultsSent, PendingFrame
<1>9. Lone' /\ Surfaces' /\ InFlight' /\ Places' /\ Results' /\ Waits'
  BY <1>3, <1>4, <1>6, <1>8
  DEF Lone, Surfaces, InFlight, Places, Results, Waits, MaxPending
<1>10. Newest' /\ CallStates' /\ Granted'
  <2>1. selected_minor >= 1 => byte_credit_limit' = MaxInflightBytes
    BY <1>2, <1>6 DEF FlowInv, Surfaces
  <2> QED BY <1>3, <1>5, <1>6, <2>1 DEF Newest, CallStates, Granted, FrameCalls
<1>11. Chain' /\ Tip' /\ Shown' /\ BaseNeverMixed'
  BY <1>6, <1>8 DEF FlowInv, Chain, Tip, Shown, BaseNeverMixed, FrameCalls
<1> QED
  BY <1>7, <1>9, <1>10, <1>11 DEF FlowInv

(* The answer to an overlay update costs the next frame its delta base.     *)
LEMMA ReceiveOverlayKeeps ==
  ASSUME FlowInv, UNCHANGED sessionVars, to_client # <<>>, to_client' = Tail(to_client),
         Head(to_client).type = "OverlayResult", op = "overlay", op' = "idle",
         needs_keyframe' = (needs_keyframe \/ Head(to_client).applied),
         UNCHANGED <<job, surface, next_frame_id, sent_frame_id,
                     receiver_logical_frame_id, creditVars, queueVars,
                     selected_minor, conn, to_receiver, picture>>
  PROVE  FlowInv'
<1> USE DEF sessionVars, coreVars, creditVars, queueVars
<1>1. PICK m : m = Head(to_client)
  OBVIOUS
<1>2. /\ m \in ToClient /\ m.type = "OverlayResult" /\ m = to_client[1]
      /\ 1 \in DOMAIN to_client /\ Len(Tail(to_client)) = Len(to_client) - 1
      /\ Tail(to_client) \in Seq(ToClient) /\ Len(to_client) \in Nat
  BY <1>1, ReadFacts DEF FlowInv, FlowTypes
<1>3. Len(to_client) = 1 /\ to_receiver = <<>> /\ pending = NoFrame
  BY <1>2 DEF FlowInv, Lone
<1>4. to_client' = <<>> /\ DOMAIN to_client = {1}
  BY <1>2, <1>3
<1>5. needs_keyframe' = TRUE
  BY <1>1, <1>2, ToClientFields
<1>6. FlowTypes'
  BY <1>4, <1>5 DEF FlowInv, FlowTypes, FlowTypeOK, SeqOver, FrameCalls
<1>7. /\ FramesSent' = {} /\ ResultsSent' = {} /\ PendingFrame' = {} /\ PendingIds' = {}
      /\ FramesSent = {} /\ ResultsSent = {} /\ PendingFrame = {} /\ PendingIds = {}
  <2>1. FramesSent = {} /\ ResultsSent = {} /\ PendingFrame = {}
    BY <1>2, <1>3, <1>4 DEF FramesSent, ResultsSent, PendingFrame
  <2>2. FramesSent' = {} /\ ResultsSent' = {} /\ PendingFrame' = {}
    BY <1>3, <1>4 DEF FramesSent, ResultsSent, PendingFrame
  <2>3. PendingIds = {}
    BY <2>1 DEF FlowInv, Places
  <2> QED BY <2>1, <2>2, <2>3 DEF PendingIds
<1>8. Lone' /\ Surfaces'
  BY <1>2, <1>3, <1>4 DEF FlowInv, Lone, Surfaces
<1>9. InFlight' /\ Places' /\ Results' /\ Waits'
  BY <1>7 DEF FlowInv, InFlight, Places, Results, Waits
<1>10. Newest' /\ CallStates' /\ Granted'
  BY <1>5 DEF FlowInv, Newest, CallStates, Granted, FrameCalls
<1>11. Chain' /\ Tip' /\ Shown' /\ BaseNeverMixed'
  BY <1>5, <1>7 DEF FlowInv, Chain, Tip, Shown, BaseNeverMixed, FrameCalls
<1> QED
  BY <1>6, <1>8, <1>9, <1>10, <1>11 DEF FlowInv


(* A result that is read is of a frame in flight, and within the limits     *)
(* (apply_frame_result).                                                    *)
LEMMA ResultExpected ==
  ASSUME FlowInv, to_client # <<>>, NEW m, m = Head(to_client), m.type = "FrameResult"
  PROVE  /\ m \in ToClient /\ m = to_client[1] /\ 1 \in ResultsSent
         /\ m.frame_id \in PendingIds /\ Expected(m) /\ pending_frames # <<>>
<1>1. m \in ToClient /\ m = to_client[1] /\ 1 \in DOMAIN to_client
  BY ReadFacts DEF FlowInv, FlowTypes
<1>2. 1 \in ResultsSent
  BY <1>1 DEF ResultsSent
<1>3. m.frame_id \in PendingIds
  BY <1>1, <1>2 DEF FlowInv, Places
<1>4. pending_frames # <<>>
  BY <1>3 DEF PendingIds
<1>5. surface # 0
  BY <1>4 DEF FlowInv, CallStates
<1>6. m.credits <= credit_limit /\ (selected_minor >= 1 => m.byte_credits <= byte_credit_limit)
  <2>1. m.credits \in 0..MaxInflight /\ m.byte_credits \in 0..MaxInflightBytes
    BY <1>1, ToClientFields
  <2>2. /\ credit_limit = MaxInflight
        /\ selected_minor >= 1 => byte_credit_limit = MaxInflightBytes
    BY <1>5 DEF FlowInv, Granted
  <2> QED BY ONLY <2>1, <2>2, LimitsAssumption
<1> QED BY <1>1, <1>2, <1>3, <1>4, <1>6 DEF Expected

\* r is what is left of the frames in flight w without the one of id.
Removed(w, r, id) ==
  /\ r \in Seq(Flight) /\ Len(r) = Len(w) - 1 /\ Len(w) \in {1, 2}
  /\ DOMAIN r = 1..Len(w) - 1 /\ DOMAIN w = 1..Len(w)
  /\ \A i \in DOMAIN r : \E j \in DOMAIN w :
       r[i] = w[j] /\ i <= j /\ w[j].frame_id # id
  /\ \A i, j \in DOMAIN r : i < j => r[i].frame_id < r[j].frame_id
  /\ \A i \in DOMAIN r : r[i].frame_id \in PendingIds
  /\ \A x \in PendingIds : x # id => \E i \in DOMAIN r : r[i].frame_id = x
  /\ (\A x \in PendingIds : ~(x < id)) => w[1].frame_id = id
  /\ w[1].frame_id = id /\ r # <<>> => r[Len(r)] = w[Len(w)]

(* apply_frame_result takes the frame of a result out of the queue.         *)
LEMMA RemovedFacts ==
  ASSUME FlowInv, NEW id \in PendingIds, NEW w, w = pending_frames,
         NEW r, r = RemoveAt(pending_frames, Position(id))
  PROVE  Removed(w, r, id)
<1> USE DEF Removed
<1>1. PICK k \in DOMAIN w : k = Position(id) /\ w[k].frame_id = id
  BY DEF PendingIds, Position
<1>2. /\ w \in Seq(Flight) /\ Len(w) <= 2
      /\ \A i, j \in DOMAIN w : i < j => w[i].frame_id < w[j].frame_id
  BY DEF FlowInv, FlowTypes, InFlight, MaxPending
<1>3. /\ r \in Seq(Flight) /\ Len(w) \in Nat \ {0} /\ k \in 1..Len(w)
      /\ Len(r) = Len(w) - 1 /\ DOMAIN r = 1..Len(w) - 1
      /\ \A i \in 1..Len(w) - 1 : r[i] = IF i < k THEN w[i] ELSE w[i + 1]
  <2>1. r = RemoveAt(w, k)
    BY <1>1
  <2> QED BY ONLY <1>2, <2>1, k \in DOMAIN w, RemoveAtFacts
<1>4. DOMAIN w = 1..Len(w) /\ Len(w) \in {1, 2}
  BY <1>2, <1>3
<1>5. \A i \in DOMAIN w : w[i].frame_id \in Nat
  <2>1. \A i \in DOMAIN w : w[i] \in Flight
    BY <1>2, <1>4
  <2> QED BY <2>1 DEF Flight
<1>6. \A i \in DOMAIN w : i # k => w[i].frame_id # id
  BY <1>1, <1>2, <1>4, <1>5
<1>7. CASE Len(w) = 1
  <2>1. k = 1 /\ DOMAIN w = {1} /\ DOMAIN r = {} /\ r = <<>>
    BY <1>3, <1>4, <1>7
  <2>2. PendingIds = {id}
    BY <1>1, <2>1 DEF PendingIds
  <2> QED BY <1>1, <1>3, <1>4, <2>1, <2>2
<1>8. CASE Len(w) = 2
  <2>1. DOMAIN w = {1, 2} /\ DOMAIN r = {1} /\ k \in {1, 2}
        /\ r[1] = (IF 1 < k THEN w[1] ELSE w[2]) /\ Len(r) = 1
    BY <1>3, <1>4, <1>8
  <2>2. PendingIds = {w[1].frame_id, w[2].frame_id}
    BY <2>1 DEF PendingIds
  <2>3. CASE k = 1
    <3>1. r[1] = w[2] /\ w[2].frame_id # id
      BY <1>6, <2>1, <2>3
    <3>2. /\ \A i \in DOMAIN r : r[i].frame_id \in PendingIds
          /\ \A x \in PendingIds : x # id => \E i \in DOMAIN r : r[i].frame_id = x
      BY <1>1, <2>1, <2>2, <2>3, <3>1
    <3> QED BY <1>1, <1>3, <1>4, <1>8, <2>1, <2>3, <3>1, <3>2
  <2>4. CASE k = 2
    <3>1. r[1] = w[1] /\ w[1].frame_id # id /\ w[1].frame_id < id
      BY <1>1, <1>2, <1>6, <2>1, <2>4
    <3>2. /\ \A i \in DOMAIN r : r[i].frame_id \in PendingIds
          /\ \A x \in PendingIds : x # id => \E i \in DOMAIN r : r[i].frame_id = x
      BY <1>1, <2>1, <2>2, <2>4, <3>1
    <3> QED BY <1>1, <1>3, <1>4, <1>8, <2>1, <2>2, <2>4, <3>1, <3>2
  <2> QED BY <2>1, <2>3, <2>4
<1> QED BY <1>4, <1>7, <1>8


\* The call that reads a result, and the one it goes on as.
ResultCalls == {"opening", "overlay", "crediting", "awaiting", "settling",
                "flushing", "queueing", "idle"}

(* What a result does to the call that reads it (AfterResult).              *)
LEMMA AfterResultFacts ==
  ASSUME FlowInv, op \in ResultCalls, NEW m, m.frame_id \in PendingIds,
         m.frame_id \in 1..MaxFrameId, AfterResult(m), UNCHANGED picture,
         needs_keyframe' \in {TRUE, FALSE}, needs_keyframe => needs_keyframe',
         ~Good(m) => needs_keyframe'
  PROVE  /\ op' \in ResultCalls \ {"awaiting"}
         /\ op' \in FrameCalls => job' \in Jobs /\ job'.previous # Mixed
         /\ op' = "queueing" =>
              op = "queueing" /\ ~needs_keyframe' /\ job'.intent = "Latest"
         /\ op' = "settling" /\ job'.retry => needs_keyframe'
         /\ op' \in FrameCalls => op \in FrameCalls
         /\ op' \notin {"opening", "overlay"} => op \notin {"opening", "overlay"}
         /\ op' \in {"opening", "overlay"} => op' = op
         /\ op \in {"opening", "overlay"} => op' = op
         /\ ~needs_keyframe' => Latest' = Latest
         /\ completed_frame_reports' \in Seq(1..MaxFrameId)
         /\ \A i \in DOMAIN completed_frame_reports' :
              \/ completed_frame_reports'[i] = m.frame_id
              \/ \E j \in DOMAIN completed_frame_reports :
                   completed_frame_reports'[i] = completed_frame_reports[j]
<1>1. op \in FrameCalls => job \in Jobs /\ job.previous # Mixed
  BY DEF FlowInv, FlowTypes, Chain
<1>2. PICK c : c = completed_frame_reports
  OBVIOUS
<1>3. /\ c \in Seq(1..MaxFrameId) /\ Append(c, m.frame_id) \in Seq(1..MaxFrameId)
      /\ \A i \in DOMAIN Append(c, m.frame_id) :
           \/ Append(c, m.frame_id)[i] = m.frame_id
           \/ \E j \in DOMAIN c : Append(c, m.frame_id)[i] = c[j]
  <2>1. c \in Seq(1..MaxFrameId)
    BY <1>2 DEF FlowInv, FlowTypes
  <2> QED BY <2>1, WriteFacts
<1>4. completed_frame_reports' \in {c, Append(c, m.frame_id)}
  BY <1>2 DEF AfterResult
<1>5. /\ completed_frame_reports' \in Seq(1..MaxFrameId)
      /\ \A i \in DOMAIN completed_frame_reports' :
           \/ completed_frame_reports'[i] = m.frame_id
           \/ \E j \in DOMAIN c : completed_frame_reports'[i] = c[j]
  BY <1>3, <1>4
<1>6. CASE op = "awaiting"
  <2>1. m.frame_id = job.frame_id
    <3>1. /\ Len(pending_frames) = 1 /\ pending_frames[1].frame_id = job.frame_id
          /\ pending_frames \in Seq(Flight)
      BY <1>6 DEF FlowInv, CallStates, FlowTypes
    <3>2. DOMAIN pending_frames = {1}
      BY <3>1
    <3> QED BY <3>1, <3>2 DEF PendingIds
  <2>2. CASE m.result = "NeedKeyframe" /\ ~job.retry
    <3>1. op' = "settling" /\ job' = [job EXCEPT !.retry = TRUE]
      BY <1>6, <2>1, <2>2 DEF AfterResult
    <3>2. needs_keyframe'
      BY <2>2 DEF Good
    <3>3. job' \in Jobs /\ job'.previous = job.previous
      BY <1>1, <1>6, <3>1 DEF Jobs, FrameCalls
    <3> QED
      BY <1>1, <1>2, <1>5, <1>6, <3>1, <3>2, <3>3 DEF ResultCalls, FrameCalls
  <2>3. CASE ~(m.result = "NeedKeyframe" /\ ~job.retry)
    <3>1. op' = "idle" /\ UNCHANGED completed_frame_reports
      BY <1>6, <2>1, <2>3 DEF AfterResult
    <3>2. Latest' = Latest
      BY <1>6, <3>1 DEF Latest
    <3> QED BY <1>2, <1>5, <1>6, <3>1, <3>2 DEF ResultCalls, FrameCalls
  <2> QED BY <2>2, <2>3
<1>7. CASE op = "crediting"
  <2>1. op' = "idle"
    BY <1>7 DEF AfterResult
  <2>2. Latest' = Latest
    BY <1>7, <2>1 DEF Latest
  <2> QED BY <1>2, <1>5, <1>7, <2>1, <2>2 DEF ResultCalls, FrameCalls
<1>8. CASE op \notin {"awaiting", "crediting"}
  <2>1. CASE op = "queueing" /\ needs_keyframe'
    <3>1. op' = "settling" /\ job' = [job EXCEPT !.delta = FALSE]
      BY <1>8, <2>1 DEF AfterResult
    <3>2. job' \in Jobs /\ job'.previous = job.previous
      BY <1>1, <2>1, <3>1 DEF Jobs, FrameCalls
    <3> QED
      BY <1>1, <1>2, <1>5, <2>1, <3>1, <3>2 DEF ResultCalls, FrameCalls
  <2>2. CASE ~(op = "queueing" /\ needs_keyframe')
    <3>1. UNCHANGED <<op, job>>
      BY <1>8, <2>2 DEF AfterResult
    <3>2. Latest' = Latest
      BY <3>1 DEF Latest
    <3>3. op = "queueing" => job.intent = "Latest"
      BY DEF FlowInv, CallStates
    <3>4. op = "settling" /\ job.retry => needs_keyframe
      BY DEF FlowInv, CallStates
    <3> QED
      BY <1>1, <1>2, <1>5, <1>8, <2>2, <3>1, <3>2, <3>3, <3>4
      DEF ResultCalls, FrameCalls
  <2> QED BY <2>1, <2>2
<1> QED BY <1>6, <1>7, <1>8


(* A result is applied (apply_frame_result): its frame is no longer in      *)
(* flight, and a good one leaves the newest frame where it was.             *)
LEMMA ReceiveResultKeeps ==
  ASSUME FlowInv, UNCHANGED sessionVars, op \in ResultCalls,
         to_client # <<>>, to_client' = Tail(to_client),
         NEW m, m = Head(to_client), m.type = "FrameResult",
         apply_frame_result(m), AfterResult(m),
         UNCHANGED <<selected_minor, conn, to_receiver, picture>>
  PROVE  FlowInv'
<1> USE DEF sessionVars, coreVars
<1>1. /\ m \in ToClient /\ m = to_client[1] /\ 1 \in ResultsSent
      /\ m.frame_id \in PendingIds
  BY ResultExpected
<1>2. /\ m.frame_id \in 1..MaxFrameId /\ m.credits \in 0..MaxInflight
      /\ m.byte_credits \in 0..MaxInflightBytes /\ m.logical_frame_id \in 0..MaxFrameId
      /\ m.result \in {"Presented", "Superseded", "NeedKeyframe", "Rejected"}
  BY <1>1, ToClientFields
<1>3. PICK w : w = pending_frames
  OBVIOUS
<1>4. PICK r : r = RemoveAt(pending_frames, Position(m.frame_id))
  OBVIOUS
<1>5. Removed(w, r, m.frame_id)
  BY <1>1, <1>3, <1>4, RemovedFacts
<1> USE DEF Removed
<1>6. /\ pending_frames' = r /\ credits' = m.credits
      /\ byte_credits' = (IF selected_minor >= 1 THEN m.byte_credits ELSE byte_credits)
      /\ receiver_logical_frame_id' = m.logical_frame_id
      /\ needs_keyframe' = (needs_keyframe \/ ~Good(m))
      /\ sent_frame_id' = NextBase(r, needs_keyframe \/ ~Good(m), m.logical_frame_id)
      /\ UNCHANGED <<next_frame_id, credit_limit, byte_credit_limit, surface>>
  BY <1>4 DEF apply_frame_result
<1>7. /\ needs_keyframe' \in {TRUE, FALSE}
      /\ needs_keyframe => needs_keyframe'
      /\ ~Good(m) => needs_keyframe'
      /\ ~needs_keyframe' => ~needs_keyframe /\ Good(m)
  BY <1>6
<1>8. /\ op' \in ResultCalls \ {"awaiting"}
      /\ op' \in FrameCalls => job' \in Jobs /\ job'.previous # Mixed
      /\ op' = "queueing" => op = "queueing" /\ ~needs_keyframe' /\ job'.intent = "Latest"
      /\ op' = "settling" /\ job'.retry => needs_keyframe'
      /\ op' \in FrameCalls => op \in FrameCalls
      /\ op \in {"opening", "overlay"} => op' = op
      /\ op' \in {"opening", "overlay"} => op' = op
      /\ ~needs_keyframe' => Latest' = Latest
      /\ completed_frame_reports' \in Seq(1..MaxFrameId)
      /\ \A i \in DOMAIN completed_frame_reports' :
           \/ completed_frame_reports'[i] = m.frame_id
           \/ \E j \in DOMAIN completed_frame_reports :
                completed_frame_reports'[i] = completed_frame_reports[j]
  BY <1>1, <1>2, <1>7, AfterResultFacts
<1>9. PICK t : t = to_client
  OBVIOUS
<1>10. /\ to_client' \in Seq(ToClient) /\ Len(t) \in Nat \ {0} /\ DOMAIN t = 1..Len(t)
       /\ Len(to_client') = Len(t) - 1 /\ DOMAIN to_client' = 1..Len(t) - 1
       /\ \A i \in DOMAIN to_client' : i + 1 \in DOMAIN t /\ to_client'[i] = t[i + 1]
       /\ \A i \in DOMAIN t : i # 1 => i - 1 \in DOMAIN to_client'
                                       /\ to_client'[i - 1] = t[i]
  <2>1. t \in Seq(ToClient) /\ t # <<>> /\ to_client' = Tail(t)
    BY <1>9 DEF FlowInv, FlowTypes
  <2> QED BY ONLY <2>1, ReadFacts
<1>11. /\ PendingIds' = PendingIds \ {m.frame_id} /\ FramesSent' = FramesSent
       /\ PendingFrame' = PendingFrame
  <2>1. PendingIds' = PendingIds \ {m.frame_id}
    <3>1. PendingIds' = {r[i].frame_id : i \in DOMAIN r}
      BY <1>6 DEF PendingIds
    <3> QED BY ONLY <1>5, <3>1
  <2> QED BY <2>1 DEF FramesSent, PendingFrame
<1>12. /\ \A i \in ResultsSent' :
            i \in Nat /\ i + 1 \in ResultsSent /\ to_client'[i] = t[i + 1] /\ 1 < i + 1
       /\ \A i \in ResultsSent : i # 1 =>
            i \in Nat /\ i - 1 \in ResultsSent' /\ to_client'[i - 1] = t[i]
       /\ \A i \in ResultsSent : 1 < i => t[i].frame_id # m.frame_id
  <2>1. /\ \A i \in ResultsSent' :
            i \in Nat /\ i + 1 \in ResultsSent /\ to_client'[i] = t[i + 1] /\ 1 < i + 1
        /\ \A i \in ResultsSent : i # 1 =>
             i \in Nat /\ i - 1 \in ResultsSent' /\ to_client'[i - 1] = t[i]
    BY <1>9, <1>10 DEF ResultsSent
  <2>2. \A i \in ResultsSent : 1 < i => t[1].frame_id # t[i].frame_id
    BY <1>1, <1>9 DEF FlowInv, Places
  <2> QED BY <1>1, <1>9, <2>1, <2>2
<1>13. FlowTypes'
  <2>1. /\ SeqOver(ToClient, to_client') /\ SeqOver(Flight, pending_frames')
        /\ SeqOver(1..MaxFrameId, completed_frame_reports')
    BY <1>5, <1>6, <1>8, <1>10, SeqOverSeq
  <2>2. byte_credits' \in 0..Unlimited + MaxInflightBytes
    <3>1. PICK u : u = Unlimited
      OBVIOUS
    <3>2. u \in Nat
      BY <3>1, ClientAssumption DEF Unlimited
    <3>3. byte_credits \in 0..Unlimited + MaxInflightBytes
      BY DEF FlowInv, FlowTypes, FlowTypeOK
    <3> QED BY ONLY <1>2, <1>6, <3>1, <3>2, <3>3, LimitsAssumption
  <2>3. sent_frame_id' \in 0..MaxFrameId
    <3>1. r # <<>> => r[Len(r)] \in Flight
      BY <1>5
    <3>2. \A x \in Flight : x.frame_id \in 0..MaxFrameId
      BY DEF Flight
    <3> QED BY <1>2, <1>6, <3>1, <3>2 DEF NextBase
  <2>4. op' \in Waiting \cup {"idle"}
    BY <1>8 DEF ResultCalls, Waiting
  <2>5. /\ to_receiver' \in Seq(ToReceiver) /\ picture' \in Picture
        /\ surface' \in 0..MaxGeneration /\ next_frame_id' \in 1..MaxFrameId + 1
        /\ credit_limit' \in {0, MaxInflight}
        /\ byte_credit_limit' \in {0, MaxInflightBytes, Unlimited}
    BY <1>6 DEF FlowInv, FlowTypes, FlowTypeOK
  <2>6. /\ pending_frames' \in Seq(Flight) /\ to_client' \in Seq(ToClient)
        /\ completed_frame_reports' \in Seq(1..MaxFrameId)
        /\ op' \in FrameCalls => job' \in Jobs
    BY <1>5, <1>6, <1>8, <1>10
  <2>7. /\ credits' \in 0..MaxInflight /\ needs_keyframe' \in {TRUE, FALSE}
        /\ receiver_logical_frame_id' \in 0..MaxFrameId
    BY <1>2, <1>6, <1>7
  <2> QED BY <2>2, <2>3, <2>4, <2>5, <2>6, <2>7, ClientTypes
<1>14. Lone'
  <2>1. Lone /\ op # "closed"
    BY DEF FlowInv, ResultCalls
  <2>2. \A i \in DOMAIN to_receiver : to_receiver[i].type # "Frame" =>
          i = Len(to_receiver) /\ op' \in {"opening", "overlay", "closed"}
    BY <1>8, <2>1 DEF Lone
  <2>3. ASSUME NEW i \in DOMAIN to_client', to_client'[i].type # "FrameResult"
        PROVE  /\ i = Len(to_client') /\ op' \in {"opening", "overlay", "closed"}
               /\ to_receiver = <<>> /\ pending = NoFrame
    <3>1. i \in Nat /\ i + 1 \in DOMAIN t /\ to_client'[i] = t[i + 1]
      BY <1>10, <2>3
    <3>2. /\ i + 1 = Len(t) /\ op \in {"opening", "overlay"}
          /\ to_receiver = <<>> /\ pending = NoFrame
      BY <1>9, <2>1, <2>3, <3>1 DEF Lone
    <3> QED BY <1>8, <1>10, <3>1, <3>2
  <2> QED BY <2>2, <2>3 DEF Lone
<1>15. Surfaces'
  <2>1. Surfaces /\ op # "closed" /\ t[1].type = "FrameResult"
    BY <1>1, <1>9 DEF FlowInv, ResultCalls
  <2>2. \A i \in DOMAIN to_receiver : to_receiver[i].type = "SurfaceOpen" =>
          op' \in {"opening", "closed"} /\ surface < MaxGeneration
    BY <1>8, <2>1 DEF Surfaces
  <2>3. \A i \in DOMAIN to_client' : to_client'[i].type = "SurfaceReady" =>
          /\ op' \in {"opening", "closed"} /\ logical_frame_id = 0
          /\ generation = surface + 1 /\ to_client'[i].generation = generation
          /\ selected_minor >= 1 => to_client'[i].max_inflight_bytes = MaxInflightBytes
    BY <1>8, <1>9, <1>10, <2>1 DEF Surfaces
  <2>4. \/ \E i \in DOMAIN to_client' : to_client'[i].type = "SurfaceReady"
        \/ generation = surface
    BY <1>9, <1>10, <2>1 DEF Surfaces
  <2> QED BY <1>6, <2>2, <2>3, <2>4 DEF Surfaces
<1>16. InFlight'
  <2>1. \A i \in DOMAIN w : w[i].frame_id < next_frame_id
    BY <1>3 DEF FlowInv, InFlight
  <2>2. /\ \A j \in DOMAIN completed_frame_reports :
             /\ completed_frame_reports[j] < next_frame_id
             /\ completed_frame_reports[j] \notin PendingIds
        /\ m.frame_id < next_frame_id
    BY <1>1 DEF FlowInv, InFlight, PendingIds
  <2>3. \A i \in DOMAIN completed_frame_reports' :
          /\ completed_frame_reports'[i] < next_frame_id
          /\ completed_frame_reports'[i] \notin PendingIds'
    BY <1>8, <1>11, <2>2
  <2>4. logical_frame_id < next_frame_id
    BY DEF FlowInv, InFlight
  <2> QED BY <1>5, <1>6, <2>1, <2>3, <2>4 DEF InFlight, MaxPending
<1>17. Places'
  <2>1. Places
    BY DEF FlowInv
  <2>2. \A id \in PendingIds' :
          \/ \E i \in FramesSent : to_receiver[i].frame_id = id
          \/ \E i \in ResultsSent' : to_client'[i].frame_id = id
          \/ id \in PendingFrame
    BY ONLY <1>1, <1>9, <1>11, <1>12, <2>1 DEF Places
  <2>3. \A i \in FramesSent :
          /\ to_receiver[i].frame_id \in PendingIds'
          /\ \A j \in FramesSent :
               i < j => to_receiver[i].frame_id < to_receiver[j].frame_id
          /\ \A id \in PendingFrame : id < to_receiver[i].frame_id
          /\ \A j \in ResultsSent' : to_client'[j].frame_id < to_receiver[i].frame_id
    <3>1. \A i \in FramesSent : m.frame_id < to_receiver[i].frame_id
      BY <1>1, <2>1 DEF Places
    <3> QED BY ONLY <1>2, <1>9, <1>11, <1>12, <2>1, <3>1 DEF Places
  <2>4. \A i \in ResultsSent' :
          /\ to_client'[i].frame_id \in PendingIds' \ PendingFrame
          /\ \A j \in ResultsSent' :
               i < j => to_client'[i].frame_id # to_client'[j].frame_id
    BY ONLY <1>9, <1>11, <1>12, <2>1 DEF Places
  <2>5. PendingFrame \subseteq PendingIds'
    BY <1>1, <1>11, <2>1 DEF Places
  <2> QED BY <1>11, <2>2, <2>3, <2>4, <2>5 DEF Places
<1>18. Results'
  <2>1. Results
    BY DEF FlowInv
  <2>2. ASSUME NEW i \in ResultsSent'
        PROVE  /\ Good(to_client'[i]) => \A id \in PendingIds' :
                    id < to_client'[i].frame_id =>
                      \E j \in ResultsSent' : j < i /\ to_client'[j].frame_id = id
               /\ to_client'[i].result = "Presented" =>
                    to_client'[i].logical_frame_id = to_client'[i].frame_id
               /\ to_client'[i].result = "Superseded" =>
                    /\ to_client'[i].logical_frame_id \in PendingIds'
                    /\ \A j \in ResultsSent' : j <= i =>
                         to_client'[j].frame_id # to_client'[i].logical_frame_id
    <3>1. i \in Nat /\ i + 1 \in ResultsSent /\ to_client'[i] = t[i + 1] /\ 1 <= i + 1
      BY ONLY <1>12, i \in ResultsSent'
    <3>2. ASSUME Good(to_client'[i]), NEW id \in PendingIds', id < to_client'[i].frame_id
          PROVE  \E j \in ResultsSent' : j < i /\ to_client'[j].frame_id = id
      <4>1. PICK j \in ResultsSent : j < i + 1 /\ t[j].frame_id = id
        BY <1>9, <1>11, <2>1, <3>1, <3>2 DEF Results
      <4>2. j # 1 /\ id # m.frame_id
        BY <1>1, <1>9, <1>11, <4>1
      <4>3. j \in Nat /\ j - 1 \in ResultsSent' /\ to_client'[j - 1] = t[j]
        BY <1>12, <4>2
      <4>4. j - 1 < i
        BY <3>1, <4>1, <4>3
      <4> QED BY <4>1, <4>3, <4>4
    <3>3. to_client'[i].result = "Presented" =>
            to_client'[i].logical_frame_id = to_client'[i].frame_id
      BY <1>9, <2>1, <3>1 DEF Results
    <3>4. ASSUME to_client'[i].result = "Superseded"
          PROVE  /\ to_client'[i].logical_frame_id \in PendingIds'
                 /\ \A j \in ResultsSent' : j <= i =>
                      to_client'[j].frame_id # to_client'[i].logical_frame_id
      <4>1. /\ t[i + 1].logical_frame_id \in PendingIds
            /\ \A j \in ResultsSent :
                 j <= i + 1 => t[j].frame_id # t[i + 1].logical_frame_id
        BY <1>9, <2>1, <3>1, <3>4 DEF Results
      <4>2. t[i + 1].logical_frame_id # m.frame_id
        BY <1>1, <1>9, <3>1, <4>1
      <4>3. ASSUME NEW j \in ResultsSent', j <= i
            PROVE  to_client'[j].frame_id # to_client'[i].logical_frame_id
        <5>1. /\ j \in Nat /\ j + 1 \in ResultsSent /\ to_client'[j] = t[j + 1]
              /\ j + 1 <= i + 1
          <6>1. j \in Nat /\ j + 1 \in ResultsSent /\ to_client'[j] = t[j + 1]
            BY ONLY <1>12, j \in ResultsSent'
          <6>2. i \in Nat
            BY ONLY <3>1
          <6> QED BY ONLY <4>3, <6>1, <6>2
        <5> QED BY ONLY <3>1, <4>1, <5>1
      <4> QED BY <1>11, <3>1, <4>1, <4>2, <4>3
    <3> QED BY <3>2, <3>3, <3>4
  <2> QED BY <2>2 DEF Results, Good
<1>19. ~needs_keyframe' => sent_frame_id' = sent_frame_id
  <2> SUFFICES ASSUME ~needs_keyframe' PROVE sent_frame_id' = sent_frame_id
    OBVIOUS
  <2>1. ~needs_keyframe /\ Good(m) /\ m = t[1]
    BY <1>1, <1>7, <1>9
  <2>2. \A x \in PendingIds : ~(x < m.frame_id)
    <3>1. ~\E j \in ResultsSent : j < 1
      BY <1>9, <1>10 DEF ResultsSent
    <3> QED BY <1>1, <2>1, <3>1 DEF FlowInv, Results
  <2>3. w[1].frame_id = m.frame_id
    BY <1>5, <2>2
  <2>4. sent_frame_id = w[Len(w)].frame_id
    <3>1. w # <<>>
      BY <1>5
    <3> QED BY <1>3, <2>1, <3>1 DEF FlowInv, Newest
  <2>5. CASE r # <<>>
    BY <1>5, <1>6, <2>1, <2>3, <2>4, <2>5 DEF NextBase
  <2>6. CASE r = <<>>
    <3>1. Len(w) = 1 /\ DOMAIN w = {1}
      BY <1>5, <2>6
    <3>2. PendingIds = {m.frame_id}
      BY <1>3, <2>3, <3>1 DEF PendingIds
    <3>3. /\ m.result = "Presented" => m.logical_frame_id = m.frame_id
          /\ m.result = "Superseded" =>
               /\ m.logical_frame_id \in PendingIds
               /\ \A j \in ResultsSent :
                    j <= 1 => t[j].frame_id # m.logical_frame_id
      BY <1>1, <1>9 DEF FlowInv, Results
    <3>4. m.result = "Presented"
      BY <1>1, <2>1, <3>2, <3>3 DEF Good
    <3> QED BY <1>6, <2>1, <2>3, <2>4, <2>6, <3>1, <3>3, <3>4 DEF NextBase
  <2> QED BY <2>5, <2>6
<1>20. Newest'
  <2> SUFFICES ASSUME ~needs_keyframe' PROVE Newest'
    BY DEF Newest
  <2>1. /\ ~needs_keyframe /\ sent_frame_id' = sent_frame_id
        /\ sent_frame_id # 0 /\ sent_frame_id < next_frame_id
    BY <1>7, <1>19 DEF FlowInv, Newest
  <2>2. r # <<>> => sent_frame_id' = r[Len(r)].frame_id
    BY <1>6, <1>7 DEF NextBase
  <2> QED BY <1>6, <2>1, <2>2 DEF Newest
<1>21. CallStates'
  <2>1. /\ op' \notin {"closed", "awaiting", "unexpected"}
        /\ op' = "queueing" => next_frame_id <= MaxFrameId
    BY <1>8 DEF FlowInv, CallStates, ResultCalls
  <2>2. \A i \in DOMAIN r : r[i].intent # "Settled"
    BY <1>3, <1>5 DEF FlowInv, CallStates
  <2>3. surface = 0 => r = <<>> /\ op' \notin FrameCalls
    <3>1. w # <<>>
      BY <1>5
    <3> QED BY <1>3, <3>1 DEF FlowInv, CallStates
  <2> QED BY <1>6, <1>8, <2>1, <2>2, <2>3 DEF CallStates
<1>22. Granted'
  <2>1. MaxInflight = 1 => Len(w) = 1
    <3>1. w # <<>>
      BY <1>5
    <3> QED BY <1>3, <3>1 DEF FlowInv, Granted
  <2>2. Len(w) = 1 => r = <<>>
    BY <1>5
  <2> QED BY <1>6, <2>1, <2>2 DEF FlowInv, Granted
<1>23. Waits' /\ BaseNeverMixed'
  BY DEF FlowInv, Waits, BaseNeverMixed
<1>24. Chain'
  BY <1>8, <1>11 DEF FlowInv, Chain
<1>25. Tip'
  <2>1. ~needs_keyframe' => ~needs_keyframe /\ op # "closed" /\ Latest' = Latest
                            /\ sent_frame_id' = sent_frame_id
    BY <1>7, <1>8, <1>19 DEF ResultCalls
  <2> QED BY <1>11, <2>1 DEF FlowInv, Tip
<1>26. Shown'
  <2> SUFFICES ASSUME ~needs_keyframe', generation = surface,
                      sent_frame_id' \notin PendingFrame,
                      \A i \in FramesSent : to_receiver[i].frame_id # sent_frame_id',
                      \A i \in ResultsSent' : to_client'[i].frame_id = sent_frame_id' =>
                                                Good(to_client'[i])
               PROVE  presented_base = Latest' /\ pending = NoFrame
    BY <1>6, <1>11 DEF Shown, Good
  <2>1. /\ ~needs_keyframe /\ op # "closed" /\ Latest' = Latest /\ Good(m)
        /\ sent_frame_id' = sent_frame_id
    BY <1>7, <1>8, <1>19 DEF ResultCalls
  <2>2. \A i \in ResultsSent : to_client[i].frame_id = sent_frame_id => Good(to_client[i])
    <3> SUFFICES ASSUME NEW i \in ResultsSent, to_client[i].frame_id = sent_frame_id
                 PROVE  Good(to_client[i])
      OBVIOUS
    <3>1. CASE i = 1
      BY <1>1, <2>1, <3>1
    <3>2. CASE i # 1
      <4>1. i - 1 \in ResultsSent' /\ to_client'[i - 1] = to_client[i]
        BY <1>9, <1>12, <3>2
      <4> QED BY <2>1, <4>1
    <3> QED BY <3>1, <3>2
  <2> QED BY <2>1, <2>2 DEF FlowInv, Shown
<1> QED
  BY <1>13, <1>14, <1>15, <1>16, <1>17, <1>18, <1>20, <1>21, <1>22, <1>23, <1>24,
     <1>25, <1>26
  DEF FlowInv


(* One message is read (pump_once and the calls that wait).                 *)
LEMMA ReceiveKeeps ==
  ASSUME FlowInv, UNCHANGED sessionVars, Receive
  PROVE  FlowInv'
<1>1. PICK m : m = Head(to_client)
  OBVIOUS
<1>2. /\ op \in ResultCalls /\ to_client # <<>> /\ to_client' = Tail(to_client)
      /\ UNCHANGED <<selected_minor, conn, to_receiver, picture>>
  BY DEF Receive, ResultCalls, Idle
<1>3. CASE m.type = "FrameResult"
  <2>1. Expected(m)
    BY <1>1, <1>2, <1>3, ResultExpected
  <2>2. apply_frame_result(m) /\ AfterResult(m)
    BY <1>1, <1>3, <2>1 DEF Receive
  <2> QED BY <1>1, <1>2, <1>3, <2>2, ReceiveResultKeeps
<1>4. CASE m.type = "SurfaceReady" /\ accept_surface(m)
  BY <1>1, <1>2, <1>4, ReceiveSurfaceKeeps
<1>5. CASE /\ m.type = "OverlayResult"
           /\ op = "overlay" /\ op' = "idle"
           /\ needs_keyframe' = (needs_keyframe \/ m.applied)
           /\ UNCHANGED <<job, surface, next_frame_id, sent_frame_id,
                          receiver_logical_frame_id, creditVars, queueVars>>
  BY <1>1, <1>2, <1>5, ReceiveOverlayKeeps
<1> QED BY <1>1, <1>3, <1>4, <1>5 DEF Receive

(* Every step of the producer keeps the invariant (ClientNext).             *)
LEMMA ClientKeeps ==
  ASSUME FlowInv, UNCHANGED sessionVars, ClientNext
  PROVE  FlowInv'
<1>1. CASE OpenSurface \/ UpdateOverlay
  BY <1>1, AsksKeeps
<1>2. CASE \/ \E intent \in {"Latest", "Settled"} :
                \/ SendFrameReport(intent, FALSE, KeyframeBytes)
                \/ \E bytes \in DeltaBytes : SendFrameReport(intent, TRUE, bytes)
           \/ \E bytes \in DeltaBytes : QueueDelta(bytes)
  BY <1>2, FrameCallsKeep
<1>3. CASE WaitForCredit
  BY <1>3, WaitForCreditKeeps
<1>4. CASE Flush
  BY <1>4, FlushKeeps
<1>5. CASE QueueSends
  BY <1>5, QueueSendsKeeps
<1>6. CASE ReportSends
  BY <1>6, ReportSendsKeeps
<1>7. CASE CallFails
  BY <1>7, CallFailsKeeps
<1>8. CASE FlushReturns
  BY <1>8, FlushReturnsKeeps
<1>9. CASE Receive
  BY <1>9, ReceiveKeeps
<1>10. CASE ReceiveFails
  BY <1>10, ReceiveFailsKeeps
<1> QED
  BY <1>1, <1>2, <1>3, <1>4, <1>5, <1>6, <1>7, <1>8, <1>9, <1>10 DEF ClientNext


--------------------------------------------------------------------------------
(* Steps of the receiver.                                                   *)

\* The receiver is still connected, or no longer.
Connected == conn' \in {TRUE, FALSE} /\ (conn' => conn)

(* It is, if the connection is not touched.                                 *)
LEMMA StaysConnected ==
  ASSUME FlowInv, UNCHANGED conn
  PROVE  Connected
<1>1. conn \in {TRUE, FALSE}
  BY DEF FlowInv, FlowTypes, FlowTypeOK
<1> QED BY <1>1 DEF Connected

\* What waits on the receiver.
Frames == [frame_id : 1..MaxFrameId, intent : Intent, bytes : AnyBytes]

\* What concerns the producer alone stays.
Untouched ==
  /\ Newest' /\ CallStates' /\ Granted' /\ Latest' = Latest
  /\ PendingIds' = PendingIds
  /\ UNCHANGED <<op, job, surface, next_frame_id, sent_frame_id, needs_keyframe,
                 pending_frames, completed_frame_reports, picture>>

(* The receiver does not change what the producer knows.                    *)
LEMMA ClientUntouched ==
  ASSUME FlowInv, UNCHANGED <<clientVars, selected_minor>>, Connected
  PROVE  Untouched
<1> USE DEF clientVars, frameIdVars, creditVars, queueVars
<1>1. Newest'
  BY DEF FlowInv, Newest
<1>2. CallStates'
  BY DEF FlowInv, CallStates, Connected
<1>3. Granted'
  BY DEF FlowInv, Granted
<1>4. Latest' = Latest /\ PendingIds' = PendingIds
  BY DEF Latest, PendingIds
<1> QED BY <1>1, <1>2, <1>3, <1>4 DEF Untouched

(* A step of the receiver keeps the types.                                  *)
LEMMA SessionTypes ==
  ASSUME FlowInv, UNCHANGED <<clientVars, selected_minor>>, Connected,
         to_receiver' \in Seq(ToReceiver), to_client' \in Seq(ToClient),
         generation' \in 0..MaxGeneration, logical_frame_id' \in 0..MaxFrameId,
         presented_frame_id' \in 0..MaxFrameId,
         base_valid' \in {TRUE, FALSE}, ink_frozen' \in {TRUE, FALSE},
         base' \in Picture \cup {Mixed}, presented_base' \in Picture \cup {Mixed},
         pending' \in Frames \cup {NoFrame}
  PROVE  FlowTypes'
<1>1. FlowTypes /\ conn' \in BOOLEAN
  BY DEF FlowInv, FlowTypes, FlowTypeOK, Connected
<1>2. SeqOver(ToReceiver, to_receiver') /\ SeqOver(ToClient, to_client')
  BY SeqOverSeq
<1> QED
  BY <1>1, <1>2
  DEF FlowTypes, FlowTypeOK, SeqOver, Frames, clientVars, frameIdVars, creditVars,
      queueVars

(* The session ends, ink is unfrozen, or the delta base is lost while no    *)
(* frame waits (Disconnect, set_frame_frozen, a failed cleanup).            *)
LEMMA SessionQuietKeeps ==
  ASSUME FlowInv, UNCHANGED <<clientVars, selected_minor, to_receiver, to_client,
                              generation, presented_base, presented_frame_id, pending>>,
         Connected, ink_frozen' \in {TRUE, FALSE},
         \/ UNCHANGED <<base, base_valid, logical_frame_id>>
         \/ /\ pending = NoFrame /\ base_valid' = FALSE /\ base' \in {base, presented_base}
            /\ logical_frame_id' \in {0, logical_frame_id}
  PROVE  FlowInv'
<1>1. Untouched
  BY ClientUntouched
<1> USE DEF Untouched
<1>2. /\ base' # Mixed /\ base' \in Picture \cup {Mixed} /\ base_valid' \in {TRUE, FALSE}
      /\ logical_frame_id' \in 0..MaxFrameId
  <2>1. /\ base # Mixed /\ presented_base # Mixed
        /\ base \in Picture \cup {Mixed} /\ presented_base \in Picture \cup {Mixed}
        /\ base_valid \in {TRUE, FALSE} /\ logical_frame_id \in 0..MaxFrameId
    BY DEF FlowInv, FlowTypes, FlowTypeOK, BaseNeverMixed
  <2>2. 0 \in 0..MaxFrameId
    BY ClientAssumption
  <2> QED BY <2>1, <2>2
<1>3. FlowTypes'
  <2>1. FlowTypes
    BY DEF FlowInv
  <2>2. to_receiver \in Seq(ToReceiver) /\ to_client \in Seq(ToClient)
        /\ generation \in 0..MaxGeneration /\ presented_frame_id \in 0..MaxFrameId
        /\ presented_base \in Picture \cup {Mixed} /\ pending \in Frames \cup {NoFrame}
    BY <2>1 DEF FlowTypes, FlowTypeOK, Frames
  <2> QED BY <1>2, <2>2, SessionTypes
<1>4. FramesSent' = FramesSent /\ ResultsSent' = ResultsSent /\ PendingFrame' = PendingFrame
  BY DEF FramesSent, ResultsSent, PendingFrame
<1>5. Lone' /\ Surfaces'
  BY <1>1 DEF FlowInv, Lone, Surfaces
<1>6. InFlight'
  <2>1. 0 < next_frame_id
    BY DEF FlowInv, FlowTypes, FlowTypeOK
  <2> QED BY <1>1, <2>1 DEF FlowInv, InFlight
<1>7. Places' /\ Results'
  BY <1>1, <1>4 DEF FlowInv, Places, Results, Good
<1>8. Waits' /\ BaseNeverMixed'
  BY <1>2 DEF FlowInv, Waits, BaseNeverMixed
<1>9. Chain' /\ Tip'
  BY <1>1, <1>4 DEF FlowInv, Chain, Tip
<1>10. Shown'
  BY <1>1, <1>4 DEF FlowInv, Shown, Good
<1> QED
  BY <1>1, <1>3, <1>5, <1>6, <1>7, <1>8, <1>9, <1>10 DEF FlowInv

(* What is known of the frame that waits when its terminal is due.          *)
LEMMA TerminalFacts ==
  ASSUME FlowInv, pending # NoFrame, NEW p, p = pending.frame_id
  PROVE  /\ pending \in Frames /\ p \in 1..MaxFrameId /\ p \in PendingIds
         /\ PendingFrame = {p} /\ base_valid /\ logical_frame_id = p
         /\ \A i \in ResultsSent : to_client[i].frame_id # p
         /\ \A i \in FramesSent : p < to_receiver[i].frame_id
         /\ \A x \in PendingIds :
              x < p => \E j \in ResultsSent : to_client[j].frame_id = x
         /\ \A i \in DOMAIN to_client : to_client[i].type = "FrameResult"
         /\ generation = surface /\ pending_frames # <<>>
         /\ ~(/\ ~needs_keyframe /\ sent_frame_id # p
              /\ \A i \in FramesSent : to_receiver[i].frame_id # sent_frame_id
              /\ \A i \in ResultsSent :
                   to_client[i].frame_id = sent_frame_id => Good(to_client[i]))
<1>1. pending \in Frames /\ p \in 1..MaxFrameId
  BY DEF FlowInv, FlowTypes, FlowTypeOK, Frames
<1>2. PendingFrame = {p} /\ base_valid /\ logical_frame_id = p
  BY DEF FlowInv, PendingFrame, Waits
<1>3. /\ p \in PendingIds /\ \A i \in ResultsSent : to_client[i].frame_id # p
      /\ \A i \in FramesSent : p < to_receiver[i].frame_id
  BY <1>2 DEF FlowInv, Places
<1>4. \A x \in PendingIds : x \in Nat
  <2>1. \A i \in DOMAIN pending_frames : pending_frames[i].frame_id \in 1..MaxFrameId
    BY DEF FlowInv, FlowTypes, FlowTypeOK, SeqOver
  <2> QED BY <2>1 DEF PendingIds
<1>5. ASSUME NEW x \in PendingIds, x < p
      PROVE  \E j \in ResultsSent : to_client[j].frame_id = x
  <2>1. x # p /\ \A i \in FramesSent : to_receiver[i].frame_id # x
    BY <1>1, <1>3, <1>4, <1>5 DEF FlowInv, Places
  <2> QED BY <1>2, <2>1 DEF FlowInv, Places
<1>6. \A i \in DOMAIN to_client : to_client[i].type = "FrameResult"
  BY DEF FlowInv, Lone
<1>7. generation = surface
  BY <1>6 DEF FlowInv, Surfaces
<1>8. pending_frames # <<>>
  BY <1>3 DEF PendingIds
<1>9. ASSUME ~needs_keyframe, sent_frame_id # p,
             \A i \in FramesSent : to_receiver[i].frame_id # sent_frame_id,
             \A i \in ResultsSent :
               to_client[i].frame_id = sent_frame_id => Good(to_client[i])
      PROVE  FALSE
  <2>1. PICK w : w = pending_frames
    OBVIOUS
  <2>2. /\ w \in Seq(Flight) /\ w # <<>>
        /\ \A i, j \in DOMAIN w : i < j => w[i].frame_id < w[j].frame_id
        /\ sent_frame_id = w[Len(w)].frame_id
    BY <1>8, <1>9, <2>1 DEF FlowInv, FlowTypes, InFlight, Newest
  <2>3. Len(w) \in DOMAIN w /\ DOMAIN w = 1..Len(w) /\ Len(w) \in Nat
    BY <2>2
  <2>4. sent_frame_id \in PendingIds
    BY <2>1, <2>2, <2>3 DEF PendingIds
  <2>5. PICK i \in DOMAIN w : w[i].frame_id = p
    BY <1>3, <2>1 DEF PendingIds
  <2>6. i < Len(w)
    BY <1>9, <2>2, <2>3, <2>5
  <2>7. p < sent_frame_id
    BY <2>2, <2>3, <2>5, <2>6
  <2>8. PICK j \in ResultsSent : to_client[j].frame_id = sent_frame_id
    BY <1>2, <1>9, <2>4 DEF FlowInv, Places
  <2>9. Good(to_client[j])
    BY <1>9, <2>8
  <2>10. \E k \in ResultsSent : to_client[k].frame_id = p
    BY <1>3, <2>7, <2>8, <2>9 DEF FlowInv, Results
  <2> QED BY <1>3, <2>10
<1> QED BY <1>1, <1>2, <1>3, <1>5, <1>6, <1>7, <1>8, <1>9

(* One more result is on its way: it follows those of the frames before it  *)
(* if it is good.                                                           *)
LEMMA ResultAppended ==
  ASSUME FlowInv, PendingIds' = PendingIds, NEW r, NEW n,
         ResultsSent' = ResultsSent \cup {n}, to_client'[n] = r,
         \A i \in ResultsSent : to_client'[i] = to_client[i] /\ i < n /\ ~(n <= i),
         ~(n < n),
         \A i \in ResultsSent : ~(n < i),
         Good(r) => \A x \in PendingIds : x < r.frame_id =>
                      \E j \in ResultsSent : to_client[j].frame_id = x,
         r.result = "Presented" => r.logical_frame_id = r.frame_id,
         r.result = "Superseded" =>
           /\ r.logical_frame_id \in PendingIds /\ r.logical_frame_id # r.frame_id
           /\ \A j \in ResultsSent : to_client[j].frame_id # r.logical_frame_id
  PROVE  Results'
<1>1. Results
  BY DEF FlowInv
<1>2. ASSUME NEW i \in ResultsSent'
      PROVE  /\ Good(to_client'[i]) => \A id \in PendingIds :
                  id < to_client'[i].frame_id =>
                    \E j \in ResultsSent' : j < i /\ to_client'[j].frame_id = id
             /\ to_client'[i].result = "Presented" =>
                  to_client'[i].logical_frame_id = to_client'[i].frame_id
             /\ to_client'[i].result = "Superseded" =>
                  /\ to_client'[i].logical_frame_id \in PendingIds
                  /\ \A j \in ResultsSent' : j <= i =>
                       to_client'[j].frame_id # to_client'[i].logical_frame_id
  <2>1. CASE i = n
    BY <2>1
  <2>2. CASE i \in ResultsSent
    BY <1>1, <2>2 DEF Results
  <2> QED BY <2>1, <2>2
<1> QED BY <1>2 DEF Results, Good


\* Frame f is read: what was so of the frames on their way still is.
FrameRead(f) ==
  /\ f \in ToReceiver /\ f.frame_id \in 1..MaxFrameId /\ f.frame_id \in PendingIds
  /\ f = to_receiver[1] /\ 1 \in FramesSent
  /\ \A id \in PendingFrame : id < f.frame_id
  /\ \A j \in ResultsSent : to_client[j].frame_id < f.frame_id
  /\ to_receiver' \in Seq(ToReceiver)
  /\ \A i \in DOMAIN to_client : to_client[i].type = "FrameResult"
  /\ generation = surface

\* The frames behind it, ...
Behind(f) ==
  /\ \A i \in FramesSent :
       \/ to_receiver[i] = f
       \/ \E k \in FramesSent' : to_receiver'[k] = to_receiver[i]
  /\ \A i \in FramesSent' :
       /\ to_receiver'[i].frame_id \in PendingIds
       /\ f.frame_id < to_receiver'[i].frame_id
       /\ \A j \in FramesSent' :
            i < j => to_receiver'[i].frame_id < to_receiver'[j].frame_id
       /\ \A id \in PendingFrame : id < to_receiver'[i].frame_id
       /\ \A j \in ResultsSent : to_client[j].frame_id < to_receiver'[i].frame_id

\* ... the pictures they carry, ...
PicturesBehind(f) ==
  \A i \in FramesSent' :
    /\ to_receiver'[i].picture # Mixed
    /\ op # "closed" /\ ~needs_keyframe /\ to_receiver'[i].frame_id = sent_frame_id
         => to_receiver'[i].picture = Latest
    /\ ~to_receiver'[i].whole =>
         /\ to_receiver'[i].base_frame_id # 0
         /\ base_valid /\ logical_frame_id = to_receiver'[i].base_frame_id =>
              to_receiver'[i].previous = base
         /\ f.frame_id = to_receiver'[i].base_frame_id =>
              to_receiver'[i].previous = f.picture
         /\ \A j \in FramesSent' :
              j < i /\ to_receiver'[j].frame_id = to_receiver'[i].base_frame_id =>
                to_receiver'[i].previous = to_receiver'[j].picture

\* ... and the question that may follow them.
QuestionBehind ==
  \A i \in DOMAIN to_receiver' :
    /\ to_receiver'[i].type # "Frame" =>
         i = Len(to_receiver') /\ op \in {"opening", "overlay", "closed"}
    /\ to_receiver'[i].type = "SurfaceOpen" =>
         op \in {"opening", "closed"} /\ surface < MaxGeneration

(* The session reads the frame at the head of the channel (accept_frame).   *)
LEMMA FrameFacts ==
  ASSUME FlowInv, to_receiver # <<>>, NEW f, f = Head(to_receiver), f.type = "Frame",
         to_receiver' = Tail(to_receiver)
  PROVE  FrameRead(f) /\ Behind(f) /\ PicturesBehind(f) /\ QuestionBehind
<1> PICK s : s = to_receiver
  OBVIOUS
<1>1. s \in Seq(ToReceiver) /\ s # <<>> /\ to_receiver' = Tail(s) /\ f = Head(s)
  BY DEF FlowInv, FlowTypes
<1>2. /\ to_receiver' \in Seq(ToReceiver) /\ Len(s) \in Nat \ {0} /\ DOMAIN s = 1..Len(s)
      /\ Len(to_receiver') = Len(s) - 1 /\ DOMAIN to_receiver' = 1..Len(s) - 1
      /\ \A i \in DOMAIN to_receiver' : i + 1 \in DOMAIN s /\ to_receiver'[i] = s[i + 1]
      /\ \A i \in DOMAIN s : i # 1 => i - 1 \in DOMAIN to_receiver'
                                      /\ to_receiver'[i - 1] = s[i]
      /\ f = s[1] /\ f \in ToReceiver /\ 1 \in DOMAIN s
  BY ONLY <1>1, ReadFacts
<1>3. 1 \in FramesSent /\ f.frame_id \in 1..MaxFrameId
  BY <1>2, ToReceiverFields DEF FramesSent
<1>4. /\ f.frame_id \in PendingIds /\ \A id \in PendingFrame : id < f.frame_id
      /\ \A j \in ResultsSent : to_client[j].frame_id < f.frame_id
      /\ \A i \in FramesSent : 1 < i => f.frame_id < s[i].frame_id
  BY <1>2, <1>3 DEF FlowInv, Places
<1>5. \A i \in FramesSent' :
        i \in Nat /\ i + 1 \in FramesSent /\ to_receiver'[i] = s[i + 1] /\ 1 < i + 1
  BY <1>2 DEF FramesSent
<1>6. \A i \in FramesSent : i # 1 => i - 1 \in FramesSent' /\ to_receiver'[i - 1] = s[i]
  BY <1>2 DEF FramesSent
<1>7. \A i \in DOMAIN to_client : to_client[i].type = "FrameResult"
  BY DEF FlowInv, Lone
<1>8. generation = surface
  BY <1>7 DEF FlowInv, Surfaces
<1>9. FrameRead(f)
  BY <1>2, <1>3, <1>4, <1>7, <1>8 DEF FrameRead
<1>10. Behind(f)
  <2>1. Places /\ s = to_receiver
    BY DEF FlowInv
  <2>2. \A i \in FramesSent :
          \/ to_receiver[i] = f
          \/ \E k \in FramesSent' : to_receiver'[k] = to_receiver[i]
    BY <1>2, <1>6
  <2>3. ASSUME NEW i \in FramesSent'
        PROVE  /\ to_receiver'[i].frame_id \in PendingIds
               /\ f.frame_id < to_receiver'[i].frame_id
               /\ \A j \in FramesSent' :
                    i < j => to_receiver'[i].frame_id < to_receiver'[j].frame_id
               /\ \A id \in PendingFrame : id < to_receiver'[i].frame_id
               /\ \A j \in ResultsSent :
                    to_client[j].frame_id < to_receiver'[i].frame_id
    <3>1. i \in Nat /\ i + 1 \in FramesSent /\ to_receiver'[i] = s[i + 1] /\ 1 < i + 1
      BY ONLY <1>5, i \in FramesSent'
    <3>2. \A j \in FramesSent' : i < j => /\ to_receiver'[j] = s[j + 1]
                                          /\ j + 1 \in FramesSent /\ i + 1 < j + 1
      BY ONLY <1>5, <3>1
    <3> QED BY ONLY <1>4, <2>1, <3>1, <3>2 DEF Places
  <2> QED BY <2>2, <2>3 DEF Behind
<1>11. PicturesBehind(f)
  <2>1. Chain /\ Tip /\ s = to_receiver /\ f = s[1]
    BY <1>2 DEF FlowInv
  <2>2. ASSUME NEW i \in FramesSent'
        PROVE  /\ to_receiver'[i].picture # Mixed
               /\ op # "closed" /\ ~needs_keyframe
                    /\ to_receiver'[i].frame_id = sent_frame_id
                    => to_receiver'[i].picture = Latest
               /\ ~to_receiver'[i].whole =>
                    /\ to_receiver'[i].base_frame_id # 0
                    /\ base_valid /\ logical_frame_id = to_receiver'[i].base_frame_id =>
                         to_receiver'[i].previous = base
                    /\ f.frame_id = to_receiver'[i].base_frame_id =>
                         to_receiver'[i].previous = f.picture
                    /\ \A j \in FramesSent' :
                         /\ j < i
                         /\ to_receiver'[j].frame_id = to_receiver'[i].base_frame_id
                         => to_receiver'[i].previous = to_receiver'[j].picture
    <3>1. i \in Nat /\ i + 1 \in FramesSent /\ to_receiver'[i] = s[i + 1] /\ 1 < i + 1
      BY ONLY <1>5, i \in FramesSent'
    <3>2. \A j \in FramesSent' : j < i => /\ to_receiver'[j] = s[j + 1]
                                          /\ j + 1 \in FramesSent /\ j + 1 < i + 1
      BY ONLY <1>5, <3>1
    <3>3. op # "closed" /\ ~needs_keyframe /\ s[i + 1].frame_id = sent_frame_id
            => s[i + 1].picture = Latest
      BY ONLY <2>1, <3>1 DEF Tip
    <3> QED BY ONLY <1>3, <2>1, <3>1, <3>2, <3>3 DEF Chain
  <2> QED BY <2>2 DEF PicturesBehind
<1>12. QuestionBehind
  <2>1. Lone /\ Surfaces
    BY DEF FlowInv
  <2>2. ASSUME NEW i \in DOMAIN to_receiver'
        PROVE  /\ to_receiver'[i].type # "Frame" =>
                    i = Len(to_receiver') /\ op \in {"opening", "overlay", "closed"}
               /\ to_receiver'[i].type = "SurfaceOpen" =>
                    op \in {"opening", "closed"} /\ surface < MaxGeneration
    <3>1. i \in Nat /\ i + 1 \in DOMAIN s /\ to_receiver'[i] = s[i + 1]
      BY <1>2
    <3>2. s[i + 1].type # "Frame" =>
            i + 1 = Len(s) /\ op \in {"opening", "overlay", "closed"}
      BY <2>1, <3>1 DEF Lone
    <3>3. s[i + 1].type = "SurfaceOpen" =>
            op \in {"opening", "closed"} /\ surface < MaxGeneration
      BY <2>1, <3>1 DEF Surfaces
    <3> QED BY <1>2, <3>1, <3>2, <3>3
  <2> QED BY <2>2 DEF QuestionBehind
<1> QED BY <1>9, <1>10, <1>11, <1>12

\* Result r goes out at place n.
Replied(r, n) ==
  /\ to_client' \in Seq(ToClient) /\ to_client'[n] = r
  /\ ResultsSent' = ResultsSent \cup {n} /\ ~(n < n)
  /\ \A i \in DOMAIN to_client' : to_client'[i].type = "FrameResult"
  /\ \A i \in ResultsSent :
       to_client'[i] = to_client[i] /\ i < n /\ ~(n <= i) /\ ~(n < i)

(* The channel of results after one more, when only results are on it.      *)
LEMMA ReplyFacts ==
  ASSUME FlowInv, NEW r \in ToClient, r.type = "FrameResult",
         to_client' = to_client \o <<r>>,
         \A i \in DOMAIN to_client : to_client[i].type = "FrameResult"
  PROVE  Replied(r, Len(to_client) + 1)
<1>1. PICK t : t = to_client
  OBVIOUS
<1>2. t \in Seq(ToClient) /\ to_client' = t \o <<r>>
  BY <1>1 DEF FlowInv, FlowTypes
<1>3. /\ to_client' \in Seq(ToClient) /\ Len(t) \in Nat /\ DOMAIN t = 1..Len(t)
      /\ DOMAIN to_client' = 1..Len(t) + 1 /\ to_client'[Len(t) + 1] = r
      /\ \A i \in DOMAIN t : to_client'[i] = t[i]
  BY ONLY <1>2, r \in ToClient, WriteFacts
<1> QED BY <1>1, <1>3 DEF ResultsSent, Replied


(* A frame is refused (accept_frame): its result goes back at once, and the *)
(* frames behind it still meet the base they were encoded against.          *)
LEMMA RefuseKeeps ==
  ASSUME FlowInv, UNCHANGED <<clientVars, selected_minor>>, Connected,
         UNCHANGED <<coreVars, generation, ink_frozen>>,
         to_receiver # <<>>, NEW f, f = Head(to_receiver), f.type = "Frame",
         to_receiver' = Tail(to_receiver),
         NEW r \in ToClient, r.type = "FrameResult", r.frame_id = f.frame_id, ~Good(r),
         to_client' = to_client \o <<r>>
  PROVE  FlowInv'
<1>0. UNCHANGED <<coreVars, generation, ink_frozen>>
  OBVIOUS
<1>1. Untouched
  BY <1>0, ClientUntouched
<1>2. FrameRead(f) /\ Behind(f) /\ PicturesBehind(f) /\ QuestionBehind
  BY FrameFacts
<1>3. PICK n : Replied(r, n)
  BY <1>2, ReplyFacts DEF FrameRead
<1>4. PendingFrame' = PendingFrame
  BY <1>0 DEF PendingFrame, coreVars
<1>5. FlowTypes'
  <2>1. /\ generation \in 0..MaxGeneration /\ logical_frame_id \in 0..MaxFrameId
        /\ presented_frame_id \in 0..MaxFrameId
        /\ base_valid \in {TRUE, FALSE} /\ ink_frozen \in {TRUE, FALSE}
        /\ base \in Picture \cup {Mixed} /\ presented_base \in Picture \cup {Mixed}
        /\ pending \in Frames \cup {NoFrame}
    BY DEF FlowInv, FlowTypes, FlowTypeOK, Frames
  <2>2. to_receiver' \in Seq(ToReceiver) /\ to_client' \in Seq(ToClient)
    BY <1>2, <1>3 DEF FrameRead, Replied
  <2> QED BY <1>0, <2>1, <2>2, SessionTypes DEF coreVars
<1>6. Lone' /\ Surfaces'
  BY <1>0, <1>1, <1>2, <1>3
  DEF Lone, Surfaces, Untouched, QuestionBehind, Replied, FrameRead
<1>7. InFlight' /\ Waits' /\ BaseNeverMixed'
  BY <1>0, <1>1 DEF FlowInv, InFlight, Waits, BaseNeverMixed, coreVars, Untouched
<1>8. Places'
  <2>1. Places /\ \A x \in PendingIds : x \in Nat
    <3>1. \A i \in DOMAIN pending_frames : pending_frames[i].frame_id \in 1..MaxFrameId
      BY DEF FlowInv, FlowTypes, FlowTypeOK, SeqOver
    <3> QED BY <3>1 DEF FlowInv, PendingIds
  <2>2. \A id \in PendingIds :
          \/ \E i \in FramesSent' : to_receiver'[i].frame_id = id
          \/ \E i \in ResultsSent' : to_client'[i].frame_id = id
          \/ id \in PendingFrame
    BY ONLY <1>2, <1>3, <2>1, r.frame_id = f.frame_id DEF Places, Behind, Replied
  <2>3. \A i \in FramesSent' :
          /\ to_receiver'[i].frame_id \in PendingIds
          /\ \A j \in FramesSent' :
               i < j => to_receiver'[i].frame_id < to_receiver'[j].frame_id
          /\ \A id \in PendingFrame : id < to_receiver'[i].frame_id
          /\ \A j \in ResultsSent' : to_client'[j].frame_id < to_receiver'[i].frame_id
    BY ONLY <1>2, <1>3, r.frame_id = f.frame_id DEF Behind, Replied
  <2>4. /\ r.frame_id \in PendingIds \ PendingFrame
        /\ \A i \in ResultsSent : to_client[i].frame_id # r.frame_id
    BY <1>2, <2>1 DEF FrameRead, Places
  <2>5. \A i \in ResultsSent' :
          /\ to_client'[i].frame_id \in PendingIds \ PendingFrame
          /\ \A j \in ResultsSent' :
               i < j => to_client'[i].frame_id # to_client'[j].frame_id
    BY ONLY <1>3, <2>1, <2>4 DEF Places, Replied
  <2> QED BY <1>1, <1>4, <2>1, <2>2, <2>3, <2>5 DEF Places, Untouched
<1>9. Results'
  <2>1. r.result \notin {"Presented", "Superseded"}
    BY DEF Good
  <2> QED BY <1>1, <1>3, <2>1, ResultAppended DEF Untouched, Replied
<1>10. Chain' /\ Tip'
  <2>1. Chain /\ Tip
    BY DEF FlowInv
  <2>2. Chain'
    BY ONLY <1>0, <1>1, <1>2, <2>1 DEF Chain, PicturesBehind, Untouched, coreVars
  <2>3. Tip'
    BY ONLY <1>0, <1>1, <1>2, <2>1 DEF Tip, PicturesBehind, Untouched, coreVars
  <2> QED BY <2>2, <2>3
<1>11. Shown'
  <2> SUFFICES ASSUME op # "closed", ~needs_keyframe, generation = surface,
                      sent_frame_id \notin PendingFrame,
                      \A i \in FramesSent' : to_receiver'[i].frame_id # sent_frame_id,
                      \A i \in ResultsSent' : to_client'[i].frame_id = sent_frame_id =>
                                                Good(to_client'[i])
               PROVE  presented_base = Latest /\ pending = NoFrame
    BY <1>0, <1>1, <1>4 DEF Shown, Good, Untouched, coreVars
  <2>1. f.frame_id # sent_frame_id
    BY <1>3 DEF Replied
  <2>2. \A i \in FramesSent : to_receiver[i].frame_id # sent_frame_id
    BY <1>2, <2>1 DEF Behind
  <2>3. \A i \in ResultsSent : to_client[i].frame_id = sent_frame_id => Good(to_client[i])
    BY <1>3 DEF Replied
  <2> QED BY <2>2, <2>3 DEF FlowInv, Shown
<1> QED
  BY <1>1, <1>5, <1>6, <1>7, <1>8, <1>9, <1>10, <1>11 DEF FlowInv, Untouched

(* A frame is accepted (commit_timed): it was encoded against the base it   *)
(* meets, and the frame it replaces gets its terminal.                      *)
LEMMA CommitKeeps ==
  ASSUME FlowInv, UNCHANGED <<clientVars, selected_minor>>, Connected,
         UNCHANGED <<generation, ink_frozen>>,
         to_receiver # <<>>, NEW f, f = Head(to_receiver), f.type = "Frame",
         to_receiver' = Tail(to_receiver), BaseUsable(f), Commit(f)
  PROVE  FlowInv'
<1>0. /\ UNCHANGED <<presented_frame_id, presented_base, generation, ink_frozen>>
      /\ logical_frame_id' = f.frame_id /\ base_valid' = TRUE /\ base' = Applied(f)
      /\ pending' = [frame_id |-> f.frame_id, intent |-> f.intent, bytes |-> f.bytes]
      /\ to_client' = to_client \o Superseded
  BY DEF Commit, Reply, Send
<1>1. Untouched
  BY <1>0, ClientUntouched
<1>2. FrameRead(f) /\ Behind(f) /\ PicturesBehind(f) /\ QuestionBehind
  BY FrameFacts
<1>3. /\ pending' \in Frames /\ pending' # NoFrame /\ pending'.frame_id = f.frame_id
      /\ PendingFrame' = {f.frame_id}
  <2>1. /\ f.frame_id \in 1..MaxFrameId /\ f.intent \in Intent /\ f.bytes \in AnyBytes
    BY <1>2, ToReceiverFields DEF FrameRead
  <2>2. pending' \in Frames /\ pending'.frame_id = f.frame_id
    BY <1>0, <2>1 DEF Frames
  <2>3. NoFrame.frame_id = 0
    BY DEF NoFrame
  <2>4. pending' # NoFrame
    BY <2>1, <2>2, <2>3
  <2> QED BY <2>2, <2>4 DEF PendingFrame
<1>4. base' = f.picture /\ f.picture \in Picture /\ f.picture # Mixed
  <2>1. f.picture \in Picture /\ f.whole \in {TRUE, FALSE}
    BY <1>2, ToReceiverFields DEF FrameRead
  <2>2. f.picture # Mixed
    BY <1>2 DEF FlowInv, Chain, FrameRead
  <2>3. ~f.whole => base = f.previous
    BY <1>2 DEF FlowInv, Chain, FrameRead, BaseUsable
  <2> QED BY <1>0, <2>1, <2>2, <2>3 DEF Applied
<1>5. \A x \in PendingIds : x \in Nat
  BY DEF FlowInv, FlowTypes, FlowTypeOK, SeqOver, PendingIds
<1> DEFINE Answered ==
      /\ to_client' \in Seq(ToClient) /\ Results'
      /\ \A i \in DOMAIN to_client' : to_client'[i].type = "FrameResult"
      /\ \A i \in ResultsSent' :
           /\ to_client'[i].frame_id \in PendingIds
           /\ to_client'[i].frame_id < f.frame_id
           /\ \A j \in ResultsSent' :
                i < j => to_client'[i].frame_id # to_client'[j].frame_id
      /\ \A id \in PendingFrame : \E i \in ResultsSent' : to_client'[i].frame_id = id
      /\ \A i \in ResultsSent : \E k \in ResultsSent' :
           to_client'[k].frame_id = to_client[i].frame_id
<1>6. Answered
  <2>0. /\ Places /\ \A j \in ResultsSent : to_client[j].frame_id < f.frame_id
        /\ \A i \in DOMAIN to_client : to_client[i].type = "FrameResult"
        /\ f.frame_id \in PendingIds
    BY <1>2 DEF FlowInv, FrameRead
  <2>1. CASE pending = NoFrame
    <3>1. UNCHANGED to_client
      <4>1. to_client \in Seq(ToClient) /\ to_client' = to_client \o <<>>
        BY <1>0, <2>1 DEF FlowInv, FlowTypes, Superseded
      <4> QED BY <4>1
    <3>2. /\ to_client \in Seq(ToClient) /\ ResultsSent' = ResultsSent
          /\ PendingFrame = {}
      BY <2>1, <3>1 DEF FlowInv, FlowTypes, ResultsSent, PendingFrame
    <3>3. Results'
      BY <1>1, <3>1, <3>2 DEF FlowInv, Results, Untouched, Good
    <3> QED BY <2>0, <3>1, <3>2, <3>3 DEF Places
  <2>2. CASE pending # NoFrame
    <3>1. PICK p : p = pending.frame_id
      OBVIOUS
    <3>2. /\ pending \in Frames /\ p \in 1..MaxFrameId /\ p \in PendingIds
          /\ PendingFrame = {p}
          /\ \A i \in ResultsSent : to_client[i].frame_id # p
          /\ \A x \in PendingIds :
               x < p => \E j \in ResultsSent : to_client[j].frame_id = x
      BY <2>2, <3>1, TerminalFacts
    <3>3. p < f.frame_id
      BY <1>2, <3>2 DEF FrameRead
    <3>4. PICK r : r = FrameResult(p, "Superseded", "None", f.frame_id)
      OBVIOUS
    <3>5. /\ r \in ToClient /\ r.type = "FrameResult" /\ r.frame_id = p
          /\ r.result = "Superseded" /\ r.logical_frame_id = f.frame_id
      <4>1. f.frame_id \in 0..MaxFrameId
        BY <1>2, ClientAssumption DEF FrameRead
      <4> QED BY <1>3, <3>2, <3>4, <4>1, FrameResultType DEF Frames
    <3>6. to_client' = to_client \o <<r>>
      BY <1>0, <2>2, <3>1, <3>4 DEF Superseded
    <3>7. PICK n : Replied(r, n)
      BY <2>0, <3>5, <3>6, ReplyFacts
    <3>8. Results'
      <4>1. f.frame_id # p /\ \A j \in ResultsSent : to_client[j].frame_id # f.frame_id
        BY <1>2, <3>2, <3>3 DEF FrameRead
      <4> QED
        BY <1>1, <2>0, <3>2, <3>5, <3>7, <4>1, ResultAppended DEF Untouched, Replied
    <3>9. \A i \in ResultsSent' :
            /\ to_client'[i].frame_id \in PendingIds
            /\ to_client'[i].frame_id < f.frame_id
            /\ \A j \in ResultsSent' :
                 i < j => to_client'[i].frame_id # to_client'[j].frame_id
      BY ONLY <2>0, <3>2, <3>3, <3>5, <3>7 DEF Places, Replied
    <3> QED BY <3>2, <3>5, <3>7, <3>8, <3>9 DEF Replied
  <2> QED BY <2>1, <2>2
<1>7. FlowTypes'
  <2>1. /\ generation \in 0..MaxGeneration /\ presented_frame_id \in 0..MaxFrameId
        /\ ink_frozen \in {TRUE, FALSE} /\ presented_base \in Picture \cup {Mixed}
    BY DEF FlowInv, FlowTypes, FlowTypeOK
  <2>2. to_receiver' \in Seq(ToReceiver) /\ logical_frame_id' \in 0..MaxFrameId
    BY <1>0, <1>2, ClientAssumption DEF FrameRead
  <2> QED BY <1>0, <1>3, <1>4, <1>6, <2>1, <2>2, SessionTypes
<1>8. Lone' /\ Surfaces'
  BY <1>0, <1>1, <1>2, <1>6 DEF Lone, Surfaces, Untouched, QuestionBehind, FrameRead
<1>9. InFlight' /\ Waits' /\ BaseNeverMixed'
  <2>1. f.frame_id < next_frame_id
    BY <1>2 DEF FlowInv, InFlight, PendingIds, FrameRead
  <2>2. InFlight'
    BY <1>0, <1>1, <2>1 DEF FlowInv, InFlight, Untouched
  <2> QED BY <1>0, <1>3, <1>4, <2>2 DEF FlowInv, Waits, BaseNeverMixed
<1>10. Places'
  <2>1. Places
    BY DEF FlowInv
  <2>2. \A id \in PendingIds :
          \/ \E i \in FramesSent' : to_receiver'[i].frame_id = id
          \/ \E i \in ResultsSent' : to_client'[i].frame_id = id
          \/ id \in PendingFrame'
    BY ONLY <1>2, <1>3, <1>6, <2>1 DEF Places, Behind
  <2>3. \A i \in FramesSent' :
          /\ to_receiver'[i].frame_id \in PendingIds
          /\ \A j \in FramesSent' :
               i < j => to_receiver'[i].frame_id < to_receiver'[j].frame_id
          /\ \A id \in PendingFrame' : id < to_receiver'[i].frame_id
          /\ \A j \in ResultsSent' : to_client'[j].frame_id < to_receiver'[i].frame_id
    BY ONLY <1>2, <1>3, <1>5, <1>6 DEF Behind, FrameRead
  <2>4. \A i \in ResultsSent' :
          /\ to_client'[i].frame_id \in PendingIds \ PendingFrame'
          /\ \A j \in ResultsSent' :
               i < j => to_client'[i].frame_id # to_client'[j].frame_id
    BY ONLY <1>2, <1>3, <1>5, <1>6 DEF FrameRead
  <2>5. PendingFrame' \subseteq PendingIds
    BY <1>2, <1>3 DEF FrameRead
  <2> QED BY <1>1, <2>2, <2>3, <2>4, <2>5 DEF Places, Untouched
<1>11. Chain'
  <2>1. Chain
    BY DEF FlowInv
  <2> QED
    BY ONLY <1>0, <1>1, <1>2, <1>4, <2>1 DEF Chain, PicturesBehind, Untouched
<1>12. Tip'
  <2>1. Tip /\ f = to_receiver[1] /\ 1 \in FramesSent
    BY <1>2 DEF FlowInv, FrameRead
  <2>2. op # "closed" /\ ~needs_keyframe /\ f.frame_id = sent_frame_id =>
          f.picture = Latest
    BY <2>1 DEF Tip
  <2> QED
    BY ONLY <1>0, <1>1, <1>2, <1>4, <2>2 DEF Tip, PicturesBehind, Untouched
<1>13. Shown'
  <2> SUFFICES ASSUME ~needs_keyframe, sent_frame_id # f.frame_id,
                      \A i \in FramesSent' : to_receiver'[i].frame_id # sent_frame_id
               PROVE  FALSE
    BY <1>1, <1>3 DEF Shown, Untouched
  <2>1. PICK w : w = pending_frames
    OBVIOUS
  <2>2. w # <<>>
    BY <1>2, <2>1 DEF FrameRead, PendingIds
  <2>3. /\ w \in Seq(Flight)
        /\ \A i, j \in DOMAIN w : i < j => w[i].frame_id < w[j].frame_id
        /\ sent_frame_id = w[Len(w)].frame_id
    BY <2>1, <2>2 DEF FlowInv, FlowTypes, InFlight, Newest
  <2>4. Len(w) \in DOMAIN w /\ DOMAIN w = 1..Len(w) /\ Len(w) \in Nat
    BY <2>2, <2>3
  <2>5. sent_frame_id \in PendingIds
    BY <2>1, <2>3, <2>4 DEF PendingIds
  <2>6. PICK i \in DOMAIN w : w[i].frame_id = f.frame_id
    BY <1>2, <2>1 DEF PendingIds, FrameRead
  <2>7. f.frame_id < sent_frame_id
    BY <2>3, <2>4, <2>6
  <2>8. \E k \in ResultsSent' : to_client'[k].frame_id = sent_frame_id
    BY <1>1, <1>3, <1>10, <2>5 DEF Places, Untouched
  <2> QED BY <1>2, <1>5, <1>6, <2>5, <2>7, <2>8 DEF FrameRead
<1> QED
  BY <1>1, <1>6, <1>7, <1>8, <1>9, <1>10, <1>11, <1>12, <1>13 DEF FlowInv, Untouched


(* The session reads a frame (accept_frame).                                *)
LEMMA AcceptFrameKeeps ==
  ASSUME FlowInv, UNCHANGED clientVars, AcceptFrame
  PROVE  FlowInv'
<1>1. PICK f : f = Head(to_receiver)
  OBVIOUS
<1>2. /\ to_receiver # <<>> /\ f.type = "Frame" /\ to_receiver' = Tail(to_receiver)
      /\ UNCHANGED <<selected_minor, conn, generation, ink_frozen>>
  BY <1>1 DEF AcceptFrame
<1>3. Connected
  BY <1>2, StaysConnected
<1>4. PICK v : v = FrameVerdict(f)
  OBVIOUS
<1>5. \/ /\ v.result = "Accepted" /\ BaseUsable(f)
      \/ /\ v.result \in {"Rejected", "NeedKeyframe"}
         /\ v.reason \in {"InkFrozen", "NoCredit", "ProtocolState", "WrongSurface",
                          "BadBase"}
  BY <1>4 DEF FrameVerdict, Verdict
<1>6. CASE v.result = "Accepted" /\ Commit(f)
  <2>1. BaseUsable(f)
    BY <1>5, <1>6
  <2> QED BY <1>1, <1>2, <1>3, <1>6, <2>1, CommitKeeps
<1>7. CASE /\ v.result # "Accepted" /\ UNCHANGED coreVars
           /\ Reply(<<FrameResult(f.frame_id, v.result, v.reason, logical_frame_id)>>)
  <2>1. PICK r : r = FrameResult(f.frame_id, v.result, v.reason, logical_frame_id)
    OBVIOUS
  <2>2. FrameRead(f)
    BY <1>1, <1>2, FrameFacts
  <2>3. /\ logical_frame_id \in 0..MaxFrameId
        /\ pending' \in Frames \cup {NoFrame}
    BY <1>7 DEF FlowInv, FlowTypes, FlowTypeOK, Frames, coreVars
  <2>4. PICK g : g = logical_frame_id
    OBVIOUS
  <2>5. r = FrameResult(f.frame_id, v.result, v.reason, g)
    BY <2>1, <2>4
  <2>6. /\ r \in ToClient /\ r.type = "FrameResult" /\ r.frame_id = f.frame_id
        /\ r.result = v.result
    <3>1. /\ f.frame_id \in 1..MaxFrameId /\ g \in 0..MaxFrameId
          /\ pending' \in [frame_id : 1..MaxFrameId, intent : Intent, bytes : AnyBytes]
                          \cup {NoFrame}
      BY <2>2, <2>3, <2>4 DEF FrameRead, Frames
    <3>2. /\ v.result \in {"Presented", "Superseded", "NeedKeyframe", "Rejected"}
          /\ v.reason \in {"None", "InkFrozen", "NoCredit", "ProtocolState",
                           "WrongSurface", "BadBase", "BackendFailure"}
      BY <1>5, <1>7
    <3>3. PICK id, res, why : id = f.frame_id /\ res = v.result /\ why = v.reason
      OBVIOUS
    <3>4. r = FrameResult(id, res, why, g)
      BY ONLY <2>5, <3>3 DEF FrameResult
    <3>5. /\ id \in 1..MaxFrameId
          /\ res \in {"Presented", "Superseded", "NeedKeyframe", "Rejected"}
          /\ why \in {"None", "InkFrozen", "NoCredit", "ProtocolState",
                     "WrongSurface", "BadBase", "BackendFailure"}
      BY ONLY <3>1, <3>2, <3>3
    <3>6. /\ r \in ToClient /\ r.type = "FrameResult" /\ r.frame_id = id
          /\ r.result = res
      BY <3>1, <3>4, <3>5, FrameResultType
    <3> QED BY ONLY <3>3, <3>6
  <2>7. ~Good(r)
    BY <1>5, <1>7, <2>6 DEF Good
  <2>8. to_client' = to_client \o <<r>>
    BY <1>7, <2>1 DEF Reply, Send
  <2>9. UNCHANGED <<clientVars, selected_minor>> /\ UNCHANGED <<coreVars, generation, ink_frozen>>
    BY <1>2, <1>7
  <2> QED BY <1>1, <1>2, <1>3, <2>6, <2>7, <2>8, <2>9, RefuseKeeps
<1>8. \/ v.result = "Accepted" /\ Commit(f)
      \/ /\ v.result # "Accepted" /\ UNCHANGED coreVars
         /\ Reply(<<FrameResult(f.frame_id, v.result, v.reason, logical_frame_id)>>)
  BY <1>1, <1>4 DEF AcceptFrame, FrameResult, Commit, Reply, Send
<1> QED BY <1>6, <1>7, <1>8

--------------------------------------------------------------------------------
(* Terminals of the frame that waits, and answers.                          *)

\* Result r is written at place n; an answer may follow it.
Wrote(r, n) ==
  /\ to_client' \in Seq(ToClient) /\ to_client'[n] = r
  /\ ResultsSent' = ResultsSent \cup {n} /\ ~(n < n)
  /\ \A i \in ResultsSent :
       to_client'[i] = to_client[i] /\ i < n /\ ~(n <= i) /\ ~(n < i)

\* The frames on their way stay on their way.
WireKept ==
  /\ to_receiver' \in Seq(ToReceiver) /\ FramesSent' = FramesSent
  /\ \A i \in FramesSent : to_receiver'[i] = to_receiver[i]

(* The frame that waited is accounted for by its terminal.                  *)
LEMMA TerminalPlaces ==
  ASSUME FlowInv, PendingIds' = PendingIds, WireKept, pending # NoFrame,
         pending' = NoFrame, NEW p, p = pending.frame_id, NEW r, NEW n, Wrote(r, n),
         r.frame_id = p, r.result \in {"Presented", "Rejected"},
         r.result = "Presented" => r.logical_frame_id = p
  PROVE  Places' /\ Results' /\ PendingFrame' = {}
<1>1. /\ p \in PendingIds /\ PendingFrame = {p}
      /\ \A i \in ResultsSent : to_client[i].frame_id # p
      /\ \A i \in FramesSent : p < to_receiver[i].frame_id
      /\ \A x \in PendingIds :
           x < p => \E j \in ResultsSent : to_client[j].frame_id = x
  BY TerminalFacts
<1>2. Results'
  BY <1>1, ResultAppended DEF Wrote
<1>3. PendingFrame' = {} /\ Places
  BY DEF PendingFrame, FlowInv
<1>4. \A id \in PendingIds :
        \/ \E i \in FramesSent : to_receiver[i].frame_id = id
        \/ \E i \in ResultsSent' : to_client'[i].frame_id = id
  BY ONLY <1>1, <1>3, Wrote(r, n), r.frame_id = p DEF Places, Wrote
<1>5. \A i \in ResultsSent' :
        /\ to_client'[i].frame_id \in PendingIds
        /\ \A j \in FramesSent : to_client'[i].frame_id < to_receiver[j].frame_id
        /\ \A j \in ResultsSent' :
             i < j => to_client'[i].frame_id # to_client'[j].frame_id
  BY ONLY <1>1, <1>3, Wrote(r, n), r.frame_id = p DEF Places, Wrote
<1>6. Places'
  BY ONLY <1>3, <1>4, <1>5, PendingIds' = PendingIds, WireKept DEF Places, WireKept
<1> QED BY <1>2, <1>3, <1>6

(* The frame that waited is presented, or its base is lost (poll,           *)
(* freeze_presented, present_overlay).                                      *)
LEMMA TerminalKeeps ==
  ASSUME FlowInv, UNCHANGED <<clientVars, selected_minor>>, Connected, WireKept,
         Lone', Surfaces', UNCHANGED generation, ink_frozen' \in {TRUE, FALSE},
         presented_frame_id' \in 0..MaxFrameId,
         pending # NoFrame, pending' = NoFrame, NEW p, p = pending.frame_id,
         NEW r, NEW n, Wrote(r, n), r.frame_id = p,
         \/ /\ r.result = "Presented" /\ r.logical_frame_id = p
            /\ presented_base' = base /\ UNCHANGED <<base, base_valid, logical_frame_id>>
         \/ /\ r.result = "Rejected" /\ base_valid' = FALSE
            /\ logical_frame_id' \in {0, logical_frame_id}
            /\ base' \in {base, presented_base} /\ UNCHANGED presented_base
  PROVE  FlowInv'
<1>1. Untouched
  BY ClientUntouched
<1>2. /\ base_valid /\ logical_frame_id = p /\ generation = surface
      /\ ~(/\ ~needs_keyframe /\ sent_frame_id # p
           /\ \A i \in FramesSent : to_receiver[i].frame_id # sent_frame_id
           /\ \A i \in ResultsSent :
                to_client[i].frame_id = sent_frame_id => Good(to_client[i]))
  BY TerminalFacts
<1>3. Places' /\ Results' /\ PendingFrame' = {}
  BY <1>1, TerminalPlaces DEF Untouched
<1>4. /\ base' # Mixed /\ presented_base' # Mixed
      /\ base' \in Picture \cup {Mixed} /\ presented_base' \in Picture \cup {Mixed}
      /\ base_valid' \in {TRUE, FALSE} /\ logical_frame_id' \in 0..MaxFrameId
  <2>1. /\ base # Mixed /\ presented_base # Mixed
        /\ base \in Picture \cup {Mixed} /\ presented_base \in Picture \cup {Mixed}
        /\ base_valid \in {TRUE, FALSE} /\ logical_frame_id \in 0..MaxFrameId
        /\ 0 \in 0..MaxFrameId
    <3>1. 0 \in 0..MaxFrameId
      BY ClientAssumption
    <3> QED BY <3>1 DEF FlowInv, FlowTypes, FlowTypeOK, BaseNeverMixed
  <2> QED BY <2>1
<1>5. FlowTypes'
  <2>1. generation \in 0..MaxGeneration
    BY DEF FlowInv, FlowTypes, FlowTypeOK
  <2> QED BY <1>4, <2>1, SessionTypes DEF WireKept, Wrote
<1>6. InFlight'
  <2>1. 0 < next_frame_id /\ logical_frame_id < next_frame_id
    BY DEF FlowInv, FlowTypes, FlowTypeOK, InFlight
  <2>2. logical_frame_id' < next_frame_id
    BY <2>1
  <2> QED BY <1>1, <2>2 DEF FlowInv, InFlight, Untouched
<1>7. Waits' /\ BaseNeverMixed'
  BY <1>4 DEF Waits, BaseNeverMixed
<1>8. Chain' /\ Tip'
  BY <1>1 DEF FlowInv, Chain, Tip, Untouched, WireKept
<1>9. Shown'
  <2> SUFFICES ASSUME op # "closed", ~needs_keyframe,
                      \A i \in FramesSent : to_receiver[i].frame_id # sent_frame_id,
                      \A i \in ResultsSent' : to_client'[i].frame_id = sent_frame_id =>
                                                Good(to_client'[i])
               PROVE  presented_base' = Latest
    BY <1>1, <1>2 DEF Shown, Good, Untouched, WireKept
  <2>1. \A i \in ResultsSent : to_client[i].frame_id = sent_frame_id => Good(to_client[i])
    BY DEF Wrote
  <2>2. sent_frame_id = p
    BY <1>2, <2>1
  <2>3. r.result = "Presented"
    BY <2>2 DEF Wrote, Good
  <2>4. base = Latest
    BY <1>2, <2>2 DEF FlowInv, Tip
  <2> QED BY <2>3, <2>4
<1> QED
  BY <1>1, <1>3, <1>5, <1>6, <1>7, <1>8, <1>9 DEF FlowInv, Untouched

(* The terminal of the frame that waits (TerminalOf).                       *)
LEMMA TerminalType ==
  ASSUME FlowInv, pending # NoFrame, NEW p, p = pending.frame_id,
         NEW outcome \in {"Presented", "BackendFailure"}, Resolve(outcome),
         NEW r, r = TerminalOf(outcome)
  PROVE  /\ r \in ToClient /\ r.type = "FrameResult" /\ r.frame_id = p
         /\ r.result = (IF outcome = "Presented" THEN "Presented" ELSE "Rejected")
         /\ outcome = "Presented" => r.logical_frame_id = p
<1>1. p \in 1..MaxFrameId /\ logical_frame_id = p /\ pending' = NoFrame
  BY TerminalFacts DEF Resolve
<1>2. 0 \in 0..MaxFrameId /\ p \in 0..MaxFrameId
  BY <1>1, ClientAssumption
<1>3. CASE outcome = "Presented"
  <2>1. r = FrameResult(p, "Presented", "None", p)
    BY <1>1, <1>3 DEF Resolve, TerminalOf, FrameResult
  <2> QED BY <1>1, <1>2, <1>3, <2>1, FrameResultType
<1>4. CASE outcome = "BackendFailure"
  <2>1. r = FrameResult(p, "Rejected", "BackendFailure", 0)
    BY <1>1, <1>4 DEF Resolve, TerminalOf, FrameResult
  <2> QED BY <1>1, <1>2, <1>4, <2>1, FrameResultType
<1> QED BY <1>3, <1>4



(* The frame that waits is presented, or the panel fails (poll).            *)
LEMMA PollKeeps ==
  ASSUME FlowInv, UNCHANGED clientVars, NEW outcome \in {"Presented", "BackendFailure"},
         Poll(outcome)
  PROVE  FlowInv'
<1>1. /\ pending # NoFrame /\ Resolve(outcome) /\ Reply(<<TerminalOf(outcome)>>)
      /\ UNCHANGED <<selected_minor, conn, generation, ink_frozen, to_receiver>>
  BY DEF Poll
<1>2. Connected
  BY <1>1, StaysConnected
<1>3. PICK p : p = pending.frame_id
  OBVIOUS
<1>4. /\ pending \in Frames /\ p \in 1..MaxFrameId /\ logical_frame_id = p
      /\ \A i \in DOMAIN to_client : to_client[i].type = "FrameResult"
  BY <1>1, <1>3, TerminalFacts
<1>5. PICK r : r = TerminalOf(outcome)
  OBVIOUS
<1>6. pending' = NoFrame
  BY <1>1 DEF Resolve
<1>7. /\ r \in ToClient /\ r.type = "FrameResult" /\ r.frame_id = p
      /\ r.result = (IF outcome = "Presented" THEN "Presented" ELSE "Rejected")
      /\ outcome = "Presented" => r.logical_frame_id = p
  BY <1>1, <1>3, <1>4, <1>5, <1>6, TerminalType
<1>8. to_client' = to_client \o <<r>>
  BY <1>1, <1>5 DEF Reply, Send
<1>9. PICK n : Replied(r, n)
  BY <1>4, <1>7, <1>8, ReplyFacts
<1>10. Wrote(r, n)
  BY <1>9 DEF Wrote, Replied
<1>11. WireKept
  BY <1>1 DEF WireKept, FramesSent, FlowInv, FlowTypes
<1>12. Lone' /\ Surfaces'
  <2>1. Untouched /\ generation = surface
    BY <1>1, <1>2, <1>3, ClientUntouched, TerminalFacts
  <2> QED
    BY <1>1, <1>9, <2>1 DEF FlowInv, Lone, Surfaces, Untouched, Replied
<1>13. /\ ink_frozen' \in {TRUE, FALSE} /\ presented_frame_id' \in 0..MaxFrameId
  <2>1. ink_frozen \in {TRUE, FALSE} /\ presented_frame_id \in 0..MaxFrameId
    BY DEF FlowInv, FlowTypes, FlowTypeOK
  <2>2. presented_frame_id' \in {presented_frame_id, p}
    BY <1>1, <1>3 DEF Resolve
  <2>3. p \in 0..MaxFrameId
    BY <1>4
  <2> QED BY <1>1, <2>1, <2>2, <2>3
<1>14. \/ /\ r.result = "Presented" /\ r.logical_frame_id = p
          /\ presented_base' = base /\ UNCHANGED <<base, base_valid, logical_frame_id>>
       \/ /\ r.result = "Rejected" /\ base_valid' = FALSE
          /\ logical_frame_id' \in {0, logical_frame_id}
          /\ base' \in {base, presented_base} /\ UNCHANGED presented_base
  BY <1>1, <1>7 DEF Resolve
<1> QED
  BY <1>1, <1>2, <1>3, <1>6, <1>7, <1>10, <1>11, <1>12, <1>13, <1>14, TerminalKeeps

(* Ink freezes the background, or releases it (set_frame_frozen).           *)
LEMMA FreezeKeeps ==
  ASSUME FlowInv, UNCHANGED clientVars, NEW frozen \in {TRUE, FALSE},
         set_frame_frozen(frozen)
  PROVE  FlowInv'
<1>1. /\ UNCHANGED <<selected_minor, conn, generation, to_receiver>>
      /\ ink_frozen' \in {TRUE, FALSE}
  BY DEF set_frame_frozen
<1>2. Connected
  BY <1>1, StaysConnected
<1>3. CASE UNCHANGED <<coreVars, to_client>>
  BY <1>1, <1>2, <1>3, SessionQuietKeeps DEF coreVars
<1>4. CASE /\ pending' = NoFrame /\ base' = presented_base /\ base_valid' = FALSE
           /\ UNCHANGED <<logical_frame_id, presented_frame_id, presented_base>>
           /\ Reply(Cancelled("InkFrozen"))
  <2>1. CASE pending = NoFrame
    <3>1. UNCHANGED to_client
      <4>1. to_client \in Seq(ToClient) /\ to_client' = to_client \o <<>>
        BY <1>4, <2>1 DEF FlowInv, FlowTypes, Cancelled, Reply, Send
      <4> QED BY <4>1
    <3> QED BY <1>1, <1>2, <1>4, <2>1, <3>1, SessionQuietKeeps
  <2>2. CASE pending # NoFrame
    <3>1. PICK p : p = pending.frame_id
      OBVIOUS
    <3>2. /\ pending \in Frames /\ p \in 1..MaxFrameId /\ logical_frame_id = p
          /\ \A i \in DOMAIN to_client : to_client[i].type = "FrameResult"
      BY <2>2, <3>1, TerminalFacts
    <3>3. PICK r : r = FrameResult(p, "Rejected", "InkFrozen", p)
      OBVIOUS
    <3>4. /\ r \in ToClient /\ r.type = "FrameResult" /\ r.frame_id = p
          /\ r.result = "Rejected"
      <4>1. p \in 0..MaxFrameId
        BY <3>2
      <4> QED BY <1>4, <3>2, <3>3, <4>1, FrameResultType
    <3>5. to_client' = to_client \o <<r>>
      BY <1>4, <2>2, <3>1, <3>2, <3>3 DEF Cancelled, Reply, Send, FrameResult
    <3>6. PICK n : Replied(r, n)
      BY <3>2, <3>4, <3>5, ReplyFacts
    <3>7. Wrote(r, n)
      BY <3>6 DEF Wrote, Replied
    <3>8. WireKept
      BY <1>1 DEF WireKept, FramesSent, FlowInv, FlowTypes
    <3>9. Lone' /\ Surfaces'
      <4>1. Untouched /\ generation = surface
        BY <1>1, <1>2, <2>2, <3>1, ClientUntouched, TerminalFacts
      <4> QED
        BY <1>1, <3>6, <4>1 DEF FlowInv, Lone, Surfaces, Untouched, Replied
    <3>10. presented_frame_id' \in 0..MaxFrameId
      BY <1>4 DEF FlowInv, FlowTypes, FlowTypeOK
    <3> QED
      BY <1>1, <1>2, <1>4, <2>2, <3>1, <3>4, <3>7, <3>8, <3>9, <3>10, TerminalKeeps
  <2> QED BY <2>1, <2>2
<1> QED BY <1>3, <1>4 DEF set_frame_frozen

(* A cleanup fails, or the session ends (PanelFailure, Disconnect).         *)
LEMMA FailuresKeep ==
  ASSUME FlowInv, UNCHANGED clientVars, PanelFailure \/ Disconnect
  PROVE  FlowInv'
<1>1. ink_frozen \in {TRUE, FALSE}
  BY DEF FlowInv, FlowTypes, FlowTypeOK
<1>2. CASE PanelFailure
  <2>1. Connected
    BY <1>2, StaysConnected DEF PanelFailure
  <2> QED BY <1>1, <1>2, <2>1, SessionQuietKeeps DEF PanelFailure
<1>3. CASE Disconnect
  <2>1. Connected
    BY <1>3 DEF Disconnect, Connected
  <2> QED BY <1>1, <1>3, <2>1, SessionQuietKeeps DEF Disconnect, coreVars
<1> QED BY <1>2, <1>3


\* A question is read: it was alone on its way.
QuestionRead ==
  /\ to_receiver' = <<>> /\ FramesSent = {} /\ FramesSent' = {} /\ generation = surface
  /\ op \in {"opening", "overlay", "closed"}
  /\ Head(to_receiver).type = "SurfaceOpen" =>
       op \in {"opening", "closed"} /\ surface < MaxGeneration
  /\ \A i \in DOMAIN to_client : to_client[i].type = "FrameResult"
  /\ WireKept

(* The session reads a question (open_surface, overlay_update).             *)
LEMMA QuestionFacts ==
  ASSUME FlowInv, to_receiver # <<>>, Head(to_receiver).type # "Frame",
         to_receiver' = Tail(to_receiver)
  PROVE  QuestionRead
<1>1. PICK s : s = to_receiver
  OBVIOUS
<1>2. s \in Seq(ToReceiver) /\ s # <<>> /\ to_receiver' = Tail(s)
  BY <1>1 DEF FlowInv, FlowTypes
<1>3. Len(s) \in Nat \ {0} /\ 1 \in DOMAIN s /\ Head(s) = s[1] /\ DOMAIN s = 1..Len(s)
      /\ Tail(s) \in Seq(ToReceiver) /\ Len(Tail(s)) = Len(s) - 1
  BY <1>2, ReadFacts
<1>4. Len(s) = 1 /\ op \in {"opening", "overlay", "closed"}
  BY <1>1, <1>3 DEF FlowInv, Lone
<1>5. to_receiver' = <<>> /\ DOMAIN s = {1}
  BY <1>2, <1>3, <1>4
<1>6. FramesSent = {} /\ FramesSent' = {}
  <2>1. \A i \in DOMAIN to_receiver : to_receiver[i].type # "Frame"
    BY <1>1, <1>3, <1>5
  <2>2. FramesSent = {}
    BY <2>1 DEF FramesSent
  <2>3. DOMAIN to_receiver' = {}
    BY ONLY <1>5
  <2>4. FramesSent' = {}
    BY <2>3 DEF FramesSent
  <2> QED BY <2>2, <2>4
<1>7. \A i \in DOMAIN to_client : to_client[i].type = "FrameResult"
  BY DEF FlowInv, Lone
<1>8. generation = surface
  BY <1>7 DEF FlowInv, Surfaces
<1>9. Head(to_receiver).type = "SurfaceOpen" =>
        op \in {"opening", "closed"} /\ surface < MaxGeneration
  BY <1>1, <1>3 DEF FlowInv, Surfaces
<1>10. WireKept
  <2>1. to_receiver' \in Seq(ToReceiver)
    BY <1>2, <1>3
  <2> QED BY <1>6, <2>1 DEF WireKept
<1> QED BY <1>4, <1>5, <1>6, <1>7, <1>8, <1>9, <1>10 DEF QuestionRead

\* Answer x is the last envelope written.
AnswerLast(x) ==
  /\ Len(to_client') \in DOMAIN to_client' /\ to_client'[Len(to_client')] = x
  /\ \A i \in DOMAIN to_client' :
       i # Len(to_client') => to_client'[i].type = "FrameResult"

(* An answer alone, or after the terminal of the frame that waited.         *)
LEMMA AnswerFacts ==
  ASSUME FlowInv, \A i \in DOMAIN to_client : to_client[i].type = "FrameResult",
         NEW x \in ToClient, x.type # "FrameResult", to_client' = to_client \o <<x>>
  PROVE  /\ AnswerLast(x) /\ ResultsSent' = ResultsSent /\ to_client' \in Seq(ToClient)
         /\ \A i \in ResultsSent : to_client'[i] = to_client[i]
<1>1. PICK t : t = to_client
  OBVIOUS
<1>2. t \in Seq(ToClient) /\ to_client' = t \o <<x>>
  BY <1>1 DEF FlowInv, FlowTypes
<1>3. /\ to_client' \in Seq(ToClient) /\ Len(t) \in Nat /\ DOMAIN t = 1..Len(t)
      /\ Len(to_client') = Len(t) + 1
      /\ DOMAIN to_client' = 1..Len(t) + 1 /\ to_client'[Len(t) + 1] = x
      /\ \A i \in DOMAIN t : to_client'[i] = t[i]
  BY ONLY <1>2, x \in ToClient, WriteFacts
<1> QED BY <1>1, <1>3 DEF ResultsSent, AnswerLast

LEMMA BothFacts ==
  ASSUME FlowInv, \A i \in DOMAIN to_client : to_client[i].type = "FrameResult",
         NEW r \in ToClient, r.type = "FrameResult",
         NEW x \in ToClient, x.type # "FrameResult", to_client' = to_client \o <<r, x>>
  PROVE  AnswerLast(x) /\ Wrote(r, Len(to_client) + 1)
<1>1. PICK t : t = to_client
  OBVIOUS
<1>2. t \in Seq(ToClient) /\ to_client' = t \o <<r, x>>
  BY <1>1 DEF FlowInv, FlowTypes
<1>3. PICK u : u = Append(t, r)
  OBVIOUS
<1>4. to_client' = Append(u, x)
  BY ONLY <1>2, <1>3, r \in ToClient, x \in ToClient, WriteBoth
<1>5. /\ u \in Seq(ToClient) /\ Len(t) \in Nat /\ DOMAIN t = 1..Len(t)
      /\ Len(u) = Len(t) + 1 /\ u[Len(t) + 1] = r /\ \A i \in DOMAIN t : u[i] = t[i]
  BY ONLY <1>2, <1>3, r \in ToClient, WriteFacts
<1>6. /\ to_client' \in Seq(ToClient) /\ DOMAIN u = 1..Len(u)
      /\ Len(to_client') = Len(u) + 1
      /\ DOMAIN to_client' = 1..Len(u) + 1 /\ to_client'[Len(u) + 1] = x
      /\ \A i \in DOMAIN u : to_client'[i] = u[i]
  BY ONLY <1>4, <1>5, x \in ToClient, WriteFacts
<1>7. /\ Len(to_client') = Len(t) + 2 /\ DOMAIN to_client' = 1..Len(t) + 2
      /\ to_client'[Len(t) + 2] = x /\ to_client'[Len(t) + 1] = r
      /\ \A i \in DOMAIN t : to_client'[i] = t[i]
  BY <1>5, <1>6
<1>8. ResultsSent' = ResultsSent \cup {Len(t) + 1} /\ ResultsSent = 1..Len(t)
  BY <1>1, <1>5, <1>7 DEF ResultsSent
<1>9. AnswerLast(x)
  BY <1>1, <1>5, <1>7 DEF AnswerLast
<1> QED BY <1>1, <1>5, <1>6, <1>7, <1>8, <1>9 DEF Wrote

(* An overlay update is answered, after the frame it presents               *)
(* (overlay_update).                                                        *)
LEMMA OverlayKeeps ==
  ASSUME FlowInv, UNCHANGED clientVars, overlay_update
  PROVE  FlowInv'
<1> PICK x : x = [type |-> "OverlayResult", applied |-> TRUE]
  OBVIOUS
<1>1. x \in ToClient /\ x.type = "OverlayResult"
  BY DEF ToClient
<1>2. /\ to_receiver # <<>> /\ Head(to_receiver).type = "OverlayUpdate"
      /\ to_receiver' = Tail(to_receiver) /\ ink_frozen' = FALSE
      /\ UNCHANGED <<selected_minor, conn, generation>>
  BY DEF overlay_update
<1>3. Connected /\ QuestionRead
  BY <1>2, StaysConnected, QuestionFacts
<1>4. Untouched
  BY <1>2, <1>3, ClientUntouched
<1>5. ASSUME AnswerLast(x), pending' = NoFrame
      PROVE  Lone' /\ Surfaces'
  BY <1>1, <1>2, <1>3, <1>4, <1>5
  DEF Lone, Surfaces, Untouched, QuestionRead, AnswerLast
<1>6. CASE pending = NoFrame /\ Reply(<<x>>) /\ UNCHANGED coreVars
  <2>1. /\ AnswerLast(x) /\ ResultsSent' = ResultsSent /\ to_client' \in Seq(ToClient)
        /\ \A i \in ResultsSent : to_client'[i] = to_client[i]
    BY <1>1, <1>3, <1>6, AnswerFacts DEF QuestionRead, Reply, Send
  <2>2. pending' = NoFrame /\ PendingFrame' = PendingFrame
    BY <1>6 DEF coreVars, PendingFrame
  <2>3. Lone' /\ Surfaces'
    BY <1>5, <2>1, <2>2
  <2>4. FlowTypes'
    <3>1. /\ generation \in 0..MaxGeneration /\ logical_frame_id \in 0..MaxFrameId
          /\ presented_frame_id \in 0..MaxFrameId /\ base_valid \in {TRUE, FALSE}
          /\ base \in Picture \cup {Mixed} /\ presented_base \in Picture \cup {Mixed}
          /\ pending \in Frames \cup {NoFrame}
      BY DEF FlowInv, FlowTypes, FlowTypeOK, Frames
    <3> QED
      BY <1>2, <1>3, <1>6, <2>1, <3>1, SessionTypes
      DEF coreVars, QuestionRead, WireKept
  <2>5. FramesSent = {} /\ FramesSent' = {}
    BY <1>3 DEF QuestionRead
  <2>6. InFlight' /\ Waits' /\ BaseNeverMixed'
    BY <1>4, <1>6 DEF FlowInv, InFlight, Waits, BaseNeverMixed, coreVars, Untouched
  <2>7. Places' /\ Results'
    BY <1>4, <2>1, <2>2, <2>5 DEF FlowInv, Places, Results, Good, Untouched
  <2>8. Chain' /\ Tip'
    BY <1>4, <1>6, <2>5 DEF FlowInv, Chain, Tip, coreVars, Untouched
  <2>9. Shown'
    BY <1>2, <1>4, <1>6, <2>1, <2>2, <2>5 DEF FlowInv, Shown, Good, coreVars, Untouched
  <2> QED
    BY <1>4, <2>3, <2>4, <2>6, <2>7, <2>8, <2>9 DEF FlowInv, Untouched
<1>7. ASSUME NEW outcome \in {"Presented", "BackendFailure"}, pending # NoFrame,
             Resolve(outcome), Reply(<<TerminalOf(outcome), x>>)
      PROVE  FlowInv'
  <2>1. PICK p : p = pending.frame_id
    OBVIOUS
  <2>2. PICK r : r = TerminalOf(outcome)
    OBVIOUS
  <2>3. /\ r \in ToClient /\ r.type = "FrameResult" /\ r.frame_id = p
        /\ r.result = (IF outcome = "Presented" THEN "Presented" ELSE "Rejected")
        /\ outcome = "Presented" => r.logical_frame_id = p
    BY <1>7, <2>1, <2>2, TerminalType
  <2>4. to_client' = to_client \o <<r, x>>
    BY <1>7, <2>2 DEF Reply, Send
  <2>5. PICK n : AnswerLast(x) /\ Wrote(r, n)
    BY <1>1, <1>3, <2>3, <2>4, BothFacts DEF QuestionRead
  <2>6. pending' = NoFrame
    BY <1>7 DEF Resolve
  <2>7. Lone' /\ Surfaces'
    BY <1>5, <2>5, <2>6
  <2>8. ink_frozen' \in {TRUE, FALSE} /\ presented_frame_id' \in 0..MaxFrameId
    <3>1. presented_frame_id \in 0..MaxFrameId /\ p \in 0..MaxFrameId
      BY <1>7, <2>1, TerminalFacts DEF FlowInv, FlowTypes, FlowTypeOK
    <3>2. presented_frame_id' \in {presented_frame_id, p}
      BY <1>7, <2>1 DEF Resolve
    <3> QED BY <1>2, <3>1, <3>2
  <2>9. \/ /\ r.result = "Presented" /\ r.logical_frame_id = p
           /\ presented_base' = base /\ UNCHANGED <<base, base_valid, logical_frame_id>>
        \/ /\ r.result = "Rejected" /\ base_valid' = FALSE
           /\ logical_frame_id' \in {0, logical_frame_id}
           /\ base' \in {base, presented_base} /\ UNCHANGED presented_base
    BY <1>7, <2>3 DEF Resolve
  <2>10. WireKept
    BY <1>3 DEF QuestionRead
  <2> QED
    BY <1>2, <1>3, <1>7, <2>1, <2>3, <2>5, <2>6, <2>7, <2>8, <2>9, <2>10, TerminalKeeps
<1>8. \/ pending = NoFrame /\ Reply(<<x>>) /\ UNCHANGED coreVars
      \/ pending # NoFrame /\ \E outcome \in {"Presented", "BackendFailure"} :
           Resolve(outcome) /\ Reply(<<TerminalOf(outcome), x>>)
  BY DEF overlay_update, Reply, Send
<1> QED BY <1>6, <1>7, <1>8

(* A surface is opened (open_surface): the frame that waited on the old one *)
(* gets its terminal before the new one is announced.                       *)
LEMMA OpenKeeps ==
  ASSUME FlowInv, UNCHANGED clientVars, open_surface
  PROVE  FlowInv'
<1>1. /\ to_receiver # <<>> /\ Head(to_receiver).type = "SurfaceOpen"
      /\ to_receiver' = Tail(to_receiver)
      /\ generation' = generation + 1
      /\ base' = Blank /\ presented_base' = Blank /\ base_valid' = FALSE
      /\ logical_frame_id' = 0 /\ presented_frame_id' = 0 /\ pending' = NoFrame
      /\ ink_frozen' = FALSE
      /\ to_client' = to_client \o Append(Cancelled("ProtocolState"),
                                          SurfaceReady(generation'))
      /\ UNCHANGED <<selected_minor, conn>>
  BY DEF open_surface, Reply, Send
<1>2. Connected /\ QuestionRead
  BY <1>1, StaysConnected, QuestionFacts
<1>3. Untouched
  BY <1>1, <1>2, ClientUntouched
<1>4. /\ generation' = surface + 1 /\ generation' \in 1..MaxGeneration
      /\ surface < MaxGeneration /\ op \in {"opening", "closed"} /\ surface \in Nat
  <2>1. surface \in 0..MaxGeneration
    BY DEF FlowInv, FlowTypes, FlowTypeOK
  <2> QED BY <1>1, <1>2, <2>1, ClientAssumption DEF QuestionRead
<1>5. PICK x : x = SurfaceReady(generation')
  OBVIOUS
<1>6. /\ x \in ToClient /\ x.type = "SurfaceReady" /\ x.generation = generation'
      /\ selected_minor >= 1 => x.max_inflight_bytes = MaxInflightBytes
  BY <1>4, <1>5 DEF SurfaceReady, ToClient, byte_credits_enabled
<1> DEFINE Answered ==
      /\ AnswerLast(x) /\ to_client' \in Seq(ToClient) /\ Places' /\ Results'
<1>7. FramesSent = {} /\ FramesSent' = {} /\ to_receiver' = <<>> /\ PendingFrame' = {}
  BY <1>1, <1>2 DEF QuestionRead, PendingFrame
<1>8. Answered
  <2>1. CASE pending = NoFrame
    <3>1. to_client' = to_client \o <<x>>
      BY <1>1, <1>5, <2>1 DEF Cancelled
    <3>2. /\ AnswerLast(x) /\ ResultsSent' = ResultsSent /\ to_client' \in Seq(ToClient)
          /\ \A i \in ResultsSent : to_client'[i] = to_client[i]
      BY <1>2, <1>6, <3>1, AnswerFacts DEF QuestionRead
    <3>3. PendingFrame = {}
      BY <2>1 DEF PendingFrame
    <3>4. Places' /\ Results'
      BY <1>3, <1>7, <3>2, <3>3 DEF FlowInv, Places, Results, Good, Untouched
    <3> QED BY <3>2, <3>4
  <2>2. CASE pending # NoFrame
    <3>1. PICK p : p = pending.frame_id
      OBVIOUS
    <3>2. p \in 1..MaxFrameId /\ logical_frame_id = p
      BY <2>2, <3>1, TerminalFacts
    <3>3. PICK r : r = FrameResult(p, "Rejected", "ProtocolState", p)
      OBVIOUS
    <3>4. /\ r \in ToClient /\ r.type = "FrameResult" /\ r.frame_id = p
          /\ r.result = "Rejected"
      <4>1. p \in 0..MaxFrameId
        BY <3>2
      <4> QED BY <1>1, <3>2, <3>3, <4>1, FrameResultType
    <3>5. to_client' = to_client \o <<r, x>>
      <4>1. Cancelled("ProtocolState") = <<r>>
        BY <2>2, <3>1, <3>2, <3>3 DEF Cancelled, FrameResult
      <4>2. Append(<<r>>, x) = <<r, x>>
        BY <1>6, <3>4, TwoOf
      <4> QED BY <1>1, <1>5, <4>1, <4>2
    <3>6. PICK n : AnswerLast(x) /\ Wrote(r, n)
      BY <1>2, <1>6, <3>4, <3>5, BothFacts DEF QuestionRead
    <3>7. Places' /\ Results'
      BY <1>1, <1>2, <1>3, <2>2, <3>1, <3>4, <3>6, TerminalPlaces
      DEF Untouched, QuestionRead
    <3> QED BY <3>6, <3>7 DEF Wrote
  <2> QED BY <2>1, <2>2
<1>9. FlowTypes'
  <2>1. Blank \in Picture /\ 0 \in 0..MaxFrameId /\ <<>> \in Seq(ToReceiver)
    BY ClientAssumption DEF Blank, Picture
  <2>2. generation' \in 0..MaxGeneration
    BY <1>4
  <2> QED BY <1>1, <1>2, <1>7, <1>8, <2>1, <2>2, SessionTypes
<1>10. Lone' /\ Surfaces'
  <2>1. AnswerLast(x)
    BY <1>8
  <2>2. Lone'
    <3>1. DOMAIN to_receiver' = {}
      BY ONLY <1>7
    <3>2. op' \in {"opening", "closed"} /\ pending' = NoFrame
      BY <1>1, <1>3, <1>4 DEF Untouched
    <3> QED BY ONLY <1>7, <2>1, <3>1, <3>2 DEF Lone, AnswerLast
  <2>3. Surfaces'
    BY <1>1, <1>3, <1>4, <1>6, <1>7, <2>1 DEF Surfaces, Untouched, AnswerLast
  <2> QED BY <2>2, <2>3
<1>11. InFlight' /\ Waits' /\ BaseNeverMixed'
  <2>1. 0 < next_frame_id
    BY DEF FlowInv, FlowTypes, FlowTypeOK
  <2>2. InFlight'
    BY <1>1, <1>3, <2>1 DEF FlowInv, InFlight, Untouched
  <2>3. Blank # Mixed
    BY DEF Blank, Mixed
  <2> QED BY <1>1, <2>2, <2>3 DEF Waits, BaseNeverMixed
<1>12. Chain' /\ Tip'
  BY <1>1, <1>3, <1>7 DEF FlowInv, Chain, Tip, Untouched
<1>13. Shown'
  BY <1>3, <1>4 DEF Shown, Untouched
<1> QED
  BY <1>3, <1>8, <1>9, <1>10, <1>11, <1>12, <1>13 DEF FlowInv, Untouched

(* Every step of the receiver keeps the invariant (SessionNext).            *)
LEMMA SessionKeeps ==
  ASSUME FlowInv, UNCHANGED clientVars, SessionNext
  PROVE  FlowInv'
<1>1. CASE AcceptFrame
  BY <1>1, AcceptFrameKeeps
<1>2. CASE \E outcome \in {"Presented", "BackendFailure"} : Poll(outcome)
  BY <1>2, PollKeeps
<1>3. CASE PanelFailure \/ Disconnect
  BY <1>3, FailuresKeep
<1>4. CASE \E frozen \in BOOLEAN : set_frame_frozen(frozen)
  <2>1. PICK frozen \in {TRUE, FALSE} : set_frame_frozen(frozen)
    BY <1>4
  <2> QED BY <2>1, FreezeKeeps
<1>5. CASE open_surface
  BY <1>5, OpenKeeps
<1>6. CASE overlay_update
  BY <1>6, OverlayKeeps
<1> QED BY <1>1, <1>2, <1>3, <1>4, <1>5, <1>6 DEF SessionNext


--------------------------------------------------------------------------------
(* The invariant.                                                           *)

(* Nothing is in flight at the start.                                       *)
LEMMA FlowInvInit ==
  ASSUME FlowInit
  PROVE  FlowInv
<1> USE DEF FlowInit, ConnectionInit, ClientInit, SessionInit
<1>1. /\ to_receiver = <<>> /\ to_client = <<>> /\ pending_frames = <<>>
      /\ completed_frame_reports = <<>>
      /\ FramesSent = {} /\ ResultsSent = {} /\ PendingIds = {} /\ PendingFrame = {}
  BY DEF FramesSent, ResultsSent, PendingIds, PendingFrame
<1>2. FlowTypes
  <2>1. \A S : SeqOver(S, <<>>) /\ <<>> \in Seq(S)
    BY DEF SeqOver
  <2>2. /\ 0 \in 0..MaxGeneration /\ 0 \in 0..MaxFrameId /\ 1 \in 1..MaxFrameId + 1
        /\ Blank \in Picture /\ 0 \in 0..MaxInflight
        /\ 0 \in 0..Unlimited + MaxInflightBytes
    BY ClientAssumption, LimitsAssumption DEF Blank, Picture, Unlimited
  <2>3. op \notin FrameCalls
    BY DEF FrameCalls
  <2>4. FlowTypeOK
    BY <1>1, <2>1, <2>2 DEF FlowTypeOK, Blank, Waiting
  <2> QED BY <1>1, <2>1, <2>3, <2>4 DEF FlowTypes
<1>3. Lone /\ Surfaces /\ InFlight /\ Places /\ Results /\ Waits
  BY <1>1 DEF Lone, Surfaces, InFlight, Places, Results, Waits, MaxPending
<1>4. Newest /\ CallStates /\ Granted
  BY <1>1 DEF Newest, CallStates, Granted, FrameCalls
<1>5. Chain /\ Tip /\ Shown /\ BaseNeverMixed
  BY <1>1 DEF Chain, Tip, Shown, BaseNeverMixed, Blank, Mixed, FrameCalls
<1> QED BY <1>2, <1>3, <1>4, <1>5 DEF FlowInv

(* Nothing of the invariant depends on a step that changes nothing.         *)
LEMMA FlowStutters ==
  ASSUME FlowInv, UNCHANGED flowVars
  PROVE  FlowInv'
  BY DEF FlowInv, flowVars, clientVars, sessionVars, coreVars, frameIdVars, creditVars,
         queueVars, FlowTypes, FlowTypeOK, Lone, Surfaces, InFlight, Places, Results,
         Waits, Newest, CallStates, Granted, Chain, Tip, Shown, BaseNeverMixed, Latest,
         FramesSent, ResultsSent, PendingIds, PendingFrame, Good, SeqOver

(* The invariant holds in every reachable state of the pair, for any limits,*)
(* any frame sizes and any number of frames and surfaces.                   *)
THEOREM FlowInvariant == FlowSpec => []FlowInv
<1>1. FlowInit => FlowInv
  BY FlowInvInit
<1>2. FlowInv /\ [FlowNext]_flowVars => FlowInv'
  <2> SUFFICES ASSUME FlowInv, [FlowNext]_flowVars PROVE FlowInv'
    OBVIOUS
  <2>1. CASE ClientNext /\ UNCHANGED sessionVars
    BY <2>1, ClientKeeps
  <2>2. CASE SessionNext /\ UNCHANGED clientVars
    BY <2>2, SessionKeeps
  <2>3. CASE UNCHANGED flowVars
    BY <2>3, FlowStutters
  <2> QED BY <2>1, <2>2, <2>3 DEF FlowNext
<1> QED BY <1>1, <1>2, PTL DEF FlowSpec

--------------------------------------------------------------------------------
(* Counting the frames in flight.                                           *)

(* A finite set has as many members as one-to-one names for them.           *)
LEMMA NamesCount ==
  ASSUME NEW I, IsFiniteSet(I), NEW f, \A i, j \in I : f[i] = f[j] => i = j
  PROVE  /\ IsFiniteSet({f[i] : i \in I})
         /\ Cardinality({f[i] : i \in I}) = Cardinality(I)
<1> DEFINE T == {f[i] : i \in I}
<1> DEFINE g == [i \in I |-> f[i]]
<1>1. g \in [I -> T] /\ DOMAIN g = I
  OBVIOUS
<1>2. \A a, b \in DOMAIN g : g[a] = g[b] => a = b
  OBVIOUS
<1>3. g \in Injection(I, T)
  BY <1>1, <1>2 DEF Injection, IsInjective
<1>4. g \in Surjection(I, T)
  BY <1>1 DEF Surjection
<1>5. ExistsBijection(I, T)
  BY <1>3, <1>4 DEF ExistsBijection, Bijection
<1> QED BY <1>5, FS_Bijection

(* The places of a channel are finitely many.                               *)
LEMMA PlacesFinite ==
  ASSUME NEW S, NEW s \in Seq(S), NEW I, I \subseteq DOMAIN s
  PROVE  IsFiniteSet(I) /\ \A i \in I : i \in Nat
<1>1. Len(s) \in Nat /\ DOMAIN s = 1..Len(s)
  OBVIOUS
<1>2. IsFiniteSet(1..Len(s))
  BY <1>1, FS_Interval
<1> QED BY <1>1, <1>2, FS_Subset

\* The ids of the frames at places I of channel s.
Ids(s, I) == {s[i].frame_id : i \in I}

LEMMA IdsCount ==
  ASSUME NEW S, NEW s \in Seq(S), NEW I, I \subseteq DOMAIN s,
         \A i, j \in I : i < j => s[i].frame_id # s[j].frame_id
  PROVE  IsFiniteSet(Ids(s, I)) /\ Cardinality(Ids(s, I)) = Cardinality(I)
<1>1. IsFiniteSet(I) /\ \A i \in I : i \in Nat
  BY PlacesFinite
<1> DEFINE f == [i \in I |-> s[i].frame_id]
<1>2. \A i, j \in I : f[i] = f[j] => i = j
  BY <1>1
<1>3. Ids(s, I) = {f[i] : i \in I}
  BY DEF Ids
<1> HIDE DEF f
<1> QED BY <1>1, <1>2, <1>3, NamesCount

(* Three groups that share no member are counted one by one.                *)
LEMMA CountThree ==
  ASSUME NEW A, NEW B, NEW C, IsFiniteSet(A), IsFiniteSet(B), IsFiniteSet(C),
         A \cap B = {}, (A \cup B) \cap C = {}
  PROVE  Cardinality((A \cup B) \cup C)
           = Cardinality(A) + Cardinality(B) + Cardinality(C)
<1>1. /\ Cardinality(A) \in Nat /\ Cardinality(B) \in Nat /\ Cardinality(C) \in Nat
      /\ Cardinality({}) = 0
  BY FS_CardinalityType, FS_EmptySet
<1>2. PICK a, b, c \in Nat :
        a = Cardinality(A) /\ b = Cardinality(B) /\ c = Cardinality(C)
  BY <1>1
<1>3. Cardinality(A \cap B) = 0 /\ Cardinality((A \cup B) \cap C) = 0
  BY <1>1, Zenon
<1>4. /\ IsFiniteSet(A \cup B)
      /\ Cardinality(A \cup B) = Cardinality(A) + Cardinality(B) - Cardinality(A \cap B)
  BY FS_Union, Zenon
<1>5. Cardinality(A \cup B) = a + b
  <2>1. Cardinality(A \cup B) = a + b - 0
    BY <1>2, <1>3, <1>4, Zenon
  <2> QED BY <2>1
<1>6. Cardinality((A \cup B) \cup C)
        = Cardinality(A \cup B) + Cardinality(C) - Cardinality((A \cup B) \cap C)
  BY <1>4, FS_Union, Zenon
<1>7. Cardinality((A \cup B) \cup C) = a + b + c
  <2>1. Cardinality((A \cup B) \cup C) = (a + b) + c - 0
    BY <1>2, <1>3, <1>5, <1>6, Zenon
  <2> QED BY <2>1
<1> QED BY <1>2, <1>7, Zenon


(* The frames in flight have different ids.                                 *)
LEMMA PendingCount ==
  ASSUME FlowInv
  PROVE  IsFiniteSet(PendingIds) /\ Cardinality(PendingIds) = Len(pending_frames)
<1>1. PICK w : w = pending_frames
  OBVIOUS
<1>2. /\ w \in Seq(Flight) /\ Len(w) \in Nat /\ DOMAIN w = 1..Len(w)
      /\ \A i \in DOMAIN w : w[i].frame_id \in Nat
  <2>1. w \in Seq(Flight)
    BY <1>1 DEF FlowInv, FlowTypes
  <2>2. \A x \in Flight : x.frame_id \in Nat
    BY DEF Flight
  <2> QED BY <2>1, <2>2
<1>3. \A i, j \in DOMAIN w : i < j => w[i].frame_id # w[j].frame_id
  BY <1>1, <1>2 DEF FlowInv, InFlight
<1>4. IsFiniteSet(Ids(w, DOMAIN w)) /\ Cardinality(Ids(w, DOMAIN w)) = Cardinality(DOMAIN w)
  BY <1>2, <1>3, IdsCount
<1>5. Cardinality(1..Len(w)) = Len(w)
  <2>1. PICK n \in Nat : n = Len(w)
    BY <1>2
  <2>2. Cardinality(1..n) = IF 1 > n THEN 0 ELSE n - 1 + 1
    BY FS_Interval
  <2>3. Cardinality(1..n) = n
    BY <2>2
  <2> QED BY ONLY <2>1, <2>3
<1>6. PendingIds = Ids(w, DOMAIN w)
  BY <1>1 DEF PendingIds, Ids
<1> QED BY <1>1, <1>2, <1>4, <1>5, <1>6

(* Every one of them is in one place.                                       *)
LEMMA Accounted ==
  ASSUME FlowInv
  PROVE  FramesAccounted
<1> DEFINE A == Ids(to_receiver, FramesSent)
<1> DEFINE B == Ids(to_client, ResultsSent)
<1>1. op # "unexpected"
  BY DEF FlowInv, CallStates
<1>2. \A i \in DOMAIN completed_frame_reports : completed_frame_reports[i] \notin PendingIds
  BY DEF FlowInv, InFlight
<1>3. IsFiniteSet(PendingIds) /\ Cardinality(PendingIds) = Len(pending_frames)
  BY PendingCount
<1>4. /\ A = {to_receiver[i].frame_id : i \in FramesSent}
      /\ B = {to_client[i].frame_id : i \in ResultsSent}
  BY DEF Ids
<1>5. PendingIds = (A \cup B) \cup PendingFrame
  BY <1>4 DEF FlowInv, Places
<1>6. /\ \A i \in FramesSent : to_receiver[i].frame_id \in Nat
      /\ \A i \in ResultsSent : to_client[i].frame_id \in Nat
      /\ \A id \in PendingFrame : id \in Nat
  <2>1. \A id \in PendingIds : id \in Nat
    <3>1. pending_frames \in Seq(Flight)
      BY DEF FlowInv, FlowTypes
    <3>2. \A x \in Flight : x.frame_id \in Nat
      BY DEF Flight
    <3> QED BY <3>1, <3>2 DEF PendingIds
  <2> QED BY <1>4, <1>5, <2>1
<1>7. A \cap B = {} /\ (A \cup B) \cap PendingFrame = {}
  BY <1>4, <1>6 DEF FlowInv, Places
<1>8. IsFiniteSet(A) /\ Cardinality(A) = Cardinality(FramesSent)
  <2>1. to_receiver \in Seq(ToReceiver) /\ FramesSent \subseteq DOMAIN to_receiver
    BY DEF FlowInv, FlowTypes, FramesSent
  <2>2. \A i, j \in FramesSent :
          i < j => to_receiver[i].frame_id # to_receiver[j].frame_id
    BY <1>6 DEF FlowInv, Places
  <2> QED BY <2>1, <2>2, IdsCount
<1>9. IsFiniteSet(B) /\ Cardinality(B) = Cardinality(ResultsSent)
  <2>1. to_client \in Seq(ToClient) /\ ResultsSent \subseteq DOMAIN to_client
    BY DEF FlowInv, FlowTypes, ResultsSent
  <2>2. \A i, j \in ResultsSent : i < j => to_client[i].frame_id # to_client[j].frame_id
    BY DEF FlowInv, Places
  <2> QED BY <2>1, <2>2, IdsCount
<1>10. IsFiniteSet(PendingFrame)
  BY FS_EmptySet, FS_Singleton DEF PendingFrame
<1>11. Cardinality(PendingIds)
         = Cardinality(A) + Cardinality(B) + Cardinality(PendingFrame)
  <2> HIDE DEF A, B
  <2> QED BY <1>5, <1>7, <1>8, <1>9, <1>10, CountThree
<1> QED
  BY <1>1, <1>2, <1>3, <1>4, <1>5, <1>8, <1>9, <1>11 DEF FramesAccounted

(* The producer keeps within what it was granted.                           *)
LEMMA Bounded ==
  ASSUME FlowInv
  PROVE  InflightBounded
<1>1. /\ Len(pending_frames) \in Nat /\ DOMAIN pending_frames = 1..Len(pending_frames)
      /\ surface \in Nat
  <2>1. pending_frames \in Seq(Flight) /\ surface \in 0..MaxGeneration
    BY DEF FlowInv, FlowTypes, FlowTypeOK
  <2> QED BY <2>1
<1>2. Len(pending_frames) <= credit_limit
  <2>1. CASE surface = 0
    <3>1. pending_frames = <<>> /\ credit_limit = 0
      BY <2>1 DEF FlowInv, CallStates, Granted
    <3> QED BY <3>1
  <2>2. CASE surface # 0 /\ MaxInflight = 1
    <3>1. credit_limit = 1
      BY <2>2 DEF FlowInv, Granted
    <3>2. pending_frames = <<>> \/ Len(pending_frames) = 1
      BY <2>2 DEF FlowInv, Granted
    <3>3. Len(<<>>) = 0
      OBVIOUS
    <3>4. Len(pending_frames) \in {0, 1}
      BY <3>2, <3>3
    <3>5. Len(pending_frames) <= 1
      BY <1>1, <3>4
    <3> QED BY <3>1, <3>5
  <2>3. CASE surface # 0 /\ MaxInflight # 1
    <3>1. credit_limit = MaxInflight /\ Len(pending_frames) <= 2
      BY <2>3 DEF FlowInv, Granted, InFlight, MaxPending
    <3> QED BY <1>1, <2>3, <3>1, LimitsAssumption
  <2> QED BY <2>1, <2>2, <2>3
<1>3. FramesSent # {} => session_credits(pending) > 0
  <2> SUFFICES ASSUME FramesSent # {} PROVE session_credits(pending) > 0
    OBVIOUS
  <2>1. CASE MaxInflight # 1 \/ pending = NoFrame
    BY <2>1, LimitsAssumption DEF session_credits
  <2>2. CASE MaxInflight = 1 /\ pending # NoFrame
    <3>1. PICK i \in FramesSent : TRUE
      OBVIOUS
    <3>2. /\ to_receiver[i].frame_id \in PendingIds
          /\ pending.frame_id \in PendingIds
          /\ pending.frame_id < to_receiver[i].frame_id
      BY <2>2, <3>1 DEF FlowInv, Places, PendingFrame
    <3>3. PendingIds # {} => pending_frames # <<>>
      BY DEF PendingIds
    <3>4. Len(pending_frames) = 1
      BY <2>2, <3>2, <3>3 DEF FlowInv, Granted
    <3>5. PendingIds = {pending_frames[1].frame_id}
      BY <1>1, <3>4 DEF PendingIds
    <3>6. pending.frame_id \in Nat
      BY <2>2 DEF FlowInv, FlowTypes, FlowTypeOK
    <3> QED BY <3>2, <3>5, <3>6
  <2> QED BY <2>1, <2>2
<1>4. \A i \in DOMAIN pending_frames :
        pending_frames[i].intent = "Settled" => i = Len(pending_frames)
  BY <1>1 DEF FlowInv, CallStates
<1> QED BY <1>2, <1>3, <1>4 DEF InflightBounded

(* With nothing in flight and no keyframe owed, the panel shows it.         *)
LEMMA Arrives ==
  ASSUME FlowInv
  PROVE  PictureArrives
<1> SUFFICES ASSUME op = "idle", pending_frames = <<>>, ~needs_keyframe
             PROVE  presented_base = picture
  BY DEF PictureArrives
<1>1. PendingIds = {}
  BY DEF PendingIds
<1>2. FramesSent = {} /\ ResultsSent = {} /\ PendingFrame = {}
  BY <1>1 DEF FlowInv, Places
<1>3. generation = surface
  BY NoQuestionFacts
<1>4. presented_base = Latest
  BY <1>2, <1>3 DEF FlowInv, Shown
<1> QED BY <1>4 DEF Latest

--------------------------------------------------------------------------------
(* The properties.                                                          *)

(* Credits, ids, pictures and envelopes stay in their ranges (the fields of *)
(* ProducerClient and ActiveSurface, the wire messages).                    *)
THEOREM FlowTypesHold == FlowSpec => []FlowTypeOK
<1>1. FlowInv => FlowTypeOK
  BY DEF FlowInv, FlowTypes
<1> QED BY <1>1, FlowInvariant, PTL

(* However frames are pipelined, refused, frozen, retried or cancelled by a *)
(* reopened surface, a delta is only applied to the picture it was encoded  *)
(* against (commit_timed's base checks, apply_frame_result's tail).         *)
THEOREM BaseStaysWhole == FlowSpec => []BaseNeverMixed
<1>1. FlowInv => BaseNeverMixed
  BY DEF FlowInv
<1> QED BY <1>1, FlowInvariant, PTL

(* No result is lost, doubled or unexpected to apply_frame_result: every    *)
(* frame in flight is on the wire, pending, or in one result.               *)
THEOREM FramesInOnePlace == FlowSpec => []FramesAccounted
<1>1. FlowInv => FramesAccounted
  BY Accounted
<1> QED BY <1>1, FlowInvariant, PTL

(* The producer never exceeds what SurfaceReady granted, so accept_frame    *)
(* never refuses a frame for want of a credit, and nothing follows an       *)
(* unfinished SETTLED frame.                                                *)
THEOREM CreditsRespected == FlowSpec => []InflightBounded
<1>1. FlowInv => InflightBounded
  BY Bounded
<1> QED BY <1>1, FlowInvariant, PTL

(* A producer with nothing in flight that owes no keyframe is seen: the     *)
(* receiver presented its latest picture.                                   *)
THEOREM LatestShown == FlowSpec => []PictureArrives
<1>1. FlowInv => PictureArrives
  BY Arrives
<1> QED BY <1>1, FlowInvariant, PTL
================================================================================
