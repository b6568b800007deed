--------------------------- MODULE ControlFlowProofs ---------------------------
(***************************************************************************)
(* Proofs about producers that steer the refresh policy of a receiver, for *)
(* any policies, hellos and requests and any bounds on what is under way.  *)
(*                                                                         *)
(* The first part is about the operations of a session one at a time: what *)
(* each keeps, whatever the panel does, of the one policy, the promised    *)
(* cleanup and the refresh debt.  The second adds the channels.            *)
(***************************************************************************)
EXTENDS ControlFlow, FiniteSetTheorems, FunctionTheorems, SequenceTheorems, TLAPS

--------------------------------------------------------------------------------
(* The core and the ledger of the panel.                                    *)

Cores ==
  [config : Policies, pending : BOOLEAN, presented : BOOLEAN,
   force_cleanup_next : BOOLEAN, debt : RefreshDebt]

Ledgers == [owed : BOOLEAN, partials : 0..CountMax]

\* Frames that wait in a core.
Pending(c) == IF c.pending THEN 1 ELSE 0

\* What core c has armed and counted agrees with what the panel was driven with.
Agrees(c, l) ==
  /\ l.owed => c.force_cleanup_next
  /\ c.debt.since_cleanup = l.partials

\* Outcome o of an operation on core c, with the panel's ledger l, is in order:
\* the policy is still the same, the agreement holds and every frame that no
\* longer waits has its terminal.
Kept(c, l, o) ==
  /\ o.core \in Cores /\ o.core.config = c.config
  /\ o.drive \in Drives
  /\ Driven(l, o.drive) \in Ledgers /\ Agrees(o.core, Driven(l, o.drive))
  /\ o.terminals \in {0, 1}
  /\ Pending(c) = o.terminals + Pending(o.core)

(* No core is mistaken for a missing one.                                   *)
LEMMA CoreIsNotNone ==
  ASSUME NEW c \in Cores
  PROVE  c # NoCore
  BY DEF Cores, NoCore

(* A saturating counter stays in range (saturating_add).                    *)
LEMMA SaturatingAddType ==
  ASSUME NEW n \in 0..CountMax
  PROVE  saturating_add(n, 1) \in 0..CountMax
  BY CountMaxAssumption DEF saturating_add

(* The panel's ledger stays one (Driven).                                   *)
LEMMA DrivenType ==
  ASSUME NEW l \in Ledgers, NEW drive \in Drives
  PROVE  /\ Driven(l, drive) \in Ledgers
         /\ drive = "complete" =>
              ~Driven(l, drive).owed /\ Driven(l, drive).partials = 0
         /\ drive = "partial" =>
              /\ Driven(l, drive).owed = l.owed
              /\ Driven(l, drive).partials = saturating_add(l.partials, 1)
         /\ drive \in {"none", "failed"} => Driven(l, drive) = l
<1>1. l.owed \in BOOLEAN /\ l.partials \in 0..CountMax
  BY DEF Ledgers
<1>2. saturating_add(l.partials, 1) \in 0..CountMax
  BY <1>1, SaturatingAddType
<1>3. CASE drive = "complete"
  BY <1>3, CountMaxAssumption DEF Ledgers, Driven
<1>4. CASE drive = "partial"
  <2>1. Driven(l, drive) =
          [l EXCEPT !.partials = saturating_add(l.partials, 1)]
    BY <1>4 DEF Driven
  <2> QED BY <1>2, <1>4, <2>1 DEF Ledgers
<1>5. CASE drive \in {"none", "failed"}
  BY <1>5 DEF Driven
<1> QED BY <1>3, <1>4, <1>5 DEF Drives

(* A decision is a Boolean (RefreshPolicy decide).                          *)
LEMMA CompletesType ==
  ASSUME NEW c, NEW intents, NEW forces
  PROVE  Completes(c, intents, forces) \subseteq {TRUE, FALSE}
<1> SUFFICES ASSUME NEW x \in Completes(c, intents, forces)
             PROVE  x = TRUE \/ x = FALSE
  OBVIOUS
<1>1. PICK intent \in intents, damage \in {1, PanelArea}, force \in forces :
        x = Decide(c.config, c.debt, intent, "TextUi", damage, PanelArea,
                   force).complete_refresh
  BY DEF Completes
<1>2. x = (RefreshReason(c.config, c.debt, intent, damage, PanelArea, force)
             # "None")
  BY <1>1, Zenon DEF Decide
<1> QED BY <1>2, Zenon

(* An operation that leaves core and panel alone is in order.               *)
LEMMA IdleKept ==
  ASSUME NEW c \in Cores, NEW d \in Cores, NEW l \in Ledgers, NEW t \in {0, 1},
         NEW drive \in {"none", "failed"},
         d.config = c.config, Agrees(d, l), Pending(c) = t + Pending(d)
  PROVE  Kept(c, l, Outcome(d, drive, t))
<1>1. drive \in Drives /\ Driven(l, drive) = l
  BY DrivenType DEF Drives
<1> QED BY <1>1 DEF Kept, Outcome

(* A submission clears or counts what the panel clears or counts            *)
(* (presented_submissions, force_cleanup_next).                             *)
LEMMA SubmittedKept ==
  ASSUME NEW c \in Cores, NEW d \in Cores, NEW l \in Ledgers, NEW t \in {0, 1},
         NEW complete \in {TRUE, FALSE},
         d.config = c.config, Agrees(d, l), Pending(c) = t + Pending(d)
  PROVE  Kept(c, l, Submitted(d, complete, t))
<1> DEFINE debt == presented_submissions(d.debt, complete, 1)
           core2 == [d EXCEPT !.force_cleanup_next = d.force_cleanup_next /\ ~complete,
                              !.debt = debt]
           drive == IF complete THEN "complete" ELSE "partial"
           o == Submitted(d, complete, t)
<1>1. o.core = core2 /\ o.drive = drive /\ o.terminals = t
  BY DEF Submitted, Outcome
<1>2. d.debt \in RefreshDebt /\ d.debt.since_cleanup \in 0..CountMax
  BY DEF Cores, RefreshDebt
<1>3. saturating_add(d.debt.since_cleanup, 1) \in 0..CountMax
  BY <1>2, SaturatingAddType
<1>4. debt \in RefreshDebt
  BY <1>3, CountMaxAssumption DEF presented_submissions, RefreshDebt
<1>5. /\ core2 \in Cores /\ core2.config = d.config /\ core2.debt = debt
      /\ core2.pending = d.pending
      /\ core2.force_cleanup_next = (d.force_cleanup_next /\ ~complete)
  BY <1>4 DEF Cores
<1>6. drive \in Drives /\ Driven(l, drive) \in Ledgers
  BY DrivenType DEF Drives
<1>7. Agrees(core2, Driven(l, drive))
  <2>1. CASE complete
    BY <1>5, <2>1, DrivenType DEF Agrees, presented_submissions, Drives
  <2>2. CASE ~complete
    <3>1. /\ debt.since_cleanup = saturating_add(d.debt.since_cleanup, 1)
          /\ drive = "partial" /\ drive \in Drives
      BY <2>2 DEF presented_submissions, Drives
    <3>2. /\ Driven(l, drive).owed = l.owed
          /\ Driven(l, drive).partials = saturating_add(l.partials, 1)
      BY <3>1, DrivenType
    <3>3. core2.force_cleanup_next = d.force_cleanup_next
      <4>1. d.force_cleanup_next \in {TRUE, FALSE}
        BY DEF Cores
      <4> HIDE DEF core2
      <4> QED BY <1>5, <2>2, <4>1, Zenon
    <3> QED BY <1>5, <3>1, <3>2, <3>3 DEF Agrees
  <2> QED BY <2>1, <2>2
<1> HIDE DEF core2, drive, o
<1> QED
  BY <1>1, <1>5, <1>6, <1>7 DEF Kept, Pending, o

(* A due frame is shown, found unchanged or lost (tick_inner).              *)
LEMMA TickKept ==
  ASSUME NEW c \in Cores, c.pending, NEW l \in Ledgers, Agrees(c, l),
         NEW o \in tick_inner(c)
  PROVE  Kept(c, l, o)
<1> DEFINE completes == Completes(c, FrameIntent, {c.force_cleanup_next, TRUE})
           done      == [c EXCEPT !.pending = FALSE]
           shown     == [done EXCEPT !.presented = TRUE]
<1>1. \A d \in {done, shown} :
        /\ d \in Cores /\ d.config = c.config /\ Agrees(d, l)
        /\ Pending(c) = 1 + Pending(d)
  <2>1. /\ done \in Cores /\ done.config = c.config /\ done.debt = c.debt
        /\ done.force_cleanup_next = c.force_cleanup_next /\ ~done.pending
    BY DEF Cores
  <2>2. /\ shown \in Cores /\ shown.config = c.config /\ shown.debt = c.debt
        /\ shown.force_cleanup_next = c.force_cleanup_next /\ ~shown.pending
    BY DEF Cores
  <2> HIDE DEF done, shown
  <2> QED BY <2>1, <2>2 DEF Agrees, Pending
<1>2. \/ o = Outcome(done, "failed", 1) \/ o = Outcome(shown, "none", 1)
      \/ \E complete \in completes : o = Submitted(shown, complete, 1)
  BY DEF tick_inner
<1>3. completes \subseteq {TRUE, FALSE}
  BY CompletesType
<1> HIDE DEF done, shown, completes
<1>4. CASE o = Outcome(done, "failed", 1) \/ o = Outcome(shown, "none", 1)
  BY <1>1, <1>4, IdleKept
<1>5. CASE \E complete \in completes : o = Submitted(shown, complete, 1)
  BY <1>1, <1>3, <1>5, SubmittedKept
<1> QED BY <1>2, <1>4, <1>5

(* A cleanup is armed and stays so until it is done; nobody has to have     *)
(* owed it before (request_cleanup).                                        *)
LEMMA RequestCleanupKept ==
  ASSUME NEW c \in Cores, NEW l \in Ledgers, c.debt.since_cleanup = l.partials,
         NEW o \in request_cleanup(c)
  PROVE  Kept(c, l, o)
<1> DEFINE armed == [c EXCEPT !.force_cleanup_next = TRUE]
<1>1. /\ armed \in Cores /\ armed.config = c.config /\ Agrees(armed, l)
      /\ armed.pending = c.pending /\ Pending(armed) = Pending(c)
  BY DEF Cores, Agrees, Pending
<1>2. \/ armed.pending /\ o \in tick_inner(armed)
      \/ /\ ~armed.pending
         /\ \/ o = Outcome(armed, "none", 0) \/ o = Outcome(armed, "failed", 0)
            \/ o = Submitted(armed, TRUE, 0)
  BY DEF request_cleanup
<1> HIDE DEF armed
<1>3. CASE armed.pending /\ o \in tick_inner(armed)
  <2>1. Kept(armed, l, o)
    BY <1>1, <1>3, TickKept
  <2> QED BY <1>1, <2>1 DEF Kept
<1>4. CASE ~armed.pending
  <2>1. Pending(c) = 0 + Pending(armed)
    BY <1>1 DEF Pending
  <2> QED BY <1>1, <1>2, <1>4, <2>1, IdleKept, SubmittedKept
<1> QED BY <1>2, <1>3, <1>4

(* A changed policy arms a cleanup, and one that did not change keeps what  *)
(* is armed (change_refresh_profile).                                       *)
LEMMA ChangeProfileKept ==
  ASSUME NEW c \in Cores, NEW l \in Ledgers, Agrees(c, l), NEW cfg \in Policies,
         NEW o \in change_refresh_profile(c, cfg)
  PROVE  Kept([c EXCEPT !.config = cfg],
              IF cfg # c.config THEN Owing(l) ELSE l, o)
<1> DEFINE next == [c EXCEPT !.config = cfg]
           owing == IF cfg # c.config THEN Owing(l) ELSE l
<1>1. /\ next \in Cores /\ next.debt = c.debt /\ next.pending = c.pending
      /\ next.force_cleanup_next = c.force_cleanup_next
  BY DEF Cores
<1>2. owing \in Ledgers /\ owing.partials = l.partials
  BY DEF Ledgers, Owing
<1>3. CASE cfg # c.config \/ c.force_cleanup_next
  <2>1. o \in request_cleanup(next)
    BY <1>3 DEF change_refresh_profile
  <2>2. next.debt.since_cleanup = owing.partials
    BY <1>1, <1>2 DEF Agrees
  <2> HIDE DEF next, owing
  <2>3. Kept(next, owing, o)
    BY <1>1, <1>2, <2>1, <2>2, RequestCleanupKept
  <2> QED BY <2>3 DEF next, owing
<1>4. CASE ~(cfg # c.config \/ c.force_cleanup_next)
  <2>1. o = Outcome(next, "none", 0) /\ owing = l
    BY <1>4 DEF change_refresh_profile
  <2>2. Agrees(next, l) /\ Pending(next) = 0 + Pending(next)
    BY <1>1 DEF Agrees, Pending
  <2> HIDE DEF next, owing
  <2>3. Kept(next, owing, o)
    BY <1>1, <2>1, <2>2, IdleKept
  <2> QED BY <2>3 DEF next, owing
<1> QED BY <1>3, <1>4

(* The waiting frame before a plane (present_overlay).                      *)
LEMMA FlushPendingKept ==
  ASSUME NEW c \in Cores, NEW l \in Ledgers, Agrees(c, l),
         NEW o \in FlushPending(c)
  PROVE  Kept(c, l, o)
<1>1. CASE c.pending
  BY <1>1, TickKept DEF FlushPending
<1>2. CASE ~c.pending
  BY <1>2, IdleKept DEF FlushPending, Pending
<1> QED BY <1>1, <1>2

(* A plane, which does not ask what is armed (present_overlay).             *)
LEMMA PresentPlaneKept ==
  ASSUME NEW c \in Cores, NEW l \in Ledgers, Agrees(c, l),
         NEW o \in PresentPlane(c)
  PROVE  Kept(c, l, o) /\ o.terminals = 0
<1>1. \/ o = Outcome(c, "none", 0) \/ o = Outcome(c, "failed", 0)
      \/ \E complete \in Completes(c, {"Settled"}, {FALSE}) :
           o = Submitted(c, complete, 0)
  BY DEF PresentPlane
<1>2. Pending(c) = 0 + Pending(c)
  BY DEF Pending
<1>3. Completes(c, {"Settled"}, {FALSE}) \subseteq {TRUE, FALSE}
  BY CompletesType
<1>4. o.terminals = 0
  <2>1. /\ \A drive : Outcome(c, drive, 0).terminals = 0
        /\ \A complete : Submitted(c, complete, 0).terminals = 0
    BY DEF Outcome, Submitted
  <2> QED BY <1>1, <2>1
<1> QED BY <1>1, <1>2, <1>3, <1>4, IdleKept, SubmittedKept

--------------------------------------------------------------------------------
(* The session.                                                             *)

Valid(c) == c \in Policies /\ ValidConfig(c)

\* One policy, and whatever was promised or counted is with the surface, or
\* waits for the next one.
SessionOK ==
  /\ Valid(policy)
  /\ \A c \in last_custom_profile : Valid(c)
  /\ core \in Cores \cup {NoCore}
  /\ cleanup_pending_without_surface \in BOOLEAN
  /\ refresh_debt_without_surface \in RefreshDebt
  /\ ledger \in Ledgers
  /\ core # NoCore => core.config = policy /\ Agrees(core, ledger)
  /\ core = NoCore =>
       /\ ledger.owed => cleanup_pending_without_surface
       /\ refresh_debt_without_surface.since_cleanup = ledger.partials

(* The three promises the session keeps are in SessionOK (PolicyAgrees,     *)
(* CleanupCarried and DebtCarried of ControlFlow).                          *)
LEMMA SessionPromises ==
  ASSUME SessionOK
  PROVE  /\ ledger.owed => current_cleanup_pending
         /\ CarryDebt.since_cleanup = ledger.partials
         /\ CarryDebt \in RefreshDebt
         /\ current_cleanup_pending \in BOOLEAN /\ CarryCleanup \in BOOLEAN
         /\ ledger.owed => CarryCleanup
         /\ ledger.owed \in BOOLEAN
<1>1. CASE core = NoCore
  BY <1>1 DEF SessionOK, current_cleanup_pending, CarryDebt, CarryCleanup, Ledgers
<1>2. CASE core # NoCore
  BY <1>2
  DEF SessionOK, current_cleanup_pending, CarryDebt, CarryCleanup, Ledgers, Cores,
      Agrees
<1> QED BY <1>1, <1>2

(* Presets are valid configurations (for_profile).                          *)
LEMMA PresetValid ==
  ASSUME NEW p \in RefreshProfile
  PROVE  /\ Valid(for_profile(p)) /\ for_profile(p).profile = p
         /\ for_profile(p).cleanup_after_updates = IF p = "Custom" THEN 90 ELSE 0
  BY DEF Valid, for_profile, Policies, ValidConfig, Waveform, RefreshProfile,
         NamedProfiles

(* A switch keeps the configuration valid, and keeps a cleanup interval     *)
(* that is not the old preset's (switched_to).                              *)
LEMMA SwitchValid ==
  ASSUME NEW c, Valid(c), NEW p \in RefreshProfile
  PROVE  /\ Valid(switched_to(c, p)) /\ switched_to(c, p).profile = p
         /\ switched_to(c, p).cleanup_after_updates =
              IF c.cleanup_after_updates # for_profile(c.profile).cleanup_after_updates
                THEN c.cleanup_after_updates
                ELSE for_profile(p).cleanup_after_updates
<1> DEFINE b == for_profile(p)
           a == for_profile(c.profile)
           s == switched_to(c, p)
<1>1. Valid(a) /\ Valid(b) /\ b.profile = p
  BY PresetValid DEF Valid, Policies
<1>2. s = [b EXCEPT
             !.cleanup_after_updates =
               IF c.cleanup_after_updates # a.cleanup_after_updates
                 THEN c.cleanup_after_updates ELSE b.cleanup_after_updates,
             !.large_update_threshold_percent =
               IF c.large_update_threshold_percent # a.large_update_threshold_percent
                 THEN c.large_update_threshold_percent
                 ELSE b.large_update_threshold_percent,
             !.static_cleanup_after_fast_updates =
               IF c.static_cleanup_after_fast_updates
                    # a.static_cleanup_after_fast_updates
                 THEN c.static_cleanup_after_fast_updates
                 ELSE b.static_cleanup_after_fast_updates,
             !.partial_refresh_enabled = c.partial_refresh_enabled,
             !.clean_first_frame = c.clean_first_frame]
  BY DEF switched_to
<1> HIDE DEF a, b, s
<1>3. /\ s \in Policies /\ s.profile = b.profile
      /\ s.cleanup_after_updates =
           IF c.cleanup_after_updates # a.cleanup_after_updates
             THEN c.cleanup_after_updates ELSE b.cleanup_after_updates
      /\ s.large_update_threshold_percent \in
           {c.large_update_threshold_percent, b.large_update_threshold_percent}
      /\ s.latest_text_waveform = b.latest_text_waveform
      /\ s.latest_photo_waveform = b.latest_photo_waveform
      /\ s.latest_video_waveform = b.latest_video_waveform
      /\ s.settled_waveform = b.settled_waveform
  BY <1>1, <1>2 DEF Valid, Policies
<1>4. ValidConfig(s)
  BY <1>1, <1>3 DEF Valid, ValidConfig
<1> QED BY <1>1, <1>3, <1>4 DEF Valid, a, b, s

(* A policy a request may set is valid, and has the profile it names        *)
(* (RequestedPolicy, custom_profile_config).                                *)
LEMMA RequestedValid ==
  ASSUME SessionOK, NEW req \in EpaperProfileRequest, ProfileVerdict(req) = "Set"
  PROVE  Valid(RequestedPolicy(req))
<1>1. CASE req.profile = "Custom"
  <2>1. custom_profile_config(req) # {}
    BY <1>1 DEF ProfileVerdict
  <2>2. RequestedPolicy(req) \in custom_profile_config(req)
    BY <1>1, <2>1 DEF RequestedPolicy
  <2> QED BY <2>2 DEF custom_profile_config, Valid, EpaperProfileRequest
<1>2. CASE req.profile # "Custom"
  <2>1. req.profile \in RefreshProfile
    BY <1>2 DEF ProfileVerdict, RefreshProfile
  <2> QED BY <1>2, <2>1, SwitchValid DEF RequestedPolicy, SessionOK
<1> QED BY <1>1, <1>2

(* What waits in a core, and in none (Waiting).                             *)
LEMMA WaitingInCore ==
  /\ Waiting(NoCore) = 0
  /\ \A c \in Cores : Waiting(c) = Pending(c)
  BY CoreIsNotNone DEF Waiting, Pending

(* A step that leaves a surface is in order if the surface agrees with the  *)
(* policy and the ledger.                                                   *)
LEMMA SurfaceKeeps ==
  ASSUME NEW d \in Cores, core' = d, NEW l \in Ledgers, ledger' = l, Agrees(d, l),
         policy' = d.config, Valid(policy)',
         (\A c \in last_custom_profile : Valid(c))',
         cleanup_pending_without_surface' \in BOOLEAN,
         refresh_debt_without_surface' \in RefreshDebt
  PROVE  SessionOK'
  BY CoreIsNotNone DEF SessionOK

--------------------------------------------------------------------------------
(* Answers.                                                                 *)

ControlAnswers ==
  [type : Streams, id : Nat, result : Codes, cleanup_performed : BOOLEAN,
   cleanup_pending : BOOLEAN]

\* The step sends the terminals of the frames that no longer wait, and then a;
\* f frames have arrived with it.
Replies(f, a) ==
  \E n \in {0, 1} : Reply(n, a) /\ Waiting(core) + f = n + Waiting(core')

\* The step sends control answer m, and what it says of the panel is true.
Answers(stream, m) ==
  /\ m \in ControlAnswers /\ m.type = stream
  /\ Replies(0, <<m>>)
  /\ m.cleanup_performed => ~ledger'.owed /\ ledger'.partials = 0
  /\ ~m.cleanup_pending => ~ledger'.owed

(* A refusal or a query reports what is pending (Refuse).                   *)
LEMMA RefuseKeeps ==
  ASSUME SessionOK, NEW stream \in Streams, NEW req, req.id \in Nat,
         NEW code \in Codes, Refuse(stream, req, code)
  PROVE  /\ SessionOK' /\ UNCHANGED policy
         /\ \E m : Answers(stream, m) /\ m.result = code
<1>1. SessionOK' /\ UNCHANGED <<core, policy, ledger>>
  BY DEF Refuse, SessionOK
<1>2. PICK m : m = Result(stream, req, code, FALSE, current_cleanup_pending)
  OBVIOUS
<1>3. Reply(0, <<m>>)
  BY <1>2 DEF Refuse
<1>4. /\ m \in ControlAnswers /\ m.type = stream /\ m.result = code
      /\ ~m.cleanup_performed /\ m.cleanup_pending = current_cleanup_pending
  BY <1>2, SessionPromises DEF Result, ControlAnswers
<1>5. Replies(0, <<m>>)
  BY <1>1, <1>3, WaitingInCore DEF Replies, SessionOK, Waiting
<1>6. ~m.cleanup_pending => ~ledger'.owed
  BY <1>1, <1>4, SessionPromises
<1> QED BY <1>1, <1>4, <1>5, <1>6 DEF Answers

(* SET: on the open surface, or for the next one (ApplyProfile).            *)
LEMMA ApplyProfileKeeps ==
  ASSUME SessionOK, NEW req \in EpaperProfileRequest, ProfileVerdict(req) = "Set",
         ApplyProfile(req)
  PROVE  /\ SessionOK' /\ policy' = RequestedPolicy(req)
         /\ \E m : Answers("profile", m) /\ m.result \in {"Applied", "Unchanged"}
<1> PICK next : next = RequestedPolicy(req)
  OBVIOUS
<1> PICK code : code = IF next # policy THEN "Applied" ELSE "Unchanged"
  OBVIOUS
<1> PICK owing : owing = IF next # policy THEN Owing(ledger) ELSE ledger
  OBVIOUS
<1>1. /\ Valid(next) /\ req.id \in Nat /\ code \in Codes
      /\ code \in {"Applied", "Unchanged"}
  BY RequestedValid DEF EpaperProfileRequest, Codes
<1>2. policy' = next /\ (\A c \in last_custom_profile : Valid(c))'
        /\ UNCHANGED refresh_debt_without_surface
  BY <1>1 DEF ApplyProfile, SessionOK, Valid
<1>3. owing \in Ledgers
  BY DEF SessionOK, Ledgers, Owing
<1>4. CASE core # NoCore
  <2>1. PICK o \in change_refresh_profile(core, next) :
          /\ core' = o.core /\ ledger' = Driven(owing, o.drive)
          /\ cleanup_pending_without_surface' = o.core.force_cleanup_next
          /\ Reply(o.terminals,
               <<Result("profile", req, code, o.drive = "complete",
                        o.core.force_cleanup_next)>>)
    BY <1>4 DEF ApplyProfile
  <2>2. core \in Cores /\ core.config = policy /\ Agrees(core, ledger)
          /\ ledger \in Ledgers
    BY <1>4 DEF SessionOK
  <2>3. Kept([core EXCEPT !.config = next], owing, o)
    BY <1>1, <2>1, <2>2, ChangeProfileKept DEF Valid
  <2>4. /\ o.core \in Cores /\ o.core.config = next /\ o.drive \in Drives
        /\ Driven(owing, o.drive) \in Ledgers
        /\ Agrees(o.core, Driven(owing, o.drive))
        /\ o.terminals \in {0, 1}
        /\ Pending(core) = o.terminals + Pending(o.core)
        /\ o.core.force_cleanup_next \in BOOLEAN
    BY <2>2, <2>3 DEF Kept, Cores, Pending
  <2>5. SessionOK'
    BY <1>1, <1>2, <2>1, <2>4, SurfaceKeeps DEF SessionOK
  <2> PICK m : m = Result("profile", req, code, o.drive = "complete",
                          o.core.force_cleanup_next)
    OBVIOUS
  <2>6. /\ m \in ControlAnswers /\ m.type = "profile" /\ m.result = code
        /\ m.cleanup_performed = (o.drive = "complete")
        /\ m.cleanup_pending = o.core.force_cleanup_next
    BY <1>1, <2>4 DEF Result, ControlAnswers, Streams
  <2>7. Replies(0, <<m>>)
    <3>1. Waiting(core) + 0 = o.terminals + Waiting(core')
      BY <2>1, <2>2, <2>4, WaitingInCore DEF Pending
    <3> QED BY <2>1, <2>4, <3>1 DEF Replies
  <2>8. /\ o.drive = "complete" => ~ledger'.owed /\ ledger'.partials = 0
        /\ ~o.core.force_cleanup_next => ~ledger'.owed
    BY <1>3, <2>1, <2>4, DrivenType DEF Agrees
  <2> QED BY <1>1, <1>2, <2>5, <2>6, <2>7, <2>8 DEF Answers
<1>5. CASE core = NoCore
  <2>1. /\ UNCHANGED core /\ ledger' = owing
        /\ cleanup_pending_without_surface' =
             (cleanup_pending_without_surface \/ next # policy)
        /\ Reply(0, <<Result("profile", req, code, FALSE,
                             cleanup_pending_without_surface')>>)
    BY <1>5 DEF ApplyProfile, ArmedWithout
  <2>2. /\ ledger'.owed => cleanup_pending_without_surface'
        /\ cleanup_pending_without_surface' \in BOOLEAN
        /\ ledger'.partials = ledger.partials
    BY <1>5, <2>1 DEF SessionOK, Ledgers, Owing
  <2>3. SessionOK'
    BY <1>1, <1>2, <1>3, <1>5, <2>1, <2>2 DEF SessionOK
  <2> PICK m : m = Result("profile", req, code, FALSE,
                          cleanup_pending_without_surface')
    OBVIOUS
  <2>4. /\ m \in ControlAnswers /\ m.type = "profile" /\ m.result = code
        /\ ~m.cleanup_performed
        /\ m.cleanup_pending = cleanup_pending_without_surface'
    BY <1>1, <2>2 DEF Result, ControlAnswers, Streams
  <2>5. Replies(0, <<m>>)
    BY <1>5, <2>1, WaitingInCore DEF Replies
  <2> QED BY <1>1, <1>2, <2>2, <2>3, <2>4, <2>5 DEF Answers
<1> QED BY <1>4, <1>5

(* An optional field is given or keeps its old value (Given).               *)
LEMMA GivenType ==
  ASSUME NEW S, NEW option \in SUBSET S, NEW default \in S
  PROVE  /\ Given(option, default) \in S
         /\ option # {} => Given(option, default) \in option
         /\ option = {} => Given(option, default) = default
  BY DEF Given

(* Updated parameters leave a valid configuration of the same profile       *)
(* (UpdatedPolicy, update_refresh_config).                                  *)
LEMMA UpdatedValid ==
  ASSUME NEW req \in EpaperRefreshRequest, ValidUpdate(req), Valid(policy)
  PROVE  /\ Valid(UpdatedPolicy(req))
         /\ UpdatedPolicy(req).profile = policy.profile
         /\ UpdatedPolicy(req).cleanup_after_updates =
              Given(req.cleanup_after_updates, policy.cleanup_after_updates)
<1> DEFINE u == UpdatedPolicy(req)
           g1 == Given(req.partial_refresh_enabled, policy.partial_refresh_enabled)
           g2 == Given(req.cleanup_after_updates, policy.cleanup_after_updates)
           g3 == Given(req.large_update_threshold_percent,
                       policy.large_update_threshold_percent)
           g4 == Given(req.static_cleanup_after_fast_updates,
                       policy.static_cleanup_after_fast_updates)
<1>1. u = [policy EXCEPT !.partial_refresh_enabled = g1,
                         !.cleanup_after_updates = g2,
                         !.large_update_threshold_percent = g3,
                         !.static_cleanup_after_fast_updates = g4]
  BY DEF UpdatedPolicy
<1>2. g1 \in BOOLEAN /\ g2 \in Nat /\ g4 \in Nat
  BY GivenType DEF EpaperRefreshRequest, Valid, Policies
<1>3. g3 \in Nat /\ g3 <= 100
  <2>1. /\ g3 \in Nat
        /\ req.large_update_threshold_percent # {} =>
             g3 \in req.large_update_threshold_percent
        /\ req.large_update_threshold_percent = {} =>
             g3 = policy.large_update_threshold_percent
    BY GivenType DEF EpaperRefreshRequest, Valid, Policies
  <2> QED BY <2>1 DEF ValidUpdate, Valid, ValidConfig
<1> HIDE DEF u, g1, g2, g3, g4
<1>4. /\ u \in Policies /\ u.profile = policy.profile
      /\ u.cleanup_after_updates = g2 /\ u.large_update_threshold_percent = g3
      /\ u.latest_text_waveform = policy.latest_text_waveform
      /\ u.latest_photo_waveform = policy.latest_photo_waveform
      /\ u.latest_video_waveform = policy.latest_video_waveform
      /\ u.settled_waveform = policy.settled_waveform
  BY <1>1, <1>2, <1>3 DEF Valid, Policies
<1>5. ValidConfig(u)
  BY <1>3, <1>4 DEF Valid, ValidConfig
<1> QED BY <1>4, <1>5 DEF Valid, u, g2

(* A policy installed in the open surface, with no other change             *)
(* (update_refresh_config, toggle_partial_refresh).                         *)
LEMMA ReconfiguredKept ==
  ASSUME NEW c \in Cores, NEW l, Agrees(c, l), NEW cfg \in Policies
  PROVE  /\ Reconfigured(c, cfg) \in Cores /\ Reconfigured(c, cfg).config = cfg
         /\ Agrees(Reconfigured(c, cfg), l)
         /\ Pending(Reconfigured(c, cfg)) = Pending(c)
<1> DEFINE d == [c EXCEPT !.config = cfg]
<1>1. Reconfigured(c, cfg) = d
  BY CoreIsNotNone DEF Reconfigured
<1>2. /\ d \in Cores /\ d.config = cfg /\ d.debt = c.debt /\ d.pending = c.pending
      /\ d.force_cleanup_next = c.force_cleanup_next
  BY DEF Cores
<1> QED BY <1>1, <1>2 DEF Agrees, Pending

(* UPDATE (ApplyUpdate).                                                    *)
LEMMA ApplyUpdateKeeps ==
  ASSUME SessionOK, NEW req \in EpaperRefreshRequest, ValidUpdate(req),
         ApplyUpdate(req)
  PROVE  /\ SessionOK' /\ policy' = UpdatedPolicy(req)
         /\ \E m : Answers("refresh", m) /\ m.result \in {"Applied", "Unchanged"}
<1> PICK next : next = UpdatedPolicy(req)
  OBVIOUS
<1> PICK code : code = IF next # policy THEN "Applied" ELSE "Unchanged"
  OBVIOUS
<1> PICK m : m = Result("refresh", req, code, FALSE, current_cleanup_pending)
  OBVIOUS
<1>1. Valid(next) /\ req.id \in Nat
  BY UpdatedValid DEF SessionOK, EpaperRefreshRequest
<1>2. /\ policy' = next /\ core' = Reconfigured(core, next) /\ Reply(0, <<m>>)
      /\ UNCHANGED <<last_custom_profile, cleanup_pending_without_surface,
                     refresh_debt_without_surface, ledger>>
  BY DEF ApplyUpdate
<1>3. SessionOK' /\ Waiting(core') = Waiting(core) /\ Waiting(core) \in {0, 1}
  <2>1. CASE core = NoCore
    <3>1. core' = NoCore
      BY <1>2, <2>1 DEF Reconfigured
    <3> QED BY <1>1, <1>2, <2>1, <3>1, WaitingInCore DEF SessionOK
  <2>2. CASE core \in Cores
    <3>1. /\ core' \in Cores /\ core'.config = next /\ Agrees(core', ledger)
          /\ Pending(core') = Pending(core)
      <4>1. Agrees(core, ledger) /\ next \in Policies
        BY <1>1, <2>2, CoreIsNotNone DEF SessionOK, Valid
      <4> QED BY <1>2, <2>2, <4>1, ReconfiguredKept
    <3>2. SessionOK'
      BY <1>1, <1>2, <3>1, SurfaceKeeps DEF SessionOK, Valid
    <3> QED BY <2>2, <3>1, <3>2, WaitingInCore DEF Pending
  <2> QED BY <2>1, <2>2 DEF SessionOK
<1>4. /\ m \in ControlAnswers /\ m.type = "refresh" /\ m.result = code
      /\ ~m.cleanup_performed /\ m.cleanup_pending = current_cleanup_pending
  BY <1>1, SessionPromises DEF Result, ControlAnswers, Codes, Streams
<1>5. Replies(0, <<m>>)
  BY <1>2, <1>3 DEF Replies
<1>6. ~m.cleanup_pending => ~ledger'.owed
  BY <1>2, <1>4, SessionPromises
<1> QED BY <1>2, <1>3, <1>4, <1>5, <1>6 DEF Answers

(* A cleanup of the open surface, with the answer it is given               *)
(* (Session::request_cleanup).                                              *)
LEMMA CleanSurfaceKeeps ==
  ASSUME SessionOK, NEW answer, CleanSurface(answer)
  PROVE  /\ SessionOK' /\ UNCHANGED policy
         /\ \E drive \in Drives, pending \in BOOLEAN :
              /\ Replies(0, answer[drive][pending])
              /\ drive = "complete" => ~ledger'.owed /\ ledger'.partials = 0
              /\ ~pending => ~ledger'.owed
<1>1. PICK o \in request_cleanup(core) :
        /\ core' = o.core /\ ledger' = Driven(Owing(ledger), o.drive)
        /\ refresh_debt_without_surface' = o.core.debt
        /\ cleanup_pending_without_surface' = o.core.force_cleanup_next
        /\ Reply(o.terminals, answer[o.drive][o.core.force_cleanup_next])
  BY DEF CleanSurface
<1>2. /\ core \in Cores /\ core.config = policy
      /\ core.debt.since_cleanup = ledger.partials
  BY DEF CleanSurface, SessionOK, Agrees
<1>3. Owing(ledger) \in Ledgers /\ Owing(ledger).partials = ledger.partials
  BY DEF SessionOK, Owing, Ledgers
<1>4. Kept(core, Owing(ledger), o)
  BY <1>1, <1>2, <1>3, RequestCleanupKept
<1>5. /\ o.core.force_cleanup_next \in BOOLEAN /\ o.core.debt \in RefreshDebt
      /\ o.core \in Cores
  BY <1>4 DEF Kept, Cores
<1>6. UNCHANGED <<policy, last_custom_profile>>
  BY DEF CleanSurface
<1>7. SessionOK'
  BY <1>1, <1>2, <1>4, <1>5, <1>6, SurfaceKeeps DEF Kept, SessionOK
<1>8. Replies(0, answer[o.drive][o.core.force_cleanup_next])
  <2>1. Waiting(core) + 0 = o.terminals + Waiting(core')
    BY <1>1, <1>2, <1>4, WaitingInCore DEF Kept, Pending
  <2> QED BY <1>1, <1>4, <2>1 DEF Replies, Kept
<1>9. /\ o.drive = "complete" => ~ledger'.owed /\ ledger'.partials = 0
      /\ ~o.core.force_cleanup_next => ~ledger'.owed
  BY <1>1, <1>3, <1>4, DrivenType DEF Kept, Agrees
<1> QED BY <1>4, <1>5, <1>6, <1>7, <1>8, <1>9 DEF Kept

(* A cleanup without a surface is armed for the next one (ArmCleanup).      *)
LEMMA ArmCleanupKeeps ==
  ASSUME SessionOK, NEW answer, ArmCleanup(answer)
  PROVE  /\ SessionOK' /\ UNCHANGED policy /\ Replies(0, answer)
<1>1. /\ UNCHANGED <<core, refresh_debt_without_surface, policy,
                     last_custom_profile>>
      /\ core = NoCore /\ cleanup_pending_without_surface'
      /\ cleanup_pending_without_surface' \in BOOLEAN
      /\ ledger' = Owing(ledger) /\ Reply(0, answer)
  BY DEF ArmCleanup
<1>2. Owing(ledger) \in Ledgers /\ Owing(ledger).partials = ledger.partials
  BY DEF SessionOK, Owing, Ledgers
<1>3. SessionOK'
  BY <1>1, <1>2 DEF SessionOK
<1>4. Replies(0, answer)
  BY <1>1, WaitingInCore DEF Replies
<1> QED BY <1>1, <1>3, <1>4

\* An answer that does what was asked, as far as the panel lets it.
Serves(m) == m.result \notin {"Rejected", "Unsupported"}

(* A profile request has one true answer, and one that serves it if the     *)
(* session admits it and finds nothing wrong with it                        *)
(* (handle_epaper_profile).                                                 *)
LEMMA ProfileKeeps ==
  ASSUME SessionOK, NEW req \in EpaperProfileRequest, handle_epaper_profile(req)
  PROVE  /\ SessionOK'
         /\ policy' = policy \/ (/\ ProfileVerdict(req) = "Set"
                                 /\ policy' = RequestedPolicy(req))
         /\ \E m : /\ Answers("profile", m)
                   /\ /\ "EpaperProfileControl" \in gates
                      /\ FreshId("profile", req)
                      /\ ProfileVerdict(req) \in {"Set", "Unchanged"}
                      => Serves(m)
<1>1. req.id \in Nat /\ "profile" \in Streams
  BY DEF EpaperProfileRequest, Streams
<1>2. CASE Gate("profile", "EpaperProfileControl", req)
  <2>1. ~("EpaperProfileControl" \in gates /\ FreshId("profile", req))
    BY <1>2 DEF Gate
  <2>2. \E code \in Codes : Refuse("profile", req, code)
    BY <1>2 DEF Gate, Codes
  <2>3. PICK code \in Codes : Refuse("profile", req, code)
    BY <2>2
  <2>4. SessionOK' /\ UNCHANGED policy /\ \E m : Answers("profile", m)
    BY <1>1, <2>3, RefuseKeeps
  <2> QED BY <2>1, <2>4
<1>3. CASE ProfileVerdict(req) = "Set" /\ ApplyProfile(req)
  <2>1. /\ SessionOK' /\ policy' = RequestedPolicy(req)
        /\ \E m : Answers("profile", m) /\ m.result \in {"Applied", "Unchanged"}
    BY <1>3, ApplyProfileKeeps
  <2> QED BY <1>3, <2>1 DEF Serves
<1>4. CASE /\ ProfileVerdict(req) # "Set"
           /\ Refuse("profile", req, ProfileVerdict(req))
  <2>1. ProfileVerdict(req) \in {"Unchanged", "Rejected", "Unsupported"}
    BY <1>4 DEF ProfileVerdict
  <2>2. PICK code \in Codes :
          code = ProfileVerdict(req) /\ Refuse("profile", req, code)
    BY <1>4, <2>1 DEF Codes
  <2>3. /\ SessionOK' /\ UNCHANGED policy
        /\ \E m : Answers("profile", m) /\ m.result = code
    BY <1>1, <2>2, RefuseKeeps
  <2> QED BY <2>1, <2>2, <2>3 DEF Serves
<1> QED BY <1>2, <1>3, <1>4 DEF handle_epaper_profile

\* A refresh request in which nothing is wrong.
WellFormed(req) ==
  \/ req.operation \in {"Query", "Cleanup"} /\ ~has_parameters(req)
  \/ req.operation = "Update" /\ has_parameters(req) /\ ValidUpdate(req)

(* A refresh request has one true answer, and one that serves it if the     *)
(* session admits it and finds nothing wrong with it                        *)
(* (handle_epaper_refresh).                                                 *)
LEMMA RefreshKeeps ==
  ASSUME SessionOK, NEW req \in EpaperRefreshRequest, handle_epaper_refresh(req)
  PROVE  /\ SessionOK'
         /\ policy' = policy \/ (/\ ValidUpdate(req)
                                 /\ policy' = UpdatedPolicy(req))
         /\ \E m : /\ Answers("refresh", m)
                   /\ /\ "EpaperRefreshControl" \in gates
                      /\ FreshId("refresh", req)
                      /\ WellFormed(req)
                      => Serves(m)
<1> DEFINE code(drive) == IF drive = "failed" THEN "Failed" ELSE "Applied"
           answer == [drive \in Drives |-> [pending \in BOOLEAN |->
             <<Result("refresh", req, code(drive), drive = "complete", pending)>>]]
<1>1. req.id \in Nat /\ "refresh" \in Streams /\ {"Unchanged", "Rejected"} \subseteq Codes
  BY DEF EpaperRefreshRequest, Streams, Codes
<1>2. CASE Gate("refresh", "EpaperRefreshControl", req)
  <2>1. ~("EpaperRefreshControl" \in gates /\ FreshId("refresh", req))
    BY <1>2 DEF Gate
  <2>2. PICK c \in Codes : Refuse("refresh", req, c)
    BY <1>2 DEF Gate, Codes
  <2>3. SessionOK' /\ UNCHANGED policy /\ \E m : Answers("refresh", m)
    BY <1>1, <2>2, RefuseKeeps
  <2> QED BY <2>1, <2>3
<1>3. CASE Refuse("refresh", req, "Unchanged")
  <2>1. /\ SessionOK' /\ UNCHANGED policy
        /\ \E m : Answers("refresh", m) /\ m.result = "Unchanged"
    BY <1>1, <1>3, RefuseKeeps
  <2> QED BY <2>1 DEF Serves
<1>4. CASE ValidUpdate(req) /\ ApplyUpdate(req)
  <2>1. /\ SessionOK' /\ policy' = UpdatedPolicy(req)
        /\ \E m : Answers("refresh", m) /\ m.result \in {"Applied", "Unchanged"}
    BY <1>4, ApplyUpdateKeeps
  <2> QED BY <1>4, <2>1 DEF Serves
<1>5. CASE CleanSurface(answer)
  <2> HIDE DEF answer
  <2>1. /\ SessionOK' /\ UNCHANGED policy
        /\ \E drive \in Drives, pending \in BOOLEAN :
             /\ Replies(0, answer[drive][pending])
             /\ drive = "complete" => ~ledger'.owed /\ ledger'.partials = 0
             /\ ~pending => ~ledger'.owed
    BY <1>5, CleanSurfaceKeeps
  <2>2. PICK drive \in Drives, pending \in BOOLEAN :
             /\ Replies(0, answer[drive][pending])
             /\ drive = "complete" => ~ledger'.owed /\ ledger'.partials = 0
             /\ ~pending => ~ledger'.owed
    BY <2>1
  <2> PICK m : m = Result("refresh", req, code(drive), drive = "complete", pending)
    OBVIOUS
  <2>3. answer[drive][pending] = <<m>>
    BY DEF answer
  <2>4. /\ m \in ControlAnswers /\ m.type = "refresh"
        /\ m.result \in {"Failed", "Applied"}
        /\ m.cleanup_performed = (drive = "complete")
        /\ m.cleanup_pending = pending
    BY <1>1 DEF Result, ControlAnswers, Codes, Streams
  <2> QED BY <2>1, <2>2, <2>3, <2>4 DEF Answers, Serves
<1>6. CASE ArmCleanup(answer["none"][TRUE])
  <2> PICK m : m = Result("refresh", req, code("none"), "none" = "complete", TRUE)
    OBVIOUS
  <2>1. answer["none"][TRUE] = <<m>>
    BY DEF Drives
  <2>2. /\ m \in ControlAnswers /\ m.type = "refresh" /\ m.result = "Applied"
        /\ ~m.cleanup_performed /\ m.cleanup_pending
    BY <1>1 DEF Result, ControlAnswers, Codes, Streams
  <2>3. SessionOK' /\ UNCHANGED policy /\ Replies(0, <<m>>)
    BY <1>6, <2>1, ArmCleanupKeeps
  <2> QED BY <2>2, <2>3 DEF Answers, Serves
<1>7. CASE ~WellFormed(req) /\ Refuse("refresh", req, "Rejected")
  <2>1. SessionOK' /\ UNCHANGED policy /\ \E m : Answers("refresh", m)
    BY <1>1, <1>7, RefuseKeeps
  <2> QED BY <1>7, <2>1
<1> QED
  BY <1>2, <1>3, <1>4, <1>5, <1>6, <1>7 DEF handle_epaper_refresh, WellFormed

--------------------------------------------------------------------------------
(* Surfaces, frames, the poll and the menu.                                 *)

(* A new surface takes over what is pending and counted (open_surface).     *)
LEMMA OpenSurfaceKeeps ==
  ASSUME SessionOK, open_surface
  PROVE  /\ SessionOK' /\ UNCHANGED policy
         /\ Replies(0, <<[type |-> "SurfaceReady"]>>)
<1> PICK d : d = DisplayCore(policy, CarryCleanup, CarryDebt)
  OBVIOUS
<1>1. /\ CarryCleanup \in BOOLEAN /\ CarryDebt \in RefreshDebt
      /\ ledger.owed => CarryCleanup
      /\ CarryDebt.since_cleanup = ledger.partials
  BY SessionPromises
<1>2. /\ d \in Cores /\ d.config = policy /\ ~d.pending /\ Agrees(d, ledger)
  BY <1>1 DEF SessionOK, Valid, DisplayCore, Cores, Agrees
<1>3. /\ core' = d /\ UNCHANGED <<policy, last_custom_profile, ledger>>
      /\ Reply(Waiting(core), <<[type |-> "SurfaceReady"]>>)
      /\ cleanup_pending_without_surface' = CarryCleanup
      /\ refresh_debt_without_surface' = CarryDebt
  BY DEF open_surface, Cancelled
<1>4. SessionOK'
  BY <1>1, <1>2, <1>3, SurfaceKeeps DEF SessionOK
<1>5. Waiting(core') = 0 /\ Waiting(core) \in {0, 1}
  BY <1>2, <1>3, WaitingInCore DEF Pending, Waiting
<1> QED BY <1>3, <1>4, <1>5 DEF Replies

(* A closed surface leaves what is pending and counted (close_surface).     *)
LEMMA CloseSurfaceKeeps ==
  ASSUME SessionOK, close_surface
  PROVE  SessionOK' /\ UNCHANGED policy /\ Replies(0, <<>>)
<1>1. /\ core' = NoCore /\ UNCHANGED <<policy, last_custom_profile, ledger>>
      /\ Reply(Waiting(core), <<>>)
      /\ cleanup_pending_without_surface' = current_cleanup_pending
      /\ refresh_debt_without_surface' = CarryDebt
  BY DEF close_surface, Cancelled, current_cleanup_pending
<1>2. SessionOK'
  BY <1>1, SessionPromises DEF SessionOK
<1>3. Waiting(core') = 0 /\ Waiting(core) \in {0, 1}
  BY <1>1, WaitingInCore DEF Waiting
<1> QED BY <1>1, <1>2, <1>3 DEF Replies

(* A frame waits in place of another one, or is rejected (accept_frame).    *)
LEMMA AcceptFrameKeeps ==
  ASSUME SessionOK, accept_frame
  PROVE  SessionOK' /\ UNCHANGED policy /\ Replies(1, <<>>)
<1>1. UNCHANGED <<policy, last_custom_profile, cleanup_pending_without_surface,
                  refresh_debt_without_surface, ledger>>
  BY DEF accept_frame
<1>2. Waiting(core) \in {0, 1}
  BY DEF Waiting
<1>3. CASE /\ core # NoCore /\ core' = [core EXCEPT !.pending = TRUE]
           /\ Reply(Cancelled, <<>>)
  <2>1. core \in Cores /\ core.config = policy /\ Agrees(core, ledger)
    BY <1>3 DEF SessionOK
  <2>2. /\ core' \in Cores /\ core'.config = policy /\ core'.pending
        /\ Agrees(core', ledger)
    BY <1>3, <2>1 DEF Cores, Agrees
  <2>3. SessionOK'
    BY <1>1, <2>2, SurfaceKeeps DEF SessionOK
  <2>4. Waiting(core') = 1
    BY <2>2, WaitingInCore DEF Pending
  <2> QED BY <1>1, <1>2, <1>3, <2>3, <2>4 DEF Replies, Cancelled
<1>4. CASE Reply(1, <<>>) /\ UNCHANGED core
  <2>1. SessionOK'
    BY <1>1, <1>4 DEF SessionOK
  <2> QED BY <1>1, <1>2, <1>4, <2>1 DEF Replies
<1> QED BY <1>3, <1>4 DEF accept_frame

(* A due frame, an earned idle cleanup or just the bookkeeping (poll).      *)
LEMMA PollKeeps ==
  ASSUME SessionOK, poll
  PROVE  SessionOK' /\ UNCHANGED policy /\ Replies(0, <<>>)
<1>1. PICK o \in IF core.pending THEN tick_inner(core) \cup {Outcome(core, "none", 0)}
                 ELSE {Outcome(core, "none", 0)} \cup
                        (IF core.presented THEN request_cleanup(core) ELSE {}) :
        /\ core' = o.core /\ ledger' = Driven(ledger, o.drive)
        /\ cleanup_pending_without_surface' = o.core.force_cleanup_next
        /\ refresh_debt_without_surface' = o.core.debt
        /\ Reply(o.terminals, <<>>)
  BY DEF poll, Synced
<1>2. /\ core \in Cores /\ core.config = policy /\ Agrees(core, ledger)
      /\ ledger \in Ledgers /\ UNCHANGED <<policy, last_custom_profile>>
  BY DEF poll, SessionOK
<1>3. Kept(core, ledger, o)
  <2>1. CASE o = Outcome(core, "none", 0)
    BY <1>2, <2>1, IdleKept DEF Pending
  <2>2. CASE core.pending /\ o \in tick_inner(core)
    BY <1>2, <2>2, TickKept
  <2>3. CASE o \in request_cleanup(core)
    BY <1>2, <2>3, RequestCleanupKept DEF Agrees
  <2> QED BY <1>1, <2>1, <2>2, <2>3
<1>4. o.core.force_cleanup_next \in BOOLEAN /\ o.core.debt \in RefreshDebt
  BY <1>3 DEF Kept, Cores
<1>5. SessionOK'
  BY <1>1, <1>2, <1>3, <1>4, SurfaceKeeps DEF Kept, SessionOK
<1>6. Waiting(core) + 0 = o.terminals + Waiting(core')
  BY <1>1, <1>2, <1>3, WaitingInCore DEF Kept, Pending
<1> QED BY <1>1, <1>2, <1>3, <1>5, <1>6 DEF Replies, Kept

(* The waiting frame and a plane are shown on core c (overlay_update,       *)
(* render_local_menu).                                                      *)
LEMMA PlaneKept ==
  ASSUME NEW c \in Cores, NEW l \in Ledgers, Agrees(c, l),
         NEW f \in FlushPending(c), NEW o \in PresentPlane(f.core)
  PROVE  /\ o.core \in Cores /\ o.core.config = c.config
         /\ Driven(Driven(l, f.drive), o.drive) \in Ledgers
         /\ Agrees(o.core, Driven(Driven(l, f.drive), o.drive))
         /\ f.terminals \in {0, 1}
         /\ Pending(c) = f.terminals + Pending(o.core)
         /\ o.core.force_cleanup_next \in BOOLEAN /\ o.core.debt \in RefreshDebt
<1>1. Kept(c, l, f)
  BY FlushPendingKept
<1>2. /\ f.core \in Cores /\ Driven(l, f.drive) \in Ledgers
      /\ Agrees(f.core, Driven(l, f.drive)) /\ f.terminals \in {0, 1}
  BY <1>1 DEF Kept
<1>3. Kept(f.core, Driven(l, f.drive), o) /\ o.terminals = 0
  BY <1>2, PresentPlaneKept
<1>4. o.core.force_cleanup_next \in BOOLEAN /\ o.core.debt \in RefreshDebt
  BY <1>3 DEF Kept, Cores
<1> QED BY <1>1, <1>2, <1>3, <1>4 DEF Kept, Pending

(* A remote overlay is rejected or shown (overlay_update).                  *)
LEMMA OverlayKeeps ==
  ASSUME SessionOK, overlay_update
  PROVE  /\ SessionOK' /\ UNCHANGED policy
         /\ Replies(0, <<[type |-> "OverlayResult"]>>)
<1>1. UNCHANGED <<policy, last_custom_profile, cleanup_pending_without_surface,
                  refresh_debt_without_surface>>
  BY DEF overlay_update
<1>2. CASE Reply(0, <<[type |-> "OverlayResult"]>>) /\ UNCHANGED <<core, ledger>>
  <2>1. SessionOK'
    BY <1>1, <1>2 DEF SessionOK
  <2>2. Waiting(core) \in {0, 1}
    BY DEF Waiting
  <2> QED BY <1>1, <1>2, <2>1, <2>2 DEF Replies
<1>3. CASE core # NoCore /\ \E f \in FlushPending(core) :
             \E o \in PresentPlane(f.core) :
               /\ core' = o.core
               /\ ledger' = Driven(Driven(ledger, f.drive), o.drive)
               /\ Reply(f.terminals, <<[type |-> "OverlayResult"]>>)
  <2>1. PICK f \in FlushPending(core) : \E o \in PresentPlane(f.core) :
               /\ core' = o.core
               /\ ledger' = Driven(Driven(ledger, f.drive), o.drive)
               /\ Reply(f.terminals, <<[type |-> "OverlayResult"]>>)
    BY <1>3
  <2>2. PICK o \in PresentPlane(f.core) :
               /\ core' = o.core
               /\ ledger' = Driven(Driven(ledger, f.drive), o.drive)
               /\ Reply(f.terminals, <<[type |-> "OverlayResult"]>>)
    BY <2>1
  <2>3. /\ core \in Cores /\ core.config = policy /\ Agrees(core, ledger)
        /\ ledger \in Ledgers
    BY <1>3 DEF SessionOK
  <2>4. /\ o.core \in Cores /\ o.core.config = core.config
        /\ ledger' \in Ledgers /\ Agrees(o.core, ledger')
        /\ f.terminals \in {0, 1}
        /\ Pending(core) = f.terminals + Pending(o.core)
    BY <2>2, <2>3, PlaneKept
  <2>5. SessionOK'
    BY <1>1, <2>2, <2>3, <2>4, SurfaceKeeps DEF SessionOK
  <2>6. Waiting(core) + 0 = f.terminals + Waiting(core')
    BY <2>2, <2>3, <2>4, WaitingInCore DEF Pending
  <2> QED BY <1>1, <2>2, <2>4, <2>5, <2>6 DEF Replies
<1> QED BY <1>2, <1>3 DEF overlay_update

(* The menu is drawn after an action that left core c, ledger l and n       *)
(* terminals (render_local_menu).                                           *)
LEMMA RenderMenuKeeps ==
  ASSUME SessionOK, core # NoCore, NEW c \in Cores, NEW l \in Ledgers, Agrees(c, l),
         NEW n \in {0, 1}, Waiting(core) = n + Pending(c),
         policy' = c.config, Valid(policy)', UNCHANGED last_custom_profile,
         render_local_menu(c, l, n)
  PROVE  SessionOK' /\ Replies(0, <<>>)
<1>1. PICK f \in FlushPending(c) : \E o \in PresentPlane(f.core) :
        /\ Synced(o) /\ ledger' = Driven(Driven(l, f.drive), o.drive)
        /\ Reply(n + f.terminals, <<>>)
  BY DEF render_local_menu
<1>2. PICK o \in PresentPlane(f.core) :
        /\ Synced(o) /\ ledger' = Driven(Driven(l, f.drive), o.drive)
        /\ Reply(n + f.terminals, <<>>)
  BY <1>1
<1>3. /\ o.core \in Cores /\ o.core.config = c.config
      /\ ledger' \in Ledgers /\ Agrees(o.core, ledger')
      /\ f.terminals \in {0, 1}
      /\ Pending(c) = f.terminals + Pending(o.core)
      /\ o.core.force_cleanup_next \in BOOLEAN /\ o.core.debt \in RefreshDebt
  BY <1>2, PlaneKept
<1>4. SessionOK'
  BY <1>2, <1>3, SurfaceKeeps DEF SessionOK, Synced
<1>5. /\ n + f.terminals \in {0, 1}
      /\ Waiting(core) + 0 = n + f.terminals + Waiting(core')
  BY <1>2, <1>3, WaitingInCore DEF Pending, Waiting, Synced
<1> QED BY <1>2, <1>4, <1>5 DEF Replies

\* The step sends nothing.
Silent == UNCHANGED to_client /\ Waiting(core') = Waiting(core)

(* The menu without a surface (present_fallback).                           *)
LEMMA FallbackKeeps ==
  ASSUME SessionOK, Valid(policy)', UNCHANGED last_custom_profile, present_fallback
  PROVE  SessionOK' /\ Silent
  BY DEF SessionOK, present_fallback, Silent

(* A profile chosen in the menu (change_refresh_profile).                   *)
LEMMA MenuSetProfileKeeps ==
  ASSUME SessionOK, NEW p \in RefreshProfile, MenuSetProfile(p)
  PROVE  /\ SessionOK' /\ (Replies(0, <<>>) \/ Silent)
         /\ policy' \in MenuPolicy(p)
<1>1. PICK next \in MenuPolicy(p) :
        /\ policy' = next
        /\ \/ /\ core # NoCore
              /\ \E o \in change_refresh_profile(core, next) :
                   render_local_menu(o.core,
                     Driven(IF next # core.config THEN Owing(ledger) ELSE ledger,
                            o.drive), o.terminals)
           \/ present_fallback
  BY DEF MenuSetProfile
<1>2. Valid(next) /\ UNCHANGED last_custom_profile
  BY <1>1, SwitchValid DEF MenuPolicy, SessionOK, MenuSetProfile
<1>3. CASE present_fallback
  BY <1>1, <1>2, <1>3, FallbackKeeps DEF Valid
<1>4. CASE core # NoCore
  <2> PICK owing : owing = IF next # core.config THEN Owing(ledger) ELSE ledger
    OBVIOUS
  <2>1. PICK o \in change_refresh_profile(core, next) :
          render_local_menu(o.core, Driven(owing, o.drive), o.terminals)
    BY <1>1, <1>4 DEF present_fallback
  <2>2. /\ core \in Cores /\ core.config = policy /\ Agrees(core, ledger)
        /\ ledger \in Ledgers
    BY <1>4 DEF SessionOK
  <2>3. Kept([core EXCEPT !.config = next], owing, o)
    BY <1>2, <2>1, <2>2, ChangeProfileKept DEF Valid
  <2>4. /\ o.core \in Cores /\ o.core.config = next
        /\ Driven(owing, o.drive) \in Ledgers
        /\ Agrees(o.core, Driven(owing, o.drive))
        /\ o.terminals \in {0, 1}
        /\ Pending(core) = o.terminals + Pending(o.core)
    BY <2>2, <2>3 DEF Kept, Cores, Pending
  <2>5. Waiting(core) = o.terminals + Pending(o.core)
    BY <2>2, <2>4, WaitingInCore
  <2>6. SessionOK' /\ Replies(0, <<>>)
    BY <1>1, <1>2, <1>4, <2>1, <2>4, <2>5, RenderMenuKeeps DEF Valid
  <2> QED BY <1>1, <2>6
<1> QED BY <1>1, <1>3, <1>4

(* Partial refresh switched on or off in the menu                           *)
(* (toggle_partial_refresh).                                                *)
LEMMA ToggleKeeps ==
  ASSUME SessionOK, TogglePartialRefresh
  PROVE  /\ SessionOK' /\ (Replies(0, <<>>) \/ Silent)
         /\ policy' = [policy EXCEPT !.partial_refresh_enabled = ~@]
<1> PICK next : next = [policy EXCEPT !.partial_refresh_enabled = ~@]
  OBVIOUS
<1>1. policy' = next /\ UNCHANGED last_custom_profile
  BY DEF TogglePartialRefresh
<1>2. Valid(next)
  BY DEF SessionOK, Valid, Policies, ValidConfig
<1>3. CASE present_fallback
  BY <1>1, <1>2, <1>3, FallbackKeeps DEF Valid
<1>4. CASE core # NoCore /\ render_local_menu(Reconfigured(core, next), ledger, 0)
  <2> PICK d : d = Reconfigured(core, next)
    OBVIOUS
  <2>1. /\ core \in Cores /\ Agrees(core, ledger) /\ ledger \in Ledgers
    BY <1>4 DEF SessionOK
  <2>2. /\ d \in Cores /\ d.config = next /\ Agrees(d, ledger)
        /\ Pending(d) = Pending(core)
    BY <1>2, <2>1, ReconfiguredKept DEF Valid
  <2>3. Waiting(core) = 0 + Pending(d)
    BY <2>1, <2>2, WaitingInCore DEF Pending
  <2>4. SessionOK' /\ Replies(0, <<>>)
    BY <1>1, <1>2, <1>4, <2>1, <2>2, <2>3, RenderMenuKeeps DEF Valid
  <2> QED BY <1>1, <2>4
<1> QED BY <1>1, <1>3, <1>4 DEF TogglePartialRefresh

(* The menu opens or closes (render_local_menu).                            *)
LEMMA RenderKeeps ==
  ASSUME SessionOK, RenderMenu
  PROVE  SessionOK' /\ UNCHANGED policy /\ Replies(0, <<>>)
<1>1. /\ core \in Cores /\ core # NoCore /\ core.config = policy
      /\ Agrees(core, ledger) /\ ledger \in Ledgers /\ Valid(policy)
      /\ UNCHANGED <<policy, last_custom_profile>>
      /\ render_local_menu(core, ledger, 0)
  BY DEF RenderMenu, SessionOK
<1>2. Waiting(core) = 0 + Pending(core)
  BY <1>1, WaitingInCore DEF Pending
<1> QED BY <1>1, <1>2, RenderMenuKeeps DEF Valid

(* A cleanup the owner asks for (local_cleanup).                            *)
LEMMA LocalCleanupKeeps ==
  ASSUME SessionOK, local_cleanup
  PROVE  SessionOK' /\ UNCHANGED policy /\ Replies(0, <<>>)
<1> DEFINE answer == [drive \in Drives |-> [pending \in BOOLEAN |-> <<>>]]
<1>1. CleanSurface(answer)
  BY DEF local_cleanup
<1>2. \A drive \in Drives, pending \in BOOLEAN : answer[drive][pending] = <<>>
  OBVIOUS
<1> HIDE DEF answer
<1> QED BY <1>1, <1>2, CleanSurfaceKeeps

(* A new session owes nothing (Session::new).                               *)
LEMMA SessionNewKeeps ==
  ASSUME NEW b, Valid(b), SessionNew(b)
  PROVE  SessionOK'
<1>1. NoDebt \in RefreshDebt /\ NoDebt.since_cleanup = 0
  BY CountMaxAssumption DEF NoDebt, RefreshDebt
<1>2. [owed |-> FALSE, partials |-> 0] \in Ledgers
  BY CountMaxAssumption DEF Ledgers
<1> QED BY <1>1, <1>2 DEF SessionNew, SessionOK, Valid

--------------------------------------------------------------------------------
(* Counting the messages of a channel.                                      *)

At(q, T) == {i \in DOMAIN q : q[i] \in T}

(* There are finitely many messages, one after a send that is counted.      *)
LEMMA CountAppend ==
  ASSUME NEW S, NEW q \in Seq(S), NEW x \in S, NEW T
  PROVE  /\ IsFiniteSet(At(q, T)) /\ Cardinality(At(q, T)) \in Nat
         /\ Cardinality(At(Append(q, x), T)) =
              Cardinality(At(q, T)) + IF x \in T THEN 1 ELSE 0
<1>1. Len(q) \in Nat /\ DOMAIN q = 1..Len(q)
  BY LenProperties
<1>2. IsFiniteSet(1..Len(q)) /\ At(q, T) \in SUBSET (1..Len(q))
  BY <1>1, FS_Interval DEF At
<1>3. IsFiniteSet(At(q, T)) /\ Cardinality(At(q, T)) \in Nat
  BY <1>2, FS_Subset, FS_CardinalityType
<1>4. /\ DOMAIN Append(q, x) = 1..(Len(q) + 1)
      /\ \A i \in 1..Len(q) : Append(q, x)[i] = q[i]
      /\ Append(q, x)[Len(q) + 1] = x
  BY <1>1, AppendProperties, LenProperties
<1>5. CASE x \in T
  <2>1. At(Append(q, x), T) = At(q, T) \cup {Len(q) + 1}
    BY <1>1, <1>4, <1>5 DEF At
  <2>2. Len(q) + 1 \notin At(q, T)
    BY <1>1, <1>2
  <2> QED BY <1>3, <1>5, <2>1, <2>2, FS_AddElement
<1>6. CASE x \notin T
  <2>1. At(Append(q, x), T) = At(q, T)
    BY <1>1, <1>4, <1>6 DEF At
  <2> QED BY <1>3, <1>6, <2>1
<1> QED BY <1>3, <1>5, <1>6

(* One less after a receipt that is counted.                                *)
LEMMA CountTail ==
  ASSUME NEW S, NEW q \in Seq(S), q # <<>>, NEW T
  PROVE  Cardinality(At(Tail(q), T)) =
           Cardinality(At(q, T)) - IF Head(q) \in T THEN 1 ELSE 0
<1> DEFINE A == At(Tail(q), T)
           B == At(q, T) \ {1}
           f == [i \in A |-> i + 1]
<1>1. /\ Len(q) \in Nat \ {0} /\ DOMAIN q = 1..Len(q) /\ Head(q) = q[1]
      /\ DOMAIN Tail(q) = 1..(Len(q) - 1)
      /\ \A i \in 1..(Len(q) - 1) : Tail(q)[i] = q[i + 1]
  BY LenProperties, HeadTailProperties
<1>2. IsFiniteSet(At(q, T)) /\ Cardinality(At(q, T)) \in Nat
  BY <1>1, CountAppend
<1>3. /\ IsFiniteSet(B)
      /\ Cardinality(B) = Cardinality(At(q, T)) - IF 1 \in At(q, T) THEN 1 ELSE 0
  BY <1>2, FS_RemoveElement
<1>4. 1 \in At(q, T) <=> Head(q) \in T
  BY <1>1 DEF At
<1>5. f \in Bijection(A, B)
  <2>1. f \in [A -> B] /\ \A i, j \in A : f[i] = f[j] => i = j
    BY <1>1 DEF At
  <2>2. \A j \in B : j - 1 \in A /\ f[j - 1] = j
    BY <1>1 DEF At
  <2>3. \A j \in B : \E i \in A : f[i] = j
    BY <2>2
  <2> QED BY <2>1, <2>3, Fun_IsBij
<1>6. IsFiniteSet(A)
  <2>1. Tail(q) \in Seq(S)
    BY HeadTailProperties
  <2>2. q[1] \in S
    BY <1>1, LenProperties
  <2> QED BY <2>1, <2>2, CountAppend
<1>7. Cardinality(A) = Cardinality(B)
  <2>1. ExistsBijection(A, B)
    BY <1>5 DEF ExistsBijection
  <2> QED BY <1>6, <2>1, FS_Bijection
<1> QED BY <1>3, <1>4, <1>7

(* A channel in which nothing is counted holds nothing of the kind, and one *)
(* that holds something counts it.                                          *)
LEMMA CountNone ==
  ASSUME NEW S, NEW q \in Seq(S), NEW T
  PROVE  /\ IsFiniteSet(At(q, T)) /\ Cardinality(At(q, T)) \in Nat
         /\ Cardinality(At(q, T)) = 0 <=> At(q, T) = {}
         /\ Cardinality(At(q, T)) <= 1 =>
              \A i, j \in At(q, T) : i = j
<1>1. Len(q) \in Nat /\ DOMAIN q = 1..Len(q)
  BY LenProperties
<1>2. IsFiniteSet(1..Len(q)) /\ At(q, T) \in SUBSET (1..Len(q))
  BY <1>1, FS_Interval DEF At
<1>3. IsFiniteSet(At(q, T)) /\ Cardinality(At(q, T)) \in Nat
  BY <1>2, FS_Subset, FS_CardinalityType
<1>4. Cardinality(At(q, T)) = 0 <=> At(q, T) = {}
  BY <1>3, FS_EmptySet
<1>5. Cardinality(At(q, T)) = 1 => \E x : At(q, T) = {x}
  BY <1>3, FS_Singleton
<1> QED BY <1>3, <1>4, <1>5

--------------------------------------------------------------------------------
(* The inductive invariant.                                                 *)

\* What producers send and what the receiver answers.
Messages ==
  [type : {"frame", "surface", "overlay", "close"}]
    \cup [type : {"profile"}, id : 0..MaxRequests, body : ProfileRequests]
    \cup [type : {"refresh"}, id : 0..MaxRequests, body : RefreshRequests]

Outgoing ==
  [type : {"FrameResult", "SurfaceReady", "OverlayResult"}] \cup ControlAnswers

\* The messages and the answers of one kind.
OfType(k) == {m \in Messages : m.type = k}
OfKind(k) == {m \in Outgoing : Kind(m) = k}

Channels ==
  /\ to_receiver \in Seq(Messages) /\ to_client \in Seq(Outgoing)
  /\ unanswered \in [Kinds -> Nat]
  /\ call \in Kinds \cup {"none"}
  /\ next_request_id \in [Streams -> Nat \ {0}]
  /\ last_request_id \in [Streams -> 0..MaxRequests]

\* The second part of OneAnswerEach.
Balance ==
  \A k \in Kinds :
    unanswered[k] = Cardinality(Asked(k)) + Cardinality(Answered(k))
                      + IF k = "frame" THEN Waiting(core) ELSE 0

(* What is asked and answered is what the channels hold of a kind.          *)
LEMMA AskedAnswered ==
  ASSUME Channels, NEW k
  PROVE  Asked(k) = At(to_receiver, OfType(k)) /\ Answered(k) = At(to_client, OfKind(k))
<1>1. /\ \A i \in DOMAIN to_receiver : to_receiver[i] \in Messages
      /\ \A i \in DOMAIN to_client : to_client[i] \in Outgoing
  BY LenProperties DEF Channels
<1> QED BY <1>1 DEF Asked, Answered, At, OfType, OfKind

(* An answer sent is counted with its kind.                                 *)
LEMMA CountAnswer ==
  ASSUME NEW q \in Seq(Outgoing), NEW m \in Outgoing, NEW k
  PROVE  /\ Cardinality(At(q, OfKind(k))) \in Nat
         /\ Cardinality(At(Append(q, m), OfKind(k))) =
              Cardinality(At(q, OfKind(k))) + IF Kind(m) = k THEN 1 ELSE 0
<1>1. m \in OfKind(k) <=> Kind(m) = k
  BY DEF OfKind
<1>2. /\ Cardinality(At(q, OfKind(k))) \in Nat
      /\ Cardinality(At(Append(q, m), OfKind(k))) =
           Cardinality(At(q, OfKind(k))) + IF m \in OfKind(k) THEN 1 ELSE 0
  BY CountAppend
<1> QED BY <1>1, <1>2

(* A reply of at most one terminal is one or two sends (Reply).             *)
LEMMA ReplyAppends ==
  ASSUME NEW q \in Seq(Outgoing), NEW n \in {0, 1}, NEW t,
         t = IF n = 1 THEN Append(q, FrameResult) ELSE q
  PROVE  /\ FrameResult \in Outgoing /\ t \in Seq(Outgoing)
         /\ q \o [i \in 1..n |-> FrameResult] \o <<>> = t
         /\ \A m \in Outgoing :
              q \o [i \in 1..n |-> FrameResult] \o <<m>> = Append(t, m)
<1>1. FrameResult \in Outgoing
  BY DEF FrameResult, Outgoing
<1>2. t \in Seq(Outgoing)
  BY <1>1, AppendProperties
<1>3. q \o [i \in 1..n |-> FrameResult] = t
  <2>1. CASE n = 0
    <3>1. [i \in 1..n |-> FrameResult] = <<>>
      BY <2>1
    <3> QED BY <2>1, <3>1, ConcatEmptySeq
  <2>2. CASE n = 1
    <3>1. [i \in 1..n |-> FrameResult] = <<FrameResult>>
      BY <2>2
    <3> QED BY <1>1, <2>2, <3>1, AppendIsConcat
  <2> QED BY <2>1, <2>2
<1> QED BY <1>1, <1>2, <1>3, ConcatEmptySeq, AppendIsConcat

(* What a reply adds to the channel, at its end and to the counts.          *)
LEMMA ReplyCounts ==
  ASSUME Channels, NEW n \in {0, 1}, NEW a, Reply(n, a),
         a = <<>> \/ \E m \in Outgoing : a = <<m>>
  PROVE  /\ to_client' \in Seq(Outgoing)
         /\ \A k \in Kinds : Cardinality(Answered(k))' =
              Cardinality(Answered(k)) + (IF k = "frame" THEN n ELSE 0)
                + (IF a # <<>> /\ Kind(a[1]) = k THEN 1 ELSE 0)
         /\ \A i \in DOMAIN to_client' :
              \/ i \in DOMAIN to_client /\ to_client'[i] = to_client[i]
              \/ to_client'[i] = FrameResult
              \/ a # <<>> /\ to_client'[i] = a[1]
         /\ a # <<>> => to_client'[Len(to_client')] = a[1]
         /\ a = <<>> /\ Len(to_client') > Len(to_client) =>
              to_client'[Len(to_client')] = FrameResult
<1>q. PICK q : q = to_client
  OBVIOUS
<1>t. PICK t : t = IF n = 1 THEN Append(q, FrameResult) ELSE q
  OBVIOUS
<1>1. q \in Seq(Outgoing)
  BY <1>q DEF Channels
<1>2. /\ FrameResult \in Outgoing /\ t \in Seq(Outgoing)
      /\ a = <<>> => to_client' = t
      /\ \A m \in Outgoing : a = <<m>> => to_client' = Append(t, m)
  <2>1. /\ FrameResult \in Outgoing /\ t \in Seq(Outgoing)
        /\ q \o [i \in 1..n |-> FrameResult] \o <<>> = t
        /\ \A m \in Outgoing :
             q \o [i \in 1..n |-> FrameResult] \o <<m>> = Append(t, m)
    BY <1>1, <1>t, ReplyAppends
  <2>2. to_client' = q \o [i \in 1..n |-> FrameResult] \o a
    BY <1>q DEF Reply
  <2> QED BY <2>1, <2>2, Zenon
<1>3. to_client' \in Seq(Outgoing)
  BY <1>2, AppendProperties
<1>4. \A k \in Kinds : Cardinality(At(t, OfKind(k))) =
        Cardinality(At(q, OfKind(k))) + IF k = "frame" THEN n ELSE 0
  <2> SUFFICES ASSUME NEW k \in Kinds
               PROVE  Cardinality(At(t, OfKind(k))) =
                        Cardinality(At(q, OfKind(k))) + IF k = "frame" THEN n ELSE 0
    OBVIOUS
  <2>1. Kind(FrameResult) = "frame"
    BY DEF Kind, FrameResult
  <2> QED BY <1>1, <1>2, <1>t, <2>1, CountAnswer
<1>5. \A k \in Kinds : Answered(k) = At(q, OfKind(k))
                         /\ Answered(k)' = At(to_client', OfKind(k))
  <2>1. \A i \in DOMAIN to_client' : to_client'[i] \in Outgoing
    BY <1>3, LenProperties
  <2> QED BY <1>q, <2>1, AskedAnswered DEF Answered, At, OfKind
<1>6. \A i \in DOMAIN t : (i \in DOMAIN q /\ t[i] = q[i]) \/ t[i] = FrameResult
  BY <1>1, <1>2, <1>t, AppendProperties, LenProperties
<1>7. CASE a = <<>>
  <2>1. to_client' = t
    BY <1>2, <1>7
  <2>2. Len(t) > Len(q) => t[Len(t)] = FrameResult
    BY <1>1, <1>2, <1>t, AppendProperties, LenProperties
  <2>3. \A k \in Kinds : Cardinality(At(q, OfKind(k))) \in Nat
    BY <1>1, CountNone
  <2>4. \A k \in Kinds : Cardinality(Answered(k))' =
          Cardinality(Answered(k)) + (IF k = "frame" THEN n ELSE 0) + 0
    BY <1>4, <1>5, <2>1, <2>3
  <2> QED BY <1>q, <1>3, <1>6, <1>7, <2>1, <2>2, <2>4
<1>8. CASE \E m \in Outgoing : a = <<m>>
  <2>1. PICK m \in Outgoing : a = <<m>>
    BY <1>8
  <2>2. to_client' = Append(t, m) /\ a # <<>> /\ a[1] = m
    BY <1>2, <2>1
  <2>3. \A k \in Kinds : Cardinality(At(Append(t, m), OfKind(k))) =
          Cardinality(At(t, OfKind(k))) + IF Kind(m) = k THEN 1 ELSE 0
    BY <1>2, CountAnswer
  <2>4. /\ Len(Append(t, m)) = Len(t) + 1 /\ Append(t, m)[Len(t) + 1] = m
        /\ \A i \in 1..Len(t) : Append(t, m)[i] = t[i]
        /\ DOMAIN Append(t, m) = 1..(Len(t) + 1) /\ DOMAIN t = 1..Len(t)
        /\ Len(t) \in Nat
    BY <1>2, AppendProperties, LenProperties
  <2>5. \A i \in DOMAIN Append(t, m) : i \in DOMAIN t \/ i = Len(t) + 1
    BY <2>4
  <2>6. \A k \in Kinds : Cardinality(At(q, OfKind(k))) \in Nat
                           /\ Cardinality(At(t, OfKind(k))) \in Nat
    BY <1>1, <1>2, CountNone
  <2>7. \A k \in Kinds : Cardinality(Answered(k))' =
          Cardinality(Answered(k)) + (IF k = "frame" THEN n ELSE 0)
            + (IF Kind(m) = k THEN 1 ELSE 0)
    BY <1>4, <1>5, <2>2, <2>3, <2>6
  <2> QED BY <1>q, <1>3, <1>6, <2>2, <2>4, <2>5, <2>7
<1> QED BY <1>7, <1>8

\* Without a connection nothing is under way and no surface is open.
Unconnected ==
  link # "up" =>
    /\ to_receiver = <<>> /\ to_client = <<>> /\ core = NoCore /\ call = "none"
    /\ unanswered = [k \in Kinds |-> 0]
    /\ last_request_id = [s \in Streams |-> 0]
    /\ next_request_id = [s \in Streams |-> 1]

\* The session gates what its hello echoed and the producer remembers.
Negotiated ==
  /\ link \in {"idle", "hello", "answered", "up"} /\ gates \subseteq ControlFeatures
  /\ link \in {"hello", "answered"} => hello \in ClientHello
  /\ link = "answered" =>
       /\ Accepts(hello) /\ server_hello = ServerHello(hello, Device)
       /\ gates = server_hello.features \cap ControlFeatures
  /\ link = "up" /\ reference => gates = server_hello.features

\* At most one custom policy is remembered for the menu.
Remembered ==
  /\ Cardinality(last_custom_profile) <= 1
  /\ \A c \in last_custom_profile : c.profile = "Custom"

\* An interval the producer chose is the policy's.  Under CUSTOM it is not that
\* profile's preset, so that the next switch keeps it; the presets of all the
\* other profiles are the same.
Overridden ==
  \A v \in override :
    /\ v = policy.cleanup_after_updates
    /\ policy.profile = "Custom" => v # for_profile("Custom").cleanup_after_updates

\* The reference producer waits for each answer, and its ids rise.
Calls ==
  reference => \A s \in Streams :
    /\ unanswered[s] = IF call = s THEN 1 ELSE 0
    /\ last_request_id[s] < next_request_id[s]

\* What the reference producer has sent is fresh and allowed.
Fresh(m) ==
  /\ Allowed(m.type, m.body)
  /\ last_request_id[m.type] < m.id /\ m.id < next_request_id[m.type]

Requests ==
  reference => \A i \in DOMAIN to_receiver :
    to_receiver[i].type \in Streams => Fresh(to_receiver[i])

CallWaits == call # "none" => unanswered[call] > 0

FlowInv ==
  /\ SessionOK /\ Valid(baseline) /\ Remembered /\ Overridden
  /\ Channels /\ Unconnected /\ Negotiated /\ Balance
  /\ CallWaits /\ Calls /\ Requests /\ ReferenceServed

--------------------------------------------------------------------------------
(* Connections.                                                             *)

(* A session that starts anew, with nobody connected (IdleMenu, Restart,    *)
(* EndConnection).                                                          *)
LEMMA NobodyKeeps ==
  ASSUME NEW b, Valid(b), baseline' = b, SessionNew(b), Nobody
  PROVE  FlowInv'
<1>1. SessionOK' /\ Valid(baseline)'
  BY SessionNewKeeps DEF Valid
<1>2. Remembered' /\ Overridden'
  BY FS_EmptySet DEF SessionNew, Nobody, Remembered, Overridden
<1>3. Channels' /\ Unconnected'
  BY ControlAssumption
  DEF SessionNew, Nobody, Channels, Unconnected, Kinds, Streams
<1>4. Negotiated'
  BY DEF SessionNew, Nobody, Negotiated
<1>5. Balance'
  <2>1. \A k \in Kinds : Asked(k)' = {} /\ Answered(k)' = {}
    BY DEF SessionNew, Nobody, Asked, Answered
  <2>2. \A k \in Kinds : Cardinality(Asked(k))' = 0 /\ Cardinality(Answered(k))' = 0
    BY <2>1, FS_EmptySet
  <2>3. Waiting(core') = 0 /\ \A k \in Kinds : unanswered'[k] = 0
    BY WaitingInCore DEF SessionNew, Nobody
  <2> QED BY <2>2, <2>3 DEF Balance
<1>6. CallWaits' /\ Calls' /\ Requests' /\ ReferenceServed'
  BY DEF Nobody, CallWaits, Calls, Requests, ReferenceServed
<1> QED BY <1>1, <1>2, <1>3, <1>4, <1>5, <1>6 DEF FlowInv

(* The idle menu keeps the server's policy valid (IdlePolicies).            *)
LEMMA IdlePoliciesValid ==
  ASSUME Valid(baseline), NEW b \in IdlePolicies
  PROVE  Valid(b)
<1>1. CASE \E p \in Profiles : b = switched_to(baseline, p)
  BY <1>1, SwitchValid, ControlAssumption DEF RefreshProfile
<1>2. CASE b = [baseline EXCEPT !.partial_refresh_enabled = ~@]
  BY <1>2 DEF Valid, Policies, ValidConfig
<1> QED BY <1>1, <1>2 DEF IdlePolicies

(* The hello exchange changes neither session nor channels (Connect,        *)
(* accept_hello, ReceiveHello).                                             *)
LEMMA HelloKeeps ==
  ASSUME FlowInv, link # "up", Negotiated',
         UNCHANGED <<policy, last_custom_profile, core,
           cleanup_pending_without_surface, refresh_debt_without_surface,
           last_request_id, to_client, ledger, baseline, call, next_request_id,
           to_receiver, unanswered, override>>
  PROVE  FlowInv'
<1>1. SessionOK' /\ Valid(baseline)' /\ Remembered' /\ Overridden'
  BY DEF FlowInv, SessionOK, Remembered, Overridden, Valid
<1>2. Channels' /\ Unconnected' /\ Balance'
  BY DEF FlowInv, Channels, Unconnected, Balance, Asked, Answered
<1>3. CallWaits'
  BY DEF FlowInv, CallWaits
<1>4. Calls' /\ Requests' /\ ReferenceServed'
  BY DEF FlowInv, Unconnected, Calls, Requests, ReferenceServed, Streams, Kinds
<1> QED BY <1>1, <1>2, <1>3, <1>4 DEF FlowInv

(* The hello of the reference producer is a hello.                          *)
LEMMA ReferenceHelloType == ReferenceHello \in ClientHello
  BY DEF ReferenceHello, ClientHello, OptionalFeatures, MAX_MINOR

(* A producer connects (Connect).                                           *)
LEMMA ConnectKeeps ==
  ASSUME FlowInv, NEW h \in ClientHello, NEW ref \in BOOLEAN, Connect(h, ref)
  PROVE  FlowInv'
<1>1. Negotiated'
  BY DEF FlowInv, Negotiated, Connect, controlVars
<1> QED BY <1>1, HelloKeeps DEF Connect, controlVars

(* The receiver answers a hello (accept_hello).                             *)
LEMMA AcceptHelloKeeps ==
  ASSUME FlowInv, accept_hello
  PROVE  FlowInv'
<1>1. Negotiated'
  BY DEF FlowInv, Negotiated, accept_hello
<1> QED BY <1>1, HelloKeeps DEF accept_hello

(* The producer keeps what the receiver echoed (ReceiveHello).              *)
LEMMA ReceiveHelloKeeps ==
  ASSUME FlowInv, ReceiveHello
  PROVE  FlowInv'
<1>1. /\ link = "answered" /\ link' = "up"
      /\ reference' => server_hello' =
           [server_hello EXCEPT !.features = @ \cap ControlFeatures]
      /\ UNCHANGED <<gates, reference>>
  BY DEF ReceiveHello, controlVars, producerVars
<1>2. gates \subseteq ControlFeatures /\ gates = server_hello.features \cap ControlFeatures
        /\ server_hello = ServerHello(hello, Device)
  BY <1>1 DEF FlowInv, Negotiated
<1>3. reference' => server_hello'.features = gates
  BY <1>1, <1>2 DEF ServerHello
<1>4. Negotiated'
  BY <1>1, <1>2, <1>3 DEF Negotiated
<1> QED BY <1>1, <1>4, HelloKeeps DEF ReceiveHello, controlVars, producerVars

--------------------------------------------------------------------------------
(* Producers.                                                               *)

(* What a message adds to the channel (Post).                               *)
LEMMA CountMessage ==
  ASSUME NEW q \in Seq(Messages), NEW m \in Messages, NEW k
  PROVE  /\ Cardinality(At(q, OfType(k))) \in Nat
         /\ Cardinality(At(Append(q, m), OfType(k))) =
              Cardinality(At(q, OfType(k))) + IF m.type = k THEN 1 ELSE 0
<1>1. m \in OfType(k) <=> m.type = k
  BY DEF OfType
<1>2. /\ Cardinality(At(q, OfType(k))) \in Nat
      /\ Cardinality(At(Append(q, m), OfType(k))) =
           Cardinality(At(q, OfType(k))) + IF m \in OfType(k) THEN 1 ELSE 0
  BY CountAppend
<1> QED BY <1>1, <1>2

(* A message of kind k is asked once more and awaits one answer more; a     *)
(* message that is not answered changes no count.                           *)
LEMMA PostCounts ==
  ASSUME Channels, Balance, NEW m \in Messages,
         to_receiver' = Append(to_receiver, m), UNCHANGED <<to_client, core>>,
         unanswered' = IF m.type \in Kinds
                         THEN [unanswered EXCEPT ![m.type] = @ + 1] ELSE unanswered
  PROVE  /\ Balance' /\ to_receiver' \in Seq(Messages)
         /\ unanswered' \in [Kinds -> Nat]
         /\ \A i \in DOMAIN to_receiver' :
              \/ i \in DOMAIN to_receiver /\ to_receiver'[i] = to_receiver[i]
              \/ to_receiver'[i] = m
<1>1. to_receiver \in Seq(Messages) /\ unanswered \in [Kinds -> Nat]
  BY DEF Channels
<1>2. /\ to_receiver' \in Seq(Messages)
      /\ \A i \in DOMAIN to_receiver' :
           \/ i \in DOMAIN to_receiver /\ to_receiver'[i] = to_receiver[i]
           \/ to_receiver'[i] = m
  BY <1>1, AppendProperties, LenProperties
<1>3. unanswered' \in [Kinds -> Nat]
  BY <1>1
<1>4. \A k \in Kinds : /\ Asked(k) = At(to_receiver, OfType(k))
                       /\ Asked(k)' = At(to_receiver', OfType(k))
                       /\ Answered(k)' = Answered(k)
  <2>1. \A i \in DOMAIN to_receiver' : to_receiver'[i] \in Messages
    BY <1>2, LenProperties
  <2> QED BY <2>1, AskedAnswered DEF Asked, At, OfType, Answered
<1>5. \A k \in Kinds : /\ Cardinality(Asked(k)) \in Nat
                       /\ Cardinality(Asked(k))' =
                            Cardinality(Asked(k)) + IF m.type = k THEN 1 ELSE 0
  BY <1>1, <1>4, CountMessage
<1>6. \A k \in Kinds : /\ Cardinality(Answered(k)) \in Nat
                       /\ Cardinality(Answered(k))' = Cardinality(Answered(k))
  <2>1. \A k \in Kinds : Answered(k) = At(to_client, OfKind(k))
    BY AskedAnswered
  <2>2. \A k \in Kinds : Cardinality(At(to_client, OfKind(k))) \in Nat
    BY CountNone DEF Channels
  <2> QED BY <1>4, <2>1, <2>2
<1>7. \A k \in Kinds : unanswered'[k] = unanswered[k] + IF m.type = k THEN 1 ELSE 0
  BY <1>1
<1>8. Waiting(core') = Waiting(core) /\ Waiting(core) \in Nat
  BY DEF Waiting
<1>9. Balance'
  BY <1>5, <1>6, <1>7, <1>8 DEF Balance
<1> QED BY <1>2, <1>3, <1>9

(* What is allowed depends on the hello the producer has kept.              *)
LEMMA AllowedKept ==
  ASSUME UNCHANGED server_hello, NEW stream, NEW req
  PROVE  Allowed(stream, req)' <=> Allowed(stream, req)
  BY DEF Allowed, InRange, ValidUpdate, ProfileCall, RefreshCall, has_parameters,
         Supports

(* A producer sends a message (Post).                                       *)
LEMMA PostKeeps ==
  ASSUME FlowInv, link = "up", NEW m \in Messages,
         to_receiver' = Append(to_receiver, m),
         unanswered' = IF m.type \in Kinds
                         THEN [unanswered EXCEPT ![m.type] = @ + 1] ELSE unanswered,
         UNCHANGED <<controlVars, to_client, ledger, linkVars, reference, override>>,
         call' \in Kinds \cup {"none"},
         next_request_id' \in [Streams -> Nat \ {0}],
         \A s \in Streams : next_request_id[s] <= next_request_id'[s],
         CallWaits', Calls',
         reference /\ m.type \in Streams =>
           /\ Allowed(m.type, m.body) /\ last_request_id[m.type] < m.id
           /\ m.id < next_request_id'[m.type]
  PROVE  FlowInv'
<1> USE DEF controlVars, linkVars
<1>1. SessionOK' /\ Valid(baseline)' /\ Remembered' /\ Overridden'
  BY DEF FlowInv, SessionOK, Remembered, Overridden, Valid
<1>2. /\ Balance' /\ to_receiver' \in Seq(Messages)
      /\ unanswered' \in [Kinds -> Nat]
      /\ \A i \in DOMAIN to_receiver' :
           \/ i \in DOMAIN to_receiver /\ to_receiver'[i] = to_receiver[i]
           \/ to_receiver'[i] = m
  BY PostCounts DEF FlowInv
<1>3. Channels' /\ Unconnected'
  BY <1>2 DEF FlowInv, Channels, Unconnected
<1>4. Negotiated' /\ ReferenceServed'
  BY DEF FlowInv, Negotiated, ReferenceServed
<1>5. Requests'
  <2> SUFFICES ASSUME reference, NEW i \in DOMAIN to_receiver',
                      to_receiver'[i].type \in Streams
               PROVE  Fresh(to_receiver[i])'
    BY DEF Requests
  <2> PICK x : x = to_receiver'[i]
    OBVIOUS
  <2>1. /\ x.type \in Streams /\ Allowed(x.type, x.body)
        /\ last_request_id[x.type] < x.id /\ x.id < next_request_id'[x.type]
    <3>1. CASE x = m
      BY <3>1
    <3>2. CASE i \in DOMAIN to_receiver /\ x = to_receiver[i]
      <4>1. Fresh(x) /\ x.type \in Streams /\ x.id \in Int
        <5>1. x \in Messages
          BY <1>2, LenProperties
        <5> QED
          BY <3>2, <5>1 DEF FlowInv, Requests, Messages, Streams
      <4>2. next_request_id[x.type] \in Int /\ next_request_id'[x.type] \in Int
        BY <4>1 DEF FlowInv, Channels
      <4> QED BY <4>1, <4>2 DEF Fresh
    <3> QED BY <1>2, <3>1, <3>2
  <2>2. Allowed(x.type, x.body)'
    BY <2>1, AllowedKept
  <2> QED BY <2>1, <2>2 DEF Fresh
<1> QED BY <1>1, <1>2, <1>3, <1>4, <1>5 DEF FlowInv

(* A frame, a surface or an overlay (send_frame, open_surface,              *)
(* update_overlay).                                                         *)
LEMMA PostPlainKeeps ==
  ASSUME FlowInv, NEW kind \in Kinds, PostPlain(kind)
  PROVE  FlowInv'
<1> PICK m : m = Plain(kind)
  OBVIOUS
<1>1. /\ kind \in {"frame", "surface", "overlay"} /\ call = "none" /\ link = "up"
      /\ to_receiver' = Append(to_receiver, m)
      /\ unanswered' = [unanswered EXCEPT ![kind] = @ + 1]
      /\ call' = IF reference /\ kind # "frame" THEN kind ELSE "none"
      /\ UNCHANGED <<controlVars, to_client, ledger, linkVars, reference, override,
                     next_request_id>>
  BY DEF PostPlain, Post, MaySend
<1>2. m \in Messages /\ m.type = kind /\ kind \notin Streams
  BY <1>1 DEF Plain, Messages, Streams
<1>3. unanswered \in [Kinds -> Nat] /\ next_request_id \in [Streams -> Nat \ {0}]
  BY DEF FlowInv, Channels
<1>4. CallWaits'
  BY <1>1, <1>3 DEF CallWaits
<1>5. Calls'
  <2>1. \A s \in Streams : unanswered'[s] = unanswered[s] /\ s \in Kinds
    BY <1>1, <1>2, <1>3 DEF Streams, Kinds
  <2> QED BY <1>1, <1>2, <2>1 DEF FlowInv, Calls, controlVars, Streams
<1>6. \A s \in Streams : next_request_id[s] <= next_request_id'[s]
  BY <1>1, <1>3
<1>7. call' \in Kinds \cup {"none"}
  BY <1>1
<1> QED BY <1>1, <1>2, <1>3, <1>4, <1>5, <1>6, <1>7, PostKeeps

(* A surface is closed (the goodbye of other producers).                    *)
LEMMA PostCloseKeeps ==
  ASSUME FlowInv, PostClose
  PROVE  FlowInv'
<1> PICK m : m = Plain("close")
  OBVIOUS
<1>1. /\ ~reference /\ link = "up" /\ to_receiver' = Append(to_receiver, m)
      /\ UNCHANGED <<controlVars, to_client, ledger, linkVars, producerVars, override>>
  BY DEF PostClose, MaySend
<1>2. m \in Messages /\ m.type = "close" /\ m.type \notin Kinds
  BY DEF Plain, Messages, Kinds
<1>3. CallWaits' /\ Calls' /\ call' \in Kinds \cup {"none"}
  BY <1>1 DEF FlowInv, CallWaits, Calls, Channels, producerVars
<1>4. /\ next_request_id' \in [Streams -> Nat \ {0}]
      /\ \A s \in Streams : next_request_id[s] <= next_request_id'[s]
  BY <1>1 DEF FlowInv, Channels, producerVars
<1> QED BY <1>1, <1>2, <1>3, <1>4, PostKeeps DEF producerVars

(* A control request: the reference producer's calls block and their ids    *)
(* rise, others send what they like (PostRequest).                          *)
LEMMA PostRequestKeeps ==
  ASSUME FlowInv, NEW stream \in Streams, NEW req,
         stream = "profile" => req \in ProfileRequests,
         stream = "refresh" => req \in RefreshRequests,
         PostRequest(stream, req)
  PROVE  FlowInv'
<1>1. /\ unanswered \in [Kinds -> Nat] /\ next_request_id \in [Streams -> Nat \ {0}]
      /\ stream \in Kinds /\ MaxRequests \in Nat
  BY ControlAssumption DEF FlowInv, Channels, Streams, Kinds
<1>2. /\ link = "up" /\ Sent < MaxRequests
      /\ next_request_id' = [next_request_id EXCEPT ![stream] = @ + 1]
  BY DEF PostRequest
<1>3. next_request_id[stream] \in 1..MaxRequests
  BY <1>1, <1>2 DEF Sent, Streams
<1>4. /\ next_request_id' \in [Streams -> Nat \ {0}]
      /\ \A s \in Streams : next_request_id[s] <= next_request_id'[s]
      /\ next_request_id'[stream] = next_request_id[stream] + 1
  BY <1>1, <1>2
<1>5. PICK id \in {next_request_id[stream] - 1, next_request_id[stream]} :
        /\ Post(stream, Message(stream, req, id))
        /\ \/ /\ reference /\ call = "none" /\ Allowed(stream, req)
              /\ call' = stream /\ id = next_request_id[stream]
           \/ ~reference /\ UNCHANGED call
  BY DEF PostRequest
<1> PICK m : m = Message(stream, req, id)
  OBVIOUS
<1>6. id \in 0..MaxRequests /\ id < next_request_id'[stream]
  BY <1>1, <1>3, <1>4
<1>7. /\ m \in Messages /\ m.type = stream /\ m.body = req /\ m.id = id
  BY <1>6 DEF Message, Messages, Streams
<1>8. /\ to_receiver' = Append(to_receiver, m)
      /\ unanswered' = [unanswered EXCEPT ![stream] = @ + 1]
      /\ UNCHANGED <<controlVars, to_client, ledger, linkVars, reference, override>>
  BY <1>5 DEF Post
<1>9. call' \in Kinds \cup {"none"}
  BY <1>1, <1>5 DEF FlowInv, Channels
<1>10. CallWaits'
  BY <1>1, <1>5, <1>8 DEF FlowInv, CallWaits, Channels
<1>11. Calls'
  <2> SUFFICES ASSUME reference, NEW s \in Streams
               PROVE  /\ unanswered'[s] = IF call' = s THEN 1 ELSE 0
                      /\ last_request_id'[s] < next_request_id'[s]
    BY <1>8 DEF Calls
  <2>1. /\ unanswered[s] = 0 /\ call' = stream /\ s \in Kinds
        /\ last_request_id[s] < next_request_id[s]
        /\ last_request_id[s] \in Int
    BY <1>5 DEF FlowInv, Calls, Channels, Streams, Kinds
  <2> QED BY <1>1, <1>4, <1>8, <2>1 DEF controlVars
<1>12. reference => /\ Allowed(m.type, m.body) /\ last_request_id[m.type] < m.id
                    /\ m.id < next_request_id'[m.type]
  BY <1>5, <1>6, <1>7 DEF FlowInv, Calls
<1> QED
  BY <1>1, <1>2, <1>4, <1>7, <1>8, <1>9, <1>10, <1>11, <1>12, PostKeeps

(* Every answer is of a kind that is asked for.                             *)
LEMMA KindType ==
  ASSUME NEW m \in Outgoing
  PROVE  /\ Kind(m) \in Kinds
         /\ m \in ControlAnswers => Kind(m) = m.type
  BY DEF Outgoing, ControlAnswers, Kind, Kinds, Streams

(* A call waits for an answer that is still to come.                        *)
LEMMA CallsCount ==
  ASSUME FlowInv
  PROVE  \A k \in Kinds :
           /\ Cardinality(At(to_receiver, OfType(k))) \in Nat
           /\ Cardinality(At(to_client, OfKind(k))) \in Nat
           /\ unanswered[k] = Cardinality(At(to_receiver, OfType(k)))
                + Cardinality(At(to_client, OfKind(k)))
                + IF k = "frame" THEN Waiting(core) ELSE 0
<1> SUFFICES ASSUME NEW k \in Kinds
             PROVE  /\ Cardinality(At(to_receiver, OfType(k))) \in Nat
                    /\ Cardinality(At(to_client, OfKind(k))) \in Nat
                    /\ unanswered[k] = Cardinality(At(to_receiver, OfType(k)))
                         + Cardinality(At(to_client, OfKind(k)))
                         + IF k = "frame" THEN Waiting(core) ELSE 0
  OBVIOUS
<1>1. Channels /\ Balance
  BY DEF FlowInv
<1>2. /\ Cardinality(At(to_receiver, OfType(k))) \in Nat
      /\ Cardinality(At(to_client, OfKind(k))) \in Nat
  BY <1>1, CountNone DEF Channels
<1>3. Asked(k) = At(to_receiver, OfType(k)) /\ Answered(k) = At(to_client, OfKind(k))
  BY <1>1, AskedAnswered
<1> QED BY <1>1, <1>2, <1>3 DEF Balance

(* An answer is read (receive).                                             *)
LEMMA ReceiveKeeps ==
  ASSUME FlowInv, Receive
  PROVE  FlowInv'
<1>m. PICK m : m = Head(to_client)
  OBVIOUS
<1>k. PICK kind : kind = Kind(m)
  OBVIOUS
<1>1. /\ link = "up" /\ to_client # <<>> /\ to_client' = Tail(to_client)
      /\ unanswered' = [unanswered EXCEPT ![kind] = @ - 1]
      /\ call' = IF call = kind THEN "none" ELSE call
      /\ UNCHANGED <<controlVars, ledger, linkVars, reference, next_request_id,
                     to_receiver, override>>
  BY <1>m, <1>k DEF Receive
<1>2. Channels /\ to_client \in Seq(Outgoing) /\ unanswered \in [Kinds -> Nat]
        /\ call \in Kinds \cup {"none"}
  BY DEF FlowInv, Channels
<1>3. /\ m \in Outgoing /\ Tail(to_client) \in Seq(Outgoing)
      /\ \A i \in DOMAIN Tail(to_client) :
           i + 1 \in DOMAIN to_client /\ Tail(to_client)[i] = to_client[i + 1]
  BY <1>1, <1>2, <1>m, HeadTailProperties, LenProperties
<1>4. kind \in Kinds
  BY <1>3, <1>k, KindType
<1>5. \A k \in Kinds :
        Cardinality(At(to_client', OfKind(k))) =
          Cardinality(At(to_client, OfKind(k))) - IF k = kind THEN 1 ELSE 0
  <2> SUFFICES ASSUME NEW k \in Kinds
               PROVE  Cardinality(At(to_client', OfKind(k))) =
                        Cardinality(At(to_client, OfKind(k))) - IF k = kind THEN 1 ELSE 0
    OBVIOUS
  <2>1. m \in OfKind(k) <=> k = kind
    BY <1>3, <1>k DEF OfKind
  <2>2. Cardinality(At(Tail(to_client), OfKind(k))) =
          Cardinality(At(to_client, OfKind(k))) - IF Head(to_client) \in OfKind(k) THEN 1 ELSE 0
    BY <1>1, <1>2, CountTail
  <2> QED BY <1>1, <1>m, <2>1, <2>2
<1>6. \A k \in Kinds : Cardinality(At(to_client', OfKind(k))) \in Nat
  BY <1>1, <1>3, CountNone
<1>7. unanswered[kind] \in Nat \ {0}
  <2>1. /\ Cardinality(At(to_receiver, OfType(kind))) \in Nat
        /\ Cardinality(At(to_client, OfKind(kind))) \in Nat \ {0}
        /\ Waiting(core) \in Nat
    BY <1>4, <1>5, <1>6, CallsCount DEF Waiting
  <2> QED BY <1>4, <2>1, CallsCount
<1>8. /\ unanswered' \in [Kinds -> Nat] /\ unanswered'[kind] = unanswered[kind] - 1
      /\ \A k \in Kinds \ {kind} : unanswered'[k] = unanswered[k]
  BY <1>1, <1>2, <1>4, <1>7
<1>9. Channels'
  BY <1>1, <1>2, <1>3, <1>8 DEF Channels, controlVars
<1>10. Balance'
  <2> SUFFICES ASSUME NEW k \in Kinds
               PROVE  unanswered'[k] = Cardinality(Asked(k))' + Cardinality(Answered(k))'
                                         + IF k = "frame" THEN Waiting(core') ELSE 0
    BY DEF Balance
  <2>1. Asked(k)' = At(to_receiver, OfType(k)) /\ Answered(k)' = At(to_client', OfKind(k))
    <3>1. Asked(k)' = Asked(k)
      BY <1>1 DEF Asked
    <3>2. \A i \in DOMAIN to_client' : to_client'[i] \in Outgoing
      BY <1>1, <1>3, LenProperties
    <3> QED BY <1>2, <3>1, <3>2, AskedAnswered DEF Answered, At, OfKind
  <2>2. core' = core /\ Waiting(core) \in Nat
    BY <1>1 DEF controlVars, Waiting
  <2>3. unanswered'[k] = unanswered[k] - IF k = kind THEN 1 ELSE 0
    BY <1>2, <1>8
  <2>4. /\ Cardinality(At(to_receiver, OfType(k))) \in Nat
        /\ Cardinality(At(to_client, OfKind(k))) \in Nat
        /\ unanswered[k] = Cardinality(At(to_receiver, OfType(k)))
             + Cardinality(At(to_client, OfKind(k)))
             + IF k = "frame" THEN Waiting(core) ELSE 0
    BY CallsCount
  <2> QED BY <1>5, <2>1, <2>2, <2>3, <2>4
<1>11. CallWaits'
  BY <1>1, <1>2, <1>4, <1>8 DEF FlowInv, CallWaits
<1>12. Calls'
  <2> SUFFICES ASSUME reference, NEW s \in Streams
               PROVE  /\ unanswered'[s] = IF call' = s THEN 1 ELSE 0
                      /\ last_request_id'[s] < next_request_id'[s]
    BY <1>1 DEF Calls
  <2>1. /\ unanswered[s] = IF call = s THEN 1 ELSE 0
        /\ last_request_id[s] < next_request_id[s] /\ s \in Kinds /\ s # "none"
    BY DEF FlowInv, Calls, Streams, Kinds
  <2>2. last_request_id'[s] < next_request_id'[s]
    BY <1>1, <2>1 DEF controlVars
  <2>3. unanswered'[s] = IF call' = s THEN 1 ELSE 0
    BY <1>1, <1>7, <1>8, <2>1
  <2> QED BY <2>2, <2>3
<1>13. ReferenceServed'
  BY <1>1, <1>3 DEF FlowInv, ReferenceServed
<1>14. Requests'
  <2> SUFFICES ASSUME reference, NEW i \in DOMAIN to_receiver,
                      to_receiver[i].type \in Streams
               PROVE  Fresh(to_receiver[i])'
    BY <1>1 DEF Requests
  <2> PICK x : x = to_receiver[i]
    OBVIOUS
  <2>1. Fresh(x)
    BY DEF FlowInv, Requests
  <2>2. Allowed(x.type, x.body)'
    BY <1>1, <2>1, AllowedKept DEF Fresh, linkVars
  <2> QED BY <1>1, <2>1, <2>2 DEF Fresh, controlVars
<1>15. SessionOK' /\ Valid(baseline)' /\ Remembered' /\ Overridden'
  BY <1>1 DEF FlowInv, SessionOK, Remembered, Overridden, Valid, controlVars, linkVars
<1>16. Unconnected' /\ Negotiated'
  BY <1>1 DEF FlowInv, Unconnected, Negotiated, controlVars, linkVars
<1> QED
  BY <1>9, <1>10, <1>11, <1>12, <1>13, <1>14, <1>15, <1>16 DEF FlowInv

--------------------------------------------------------------------------------
(* The serve loop.                                                          *)

\* What the last answer of a step says of the panel is true (ReportsTrue).
Reported ==
  Len(to_client') > Len(to_client) =>
    LET m == to_client'[Len(to_client')]
    IN m.type \in Streams =>
         /\ m.cleanup_performed => ~ledger'.owed /\ ledger'.partials = 0
         /\ ~m.cleanup_pending => ~ledger'.owed

\* Answer a is none, a plain one, or a true one of a control request.
Told(a) ==
  \/ a = <<>>
  \/ \E m \in [type : {"SurfaceReady", "OverlayResult"}] : a = <<m>>
  \/ \E m \in ControlAnswers :
       /\ a = <<m>> /\ (reference => Serves(m))
       /\ m.cleanup_performed => ~ledger'.owed /\ ledger'.partials = 0
       /\ ~m.cleanup_pending => ~ledger'.owed

\* The kind that answer a is counted with.
Tells(a, k) == IF a # <<>> /\ Kind(a[1]) = k THEN 1 ELSE 0

(* A step that replies moves each frame from the core to the channel, and   *)
(* what it says is served and true (Reply).                                 *)
LEMMA RepliesKeep ==
  ASSUME Channels, ReferenceServed, UNCHANGED reference,
         NEW f \in {0, 1}, NEW a, Replies(f, a), Told(a)
  PROVE  /\ to_client' \in Seq(Outgoing) /\ ReferenceServed' /\ Reported
         /\ \A k \in Kinds :
              Cardinality(Answered(k))' + (IF k = "frame" THEN Waiting(core') ELSE 0)
                = Cardinality(Answered(k))
                    + (IF k = "frame" THEN Waiting(core) + f ELSE 0) + Tells(a, k)
<1>1. PICK n \in {0, 1} : Reply(n, a) /\ Waiting(core) + f = n + Waiting(core')
  BY DEF Replies
<1>2. a = <<>> \/ \E m \in Outgoing : a = <<m>>
  BY DEF Told, Outgoing
<1>3. /\ to_client' \in Seq(Outgoing)
      /\ \A k \in Kinds : Cardinality(Answered(k))' =
           Cardinality(Answered(k)) + (IF k = "frame" THEN n ELSE 0)
             + (IF a # <<>> /\ Kind(a[1]) = k THEN 1 ELSE 0)
      /\ \A i \in DOMAIN to_client' :
           \/ i \in DOMAIN to_client /\ to_client'[i] = to_client[i]
           \/ to_client'[i] = FrameResult
           \/ a # <<>> /\ to_client'[i] = a[1]
      /\ a # <<>> => to_client'[Len(to_client')] = a[1]
      /\ a = <<>> /\ Len(to_client') > Len(to_client) =>
           to_client'[Len(to_client')] = FrameResult
  BY <1>1, <1>2, ReplyCounts
<1>4. \A k \in Kinds : Cardinality(Answered(k)) \in Nat
  <2>1. \A k \in Kinds : Answered(k) = At(to_client, OfKind(k))
    BY AskedAnswered
  <2> QED BY <2>1, CountNone DEF Channels
<1>5. Waiting(core) \in Nat /\ Waiting(core') \in Nat
  BY DEF Waiting
<1>6. \A k \in Kinds :
        Cardinality(Answered(k))' + (IF k = "frame" THEN Waiting(core') ELSE 0)
          = Cardinality(Answered(k))
              + (IF k = "frame" THEN Waiting(core) + f ELSE 0) + Tells(a, k)
  BY <1>1, <1>3, <1>4, <1>5 DEF Tells
<1>7. "result" \notin DOMAIN FrameResult /\ FrameResult.type \notin Streams
  BY DEF FrameResult, Streams
<1>8. a # <<>> =>
        \/ "result" \notin DOMAIN a[1] /\ a[1].type \notin Streams
        \/ /\ reference => a[1].result \notin {"Rejected", "Unsupported"}
           /\ a[1].cleanup_performed => ~ledger'.owed /\ ledger'.partials = 0
           /\ ~a[1].cleanup_pending => ~ledger'.owed
  <2>1. CASE \E m \in [type : {"SurfaceReady", "OverlayResult"}] : a = <<m>>
    BY <2>1 DEF Streams
  <2>2. CASE \E m \in ControlAnswers :
               /\ a = <<m>> /\ (reference => Serves(m))
               /\ m.cleanup_performed => ~ledger'.owed /\ ledger'.partials = 0
               /\ ~m.cleanup_pending => ~ledger'.owed
    BY <2>2 DEF Serves
  <2> QED BY <2>1, <2>2 DEF Told
<1>9. ReferenceServed'
  BY <1>3, <1>7, <1>8 DEF ReferenceServed
<1>10. Reported
  BY <1>3, <1>7, <1>8 DEF Reported
<1> QED BY <1>3, <1>6, <1>9, <1>10

(* A step of the serve loop that reads nothing answers nothing new (poll,   *)
(* the menu).                                                               *)
LEMMA UnaskedBalance ==
  ASSUME FlowInv, UNCHANGED <<to_receiver, unanswered, reference>>,
         Replies(0, <<>>) \/ Silent
  PROVE  to_client' \in Seq(Outgoing) /\ ReferenceServed' /\ Reported /\ Balance'
<1>1. Channels /\ ReferenceServed /\ Balance
  BY DEF FlowInv
<1>2. \A k \in Kinds : /\ Asked(k)' = Asked(k) /\ Cardinality(Asked(k)) \in Nat
                       /\ Cardinality(Answered(k)) \in Nat
  <2>1. \A k \in Kinds : Asked(k) = At(to_receiver, OfType(k))
                            /\ Answered(k) = At(to_client, OfKind(k))
    BY <1>1, AskedAnswered
  <2>2. \A k \in Kinds : Cardinality(At(to_receiver, OfType(k))) \in Nat
                            /\ Cardinality(At(to_client, OfKind(k))) \in Nat
    BY CallsCount
  <2>3. \A k \in Kinds : Asked(k)' = Asked(k)
    BY DEF Asked
  <2> QED BY <2>1, <2>2, <2>3
<1>3. CASE Replies(0, <<>>)
  <2>1. /\ to_client' \in Seq(Outgoing) /\ ReferenceServed' /\ Reported
        /\ \A k \in Kinds :
             Cardinality(Answered(k))' + (IF k = "frame" THEN Waiting(core') ELSE 0)
               = Cardinality(Answered(k))
                   + (IF k = "frame" THEN Waiting(core) + 0 ELSE 0) + Tells(<<>>, k)
    <3>1. Told(<<>>)
      BY DEF Told
    <3> QED BY <1>1, <1>3, <3>1, RepliesKeep
  <2>2. \A k \in Kinds : Cardinality(Answered(k))' \in Nat
    <3>1. \A k \in Kinds : Answered(k)' = At(to_client', OfKind(k))
      <4>1. \A i \in DOMAIN to_client' : to_client'[i] \in Outgoing
        BY <2>1, LenProperties
      <4> QED BY <4>1 DEF Answered, At, OfKind
    <3> QED BY <2>1, <3>1, CountNone
  <2>3. Waiting(core) \in Nat /\ Waiting(core') \in Nat /\ \A k : Tells(<<>>, k) = 0
    BY DEF Waiting, Tells
  <2>4. Balance'
    BY <1>1, <1>2, <2>1, <2>2, <2>3 DEF Balance
  <2> QED BY <2>1, <2>4
<1>4. CASE Silent
  <2>1. UNCHANGED to_client /\ Waiting(core') = Waiting(core)
    BY <1>4 DEF Silent
  <2>2. \A k \in Kinds : Answered(k)' = Answered(k)
    BY <2>1 DEF Answered
  <2>3. Balance'
    BY <1>1, <1>2, <2>1, <2>2 DEF Balance
  <2>4. to_client' \in Seq(Outgoing) /\ ReferenceServed'
    BY <1>1, <2>1 DEF Channels, ReferenceServed
  <2>5. Reported
    <3>1. Len(to_client) \in Nat
      BY <1>1, LenProperties DEF Channels
    <3> QED BY <2>1, <3>1 DEF Reported
  <2> QED BY <2>3, <2>4, <2>5
<1> QED BY <1>3, <1>4

(* A step of the serve loop that reads a message answers it, or keeps it    *)
(* waiting in the core (Handle).                                            *)
LEMMA AnswerBalance ==
  ASSUME FlowInv, to_receiver # <<>>, to_receiver' = Tail(to_receiver),
         UNCHANGED <<unanswered, reference>>,
         NEW f \in {0, 1}, NEW a, Replies(f, a), Told(a),
         \A k \in Kinds : (IF Head(to_receiver).type = k THEN 1 ELSE 0) =
                              (IF k = "frame" THEN f ELSE 0) + Tells(a, k)
  PROVE  /\ to_client' \in Seq(Outgoing) /\ ReferenceServed' /\ Reported /\ Balance'
         /\ to_receiver' \in Seq(Messages)
<1>1. /\ Channels /\ ReferenceServed /\ Balance
      /\ to_receiver \in Seq(Messages)
  BY DEF FlowInv, Channels
<1>2. /\ to_client' \in Seq(Outgoing) /\ ReferenceServed' /\ Reported
      /\ \A k \in Kinds :
           Cardinality(Answered(k))' + (IF k = "frame" THEN Waiting(core') ELSE 0)
             = Cardinality(Answered(k))
                 + (IF k = "frame" THEN Waiting(core) + f ELSE 0) + Tells(a, k)
  BY <1>1, RepliesKeep
<1>3. Tail(to_receiver) \in Seq(Messages) /\ Head(to_receiver) \in Messages
  BY <1>1, HeadTailProperties, LenProperties
<1>4. Balance'
  <2> SUFFICES ASSUME NEW k \in Kinds
               PROVE  unanswered'[k] = Cardinality(Asked(k))' + Cardinality(Answered(k))'
                                         + IF k = "frame" THEN Waiting(core') ELSE 0
    BY DEF Balance
  <2>1. Asked(k)' = At(to_receiver', OfType(k)) /\ Answered(k)' = At(to_client', OfKind(k))
    <3>1. /\ \A i \in DOMAIN to_receiver' : to_receiver'[i] \in Messages
          /\ \A i \in DOMAIN to_client' : to_client'[i] \in Outgoing
      BY <1>2, <1>3, LenProperties
    <3> QED BY <3>1 DEF Asked, Answered, At, OfType, OfKind
  <2>2. Answered(k) = At(to_client, OfKind(k))
    BY <1>1, AskedAnswered
  <2>3. /\ Cardinality(At(to_receiver, OfType(k))) \in Nat
        /\ Cardinality(At(to_client, OfKind(k))) \in Nat
        /\ unanswered[k] = Cardinality(At(to_receiver, OfType(k)))
             + Cardinality(At(to_client, OfKind(k)))
             + IF k = "frame" THEN Waiting(core) ELSE 0
    BY CallsCount
  <2>4. /\ Cardinality(At(to_receiver', OfType(k))) \in Nat
        /\ Cardinality(At(to_client', OfKind(k))) \in Nat
    BY <1>2, <1>3, CountNone
  <2>5. Cardinality(At(to_receiver', OfType(k))) =
          Cardinality(At(to_receiver, OfType(k)))
            - IF Head(to_receiver).type = k THEN 1 ELSE 0
    <3>1. Head(to_receiver) \in OfType(k) <=> Head(to_receiver).type = k
      BY <1>3 DEF OfType
    <3>2. Cardinality(At(Tail(to_receiver), OfType(k))) =
            Cardinality(At(to_receiver, OfType(k)))
              - IF Head(to_receiver) \in OfType(k) THEN 1 ELSE 0
      BY <1>1, CountTail
    <3> QED BY <3>1, <3>2
  <2>6. Waiting(core) \in Nat /\ Waiting(core') \in Nat /\ Tells(a, k) \in Nat
    BY DEF Waiting, Tells
  <2>7. (IF Head(to_receiver).type = k THEN 1 ELSE 0) =
          (IF k = "frame" THEN f ELSE 0) + Tells(a, k)
    OBVIOUS
  <2>8. Cardinality(Answered(k))' + (IF k = "frame" THEN Waiting(core') ELSE 0)
          = Cardinality(At(to_client, OfKind(k)))
              + (IF k = "frame" THEN Waiting(core) + f ELSE 0) + Tells(a, k)
    BY <1>2, <2>2
  <2>9. /\ Cardinality(Asked(k))' = Cardinality(At(to_receiver', OfType(k)))
        /\ Cardinality(Answered(k))' = Cardinality(At(to_client', OfKind(k)))
    BY <2>1
  <2>10. CASE k = "frame"
    <3>u. PICK u : u = Cardinality(At(to_receiver, OfType(k)))
      OBVIOUS
    <3>v. PICK v : v = Cardinality(At(to_receiver', OfType(k)))
      OBVIOUS
    <3>x. PICK x : x = Cardinality(At(to_client, OfKind(k)))
      OBVIOUS
    <3>y. PICK y : y = Cardinality(At(to_client', OfKind(k)))
      OBVIOUS
    <3>w. PICK w : w = Waiting(core)
      OBVIOUS
    <3>z. PICK z : z = Waiting(core')
      OBVIOUS
    <3>t. PICK t : t = Tells(a, k)
      OBVIOUS
    <3>1. u \in Nat /\ x \in Nat /\ unanswered[k] = u + x + w
      BY <2>3, <2>10, <3>u, <3>x, <3>w, Zenon
    <3>2. v \in Nat /\ y \in Nat
      BY <2>4, <3>v, <3>y, Zenon
    <3>3. w \in Nat /\ z \in Nat /\ t \in Nat
      BY <2>6, <3>w, <3>z, <3>t, Zenon
    <3>4. y + z = x + (w + f) + t
      BY <2>8, <2>9, <2>10, <3>x, <3>y, <3>w, <3>z, <3>t, Zenon
    <3>5. v = u - (f + t)
      BY <2>5, <2>7, <2>10, <3>u, <3>v, <3>t, Zenon
    <3>6. u + x + w = v + y + z
      BY <3>1, <3>2, <3>3, <3>4, <3>5
    <3> QED BY <2>9, <2>10, <3>1, <3>6, <3>v, <3>y, <3>z, Zenon
  <2>11. CASE k # "frame"
    BY <2>3, <2>4, <2>5, <2>6, <2>7, <2>8, <2>9, <2>11
  <2> QED BY <2>10, <2>11
<1> QED BY <1>2, <1>3, <1>4

(* A switch between named profiles keeps a cleanup interval the producer    *)
(* chose (switched_to).                                                     *)
LEMMA SwitchKeepsOverride ==
  ASSUME Valid(policy), Overridden, NEW p \in NamedProfiles,
         policy' = switched_to(policy, p), UNCHANGED override
  PROVE  Overridden'
<1>1. /\ p \in RefreshProfile /\ p # "Custom"
      /\ policy.profile \in RefreshProfile
  BY DEF NamedProfiles, RefreshProfile, Valid, Policies
<1>2. /\ policy'.profile = p
      /\ policy'.cleanup_after_updates =
           IF policy.cleanup_after_updates
                # for_profile(policy.profile).cleanup_after_updates
             THEN policy.cleanup_after_updates
             ELSE for_profile(p).cleanup_after_updates
  BY <1>1, SwitchValid
<1>3. /\ for_profile(p).cleanup_after_updates = 0
      /\ policy.profile # "Custom" =>
           for_profile(policy.profile).cleanup_after_updates = 0
  BY <1>1, PresetValid
<1> SUFFICES ASSUME NEW v \in override
             PROVE  /\ v = policy'.cleanup_after_updates
                    /\ policy'.profile = "Custom" =>
                         v # for_profile("Custom").cleanup_after_updates
  BY DEF Overridden
<1>4. /\ v = policy.cleanup_after_updates
      /\ policy.profile = "Custom" => v # for_profile("Custom").cleanup_after_updates
  BY DEF Overridden
<1> QED BY <1>1, <1>2, <1>3, <1>4

(* What the serve loop leaves alone.                                        *)
LEMMA ServeKeeps ==
  ASSUME FlowInv, link = "up", UNCHANGED <<linkVars, producerVars, gates>>,
         SessionOK', Remembered', Overridden',
         to_receiver' \in Seq(Messages), to_client' \in Seq(Outgoing), Balance',
         last_request_id' \in [Streams -> 0..MaxRequests],
         reference => \A s \in Streams : last_request_id'[s] < next_request_id[s],
         Requests', ReferenceServed'
  PROVE  FlowInv'
<1> USE DEF linkVars, producerVars
<1>1. Valid(baseline)' /\ Channels' /\ Unconnected'
  BY DEF FlowInv, Valid, Channels, Unconnected
<1>2. Negotiated' /\ CallWaits' /\ Calls'
  BY DEF FlowInv, Negotiated, CallWaits, Calls
<1> QED BY <1>1, <1>2 DEF FlowInv

(* A step that reads nothing (poll, the menu).                              *)
LEMMA UnaskedKeeps ==
  ASSUME FlowInv, link = "up",
         UNCHANGED <<linkVars, producerVars, gates, to_receiver, last_request_id,
                     last_custom_profile>>,
         SessionOK', Overridden', Replies(0, <<>>) \/ Silent
  PROVE  FlowInv' /\ Reported
<1>1. to_client' \in Seq(Outgoing) /\ ReferenceServed' /\ Reported /\ Balance'
  BY UnaskedBalance DEF producerVars
<1>2. /\ to_receiver' \in Seq(Messages) /\ Remembered'
      /\ last_request_id' \in [Streams -> 0..MaxRequests]
      /\ reference => \A s \in Streams : last_request_id'[s] < next_request_id[s]
  BY DEF FlowInv, Channels, Remembered, Calls
<1>3. Requests'
  <2> SUFFICES ASSUME reference, NEW i \in DOMAIN to_receiver,
                      to_receiver[i].type \in Streams
               PROVE  Fresh(to_receiver[i])'
    BY DEF Requests, producerVars
  <2> PICK x : x = to_receiver[i]
    OBVIOUS
  <2>1. Fresh(x)
    BY DEF FlowInv, Requests
  <2>2. Allowed(x.type, x.body)'
    BY <2>1, AllowedKept DEF Fresh, linkVars
  <2> QED BY <2>1, <2>2 DEF Fresh, producerVars
<1> QED BY <1>1, <1>2, <1>3, ServeKeeps

(* A policy that did not change is still overridden.                        *)
LEMMA OverrideStays ==
  ASSUME Overridden, UNCHANGED <<policy, override>>
  PROVE  Overridden'
  BY DEF Overridden

(* The poll of the server loop (Polls).                                     *)
LEMMA PollsKeeps ==
  ASSUME FlowInv, Polls
  PROVE  FlowInv' /\ Reported
<1>1. /\ link = "up" /\ poll
      /\ UNCHANGED <<linkVars, producerVars, to_receiver, override>>
  BY DEF Polls
<1>2. SessionOK' /\ UNCHANGED policy /\ Replies(0, <<>>)
  BY <1>1, PollKeeps DEF FlowInv
<1>3. UNCHANGED <<gates, last_request_id, last_custom_profile>>
  BY <1>1 DEF poll
<1>4. Overridden'
  BY <1>1, <1>2, OverrideStays DEF FlowInv
<1> QED BY <1>1, <1>2, <1>3, <1>4, UnaskedKeeps

(* The owner's menu and cleanup (Menu).                                     *)
LEMMA MenuKeeps ==
  ASSUME FlowInv, Menu
  PROVE  FlowInv' /\ Reported
<1>1. link = "up" /\ UNCHANGED <<linkVars, producerVars, to_receiver>>
  BY DEF Menu
<1>2. SessionOK /\ Valid(policy) /\ Overridden
  BY DEF FlowInv, SessionOK
<1>3. ASSUME NEW p \in Profiles, MenuSetProfile(p), UNCHANGED override
      PROVE  FlowInv' /\ Reported
  <2>1. p \in NamedProfiles /\ p \in RefreshProfile /\ p # "Custom"
    BY ControlAssumption DEF NamedProfiles, RefreshProfile
  <2>2. SessionOK' /\ (Replies(0, <<>>) \/ Silent) /\ policy' \in MenuPolicy(p)
    BY <1>2, <1>3, <2>1, MenuSetProfileKeeps
  <2>3. policy' = switched_to(policy, p)
    BY <2>1, <2>2 DEF MenuPolicy
  <2>4. Overridden'
    BY <1>2, <1>3, <2>1, <2>3, SwitchKeepsOverride
  <2>5. UNCHANGED <<gates, last_request_id, last_custom_profile>>
    BY <1>3 DEF MenuSetProfile
  <2> QED BY <1>1, <2>2, <2>4, <2>5, UnaskedKeeps
<1>4. ASSUME MenuSetProfile("Custom"), override' = {}
      PROVE  FlowInv' /\ Reported
  <2>1. SessionOK' /\ (Replies(0, <<>>) \/ Silent)
    BY <1>2, <1>4, MenuSetProfileKeeps DEF RefreshProfile
  <2>2. Overridden'
    BY <1>4 DEF Overridden
  <2>3. UNCHANGED <<gates, last_request_id, last_custom_profile>>
    BY <1>4 DEF MenuSetProfile
  <2> QED BY <1>1, <2>1, <2>2, <2>3, UnaskedKeeps
<1>5. ASSUME TogglePartialRefresh, UNCHANGED override
      PROVE  FlowInv' /\ Reported
  <2>1. /\ SessionOK' /\ (Replies(0, <<>>) \/ Silent)
        /\ policy' = [policy EXCEPT !.partial_refresh_enabled = ~@]
    BY <1>2, <1>5, ToggleKeeps
  <2>2. /\ policy'.profile = policy.profile
        /\ policy'.cleanup_after_updates = policy.cleanup_after_updates
    BY <1>2, <2>1 DEF Valid, Policies
  <2>3. Overridden'
    BY <1>2, <1>5, <2>2 DEF Overridden
  <2>4. UNCHANGED <<gates, last_request_id, last_custom_profile>>
    BY <1>5 DEF TogglePartialRefresh
  <2> QED BY <1>1, <2>1, <2>3, <2>4, UnaskedKeeps
<1>6. ASSUME RenderMenu \/ local_cleanup, UNCHANGED override
      PROVE  FlowInv' /\ Reported
  <2>1. SessionOK' /\ UNCHANGED policy /\ Replies(0, <<>>)
    BY <1>2, <1>6, RenderKeeps, LocalCleanupKeeps
  <2>2. UNCHANGED <<gates, last_request_id, last_custom_profile>>
    BY <1>6 DEF RenderMenu, local_cleanup, CleanSurface
  <2>3. Overridden'
    BY <1>2, <1>6, <2>1, OverrideStays
  <2> QED BY <1>1, <2>1, <2>2, <2>3, UnaskedKeeps
<1> QED BY <1>3, <1>4, <1>5, <1>6 DEF Menu

\* The request at the head of the channel was refused unread, or its id is the
\* last one of its stream now.
Noted ==
  \/ UNCHANGED last_request_id
  \/ /\ Head(to_receiver).type \in Streams
     /\ last_request_id' = [last_request_id EXCEPT
                              ![Head(to_receiver).type] = Head(to_receiver).id]

(* The reference producer has one request of a stream on its way: reading   *)
(* it leaves none with an id that is no longer fresh (FreshId).             *)
LEMMA NotedKeeps ==
  ASSUME FlowInv, to_receiver # <<>>, to_receiver' = Tail(to_receiver),
         UNCHANGED <<linkVars, producerVars>>, Noted
  PROVE  /\ last_request_id' \in [Streams -> 0..MaxRequests]
         /\ reference => \A s \in Streams : last_request_id'[s] < next_request_id[s]
         /\ Requests'
<1>h. PICK h : h = Head(to_receiver)
  OBVIOUS
<1>1. /\ to_receiver \in Seq(Messages) /\ last_request_id \in [Streams -> 0..MaxRequests]
      /\ next_request_id \in [Streams -> Nat \ {0}] /\ Calls /\ Requests
      /\ MaxRequests \in Nat
  BY ControlAssumption DEF FlowInv, Channels
<1>2. /\ h \in Messages /\ 1 \in DOMAIN to_receiver /\ to_receiver[1] = h
      /\ \A i \in DOMAIN Tail(to_receiver) :
           /\ i \in Nat \ {0} /\ i + 1 \in DOMAIN to_receiver
           /\ Tail(to_receiver)[i] = to_receiver[i + 1]
      /\ \A i \in DOMAIN to_receiver : to_receiver[i] \in Messages
  BY <1>1, <1>h, HeadTailProperties, LenProperties
<1>3. h.type \in Streams => h.id \in 0..MaxRequests
  BY <1>2 DEF Messages, Streams
<1>4. \/ UNCHANGED last_request_id
      \/ /\ h.type \in Streams
         /\ last_request_id' = [last_request_id EXCEPT ![h.type] = h.id]
  BY <1>h DEF Noted
<1>5. last_request_id' \in [Streams -> 0..MaxRequests]
  BY <1>1, <1>3, <1>4
<1>6. reference /\ h.type \in Streams => Fresh(h)
  BY <1>1, <1>2 DEF Requests
<1>7. reference => \A s \in Streams : last_request_id'[s] < next_request_id[s]
  BY <1>1, <1>4, <1>6 DEF Calls, Fresh
<1>8. Requests'
  <2> SUFFICES ASSUME reference, NEW i \in DOMAIN Tail(to_receiver),
                      to_receiver'[i].type \in Streams
               PROVE  Fresh(to_receiver[i])'
    BY DEF Requests, producerVars
  <2>x. PICK x : x = to_receiver'[i]
    OBVIOUS
  <2>1. /\ i + 1 \in DOMAIN to_receiver /\ x = to_receiver[i + 1] /\ i + 1 # 1
        /\ x.type \in Streams /\ x \in Messages /\ Fresh(x)
    BY <1>1, <1>2, <2>x DEF Requests
  <2>2. Allowed(x.type, x.body)'
    BY <2>1, AllowedKept DEF Fresh, linkVars
  <2>3. h.type # x.type
    <3> SUFFICES ASSUME h.type = x.type PROVE FALSE
      OBVIOUS
    <3>1. x.type \in Kinds /\ x.type # "frame"
      BY <2>1 DEF Streams, Kinds
    <3>2. {1, i + 1} \subseteq At(to_receiver, OfType(x.type))
      BY <1>2, <2>1 DEF At, OfType
    <3>3. /\ Cardinality(At(to_receiver, OfType(x.type))) \in Nat
          /\ Cardinality(At(to_client, OfKind(x.type))) \in Nat
          /\ unanswered[x.type] = Cardinality(At(to_receiver, OfType(x.type)))
               + Cardinality(At(to_client, OfKind(x.type)))
               + IF x.type = "frame" THEN Waiting(core) ELSE 0
      BY <3>1, CallsCount
    <3>4. unanswered[x.type] <= 1
      <4>1. x.type \in Streams /\ Calls
        BY <1>1, <2>1
      <4>2. unanswered[x.type] = IF call = x.type THEN 1 ELSE 0
        BY <4>1, Zenon DEF Calls
      <4> QED BY ONLY <4>2
    <3>5. Cardinality(At(to_receiver, OfType(x.type))) <= 1
      BY <3>1, <3>3, <3>4
    <3> QED BY <1>1, <2>1, <3>2, <3>5, CountNone
  <2>4. last_request_id'[x.type] = last_request_id[x.type]
    BY <1>1, <1>4, <2>1, <2>3
  <2> QED BY <2>1, <2>2, <2>4, <2>x DEF Fresh, producerVars
<1> QED BY <1>5, <1>7, <1>8

(* A message is handled (Handle).                                           *)
LEMMA AnsweredKeeps ==
  ASSUME FlowInv, link = "up", to_receiver # <<>>, to_receiver' = Tail(to_receiver),
         UNCHANGED <<linkVars, producerVars, gates>>, Noted,
         SessionOK', Remembered', Overridden',
         NEW f \in {0, 1}, NEW a, Replies(f, a), Told(a),
         \A k \in Kinds : (IF Head(to_receiver).type = k THEN 1 ELSE 0) =
                              (IF k = "frame" THEN f ELSE 0) + Tells(a, k)
  PROVE  FlowInv' /\ Reported
<1>1. /\ to_client' \in Seq(Outgoing) /\ ReferenceServed' /\ Reported /\ Balance'
      /\ to_receiver' \in Seq(Messages)
  BY AnswerBalance DEF producerVars
<1>2. /\ last_request_id' \in [Streams -> 0..MaxRequests]
      /\ reference => \A s \in Streams : last_request_id'[s] < next_request_id[s]
      /\ Requests'
  BY NotedKeeps
<1> QED BY <1>1, <1>2, ServeKeeps

(* Frames, surfaces and overlays (HandlePlain).                             *)
LEMMA HandlePlainKeeps ==
  ASSUME FlowInv, link = "up", to_receiver # <<>>, to_receiver' = Tail(to_receiver),
         UNCHANGED <<linkVars, producerVars>>, HandlePlain
  PROVE  FlowInv' /\ Reported
<1>h. PICK type : type = Head(to_receiver).type
  OBVIOUS
<1>1. SessionOK /\ Remembered /\ Overridden
  BY DEF FlowInv
<1>2. /\ \/ type = "frame" /\ accept_frame
         \/ type = "surface" /\ open_surface
         \/ type = "close" /\ close_surface
         \/ type = "overlay" /\ overlay_update
      /\ UNCHANGED override
  BY <1>h DEF HandlePlain
<1>3. UNCHANGED <<gates, last_request_id, last_custom_profile>>
  BY <1>2 DEF accept_frame, open_surface, close_surface, overlay_update
<1>4. Noted /\ Remembered'
  BY <1>1, <1>3 DEF Noted, Remembered
<1>5. ASSUME NEW f \in {0, 1}, NEW a, SessionOK', UNCHANGED policy, Replies(f, a),
             Told(a),
             \A k \in Kinds : (IF type = k THEN 1 ELSE 0) =
                                  (IF k = "frame" THEN f ELSE 0) + Tells(a, k)
      PROVE  FlowInv' /\ Reported
  <2>1. Overridden'
    BY <1>1, <1>2, <1>5, OverrideStays
  <2>2. \A k \in Kinds : (IF Head(to_receiver).type = k THEN 1 ELSE 0) =
                             (IF k = "frame" THEN f ELSE 0) + Tells(a, k)
    BY <1>5, <1>h
  <2> QED BY <1>3, <1>4, <1>5, <2>1, <2>2, AnsweredKeeps
<1>6. \A k \in Kinds : Tells(<<>>, k) = 0
  BY DEF Tells
<1>7. Told(<<>>)
  BY DEF Told
<1>8. CASE type = "frame" /\ accept_frame
  <2>1. SessionOK' /\ UNCHANGED policy /\ Replies(1, <<>>)
    BY <1>1, <1>8, AcceptFrameKeeps
  <2> QED BY <1>5, <1>6, <1>7, <1>8, <2>1
<1>9. CASE type = "close" /\ close_surface
  <2>1. SessionOK' /\ UNCHANGED policy /\ Replies(0, <<>>)
    BY <1>1, <1>9, CloseSurfaceKeeps
  <2>2. "close" \notin Kinds
    BY DEF Kinds
  <2> QED BY <1>5, <1>6, <1>7, <1>9, <2>1, <2>2
<1>10. CASE type = "surface" /\ open_surface
  <2> DEFINE a == <<[type |-> "SurfaceReady"]>>
  <2>1. SessionOK' /\ UNCHANGED policy /\ Replies(0, a)
    BY <1>1, <1>10, OpenSurfaceKeeps
  <2>2. Told(a)
    BY DEF Told
  <2>3. \A k \in Kinds : Tells(a, k) = IF k = "surface" THEN 1 ELSE 0
    BY DEF Tells, Kind
  <2> HIDE DEF a
  <2> QED BY <1>5, <1>10, <2>1, <2>2, <2>3
<1>11. CASE type = "overlay" /\ overlay_update
  <2> DEFINE a == <<[type |-> "OverlayResult"]>>
  <2>1. SessionOK' /\ UNCHANGED policy /\ Replies(0, a)
    BY <1>1, <1>11, OverlayKeeps
  <2>2. Told(a)
    BY DEF Told
  <2>3. \A k \in Kinds : Tells(a, k) = IF k = "overlay" THEN 1 ELSE 0
    BY DEF Tells, Kind
  <2> HIDE DEF a
  <2> QED BY <1>5, <1>11, <2>1, <2>2, <2>3
<1> QED BY <1>2, <1>8, <1>9, <1>10, <1>11

(* A true answer of a control stream is told and counted once.              *)
LEMMA AnswersTold ==
  ASSUME NEW stream \in Streams, NEW m, Answers(stream, m), reference => Serves(m)
  PROVE  /\ Replies(0, <<m>>) /\ Told(<<m>>)
         /\ \A k \in Kinds : Tells(<<m>>, k) = IF stream = k THEN 1 ELSE 0
<1>1. /\ m \in ControlAnswers /\ m.type = stream /\ Replies(0, <<m>>)
      /\ m.cleanup_performed => ~ledger'.owed /\ ledger'.partials = 0
      /\ ~m.cleanup_pending => ~ledger'.owed
  BY DEF Answers
<1>2. Kind(m) = stream
  BY <1>1, KindType DEF Outgoing
<1>3. Told(<<m>>)
  BY <1>1 DEF Told
<1>4. <<m>> # <<>> /\ <<m>>[1] = m
  OBVIOUS
<1> QED BY <1>1, <1>2, <1>3, <1>4 DEF Tells

(* The reference producer's profile requests pass every check               *)
(* (ProfileVerdict).                                                        *)
LEMMA AllowedProfile ==
  ASSUME NEW req, Allowed("profile", req), gates = server_hello.features
  PROVE  /\ "EpaperProfileControl" \in gates
         /\ ProfileVerdict(req) \in {"Set", "Unchanged"}
<1>1. /\ "EpaperProfileControl" \in gates
      /\ \A c \in req.custom : ValidConfig(c)
      /\ \/ req.operation = "Query" /\ req.profile = "Unspecified" /\ req.custom = {}
         \/ req.operation = "Set" /\ req.profile \in NamedProfiles /\ req.custom = {}
         \/ /\ req.operation = "Set" /\ req.profile = "Custom" /\ req.custom # {}
            /\ "EpaperCustomProfile" \in gates
  BY DEF Allowed, InRange, ProfileCall, Supports
<1>2. custom_profile_config(req) = req.custom
  BY <1>1 DEF custom_profile_config
<1>3. "Custom" \notin NamedProfiles
  BY DEF NamedProfiles
<1> QED BY <1>1, <1>2, <1>3 DEF ProfileVerdict

(* A profile request is handled (handle_epaper_profile).                    *)
LEMMA HandleProfileKeeps ==
  ASSUME FlowInv, link = "up", to_receiver # <<>>, to_receiver' = Tail(to_receiver),
         UNCHANGED <<linkVars, producerVars>>,
         Head(to_receiver).type = "profile", handle_epaper_profile(Handled),
         override' = Override(Handled)
  PROVE  FlowInv' /\ Reported
<1>h. PICK h : h = Head(to_receiver)
  OBVIOUS
<1>r. PICK req : req = [h.body EXCEPT !.id = h.id]
  OBVIOUS
<1>1. /\ SessionOK /\ Remembered /\ Overridden /\ Valid(policy)
      /\ to_receiver \in Seq(Messages)
      /\ reference => gates = server_hello.features
      /\ reference => \A i \in DOMAIN to_receiver :
           to_receiver[i].type \in Streams => Fresh(to_receiver[i])
  BY DEF FlowInv, SessionOK, Channels, Negotiated, Requests
<1>2. h \in Messages /\ 1 \in DOMAIN to_receiver /\ to_receiver[1] = h
  BY <1>1, <1>h, HeadTailProperties, LenProperties
<1>3. h.type = "profile" /\ h.body \in EpaperProfileRequest /\ h.id \in Nat
  BY <1>2, <1>h, ControlAssumption DEF Messages
<1>4. /\ req \in EpaperProfileRequest /\ req.id = h.id /\ req.custom = h.body.custom
      /\ req.operation = h.body.operation /\ req.profile = h.body.profile
  BY <1>3, <1>r DEF EpaperProfileRequest
<1>5. handle_epaper_profile(req) /\ override' = Override(req)
  BY <1>h, <1>r DEF Handled
<1>6. /\ SessionOK'
      /\ policy' = policy \/ (/\ ProfileVerdict(req) = "Set"
                              /\ policy' = RequestedPolicy(req))
      /\ \E m : /\ Answers("profile", m)
                /\ /\ "EpaperProfileControl" \in gates
                   /\ FreshId("profile", req)
                   /\ ProfileVerdict(req) \in {"Set", "Unchanged"}
                   => Serves(m)
  BY <1>1, <1>4, <1>5, ProfileKeeps
<1>7. /\ UNCHANGED gates
      /\ \/ UNCHANGED last_request_id
         \/ last_request_id' = [last_request_id EXCEPT !["profile"] = req.id]
      /\ \/ UNCHANGED last_custom_profile
         \/ /\ last_custom_profile' = {RequestedPolicy(req)}
            /\ RequestedPolicy(req).profile = "Custom"
  BY <1>5 DEF handle_epaper_profile, Gate, Admitted, Refuse, ApplyProfile
<1>8. Noted
  BY <1>3, <1>4, <1>7, <1>h DEF Noted, Streams
<1>9. Remembered'
  <2>1. CASE UNCHANGED last_custom_profile
    BY <1>1, <2>1 DEF Remembered
  <2>2. CASE /\ last_custom_profile' = {RequestedPolicy(req)}
             /\ RequestedPolicy(req).profile = "Custom"
    <3>1. Cardinality(last_custom_profile') = 1
      BY <2>2, FS_Singleton
    <3> QED BY <2>2, <3>1 DEF Remembered
  <2> QED BY <1>7, <2>1, <2>2
<1>10. Overridden'
  <2>1. CASE policy' = policy
    BY <1>1, <1>5, <2>1, OverrideStays DEF Override
  <2>2. CASE policy' # policy
    <3>1. /\ ProfileVerdict(req) = "Set" /\ policy' = RequestedPolicy(req)
          /\ override' = IF req.profile = "Custom" THEN {} ELSE override
      BY <1>3, <1>5, <1>6, <1>h, <2>2 DEF Override
    <3>2. CASE req.profile = "Custom"
      BY <3>1, <3>2 DEF Overridden
    <3>3. CASE req.profile # "Custom"
      <4>1. req.profile \in NamedProfiles
        BY <3>1, <3>3 DEF ProfileVerdict
      <4>2. policy' = switched_to(policy, req.profile)
        BY <3>1, <3>3 DEF RequestedPolicy
      <4> QED BY <1>1, <3>1, <3>3, <4>1, <4>2, SwitchKeepsOverride
    <3> QED BY <3>2, <3>3
  <2> QED BY <2>1, <2>2
<1>11. reference => /\ "EpaperProfileControl" \in gates
                    /\ FreshId("profile", req)
                    /\ ProfileVerdict(req) \in {"Set", "Unchanged"}
  <2> SUFFICES ASSUME reference
               PROVE  /\ "EpaperProfileControl" \in gates
                      /\ FreshId("profile", req)
                      /\ ProfileVerdict(req) \in {"Set", "Unchanged"}
    OBVIOUS
  <2>1. Fresh(h)
    BY <1>1, <1>2, <1>3 DEF Streams
  <2>2. Allowed("profile", req)
    BY <1>3, <1>4, <2>1 DEF Fresh, Allowed, InRange, ProfileCall
  <2>3. last_request_id["profile"] \in Int
    BY DEF FlowInv, Channels, Streams
  <2>4. FreshId("profile", req)
    BY <1>3, <1>4, <2>1, <2>3 DEF Fresh, FreshId
  <2> QED BY <1>1, <2>2, <2>4, AllowedProfile
<1>12. PICK m : Answers("profile", m) /\ (reference => Serves(m))
  BY <1>6, <1>11
<1>13. /\ Replies(0, <<m>>) /\ Told(<<m>>)
       /\ \A k \in Kinds : Tells(<<m>>, k) = IF "profile" = k THEN 1 ELSE 0
  BY <1>12, AnswersTold DEF Streams
<1>14. \A k \in Kinds : (IF Head(to_receiver).type = k THEN 1 ELSE 0) =
                            (IF k = "frame" THEN 0 ELSE 0) + Tells(<<m>>, k)
  BY <1>13
<1> QED BY <1>6, <1>7, <1>8, <1>9, <1>10, <1>13, <1>14, AnsweredKeeps

(* The interval an UPDATE sets is the policy's from then on, and counts as  *)
(* chosen unless it is the preset's (UpdatedPolicy, Override).              *)
LEMMA UpdateOverrides ==
  ASSUME Valid(policy), Overridden, NEW req \in EpaperRefreshRequest,
         \A u, v \in req.cleanup_after_updates : u = v,
         ValidUpdate(req), policy' = UpdatedPolicy(req),
         override' = IF req.cleanup_after_updates = {} THEN override
                     ELSE req.cleanup_after_updates
                            \ {for_profile(policy.profile).cleanup_after_updates}
  PROVE  Overridden'
<1>1. /\ policy'.profile = policy.profile
      /\ policy'.cleanup_after_updates =
           Given(req.cleanup_after_updates, policy.cleanup_after_updates)
  BY UpdatedValid
<1>2. /\ req.cleanup_after_updates \in SUBSET Nat
      /\ policy.cleanup_after_updates \in Nat
  BY DEF EpaperRefreshRequest, Valid, Policies
<1>3. CASE req.cleanup_after_updates = {}
  <2>1. policy'.cleanup_after_updates = policy.cleanup_after_updates
    BY <1>1, <1>2, <1>3, GivenType
  <2> QED BY <1>1, <1>3, <2>1 DEF Overridden
<1>4. CASE req.cleanup_after_updates # {}
  <2>1. policy'.cleanup_after_updates \in req.cleanup_after_updates
    <3>1. Given(req.cleanup_after_updates, policy.cleanup_after_updates)
            \in req.cleanup_after_updates
      BY <1>2, <1>4, GivenType, Zenon
    <3> QED BY <1>1, <3>1
  <2>2. \A v \in override' :
          /\ v = policy'.cleanup_after_updates
          /\ v # for_profile(policy.profile).cleanup_after_updates
    BY <1>4, <2>1
  <2> QED BY <1>1, <2>2 DEF Overridden
<1> QED BY <1>3, <1>4

(* The reference producer's refresh requests are well formed.               *)
LEMMA AllowedRefresh ==
  ASSUME NEW req, Allowed("refresh", req), gates = server_hello.features
  PROVE  "EpaperRefreshControl" \in gates /\ WellFormed(req)
  BY DEF Allowed, InRange, RefreshCall, Supports, WellFormed

(* A refresh request is handled (handle_epaper_refresh).                    *)
LEMMA HandleRefreshKeeps ==
  ASSUME FlowInv, link = "up", to_receiver # <<>>, to_receiver' = Tail(to_receiver),
         UNCHANGED <<linkVars, producerVars>>,
         Head(to_receiver).type = "refresh", handle_epaper_refresh(Handled),
         override' = Override(Handled)
  PROVE  FlowInv' /\ Reported
<1>h. PICK h : h = Head(to_receiver)
  OBVIOUS
<1>r. PICK req : req = [h.body EXCEPT !.id = h.id]
  OBVIOUS
<1>1. /\ SessionOK /\ Remembered /\ Overridden /\ Valid(policy)
      /\ to_receiver \in Seq(Messages)
      /\ reference => gates = server_hello.features
      /\ reference => \A i \in DOMAIN to_receiver :
           to_receiver[i].type \in Streams => Fresh(to_receiver[i])
  BY DEF FlowInv, SessionOK, Channels, Negotiated, Requests
<1>2. h \in Messages /\ 1 \in DOMAIN to_receiver /\ to_receiver[1] = h
  BY <1>1, <1>h, HeadTailProperties, LenProperties
<1>3. /\ h.type = "refresh" /\ h.body \in RefreshRequests /\ h.id \in Nat
      /\ h.body \in EpaperRefreshRequest
      /\ \A u, v \in h.body.cleanup_after_updates : u = v
  BY <1>2, <1>h, ControlAssumption DEF Messages
<1>4. /\ req \in EpaperRefreshRequest /\ req.id = h.id
      /\ req.operation = h.body.operation
      /\ req.partial_refresh_enabled = h.body.partial_refresh_enabled
      /\ req.cleanup_after_updates = h.body.cleanup_after_updates
      /\ req.large_update_threshold_percent = h.body.large_update_threshold_percent
      /\ req.static_cleanup_after_fast_updates
           = h.body.static_cleanup_after_fast_updates
  BY <1>3, <1>r DEF EpaperRefreshRequest
<1>5. handle_epaper_refresh(req) /\ override' = Override(req)
  BY <1>h, <1>r DEF Handled
<1>6. /\ SessionOK'
      /\ policy' = policy \/ (ValidUpdate(req) /\ policy' = UpdatedPolicy(req))
      /\ \E m : /\ Answers("refresh", m)
                /\ /\ "EpaperRefreshControl" \in gates
                   /\ FreshId("refresh", req)
                   /\ WellFormed(req)
                   => Serves(m)
  BY <1>1, <1>4, <1>5, RefreshKeeps
<1>7. /\ UNCHANGED <<gates, last_custom_profile>>
      /\ \/ UNCHANGED last_request_id
         \/ last_request_id' = [last_request_id EXCEPT !["refresh"] = req.id]
  BY <1>5 DEF handle_epaper_refresh, Gate, Admitted, Refuse, ApplyUpdate,
              CleanSurface, ArmCleanup
<1>8. Noted /\ Remembered'
  BY <1>1, <1>3, <1>4, <1>7, <1>h DEF Noted, Streams, Remembered
<1>9. Overridden'
  <2>1. CASE policy' = policy
    BY <1>1, <1>5, <2>1, OverrideStays DEF Override
  <2>2. CASE policy' # policy
    <3>1. override' = IF req.cleanup_after_updates = {} THEN override
                      ELSE req.cleanup_after_updates
                             \ {for_profile(policy.profile).cleanup_after_updates}
      BY <1>3, <1>5, <1>h, <2>2 DEF Override
    <3>2. \A u, v \in req.cleanup_after_updates : u = v
      BY <1>3, <1>4
    <3> QED BY <1>1, <1>4, <1>6, <2>2, <3>1, <3>2, UpdateOverrides
  <2> QED BY <2>1, <2>2
<1>10. reference => /\ "EpaperRefreshControl" \in gates
                    /\ FreshId("refresh", req) /\ WellFormed(req)
  <2> SUFFICES ASSUME reference
               PROVE  /\ "EpaperRefreshControl" \in gates
                      /\ FreshId("refresh", req) /\ WellFormed(req)
    OBVIOUS
  <2>1. Fresh(h)
    BY <1>1, <1>2, <1>3 DEF Streams
  <2>2. Allowed("refresh", req)
    BY <1>3, <1>4, <2>1
    DEF Fresh, Allowed, InRange, ValidUpdate, RefreshCall, has_parameters
  <2>3. last_request_id["refresh"] \in Int
    BY DEF FlowInv, Channels, Streams
  <2>4. FreshId("refresh", req)
    BY <1>3, <1>4, <2>1, <2>3 DEF Fresh, FreshId
  <2> QED BY <1>1, <2>2, <2>4, AllowedRefresh
<1>11. PICK m : Answers("refresh", m) /\ (reference => Serves(m))
  BY <1>6, <1>10
<1>12. /\ Replies(0, <<m>>) /\ Told(<<m>>)
       /\ \A k \in Kinds : Tells(<<m>>, k) = IF "refresh" = k THEN 1 ELSE 0
  BY <1>11, AnswersTold DEF Streams
<1>13. \A k \in Kinds : (IF Head(to_receiver).type = k THEN 1 ELSE 0) =
                            (IF k = "frame" THEN 0 ELSE 0) + Tells(<<m>>, k)
  BY <1>12
<1> QED BY <1>6, <1>7, <1>8, <1>9, <1>12, <1>13, AnsweredKeeps

(* The serve loop handles the message at the head of the channel (Handle).  *)
LEMMA HandleKeeps ==
  ASSUME FlowInv, Handle
  PROVE  FlowInv' /\ Reported
<1>1. /\ link = "up" /\ to_receiver # <<>> /\ to_receiver' = Tail(to_receiver)
      /\ UNCHANGED <<linkVars, producerVars>>
  BY DEF Handle
<1>2. CASE HandlePlain
  BY <1>1, <1>2, HandlePlainKeeps
<1>3. CASE HandleRequest
  BY <1>1, <1>3, HandleProfileKeeps, HandleRefreshKeeps DEF HandleRequest
<1> QED BY <1>2, <1>3 DEF Handle

--------------------------------------------------------------------------------
(* The theorems.                                                            *)

(* At the start there is nobody (ControlInit).                              *)
LEMMA FlowInvInit == ControlInit => FlowInv
<1> SUFFICES ASSUME ControlInit
             PROVE  FlowInv
  OBVIOUS
<1> USE DEF ControlInit, SessionControlInit
<1>1. SessionOK /\ Valid(baseline)
  <2>1. NoDebt \in RefreshDebt /\ NoDebt.since_cleanup = 0
    BY CountMaxAssumption DEF NoDebt, RefreshDebt
  <2>2. [owed |-> FALSE, partials |-> 0] \in Ledgers
    BY CountMaxAssumption DEF Ledgers
  <2> QED BY <2>1, <2>2, ControlAssumption DEF SessionOK, Valid
<1>2. Remembered /\ Overridden
  BY FS_EmptySet DEF Remembered, Overridden
<1>3. Channels /\ Unconnected
  BY ControlAssumption DEF Channels, Unconnected, Kinds, Streams
<1>4. Negotiated
  BY DEF Negotiated
<1>5. Balance
  <2>1. \A k \in Kinds : Asked(k) = {} /\ Answered(k) = {}
    BY DEF Asked, Answered
  <2>2. \A k \in Kinds : Cardinality(Asked(k)) = 0 /\ Cardinality(Answered(k)) = 0
    BY <2>1, FS_EmptySet
  <2>3. Waiting(core) = 0 /\ \A k \in Kinds : unanswered[k] = 0
    BY WaitingInCore
  <2> QED BY <2>2, <2>3 DEF Balance
<1>6. CallWaits /\ Calls /\ Requests /\ ReferenceServed
  BY DEF CallWaits, Calls, Requests, ReferenceServed
<1> QED BY <1>1, <1>2, <1>3, <1>4, <1>5, <1>6 DEF FlowInv

(* A step that sends nothing reports nothing.                               *)
LEMMA NothingReported ==
  ASSUME Channels, to_client' = to_client \/ to_client' = <<>>
                     \/ (to_client # <<>> /\ to_client' = Tail(to_client))
  PROVE  Reported
<1>1. to_client \in Seq(Outgoing)
  BY DEF Channels
<1>2. Len(to_client) \in Nat /\ Len(<<>>) = 0
  BY <1>1, LenProperties
<1>3. to_client # <<>> => Len(Tail(to_client)) = Len(to_client) - 1
  BY <1>1, HeadTailProperties
<1> QED BY <1>2, <1>3 DEF Reported

(* Every step keeps the invariant and reports what is true (ControlNext).   *)
LEMMA FlowInvStep ==
  ASSUME FlowInv, [ControlNext]_flowVars
  PROVE  FlowInv' /\ (Reported \/ UNCHANGED flowVars)
<1>0. Channels /\ Valid(baseline) /\ Valid(Baseline)
  BY ControlAssumption DEF FlowInv, Valid
<1>1. CASE IdleMenu
  <2>1. Valid(baseline')
    BY <1>0, <1>1, IdlePoliciesValid DEF IdleMenu
  <2>2. PICK b : b = baseline'
    OBVIOUS
  <2>3. FlowInv'
    BY <1>1, <2>1, <2>2, NobodyKeeps DEF IdleMenu
  <2> QED BY <1>0, <1>1, <2>3, NothingReported DEF IdleMenu, SessionNew
<1>2. CASE Restart
  <2>1. FlowInv'
    BY <1>0, <1>2, NobodyKeeps DEF Restart
  <2> QED BY <1>0, <1>2, <2>1, NothingReported DEF Restart, SessionNew
<1>3. CASE EndConnection
  <2>1. PICK b : b = baseline
    OBVIOUS
  <2>2. FlowInv'
    BY <1>0, <1>3, <2>1, NobodyKeeps DEF EndConnection
  <2> QED BY <1>0, <1>3, <2>2, NothingReported DEF EndConnection, SessionNew
<1>4. CASE \/ Connect(ReferenceHello, TRUE)
           \/ \E h \in Hellos : Connect(h, FALSE)
  <2>1. FlowInv'
    BY <1>4, ConnectKeeps, ReferenceHelloType, ControlAssumption
  <2> QED BY <1>0, <1>4, <2>1, NothingReported DEF Connect
<1>5. CASE accept_hello
  BY <1>0, <1>5, AcceptHelloKeeps, NothingReported DEF accept_hello
<1>6. CASE ReceiveHello
  BY <1>0, <1>6, ReceiveHelloKeeps, NothingReported DEF ReceiveHello
<1>7. CASE \E kind \in Kinds : PostPlain(kind)
  BY <1>0, <1>7, PostPlainKeeps, NothingReported DEF PostPlain, Post
<1>8. CASE PostClose
  BY <1>0, <1>8, PostCloseKeeps, NothingReported DEF PostClose
<1>9. CASE \/ \E req \in ProfileRequests : PostRequest("profile", req)
           \/ \E req \in RefreshRequests : PostRequest("refresh", req)
  <2>1. FlowInv'
    <3>1. "profile" \in Streams /\ "refresh" \in Streams /\ "profile" # "refresh"
      BY DEF Streams
    <3> QED BY <1>9, <3>1, PostRequestKeeps
  <2>2. UNCHANGED to_client
    BY <1>9 DEF PostRequest, Post
  <2> QED BY <1>0, <2>1, <2>2, NothingReported
<1>10. CASE Receive
  BY <1>0, <1>10, ReceiveKeeps, NothingReported DEF Receive
<1>11. CASE Handle \/ Polls \/ Menu
  BY <1>11, HandleKeeps, PollsKeeps, MenuKeeps
<1>12. CASE UNCHANGED flowVars
  <2>1. SessionOK' /\ Valid(baseline)' /\ Remembered' /\ Overridden'
    BY <1>12 DEF FlowInv, SessionOK, Remembered, Overridden, Valid, flowVars, controlVars
  <2>2. Channels' /\ Unconnected'
    BY <1>12 DEF FlowInv, Channels, Unconnected, flowVars, controlVars
  <2>5. Balance'
    BY <1>12 DEF FlowInv, Balance, Asked, Answered, flowVars, controlVars
  <2>3. CallWaits' /\ Calls' /\ Negotiated' /\ ReferenceServed'
    BY <1>12
    DEF FlowInv, CallWaits, Calls, Negotiated, ReferenceServed, flowVars, controlVars
  <2>4. Requests'
    BY <1>12
    DEF FlowInv, Requests, Fresh, Allowed, InRange, ValidUpdate, ProfileCall,
        RefreshCall, has_parameters, Supports, flowVars, controlVars
  <2> QED BY <1>12, <2>1, <2>2, <2>3, <2>4, <2>5 DEF FlowInv
<1> QED
  BY <1>1, <1>2, <1>3, <1>4, <1>5, <1>6, <1>7, <1>8, <1>9, <1>10, <1>11, <1>12
  DEF ControlNext

(* The receiver selects the highest minor both sides cover with features    *)
(* both have (select_minor).                                                *)
LEMMA SelectsHighest ==
  ASSUME NEW h \in ClientHello, Accepts(h)
  PROVE  /\ select_minor(h) \in CommonMinors(h)
         /\ \A minor \in CommonMinors(h) : minor <= select_minor(h)
         /\ select_minor(h) \in 0..3
<1>1. /\ h.min_minor \in Nat /\ h.max_minor \in Nat /\ h.min_minor <= h.max_minor
      /\ select_minor(h) # NoMinor
  BY DEF Accepts, ClientHello, validate_hello
<1>2. /\ MinorFeatures(0) = {} /\ MinorFeatures(1) = {"ByteCredits"}
      /\ MinorFeatures(2) = {"ByteCredits", "EpaperCustomProfile"}
      /\ MinorFeatures(3) = {"ByteCredits", "EpaperCustomProfile", "RemoteOverlay"}
  BY DEF MinorFeatures
<1>3. 0..MAX_MINOR = {0, 1, 2, 3} /\ 0..3 = {0, 1, 2, 3}
  BY DEF MAX_MINOR
<1>4. /\ 0 \in CommonMinors(h) <=> h.min_minor = 0
      /\ 1 \in CommonMinors(h) <=> Covers(h, 1) /\ "ByteCredits" \in h.features
      /\ 2 \in CommonMinors(h) <=>
           Covers(h, 2) /\ {"ByteCredits", "EpaperCustomProfile"} \subseteq h.features
      /\ 3 \in CommonMinors(h) <=>
           /\ Covers(h, 3)
           /\ {"ByteCredits", "EpaperCustomProfile", "RemoteOverlay"}
                \subseteq h.features
  <2>1. Covers(h, 0) <=> h.min_minor = 0
    BY <1>1 DEF Covers
  <2> QED BY <1>2, <1>3, <2>1 DEF CommonMinors
<1>5. select_minor(h) =
        IF 3 \in CommonMinors(h) THEN 3 ELSE IF 2 \in CommonMinors(h) THEN 2
        ELSE IF 1 \in CommonMinors(h) THEN 1 ELSE IF 0 \in CommonMinors(h) THEN 0
        ELSE NoMinor
  BY <1>4 DEF select_minor
<1>6. CommonMinors(h) \subseteq {0, 1, 2, 3}
  BY <1>3 DEF CommonMinors
<1> QED BY <1>1, <1>3, <1>5, <1>6

(* What the receiver echoes is what its minor promises                      *)
(* (validate_server_hello).                                                 *)
LEMMA EchoesMinor ==
  ASSUME NEW h \in ClientHello, Accepts(h), NEW device,
         "EpaperCustomProfile" \in h.features => "EpaperProfileControl" \in h.features
  PROVE  validate_server_hello(ServerHello(h, device))
<1>1. /\ select_minor(h) \in 0..3
      /\ MinorFeatures(select_minor(h)) \subseteq h.features
  BY SelectsHighest DEF CommonMinors
<1>m. PICK minor : minor = select_minor(h)
  OBVIOUS
<1>2. /\ minor >= 1 => Enabled(h, device, "ByteCredits")
      /\ minor >= 2 => Enabled(h, device, "EpaperCustomProfile")
      /\ minor >= 3 => Enabled(h, device, "RemoteOverlay")
  <2>1. /\ minor >= 2 => {"EpaperCustomProfile", "EpaperProfileControl"} \subseteq h.features
        /\ minor >= 3 => "RemoteOverlay" \in h.features
    BY <1>1, <1>m DEF MinorFeatures
  <2> QED BY <1>m, <2>1 DEF Enabled
<1>3. MinorFeatures(minor) \subseteq {f \in OptionalFeatures : Enabled(h, device, f)}
  BY <1>2 DEF MinorFeatures, OptionalFeatures
<1>4. /\ ServerHello(h, device).selected_minor = minor
      /\ ServerHello(h, device).features =
           {f \in OptionalFeatures : Enabled(h, device, f)}
  BY <1>m DEF ServerHello
<1> QED BY <1>1, <1>3, <1>4, <1>m DEF validate_server_hello, MAX_MINOR

(* The invariant implies everything that the runs check.                    *)
LEMMA FlowInvPromises ==
  ASSUME FlowInv
  PROVE  /\ ControlTypeOK /\ PolicyAgrees /\ CleanupCarried /\ DebtCarried
         /\ OneAnswerEach /\ ReferenceServed /\ HelloAgreed
<1>1. ControlTypeOK
  <2>1. /\ ValidConfig(policy) /\ ValidConfig(baseline)
        /\ \A c \in last_custom_profile : ValidConfig(c) /\ c.profile = "Custom"
        /\ Cardinality(last_custom_profile) <= 1
        /\ cleanup_pending_without_surface \in BOOLEAN
        /\ refresh_debt_without_surface \in RefreshDebt
    BY DEF FlowInv, SessionOK, Valid, Remembered
  <2>2. core # NoCore =>
          /\ core.pending \in BOOLEAN /\ core.presented \in BOOLEAN
          /\ core.force_cleanup_next \in BOOLEAN /\ core.debt \in RefreshDebt
    BY DEF FlowInv, SessionOK, Cores
  <2>3. /\ gates \subseteq ControlFeatures
        /\ last_request_id \in [Streams -> 0..MaxRequests]
        /\ link \in {"idle", "hello", "answered", "up"}
        /\ call \in Kinds \cup {"none"} /\ unanswered \in [Kinds -> Nat]
    BY DEF FlowInv, Negotiated, Channels
  <2>4. \A i \in DOMAIN to_client : "result" \in DOMAIN to_client[i] =>
          to_client[i].result \in Codes
    <3> SUFFICES ASSUME NEW i \in DOMAIN to_client, "result" \in DOMAIN to_client[i]
                 PROVE  to_client[i].result \in Codes
      OBVIOUS
    <3>1. to_client[i] \in Outgoing
      BY LenProperties DEF FlowInv, Channels
    <3> QED BY <3>1 DEF Outgoing, ControlAnswers
  <2>5. ledger \in [owed : BOOLEAN, partials : 0..CountMax]
    BY DEF FlowInv, SessionOK, Ledgers
  <2> QED BY <2>1, <2>2, <2>3, <2>4, <2>5 DEF ControlTypeOK
<1>2. PolicyAgrees
  BY DEF FlowInv, SessionOK, Overridden, PolicyAgrees
<1>3. CleanupCarried /\ DebtCarried
  BY SessionPromises DEF FlowInv, CleanupCarried, DebtCarried
<1>4. OneAnswerEach
  BY DEF FlowInv, CallWaits, Balance, OneAnswerEach
<1>5. HelloAgreed
  <2> SUFFICES ASSUME link = "answered"
               PROVE  /\ server_hello.selected_minor \in CommonMinors(hello)
                      /\ \A minor \in CommonMinors(hello) :
                           minor <= server_hello.selected_minor
                      /\ ("EpaperCustomProfile" \in hello.features =>
                            "EpaperProfileControl" \in hello.features)
                           => validate_server_hello(server_hello)
    BY DEF HelloAgreed
  <2>1. /\ hello \in ClientHello /\ Accepts(hello)
        /\ server_hello = ServerHello(hello, Device)
    BY DEF FlowInv, Negotiated
  <2>2. server_hello.selected_minor = select_minor(hello)
    BY <2>1 DEF ServerHello
  <2> QED BY <2>1, <2>2, SelectsHighest, EchoesMinor
<1>6. ReferenceServed
  BY DEF FlowInv
<1> QED BY <1>1, <1>2, <1>3, <1>4, <1>5, <1>6

(* The inductive invariant holds in every reachable state.                  *)
THEOREM FlowInvariant == ControlSpec => []FlowInv
<1>1. FlowInv /\ [ControlNext]_flowVars => FlowInv'
  BY FlowInvStep
<1> QED BY FlowInvInit, <1>1, PTL DEF ControlSpec

(* Policies stay valid, counters in range and channels typed                *)
(* (ReceiverConfig, ActiveSurface, the control messages).                   *)
THEOREM ControlTypeCorrect == ControlSpec => []ControlTypeOK
<1>1. FlowInv => ControlTypeOK
  BY FlowInvPromises
<1> QED BY FlowInvariant, <1>1, PTL

(* The surface is driven with the session's policy, and a cleanup interval  *)
(* an UPDATE chose survives the switches between named profiles             *)
(* (change_refresh_profile, update_refresh_config, switched_to).            *)
THEOREM PolicyAlwaysAgrees == ControlSpec => []PolicyAgrees
<1>1. FlowInv => PolicyAgrees
  BY FlowInvPromises
<1> QED BY FlowInvariant, <1>1, PTL

(* A complete refresh that was promised stays armed until it is done        *)
(* (cleanup_pending_without_surface, carry_cleanup).                        *)
THEOREM CleanupAlwaysCarried == ControlSpec => []CleanupCarried
<1>1. FlowInv => CleanupCarried
  BY FlowInvPromises
<1> QED BY FlowInvariant, <1>1, PTL

(* The debt of partial updates follows the panel from surface to surface    *)
(* (carry_debt, refresh_debt_without_surface).                              *)
THEOREM DebtAlwaysCarried == ControlSpec => []DebtCarried
<1>1. FlowInv => DebtCarried
  BY FlowInvPromises
<1> QED BY FlowInvariant, <1>1, PTL

(* Everything asked has exactly one answer, and no call waits for one that  *)
(* will not come (terminal_result, cancel_pending).                         *)
THEOREM AlwaysOneAnswerEach == ControlSpec => []OneAnswerEach
<1>1. FlowInv => OneAnswerEach
  BY FlowInvPromises
<1> QED BY FlowInvariant, <1>1, PTL

(* The reference producer's requests are never refused (the gates of        *)
(* accept_hello, FreshId).                                                  *)
THEOREM ReferenceAlwaysServed == ControlSpec => []ReferenceServed
<1>1. FlowInv => ReferenceServed
  BY FlowInvPromises
<1> QED BY FlowInvariant, <1>1, PTL

(* The highest common minor is selected, and the answer passes the          *)
(* producer's check (select_minor, validate_server_hello).                  *)
THEOREM HelloAlwaysAgreed == ControlSpec => []HelloAgreed
<1>1. FlowInv => HelloAgreed
  BY FlowInvPromises
<1> QED BY FlowInvariant, <1>1, PTL

(* No control answer claims more than the panel did (CleanupReport,         *)
(* RefreshProfileChange).                                                   *)
THEOREM ReportsAlwaysTrue == ControlSpec => ReportsTrue
<1>1. FlowInv /\ [ControlNext]_flowVars =>
        [Len(to_client') > Len(to_client) =>
           LET m == to_client'[Len(to_client')]
           IN m.type \in Streams =>
                /\ m.cleanup_performed => ~ledger'.owed /\ ledger'.partials = 0
                /\ ~m.cleanup_pending => ~ledger'.owed]_flowVars
  BY FlowInvStep DEF Reported
<1> QED BY FlowInvariant, <1>1, PTL DEF ControlSpec, ReportsTrue

================================================================================
