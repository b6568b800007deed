---------------------------- MODULE SessionControl -----------------------------
(***************************************************************************)
(* The receiver session as a producer, the menu and the surface life cycle *)
(* steer its refresh policy (rm-display-receiver/src/session.rs): profile  *)
(* and refresh control, requested cleanups and what of them survives a     *)
(* surface.                                                                *)
(*                                                                         *)
(* Of the core (DisplayCore) only what these operations see is kept: its   *)
(* configuration, whether a frame waits or was presented, the armed        *)
(* cleanup and the refresh debt.  What the core may do with the panel is a *)
(* set of outcomes; a presentation may always turn out complete, for       *)
(* recovery or fast-update debt.                                           *)
(***************************************************************************)
EXTENDS RefreshPolicy, Negotiation, Sequences

VARIABLES
  policy,                           \* config.refresh_policy of the session
  last_custom_profile,              \* {} or {the last CUSTOM policy}
  core,                             \* of the open surface, or NoCore
  cleanup_pending_without_surface,
  refresh_debt_without_surface,
  gates,                            \* control features accept_hello enabled
  last_request_id,                  \* per control stream
  to_client,                        \* answers on their way to the producer
  ledger                            \* what the panel was driven with

controlVars == <<policy, last_custom_profile, core,
                 cleanup_pending_without_surface, refresh_debt_without_surface,
                 gates, last_request_id>>

ControlFeatures ==
  {"EpaperProfileControl", "EpaperCustomProfile", "EpaperRefreshControl"}

Streams == {"profile", "refresh"}

\* Configurations as the command line and the messages carry them.  Their
\* intervals do not depend on where the model lets the counters saturate.
Policies ==
  [profile : RefreshProfile,
   latest_text_waveform : Waveform, latest_photo_waveform : Waveform,
   latest_video_waveform : Waveform, settled_waveform : Waveform,
   partial_refresh_enabled : BOOLEAN, clean_first_frame : BOOLEAN,
   cleanup_after_updates : Nat, large_update_threshold_percent : Nat,
   static_cleanup_after_fast_updates : Nat]

\* EpaperProfileRequest and EpaperRefreshRequest; an optional field is the set
\* of its values.
EpaperProfileRequest ==
  [id : Nat, operation : {"Unspecified", "Query", "Set"},
   profile : RefreshProfile \cup {"Unspecified"},
   custom : SUBSET {c \in Policies : c.profile = "Custom"}]

EpaperRefreshRequest ==
  [id : Nat, operation : {"Unspecified", "Query", "Update", "Cleanup"},
   partial_refresh_enabled : SUBSET BOOLEAN,
   cleanup_after_updates : SUBSET Nat,
   large_update_threshold_percent : SUBSET Nat,
   static_cleanup_after_fast_updates : SUBSET Nat]

NoCore == [config |-> "none"]

DisplayCore(cfg, armed, debt) ==
  [config |-> cfg, pending |-> FALSE, presented |-> FALSE,
   force_cleanup_next |-> armed, debt |-> debt]

--------------------------------------------------------------------------------
(* What the core does with the panel.  An outcome is the core after it, how *)
(* the panel was driven and how many terminals it returns.                  *)

Drives == {"none", "partial", "complete", "failed"}

Outcome(c, drive, terminals) ==
  [core |-> c, drive |-> drive, terminals |-> terminals]

PanelArea == 100

\* A submission with this decision.
Submitted(c, complete, terminals) ==
  Outcome([c EXCEPT
             !.force_cleanup_next = @ /\ ~complete,
             !.debt = presented_submissions(@, complete, 1)],
          IF complete THEN "complete" ELSE "partial", terminals)

\* The decisions open to a submission of some damage.
Completes(c, intents, forces) ==
  {Decide(c.config, c.debt, intent, "TextUi", damage, PanelArea,
          force).complete_refresh :
     intent \in intents, damage \in {1, PanelArea}, force \in forces}

\* tick_inner on the pending frame: pump or submit fails, or nothing changed, or
\* it is shown.  A first frame always has damage.
tick_inner(c) ==
  LET completes == Completes(c, FrameIntent, {c.force_cleanup_next, TRUE})
      done      == [c EXCEPT !.pending = FALSE]
      shown     == [done EXCEPT !.presented = TRUE]
  IN {Outcome(done, "failed", 1)}
       \cup {Outcome(shown, "none", 1) : x \in
               IF c.presented /\ FALSE \in completes THEN {0} ELSE {}}
       \cup {Submitted(shown, complete, 1) : complete \in completes}

request_cleanup(c) ==
  LET armed == [c EXCEPT !.force_cleanup_next = TRUE]
  IN IF armed.pending THEN tick_inner(armed)
     ELSE IF ~armed.presented THEN {Outcome(armed, "none", 0)}
     ELSE {Outcome(armed, "failed", 0), Submitted(armed, TRUE, 0)}

\* Mutant: a switch only installs the new policy.
change_refresh_profile_Quiet(c, cfg) ==
  {Outcome([c EXCEPT !.config = cfg], "none", 0)}

change_refresh_profile(c, cfg) ==
  LET next == [c EXCEPT !.config = cfg]
  IN IF cfg # c.config \/ c.force_cleanup_next THEN request_cleanup(next)
     ELSE {Outcome(next, "none", 0)}

\* present_overlay: the pending frame first, then the plane, which knows of no
\* armed cleanup.  A plane that fails ends the session.
FlushPending(c) ==
  IF c.pending THEN tick_inner(c) ELSE {Outcome(c, "none", 0)}

PresentPlane(c) ==
  {Outcome(c, "none", 0), Outcome(c, "failed", 0)}
    \cup {Submitted(c, complete, 0) :
            complete \in Completes(c, {"Settled"}, {FALSE})}

\* ledger.owed: a complete refresh was promised to the producer and has not
\* happened; ledger.partials: partial submissions since the last complete one.
Driven(l, drive) ==
  CASE drive = "complete" -> [owed |-> FALSE, partials |-> 0]
    [] drive = "partial"  -> [l EXCEPT !.partials = saturating_add(@, 1)]
    [] OTHER              -> l

Owing(l) == [l EXCEPT !.owed = TRUE]

--------------------------------------------------------------------------------
(* Answers.                                                                 *)

FrameResult == [type |-> "FrameResult"]

\* The terminals of a step go out before its answer.
Reply(terminals, answer) ==
  to_client' = to_client \o [i \in 1..terminals |-> FrameResult] \o answer

current_cleanup_pending ==
  IF core = NoCore THEN cleanup_pending_without_surface
                   ELSE core.force_cleanup_next

Codes == {"Applied", "Unchanged", "Rejected", "Unsupported", "Failed"}

Result(stream, req, code, performed, pending) ==
  [type |-> stream, id |-> req.id, result |-> code,
   cleanup_performed |-> performed, cleanup_pending |-> pending]

\* An answer that leaves everything but the id as it was.
Refuse(stream, req, code) ==
  /\ Reply(0, <<Result(stream, req, code, FALSE, current_cleanup_pending)>>)
  /\ UNCHANGED <<policy, last_custom_profile, core,
                 cleanup_pending_without_surface, refresh_debt_without_surface,
                 ledger>>

\* Mutant: the two control streams share one counter.
FreshId_Shared(stream, req) == \A s \in Streams : req.id > last_request_id[s]

FreshId(stream, req) == req.id > last_request_id[stream]

\* Unnegotiated or stale requests leave the id alone as well.
Gate(stream, feature, req) ==
  \/ /\ feature \notin gates
     /\ Refuse(stream, req, "Unsupported") /\ UNCHANGED last_request_id
  \/ /\ feature \in gates /\ ~FreshId(stream, req)
     /\ Refuse(stream, req, "Rejected") /\ UNCHANGED last_request_id

Admitted(stream, feature, req) ==
  /\ feature \in gates /\ FreshId(stream, req)
  /\ last_request_id' = [last_request_id EXCEPT ![stream] = req.id]

--------------------------------------------------------------------------------
(* handle_epaper_profile.  req.custom is {} or {a configuration}.           *)

\* custom_profile_config: the configuration is checked as a whole.
custom_profile_config(req) == {c \in req.custom : ValidConfig(c)}

\* The verdict on a request that was admitted, check by check.
ProfileVerdict(req) ==
  IF req.operation = "Query" /\ req.profile = "Unspecified" /\ req.custom = {}
    THEN "Unchanged"
  ELSE IF req.operation # "Set" THEN "Rejected"
  ELSE IF req.profile = "Custom"
    THEN IF "EpaperCustomProfile" \notin gates THEN "Unsupported"
         ELSE IF custom_profile_config(req) = {} THEN "Rejected" ELSE "Set"
  ELSE IF req.custom = {} /\ req.profile \in NamedProfiles THEN "Set"
  ELSE "Rejected"

RequestedPolicy(req) ==
  IF req.profile = "Custom"
    THEN CHOOSE c \in custom_profile_config(req) : TRUE
    ELSE switched_to(policy, req.profile)

\* Mutant: a switch without a surface is not remembered.
ArmedWithout_Dropped(changed) == cleanup_pending_without_surface

ArmedWithout(changed) == cleanup_pending_without_surface \/ changed

ApplyProfile(req) ==
  LET next    == RequestedPolicy(req)
      changed == next # policy
      code    == IF changed THEN "Applied" ELSE "Unchanged"
      owing   == IF changed THEN Owing(ledger) ELSE ledger
  IN /\ policy' = next
     /\ last_custom_profile' =
          IF next.profile = "Custom" THEN {next} ELSE last_custom_profile
     /\ \/ /\ core # NoCore
           /\ \E o \in change_refresh_profile(core, next) :
                /\ core' = o.core
                /\ ledger' = Driven(owing, o.drive)
                /\ cleanup_pending_without_surface' = o.core.force_cleanup_next
                /\ Reply(o.terminals,
                     <<Result("profile", req, code, o.drive = "complete",
                              o.core.force_cleanup_next)>>)
        \/ /\ core = NoCore
           /\ cleanup_pending_without_surface' = ArmedWithout(changed)
           /\ ledger' = owing
           /\ Reply(0, <<Result("profile", req, code, FALSE,
                                cleanup_pending_without_surface')>>)
           /\ UNCHANGED core
     /\ UNCHANGED refresh_debt_without_surface

handle_epaper_profile(req) ==
  /\ \/ Gate("profile", "EpaperProfileControl", req)
     \/ /\ Admitted("profile", "EpaperProfileControl", req)
        /\ \/ ProfileVerdict(req) = "Set" /\ ApplyProfile(req)
           \/ /\ ProfileVerdict(req) # "Set"
              /\ Refuse("profile", req, ProfileVerdict(req))
  /\ UNCHANGED gates

--------------------------------------------------------------------------------
(* handle_epaper_refresh.  A parameter is {} or {its value}.                *)

has_parameters(req) ==
  \/ req.partial_refresh_enabled # {} \/ req.cleanup_after_updates # {}
  \/ req.large_update_threshold_percent # {}
  \/ req.static_cleanup_after_fast_updates # {}

Given(option, default) ==
  IF option = {} THEN default ELSE CHOOSE v \in option : TRUE

UpdatedPolicy(req) ==
  [policy EXCEPT
     !.partial_refresh_enabled = Given(req.partial_refresh_enabled, @),
     !.cleanup_after_updates = Given(req.cleanup_after_updates, @),
     !.large_update_threshold_percent =
       Given(req.large_update_threshold_percent, @),
     !.static_cleanup_after_fast_updates =
       Given(req.static_cleanup_after_fast_updates, @)]

ValidUpdate(req) ==
  \A percent \in req.large_update_threshold_percent : percent <= 100

\* Mutant: the core keeps its own copy of the parameters.
Reconfigured_Stale(c, cfg) == c

\* update_refresh_config
Reconfigured(c, cfg) == IF c = NoCore THEN c ELSE [c EXCEPT !.config = cfg]

ApplyUpdate(req) ==
  LET next == UpdatedPolicy(req)
      code == IF next # policy THEN "Applied" ELSE "Unchanged"
  IN /\ policy' = next
     /\ core' = Reconfigured(core, next)
     /\ Reply(0, <<Result("refresh", req, code, FALSE,
                          current_cleanup_pending)>>)
     /\ UNCHANGED <<last_custom_profile, cleanup_pending_without_surface,
                    refresh_debt_without_surface, ledger>>

\* Session::request_cleanup, for a control request or a local one: on the open
\* surface, answered according to the drive and to what is still armed ...
CleanSurface(answer) ==
  /\ core # NoCore
  /\ \E o \in request_cleanup(core) :
       /\ core' = o.core
       /\ ledger' = Driven(Owing(ledger), o.drive)
       /\ refresh_debt_without_surface' = o.core.debt
       /\ cleanup_pending_without_surface' = o.core.force_cleanup_next
       /\ Reply(o.terminals, answer[o.drive][o.core.force_cleanup_next])
  /\ UNCHANGED <<policy, last_custom_profile>>

\* ... or armed for the next one.
ArmCleanup(answer) ==
  /\ core = NoCore
  /\ cleanup_pending_without_surface' = TRUE
  /\ ledger' = Owing(ledger)
  /\ Reply(0, answer)
  /\ UNCHANGED <<core, refresh_debt_without_surface, policy,
                 last_custom_profile>>

handle_epaper_refresh(req) ==
  LET answer == [drive \in Drives |-> [pending \in BOOLEAN |->
        <<Result("refresh", req, IF drive = "failed" THEN "Failed" ELSE "Applied",
                 drive = "complete", pending)>>]]
      query   == req.operation = "Query" /\ ~has_parameters(req)
      update  == /\ req.operation = "Update" /\ has_parameters(req)
                 /\ ValidUpdate(req)
      cleanup == req.operation = "Cleanup" /\ ~has_parameters(req)
  IN /\ \/ Gate("refresh", "EpaperRefreshControl", req)
        \/ /\ Admitted("refresh", "EpaperRefreshControl", req)
           /\ \/ query /\ Refuse("refresh", req, "Unchanged")
              \/ update /\ ApplyUpdate(req)
              \/ cleanup /\ CleanSurface(answer)
              \/ cleanup /\ ArmCleanup(answer["none"][TRUE])
              \/ /\ ~(query \/ update \/ cleanup)
                 /\ Refuse("refresh", req, "Rejected")
     /\ UNCHANGED gates

--------------------------------------------------------------------------------
(* Surfaces, frames and the poll of the server loop.                        *)

CarryCleanup ==
  \/ cleanup_pending_without_surface
  \/ core # NoCore /\ core.force_cleanup_next

\* Mutant: a new surface starts with the debt of the last poll.
CarryDebt_Polled == refresh_debt_without_surface

CarryDebt == IF core = NoCore THEN refresh_debt_without_surface ELSE core.debt

\* Frames that wait in a core.
Waiting(c) == IF c # NoCore /\ c.pending THEN 1 ELSE 0

\* Mutant: a frame of the old surface is forgotten.
Cancelled_Silent == 0

\* cancel_pending
Cancelled == Waiting(core)

open_surface ==
  /\ core' = DisplayCore(policy, CarryCleanup, CarryDebt)
  /\ cleanup_pending_without_surface' = CarryCleanup
  /\ refresh_debt_without_surface' = CarryDebt
  /\ Reply(Cancelled, <<[type |-> "SurfaceReady"]>>)
  /\ UNCHANGED <<policy, last_custom_profile, gates, last_request_id, ledger>>

\* A close of another surface or generation changes nothing.
close_surface ==
  /\ Reply(Cancelled, <<>>)
  /\ core' = NoCore
  /\ cleanup_pending_without_surface' =
       IF core = NoCore THEN cleanup_pending_without_surface
                        ELSE core.force_cleanup_next
  /\ refresh_debt_without_surface' = CarryDebt
  /\ UNCHANGED <<policy, last_custom_profile, gates, last_request_id, ledger>>

\* A frame is accepted and supersedes the one that waits, or it is rejected.
accept_frame ==
  /\ \/ /\ core # NoCore
        /\ core' = [core EXCEPT !.pending = TRUE]
        /\ Reply(Cancelled, <<>>)
     \/ Reply(1, <<>>) /\ UNCHANGED core
  /\ UNCHANGED <<policy, last_custom_profile, cleanup_pending_without_surface,
                 refresh_debt_without_surface, gates, last_request_id, ledger>>

\* The core after outcome o, known to the session.
Synced(o) ==
  /\ core' = o.core
  /\ cleanup_pending_without_surface' = o.core.force_cleanup_next
  /\ refresh_debt_without_surface' = o.core.debt

\* poll: a due frame, an idle cleanup that was earned, or just the bookkeeping.
poll ==
  /\ core # NoCore
  /\ \E o \in IF core.pending THEN tick_inner(core) \cup {Outcome(core, "none", 0)}
              ELSE {Outcome(core, "none", 0)} \cup
                     (IF core.presented THEN request_cleanup(core) ELSE {}) :
       /\ Synced(o)
       /\ ledger' = Driven(ledger, o.drive)
       /\ Reply(o.terminals, <<>>)
  /\ UNCHANGED <<policy, last_custom_profile, gates, last_request_id>>

\* overlay_update: rejected, or present_overlay without the bookkeeping of poll.
overlay_update ==
  /\ \/ /\ Reply(0, <<[type |-> "OverlayResult"]>>)
        /\ UNCHANGED <<core, ledger>>
     \/ /\ core # NoCore
        /\ \E f \in FlushPending(core) : \E o \in PresentPlane(f.core) :
             /\ o.drive # "failed"
             /\ core' = o.core
             /\ ledger' = Driven(Driven(ledger, f.drive), o.drive)
             /\ Reply(f.terminals, <<[type |-> "OverlayResult"]>>)
  /\ UNCHANGED <<policy, last_custom_profile, cleanup_pending_without_surface,
                 refresh_debt_without_surface, gates, last_request_id>>

--------------------------------------------------------------------------------
(* handle_local_menu_action                                                 *)

\* render_local_menu after an action that left core c, ledger l and so many
\* terminals.  A failure ends the session.
render_local_menu(c, l, terminals) ==
  \E f \in FlushPending(c) : \E o \in PresentPlane(f.core) :
    /\ o.drive # "failed"
    /\ Synced(o)
    /\ ledger' = Driven(Driven(l, f.drive), o.drive)
    /\ Reply(terminals + f.terminals, <<>>)

\* Without a surface the menu is drawn over the fallback picture, which is not
\* the core's business.
present_fallback ==
  /\ core = NoCore
  /\ UNCHANGED <<core, cleanup_pending_without_surface,
                 refresh_debt_without_surface, ledger, to_client>>

\* A profile the menu offers; CUSTOM only once a producer has set one.
MenuPolicy(profile) ==
  IF profile # "Custom" THEN {switched_to(policy, profile)}
  ELSE last_custom_profile

MenuSetProfile(profile) ==
  /\ \E next \in MenuPolicy(profile) :
       /\ policy' = next
       /\ \/ /\ core # NoCore
             /\ \E o \in change_refresh_profile(core, next) :
                  render_local_menu(o.core,
                    Driven(IF next # core.config THEN Owing(ledger) ELSE ledger,
                           o.drive), o.terminals)
          \/ present_fallback
  /\ UNCHANGED <<last_custom_profile, gates, last_request_id>>

TogglePartialRefresh ==
  LET next == [policy EXCEPT !.partial_refresh_enabled = ~@]
  IN /\ policy' = next
     /\ \/ core # NoCore /\ render_local_menu(Reconfigured(core, next), ledger, 0)
        \/ present_fallback
     /\ UNCHANGED <<last_custom_profile, gates, last_request_id>>

\* The menu opens or closes.
RenderMenu ==
  /\ core # NoCore /\ render_local_menu(core, ledger, 0)
  /\ UNCHANGED <<policy, last_custom_profile, gates, last_request_id>>

\* local_cleanup: FULL REFRESH, the five-finger chord or the session hook.
\* Without a surface it repaints the fallback picture.
local_cleanup ==
  /\ CleanSurface([drive \in Drives |-> [pending \in BOOLEAN |-> <<>>]])
  /\ UNCHANGED <<gates, last_request_id>>

SessionNew(baseline) ==
  /\ policy' = baseline /\ last_custom_profile' = {} /\ core' = NoCore
  /\ cleanup_pending_without_surface' = FALSE
  /\ refresh_debt_without_surface' = NoDebt
  /\ gates' = {} /\ last_request_id' = [s \in Streams |-> 0]
  /\ to_client' = <<>>
  /\ ledger' = [owed |-> FALSE, partials |-> 0]

SessionControlInit(baseline) ==
  /\ policy = baseline /\ last_custom_profile = {} /\ core = NoCore
  /\ cleanup_pending_without_surface = FALSE
  /\ refresh_debt_without_surface = NoDebt
  /\ gates = {} /\ last_request_id = [s \in Streams |-> 0]
  /\ to_client = <<>>
  /\ ledger = [owed |-> FALSE, partials |-> 0]
================================================================================
