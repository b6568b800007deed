------------------------------ MODULE DisplayCore ------------------------------
(***************************************************************************)
(* The presentation scheduler of the receiver                              *)
(* (rm-display-core/src/scheduler.rs): the logical remote base, three      *)
(* local planes above it, one pending presentation, and what the software  *)
(* believes the e-paper panel shows.                                       *)
(*                                                                         *)
(* A surface is a function from damage tiles to shades; a region, a damage *)
(* list and a plane's coverage are sets of tiles.  A local plane shows its *)
(* own name wherever it covers a tile.  Durations are whole ticks of an    *)
(* abstract clock, kept as the time left or the age that next_deadline and *)
(* adaptive_cleanup_due compare, never as absolute times.                  *)
(*                                                                         *)
(* Every action is one call into the core, the caller's change of a plane  *)
(* included.  Only present_plane takes two steps: it first completes the   *)
(* pending frame and then composes, and `call' forces the second step      *)
(* before anything else can happen.                                        *)
(***************************************************************************)
EXTENDS RefreshPolicy, FiniteSets

CONSTANTS
  Tiles,           \* damage tiles of the panel
  Pixels,          \* shades a remote frame can carry
  White,           \* the shade of a fresh surface
  Classes,         \* content classes the source kind of a surface can give
  Configs,         \* refresh configurations the session may install
  Planes,          \* local planes in use, a subset of {"menu", "ink", "peer"}
  InkWaveform,     \* ReceiverConfig.ink_waveform
  Budget,          \* adaptive cleanup of a named profile: screens and idle time
  MaxFrameId,      \* bound on the frame ids a producer sends
  MaxSubmissions,  \* bound on the physical submissions of one panel.submit
  FrameInterval,   \* ticks between presentations (max_fps_x100)
  SettledDeadline, \* ticks a SETTLED frame may wait
  IdleRetry,       \* ticks between failed idle cleanups (5 s)
  IdleCap,         \* age at which the time since the last partial update stops
  DamageMax        \* u64::MAX, where the damage counter saturates

AllPlanes == {"menu", "ink", "peer"}

ASSUME CoreAssumption ==
  /\ IsFiniteSet(Tiles) /\ Tiles # {}
  /\ White \in Pixels /\ Pixels \cap AllPlanes = {} /\ "Unknown" \notin Pixels
  /\ Classes \subseteq ContentClass
  /\ Configs \subseteq {c \in RefreshPolicyConfig : ValidConfig(c)}
  /\ Planes \subseteq AllPlanes
  /\ InkWaveform \in Waveform \ {"FullQuality"}
  /\ Budget \in [NamedProfiles -> [screens : Nat \ {0}, idle : Nat]]
  /\ MaxFrameId \in Nat /\ MaxSubmissions \in Nat \ {0}
  /\ FrameInterval \in Nat /\ SettledDeadline \in Nat /\ IdleRetry \in Nat
  /\ IdleCap \in Nat /\ DamageMax \in Nat

VARIABLES
  base,                 \* pixels of the last committed frame
  menu, ink, peer,      \* tiles covered by the menu, the ink, the peer overlay
  ink_dirty,            \* region the pen touched since ink was last presented
  presented_base,       \* base of the last presented frame
  presented,            \* composite last handed to the panel successfully
  working,              \* staging buffer for the next composite
  logical_frame_id, presented_frame_id,
  base_valid,           \* a delta may build on base
  pending,              \* NoFrame or the one frame awaiting presentation
  fps_wait,             \* ticks until last_present_at + frame_interval
  config,               \* refresh_policy.config
  debt,                 \* refresh_policy counters
  panel_state_uncertain,
  force_cleanup_next,
  settle_damage,        \* tiles refreshed fast since the last quality refresh
  fast_updates,         \* fast_updates_since_settled
  partial_damage,       \* partial_damage_pixels_since_cleanup
  partial_age,          \* ticks since last_partial_at
  idle_retry            \* ticks until a failed idle cleanup may be repeated

VARIABLES
  call,      \* the present_plane call in progress: "idle", "overlay" or "ink"
  alive,     \* FALSE once an error has ended the session that owns the core
  terminal,  \* TerminalFrame returned by the last step, or NoTerminal
  drive,     \* what the last step did to the panel
  panel,     \* what each tile shows since this core drove it
  fast_seen, \* tiles this core last drove fast and no SETTLED repainted
  residue,   \* tiles whose ink clear_ink removed but no redraw covered
  suspect    \* the panel failed this core, with no complete refresh since

surfaceVars == <<base, presented_base, presented, working>>
planeVars   == <<menu, ink, peer, ink_dirty>>
frameVars   == <<logical_frame_id, presented_frame_id, base_valid, pending>>
policyVars  == <<config, debt, force_cleanup_next>>
debtVars    == <<settle_damage, fast_updates, partial_damage, partial_age>>
timerVars   == <<fps_wait, idle_retry>>
panelVars   == <<panel_state_uncertain, panel, fast_seen, residue, suspect>>

vars == <<surfaceVars, planeVars, frameVars, policyVars, debtVars, timerVars,
          panelVars, call, alive, terminal, drive>>

--------------------------------------------------------------------------------
(* Frames and their terminals.                                              *)

NoFrame    == [frame_id |-> 0]
NoTerminal == [frame_id |-> 0]

\* PendingPresentation; age is the time since accepted_at, counted up to the
\* settled deadline.
PendingPresentation ==
  [frame_id : 1..MaxFrameId, intent : FrameIntent, class : Classes,
   age : 0..SettledDeadline, force_full_damage : BOOLEAN,
   force_cleanup : BOOLEAN, damage_hint : SUBSET Tiles]

PresentationOutcome == {"Presented", "Superseded", "Cancelled", "BackendFailure"}

TerminalFrame == [frame_id : 1..MaxFrameId, outcome : PresentationOutcome]

Terminal(p, outcome) == [frame_id |-> p.frame_id, outcome |-> outcome]

--------------------------------------------------------------------------------
(* Surfaces.                                                                *)

Shade   == Pixels \cup AllPlanes
Surface == [Tiles -> Shade]
Blank   == [t \in Tiles |-> White]

\* base, then the peer overlay, then ink, then the receiver's own menu on top.
Composed ==
  [t \in Tiles |-> IF t \in menu THEN "menu"
                   ELSE IF t \in ink THEN "ink"
                   ELSE IF t \in peer THEN "peer"
                   ELSE base[t]]

copy_regions_from(to, from, regions) ==
  [t \in Tiles |-> IF t \in regions THEN from[t] ELSE to[t]]

tile_damage_regions(old, new, regions) == {t \in regions : old[t] # new[t]}

merge_tiled_damage(existing, damage) == existing \cup damage

PanelArea == Cardinality(Tiles)

damage_for_decision(decision, damage) ==
  IF decision.complete_refresh THEN Tiles ELSE damage

--------------------------------------------------------------------------------
(* The panel backend: submit succeeds with some number of physical          *)
(* submissions, or fails and leaves the damaged tiles in an unknown state.  *)

IsFast(waveform) == waveform \in {"Fastest", "Fast"}

PanelShows(image, damage, decision, settles) ==
  /\ panel' = copy_regions_from(panel, image, damage)
  /\ fast_seen' = IF IsFast(decision.waveform) /\ ~settles
                    THEN fast_seen \cup damage ELSE fast_seen \ damage
  /\ residue' = {t \in residue : t \in damage => image[t] # Composed[t]}
  /\ suspect' = (suspect /\ ~decision.complete_refresh)
  /\ drive' = IF decision.complete_refresh THEN "complete" ELSE "partial"

PanelFails(damage) ==
  /\ panel' = [t \in Tiles |-> IF t \in damage THEN "Unknown" ELSE panel[t]]
  /\ suspect' = TRUE
  /\ drive' = "failed"
  /\ UNCHANGED <<fast_seen, residue>>

\* record_panel_damage
record_panel_damage(decision, damage) ==
  /\ partial_damage' =
       IF decision.complete_refresh THEN 0
       ELSE IF partial_damage + Cardinality(damage) > DamageMax THEN DamageMax
       ELSE partial_damage + Cardinality(damage)
  /\ partial_age' = 0

\* Mutant: a failure is not remembered until the next keyframe.
mark_panel_failure_Forgets ==
  /\ base_valid' = FALSE
  /\ logical_frame_id' = 0
  /\ settle_damage' = {}
  /\ fast_updates' = 0
  /\ UNCHANGED panel_state_uncertain

mark_panel_failure ==
  /\ base_valid' = FALSE
  /\ logical_frame_id' = 0
  /\ panel_state_uncertain' = TRUE
  /\ settle_damage' = {}
  /\ fast_updates' = 0

--------------------------------------------------------------------------------
(* tick_inner: present the pending frame.  cfg is the configuration and     *)
(* armed the value of force_cleanup_next that the caller has just set.      *)

ComposeRegions ==
  (IF pending.force_full_damage THEN Tiles ELSE pending.damage_hint)
    \cup (IF pending.intent = "Settled" THEN settle_damage ELSE {})

StagedFrame == copy_regions_from(working, Composed, ComposeRegions)

\* Mutant: a SETTLED frame repaints only what changed.
FrameDamage_NoSettle ==
  IF pending.force_full_damage THEN Tiles
  ELSE tile_damage_regions(presented, StagedFrame, ComposeRegions)

FrameDamage ==
  LET damage == IF pending.force_full_damage THEN Tiles
                ELSE tile_damage_regions(presented, StagedFrame, ComposeRegions)
  IN IF pending.intent = "Settled" THEN merge_tiled_damage(settle_damage, damage)
     ELSE damage

static_cleanup_due(cfg, force) ==
  /\ ~force
  /\ pending.intent = "Settled"
  /\ settle_damage # {}
  /\ cfg.static_cleanup_after_fast_updates > 0
  /\ fast_updates >= cfg.static_cleanup_after_fast_updates

FrameDecision(cfg, armed) ==
  LET force  == pending.force_cleanup \/ armed
      static == static_cleanup_due(cfg, force)
      decision == Decide(cfg, debt, pending.intent, pending.class,
                         Cardinality(FrameDamage), PanelArea, force \/ static)
  IN [decision EXCEPT !.reason =
        IF static /\ @ = "Forced" THEN "StaticFastDebt" ELSE @]

\* The pump or the submission failed.  The composite is thrown away, the base
\* keeps the frame's pixels.
FrameFails(armed, damage) ==
  /\ terminal' = Terminal(pending, "BackendFailure")
  /\ mark_panel_failure
  /\ PanelFails(damage)
  /\ working' = IF damage = {} THEN working ELSE presented
  /\ force_cleanup_next' = armed
  /\ UNCHANGED <<presented, presented_base, presented_frame_id, debt,
                 partial_damage, partial_age, fps_wait>>

\* The composite already matches the panel: no submission.
FrameUnchanged(armed) ==
  /\ terminal' = Terminal(pending, "Presented")
  /\ working' = StagedFrame
  /\ presented_frame_id' = pending.frame_id
  /\ presented_base' = base
  /\ fps_wait' = FrameInterval
  /\ force_cleanup_next' = armed
  /\ drive' = "none"
  /\ UNCHANGED <<presented, logical_frame_id, base_valid, debt, debtVars,
                 panelVars>>

\* The debt a successful presentation leaves for the next SETTLED.
SettleDebt(decision, settles, damage, n) ==
  IF decision.complete_refresh \/ settles
    THEN settle_damage' = {} /\ fast_updates' = 0
    ELSE IF IsFast(decision.waveform)
      THEN /\ settle_damage' = merge_tiled_damage(settle_damage, damage)
           /\ fast_updates' = saturating_add(fast_updates, n)
      ELSE UNCHANGED <<settle_damage, fast_updates>>

\* The buffer that mem::swap frees, brought up to date where it was damaged.
CopyBack(image, damage) == copy_regions_from(presented, image, damage)

\* Mutant: any submission disarms the cleanup.
StillArmed_Dropped(armed, decision) == FALSE

StillArmed(armed, decision) == armed /\ ~decision.complete_refresh

FrameSubmitted(armed, decision, damage, n) ==
  LET image == IF decision.complete_refresh THEN Composed ELSE StagedFrame
      settles == pending.intent = "Settled"
  IN /\ terminal' = Terminal(pending, "Presented")
     /\ PanelShows(image, damage, decision, settles)
     /\ record_panel_damage(decision, damage)
     /\ presented' = image
     /\ working' = CopyBack(image, damage)
     /\ presented_frame_id' = pending.frame_id
     /\ presented_base' = base
     /\ fps_wait' = FrameInterval
     /\ panel_state_uncertain' = FALSE
     /\ debt' = presented_submissions(debt, decision.complete_refresh, n)
     /\ SettleDebt(decision, settles, damage, n)
     /\ force_cleanup_next' = StillArmed(armed, decision)
     /\ UNCHANGED <<logical_frame_id, base_valid>>

tick_inner(cfg, armed) ==
  LET decision == FrameDecision(cfg, armed)
      damage   == damage_for_decision(decision, FrameDamage)
  IN /\ pending # NoFrame
     /\ pending' = NoFrame
     /\ config' = cfg
     /\ UNCHANGED <<base, planeVars, alive>>
     /\ \/ FrameFails(armed, {})
        \/ damage = {} /\ FrameUnchanged(armed)
        \/ damage # {} /\ FrameFails(armed, damage)
        \/ /\ damage # {}
           /\ \E n \in 1..MaxSubmissions :
                FrameSubmitted(armed, decision, damage, n)

--------------------------------------------------------------------------------
(* request_cleanup: flush the pending frame as a complete refresh, or       *)
(* resubmit what is presented, or stay armed until there is an image.       *)

StayArmed(cfg) ==
  /\ pending = NoFrame /\ presented_frame_id = 0
  /\ config' = cfg
  /\ force_cleanup_next' = TRUE
  /\ terminal' = NoTerminal /\ drive' = "none"
  /\ UNCHANGED <<surfaceVars, planeVars, frameVars, debt, debtVars, fps_wait,
                 panelVars, alive>>

MaintenanceFails(cfg, damage) ==
  /\ pending = NoFrame /\ presented_frame_id # 0
  /\ config' = cfg
  /\ mark_panel_failure
  /\ PanelFails(damage)
  /\ force_cleanup_next' = TRUE
  /\ terminal' = NoTerminal
  /\ UNCHANGED <<surfaceVars, planeVars, presented_frame_id, pending, debt,
                 partial_damage, partial_age, fps_wait, alive>>

MaintenanceRefresh(cfg) ==
  LET decision == Decide(cfg, debt, "Settled", "TextUi", PanelArea, PanelArea,
                         TRUE)
  IN /\ pending = NoFrame /\ presented_frame_id # 0
     /\ config' = cfg
     /\ PanelShows(presented, Tiles, decision, TRUE)
     /\ record_panel_damage(decision, Tiles)
     /\ fps_wait' = FrameInterval
     /\ panel_state_uncertain' = FALSE
     /\ debt' = presented_submissions(debt, decision.complete_refresh, 1)
     /\ settle_damage' = {} /\ fast_updates' = 0
     /\ force_cleanup_next' = FALSE
     /\ terminal' = NoTerminal
     /\ UNCHANGED <<surfaceVars, planeVars, frameVars, alive>>

request_cleanup(cfg) ==
  \/ tick_inner(cfg, TRUE)
  \/ StayArmed(cfg)
  \/ MaintenanceFails(cfg, {})
  \/ MaintenanceFails(cfg, Tiles)
  \/ MaintenanceRefresh(cfg)

--------------------------------------------------------------------------------
(* Calls into the core.                                                     *)

Ready == alive /\ call = "idle"

\* A step that returns no terminal and leaves the panel alone.
Quiet == terminal' = NoTerminal /\ drive' = "none"

\* Mutant: a SETTLED frame can be superseded like any other.
Replaceable_Any == TRUE

\* SettledBarrier: a pending SETTLED frame accepts no successor.
Replaceable == pending # NoFrame => pending.intent # "Settled"

\* Mutant: the regions of the superseded frame are lost.
CarriedHint_Lost(regions) == regions

\* The damage hint of a new frame takes over that of the frame it supersedes.
CarriedHint(regions) ==
  regions \cup (IF pending # NoFrame THEN pending.damage_hint ELSE {})

\* Mutant: every frame that arrives starts a new interval.
DeadlineKept_Restarts == fps_wait' = FrameInterval /\ UNCHANGED idle_retry

\* next_deadline counts from last_present_at, which no arrival touches.
DeadlineKept == UNCHANGED timerVars

\* commit_timed, for a frame that passes its checks.  A frame that fails one
\* changes nothing.  A keyframe (base_frame_id 0) covers the whole surface.
Commit(id, base_frame_id, intent, class, regions, image) ==
  LET keyframe == base_frame_id = 0
      superseded == pending # NoFrame
  IN /\ Ready
     /\ Replaceable
     /\ id > logical_frame_id
     /\ IF keyframe THEN regions = Tiles
                    ELSE base_valid /\ base_frame_id = logical_frame_id
     /\ base' = copy_regions_from(base, image, regions)
     /\ logical_frame_id' = id
     /\ base_valid' = TRUE
     /\ pending' =
          [frame_id |-> id, intent |-> intent, class |-> class, age |-> 0,
           force_full_damage |->
             \/ superseded /\ pending.force_full_damage
             \/ keyframe /\ (presented_frame_id = 0 \/ ~base_valid),
           force_cleanup |->
             \/ superseded /\ pending.force_cleanup
             \/ keyframe /\ panel_state_uncertain,
           damage_hint |-> CarriedHint(regions)]
     /\ terminal' = IF superseded THEN Terminal(pending, "Superseded")
                                  ELSE NoTerminal
     /\ drive' = "none"
     /\ DeadlineKept
     /\ UNCHANGED <<planeVars, presented_base, presented, working,
                    presented_frame_id, policyVars, debtVars, panelVars, call,
                    alive>>

\* next_deadline has been reached.
Due ==
  /\ pending # NoFrame
  /\ \/ fps_wait = 0
     \/ pending.intent = "Settled" /\ pending.age = SettledDeadline

adaptive_cleanup_due ==
  /\ config.profile \in NamedProfiles
  /\ presented_frame_id # 0
  /\ partial_damage >= PanelArea * Budget[config.profile].screens
  /\ partial_age >= Budget[config.profile].idle

\* tick_interactive with a due frame.
TickPresents ==
  /\ Ready /\ Due
  /\ tick_inner(config, force_cleanup_next)
  /\ UNCHANGED <<idle_retry, call>>

\* tick_interactive when the panel has earned a cleanup and nobody touches it.
TickCleans ==
  /\ Ready
  /\ pending = NoFrame
  /\ adaptive_cleanup_due
  /\ idle_retry = 0
  /\ request_cleanup(config)
  /\ idle_retry' = IF drive' = "failed" THEN IdleRetry ELSE 0
  /\ UNCHANGED call

RequestCleanup ==
  /\ Ready
  /\ request_cleanup(config)
  /\ UNCHANGED <<idle_retry, call>>

\* change_refresh_profile to another configuration, or again to the same one
\* while a cleanup is still armed.
ChangeRefreshProfile(cfg) ==
  /\ Ready
  /\ cfg # config \/ force_cleanup_next
  /\ request_cleanup(cfg)
  /\ UNCHANGED <<idle_retry, call>>

update_refresh_config(cfg) ==
  /\ Ready
  /\ cfg # config
  /\ config' = cfg
  /\ Quiet
  /\ UNCHANGED <<surfaceVars, planeVars, frameVars, debt, force_cleanup_next,
                 debtVars, timerVars, panelVars, call, alive>>

\* The session freezes the presented background under the pen.
freeze_presented ==
  /\ Ready
  /\ presented_frame_id # 0
  /\ base' = presented_base
  /\ base_valid' = FALSE
  /\ pending' = NoFrame
  /\ terminal' = IF pending = NoFrame THEN NoTerminal
                                      ELSE Terminal(pending, "Cancelled")
  /\ drive' = "none"
  /\ UNCHANGED <<presented_base, presented, working, planeVars,
                 logical_frame_id, presented_frame_id, policyVars, debtVars,
                 timerVars, panelVars, call, alive>>

--------------------------------------------------------------------------------
(* present_plane.  The caller changes a plane and asks for it to be shown.  *)

BeginPlane(kind, undrawn) ==
  /\ call' = kind
  /\ residue' = residue \cup undrawn
  /\ Quiet
  /\ UNCHANGED <<surfaceVars, frameVars, policyVars, debtVars, timerVars,
                 panel_state_uncertain, panel, fast_seen, suspect, alive>>

\* render_local_menu draws or clears the menu and calls present_overlay.
RenderMenu(covered) ==
  /\ Ready /\ "menu" \in Planes
  /\ menu' = covered
  /\ BeginPlane("overlay", {})
  /\ UNCHANGED <<ink, peer, ink_dirty>>

\* overlay_update patches or clears the peer overlay, with or without the ink,
\* and calls present_overlay.
UpdateOverlay(covered, clear_ink) ==
  /\ Ready /\ "peer" \in Planes
  /\ peer' = covered
  /\ ink' = IF clear_ink THEN {} ELSE ink
  /\ ink_dirty' = IF clear_ink THEN {} ELSE ink_dirty
  /\ BeginPlane("overlay", {})
  /\ UNCHANGED menu

\* pen_reports rasters one or more segments (ink_line) whose bounds are dirty
\* and calls present_ink.
InkStroke(dirty, touched, erase) ==
  /\ Ready /\ "ink" \in Planes
  /\ presented_frame_id # 0
  /\ menu = {}
  /\ ink' = IF erase THEN ink \ touched ELSE ink \cup touched
  /\ ink_dirty' = dirty
  /\ BeginPlane("ink", {})
  /\ UNCHANGED <<menu, peer>>

\* clear_ink empties the plane, its dirty rectangle too, and calls present_ink.
ClearInk ==
  /\ Ready /\ "ink" \in Planes
  /\ ink' = {}
  /\ ink_dirty' = {}
  /\ BeginPlane("ink", ink)
  /\ UNCHANGED <<menu, peer>>

\* First step of present_plane: complete the pending frame, due or not.
FlushPending ==
  /\ alive /\ call # "idle"
  /\ tick_inner(config, force_cleanup_next)
  /\ UNCHANGED <<idle_retry, call>>

\* Mutant: the pen recomposes the whole surface.
PlaneRegions_Whole == Tiles

PlaneRegions == IF call = "ink" THEN ink_dirty ELSE Tiles

StagedPlane == copy_regions_from(working, Composed, PlaneRegions)

\* Ink damage is its whole dirty rectangle, overlay damage the changed tiles.
PlaneDamage ==
  LET changed == tile_damage_regions(presented, StagedPlane, PlaneRegions)
  IN IF call = "ink" /\ changed # {} THEN ink_dirty ELSE changed

PlaneDecision ==
  IF call = "ink"
    THEN [waveform |-> InkWaveform, complete_refresh |-> FALSE,
          reason |-> "None"]
    ELSE Decide(config, debt, "Settled", "TextUi", Cardinality(PlaneDamage),
                PanelArea, FALSE)

\* The composed plane already matches what is presented.
PlaneUnchanged ==
  /\ PlaneDamage = {}
  /\ Quiet
  /\ UNCHANGED <<presented, policyVars, debtVars, timerVars, panelVars, alive>>

\* panel.submit failed: the error ends the session.
PlaneFails(damage) ==
  /\ PlaneDamage # {}
  /\ alive' = FALSE
  /\ PanelFails(damage)
  /\ terminal' = NoTerminal
  /\ UNCHANGED <<presented, policyVars, debtVars, timerVars,
                 panel_state_uncertain>>

\* Local planes clear the settle region unless they were drawn with the
\* fastest waveform.
PlaneSettleDebt(decision, damage, n) ==
  IF decision.complete_refresh \/ decision.waveform # "Fastest"
    THEN settle_damage' = {} /\ fast_updates' = 0
    ELSE /\ settle_damage' = merge_tiled_damage(settle_damage, damage)
         /\ fast_updates' = saturating_add(fast_updates, n)

PlaneSubmitted(decision, damage, n) ==
  /\ PlaneDamage # {}
  /\ PanelShows(StagedPlane, damage, decision, FALSE)
  /\ record_panel_damage(decision, damage)
  /\ presented' = copy_regions_from(presented, StagedPlane, damage)
  /\ fps_wait' = FrameInterval
  /\ panel_state_uncertain' = FALSE
  /\ debt' = presented_submissions(debt, decision.complete_refresh, n)
  /\ PlaneSettleDebt(decision, damage, n)
  /\ force_cleanup_next' = StillArmed(force_cleanup_next, decision)
  /\ terminal' = NoTerminal
  /\ UNCHANGED <<config, idle_retry, alive>>

\* Second step of present_plane.
PresentPlane ==
  LET damage == damage_for_decision(PlaneDecision, PlaneDamage)
  IN /\ alive /\ call # "idle"
     /\ pending = NoFrame
     /\ call' = "idle"
     /\ ink_dirty' = IF call = "ink" THEN {} ELSE ink_dirty
     /\ working' = StagedPlane
     /\ \/ PlaneUnchanged
        \/ PlaneFails(damage)
        \/ \E n \in 1..MaxSubmissions :
             PlaneSubmitted(PlaneDecision, damage, n)
     /\ UNCHANGED <<menu, ink, peer, base, presented_base, frameVars>>

--------------------------------------------------------------------------------
(* Life of the core and passing time.                                       *)

\* DisplayCore::new, with the cleanup request and the debt of its session.
\* What the panel shows at that point is no business of the new core: an older
\* surface, the pairing code or the connection screen.
NewCore(cfg, armed, carried) ==
  /\ base' = Blank /\ presented_base' = Blank
  /\ presented' = Blank /\ working' = Blank
  /\ menu' = {} /\ ink' = {} /\ peer' = {} /\ ink_dirty' = {}
  /\ logical_frame_id' = 0 /\ presented_frame_id' = 0
  /\ base_valid' = FALSE /\ pending' = NoFrame
  /\ config' = cfg /\ debt' = carried /\ force_cleanup_next' = armed
  /\ settle_damage' = {} /\ fast_updates' = 0
  /\ partial_damage' = 0 /\ partial_age' = 0
  /\ fps_wait' = 0 /\ idle_retry' = 0
  /\ panel_state_uncertain' = FALSE
  /\ call' = "idle"
  /\ alive' = TRUE
  /\ panel' = [t \in Tiles |-> "Unknown"]
  /\ fast_seen' = {} /\ residue' = {} /\ suspect' = FALSE

\* SurfaceOpen replaces the surface: the old pending frame is cancelled, the
\* armed cleanup and the debt move to the new core.
open_surface ==
  /\ Ready
  /\ terminal' = IF pending = NoFrame THEN NoTerminal
                                      ELSE Terminal(pending, "Cancelled")
  /\ drive' = "none"
  /\ NewCore(config, force_cleanup_next, debt)

\* The connection ends, with or without an error, and the core goes with it; the
\* next connection opens its first surface.  A profile or a cleanup may have
\* been requested before that.
Reconnect(cfg, armed) ==
  /\ alive => call = "idle"
  /\ terminal' = NoTerminal
  /\ drive' = "reset"
  /\ NewCore(cfg, armed, NoDebt)

\* Mutant: a pending deadline is pushed back by every poll.
Remaining_Restarted(n) == n

\* What is left of a wait one tick later.
Remaining(n) == IF n = 0 THEN 0 ELSE n - 1

\* One tick of the clock.
Elapse ==
  LET Up(n, cap) == IF n < cap THEN n + 1 ELSE n
  IN /\ Ready
     /\ fps_wait' = Remaining(fps_wait)
     /\ idle_retry' = Remaining(idle_retry)
     /\ partial_age' = IF partial_damage = 0 THEN partial_age
                                              ELSE Up(partial_age, IdleCap)
     /\ pending' = IF pending = NoFrame THEN NoFrame
                   ELSE [pending EXCEPT !.age = Up(@, SettledDeadline)]
     /\ Quiet
     /\ UNCHANGED <<surfaceVars, planeVars, logical_frame_id,
                    presented_frame_id, base_valid, policyVars, settle_damage,
                    fast_updates, partial_damage, panelVars, call, alive>>

Init ==
  /\ base = Blank /\ presented_base = Blank
  /\ presented = Blank /\ working = Blank
  /\ menu = {} /\ ink = {} /\ peer = {} /\ ink_dirty = {}
  /\ logical_frame_id = 0 /\ presented_frame_id = 0
  /\ base_valid = FALSE /\ pending = NoFrame
  /\ config \in Configs /\ debt = NoDebt /\ force_cleanup_next \in BOOLEAN
  /\ settle_damage = {} /\ fast_updates = 0
  /\ partial_damage = 0 /\ partial_age = 0
  /\ fps_wait = 0 /\ idle_retry = 0
  /\ panel_state_uncertain = FALSE
  /\ call = "idle" /\ alive = TRUE
  /\ terminal = NoTerminal /\ drive = "none"
  /\ panel = [t \in Tiles |-> "Unknown"]
  /\ fast_seen = {} /\ residue = {} /\ suspect = FALSE

CommitAny ==
  \E id \in 1..MaxFrameId, base_frame_id \in 0..MaxFrameId,
     intent \in FrameIntent, class \in Classes,
     regions \in SUBSET Tiles \ {{}}, image \in [Tiles -> Pixels] :
       Commit(id, base_frame_id, intent, class, regions, image)

PlaneCall ==
  \/ \E covered \in SUBSET Tiles : RenderMenu(covered)
  \/ \E covered \in SUBSET Tiles, clear_ink \in BOOLEAN :
       UpdateOverlay(covered, clear_ink)
  \/ \E dirty \in SUBSET Tiles \ {{}} :
       \E touched \in SUBSET dirty \ {{}}, erase \in BOOLEAN :
         InkStroke(dirty, touched, erase)
  \/ ClearInk

Next ==
  \/ CommitAny
  \/ TickPresents
  \/ TickCleans
  \/ RequestCleanup
  \/ \E cfg \in Configs : ChangeRefreshProfile(cfg)
  \/ \E cfg \in Configs : update_refresh_config(cfg)
  \/ freeze_presented
  \/ PlaneCall
  \/ FlushPending
  \/ PresentPlane
  \/ open_surface
  \/ \E cfg \in Configs, armed \in BOOLEAN : Reconnect(cfg, armed)
  \/ Elapse

Spec == Init /\ [][Next]_vars

\* The server polls the core on every pass of its loop and time passes.
Fairness ==
  /\ WF_vars(TickPresents)
  /\ WF_vars(Elapse)
  /\ WF_vars(FlushPending)
  /\ WF_vars(PresentPlane)

\* While nobody touches the screen the same poll also runs the idle cleanup.
IdleFairness == Fairness /\ WF_vars(TickCleans)

--------------------------------------------------------------------------------
(* Properties.                                                              *)

(* Every variable has the type of the field it models (scheduler.rs:106).   *)
TypeOK ==
  /\ base \in [Tiles -> Pixels] /\ presented_base \in [Tiles -> Pixels]
  /\ presented \in Surface /\ working \in Surface
  /\ menu \subseteq Tiles /\ ink \subseteq Tiles /\ peer \subseteq Tiles
  /\ ink_dirty \subseteq Tiles
  /\ logical_frame_id \in 0..MaxFrameId /\ presented_frame_id \in 0..MaxFrameId
  /\ base_valid \in BOOLEAN
  /\ pending \in PendingPresentation \cup {NoFrame}
  /\ fps_wait \in 0..FrameInterval /\ idle_retry \in 0..IdleRetry
  /\ config \in Configs /\ debt \in RefreshDebt
  /\ panel_state_uncertain \in BOOLEAN /\ force_cleanup_next \in BOOLEAN
  /\ settle_damage \subseteq Tiles /\ fast_updates \in 0..CountMax
  /\ partial_damage \in 0..DamageMax /\ partial_age \in 0..IdleCap
  /\ call \in {"idle", "overlay", "ink"} /\ alive \in BOOLEAN
  /\ terminal \in TerminalFrame \cup {NoTerminal}
  /\ drive \in {"none", "partial", "complete", "failed", "reset"}
  /\ panel \in [Tiles -> Shade \cup {"Unknown"}]
  /\ fast_seen \subseteq Tiles /\ residue \subseteq Tiles
  /\ suspect \in BOOLEAN

\* Tile t of an image shows the composed planes, or ink that clear_ink removed
\* from its plane without redrawing.
Matches(image, t) ==
  image[t] = Composed[t] \/ (image[t] = "ink" /\ t \in residue)

(* The double buffer never drifts: whenever the core is at rest the staging *)
(* buffer equals the presented composite, so a later partial composition    *)
(* starts from what is on the panel (the swap and copy-back at the end of   *)
(* tick_inner, the rollback after a failed submission).                     *)
BuffersAgree == alive => working = presented

(* Convergence: once the base is valid and no frame is waiting, the panel   *)
(* physically shows the composition of the latest accepted frame and the    *)
(* local planes, however many frames were superseded, cancelled by a        *)
(* freeze, or lost to panel failures on the way (partial damage hints,      *)
(* force_full_damage and its carry-over in commit_timed).                   *)
PanelConverges ==
  Ready /\ base_valid /\ pending = NoFrame => \A t \in Tiles : Matches(panel, t)

\* A step keeps an armed cleanup or performs it, and presents no frame without.
CleanupKept ==
  alive /\ force_cleanup_next /\ drive' # "reset" =>
    /\ force_cleanup_next' \/ drive' = "complete"
    /\ terminal' # NoTerminal /\ terminal'.outcome = "Presented"
         => drive' = "complete"

(* A requested cleanup is neither forgotten nor postponed past a frame: it  *)
(* stays armed through superseding, failures and surface replacement until  *)
(* a complete refresh succeeds, and the first frame presented while it is   *)
(* armed is that complete refresh (force_cleanup_next, request_cleanup).    *)
CleanupHonoured == [][CleanupKept]_vars

(* A SETTLED frame repaints everything that a motion waveform left behind:  *)
(* after its presentation no tile is still waiting for its settled          *)
(* waveform (settle_damage in tick_inner).                                  *)
SettledRepaintsFast ==
  [][pending # NoFrame /\ terminal' # NoTerminal
       => (pending.intent = "Settled" /\ terminal'.outcome = "Presented"
             => fast_seen' = {})]_vars

(* After a backend failure the next frame that is presented is a complete   *)
(* refresh (panel_state_uncertain and force_cleanup in commit_timed).       *)
RecoveryCleans ==
  [][alive /\ suspect /\ terminal' # NoTerminal /\ terminal'.outcome = "Presented"
       => drive' = "complete"]_vars

(* Local UI never makes base pixels visible that no presented frame carries *)
(* (the comment on present_overlay).                                        *)
UnacknowledgedHidden ==
  alive => \A t \in Tiles :
    panel[t] \in Pixels /\ presented_frame_id # 0 => panel[t] = presented_base[t]

(* What is cleared from the ink plane leaves the panel (clear_ink).         *)
ClearedInkDisappears ==
  Ready => \A t \in Tiles : panel[t] = "ink" /\ presented_frame_id # 0 => t \in ink

Contract ==
  INSTANCE FrameContract WITH
    FrameId <- 1..MaxFrameId,
    waiting <- IF pending = NoFrame THEN NoFrame
               ELSE [frame_id |-> pending.frame_id, intent |-> pending.intent],
    report <- terminal,
    shown <- presented_frame_id,
    ended <- (drive = "reset")

(* The scheduler implements the frame contract: at most one waiting frame,  *)
(* exactly one terminal per accepted frame, SETTLED never superseded,       *)
(* presented_frame_id only moved by a PRESENTED terminal (commit_timed,     *)
(* cancel_pending, tick_inner and every path that calls them).              *)
KeepsFrameContract == Contract!Spec

(* A frame that waits does not wait for ever: it or the frame that          *)
(* superseded it is presented, fails or is cancelled, although the producer *)
(* may send newer frames without end.  next_deadline counts from the last   *)
(* presentation, and commit_timed does not push it back.                    *)
PendingResolves == pending # NoFrame ~> pending = NoFrame

(* A panel that has earned an idle cleanup and is left alone gets one, or a *)
(* failed attempt after which it is still owed, so that it is attempted     *)
(* again and again until it succeeds (tick_interactive,                     *)
(* last_idle_cleanup_failure, adaptive_cleanup_due).                        *)
EarnedCleanupRuns ==
  \A cfg \in Configs :
    adaptive_cleanup_due /\ config = cfg /\ Ready /\ pending = NoFrame
      ~> \/ drive = "complete"
         \/ drive = "failed" /\ adaptive_cleanup_due
         \/ ~Ready \/ pending # NoFrame
         \/ presented_frame_id = 0 \/ config # cfg

================================================================================
