--------------------------- MODULE DisplayCoreProofs ---------------------------
(***************************************************************************)
(* Proofs about the presentation scheduler, for every panel size, every    *)
(* set of configurations and every bound.                                  *)
(***************************************************************************)
EXTENDS DisplayCore, FiniteSetTheorems, TLAPS

--------------------------------------------------------------------------------
(* Types of the operators the scheduler is built from.                      *)

(* A regional copy between surfaces is a surface (copy_regions_from).       *)
LEMMA CopyType ==
  ASSUME NEW S, NEW a \in [Tiles -> S], NEW b \in [Tiles -> S], NEW R
  PROVE  copy_regions_from(a, b, R) \in [Tiles -> S]
  BY DEF copy_regions_from

(* The composite of well-typed planes is a surface (compose_regions_into).  *)
LEMMA ComposedType ==
  ASSUME TypeOK
  PROVE  Composed \in Surface
  BY DEF TypeOK, Composed, Surface, Shade, AllPlanes

(* A damage list has a size (damage_pixels).                                *)
LEMMA DamageSize ==
  ASSUME NEW D \in SUBSET Tiles
  PROVE  Cardinality(D) \in Nat
  BY CoreAssumption, FS_Subset, FS_CardinalityType

(* Counters stay below their maximum (saturating_add).                      *)
LEMMA SaturatingType ==
  ASSUME NEW n \in 0..CountMax, NEW k \in Nat
  PROVE  saturating_add(n, k) \in 0..CountMax
  BY CountMaxAssumption DEF saturating_add

(* A submission leaves a well-formed debt (presented_submissions).          *)
LEMMA DebtType ==
  ASSUME NEW d \in RefreshDebt, NEW c \in BOOLEAN, NEW n \in Nat
  PROVE  presented_submissions(d, c, n) \in RefreshDebt
  BY SaturatingType, CountMaxAssumption DEF presented_submissions, RefreshDebt

(* The policy decides for a complete refresh or not, and a forced decision  *)
(* is always complete (decide).                                             *)
LEMMA DecideComplete ==
  ASSUME NEW c, NEW d, NEW i, NEW k, NEW m, NEW p, NEW f
  PROVE  /\ Decide(c, d, i, k, m, p, f).complete_refresh \in BOOLEAN
         /\ f => Decide(c, d, i, k, m, p, f).complete_refresh
  BY DEF Decide, RefreshReason

(* Staging a frame or a plane keeps a surface (tick_inner, present_plane).  *)
LEMMA StagedType ==
  ASSUME TypeOK
  PROVE  StagedFrame \in Surface /\ StagedPlane \in Surface
  BY ComposedType, CopyType DEF StagedFrame, StagedPlane, TypeOK, Surface

(* The damage of a frame is part of the panel and lies in the region that   *)
(* was recomposed.                                                          *)
LEMMA FrameDamageType ==
  ASSUME TypeOK, pending # NoFrame
  PROVE  /\ FrameDamage \subseteq Tiles
         /\ ComposeRegions \subseteq Tiles
  BY DEF TypeOK, FrameDamage, merge_tiled_damage, ComposeRegions,
         tile_damage_regions, NoFrame, PendingPresentation

(* The damage of a plane is part of the panel.                              *)
LEMMA PlaneDamageType ==
  ASSUME TypeOK
  PROVE  PlaneDamage \subseteq Tiles
  BY DEF TypeOK, PlaneDamage, PlaneRegions, tile_damage_regions

--------------------------------------------------------------------------------
(* Type correctness.                                                        *)

(* Recording damage keeps both counters in range (record_panel_damage).     *)
LEMMA RecordType ==
  ASSUME TypeOK, NEW decision, NEW D \in SUBSET Tiles,
         record_panel_damage(decision, D)
  PROVE  partial_damage' \in 0..DamageMax /\ partial_age' \in 0..IdleCap
  BY DamageSize, CoreAssumption DEF TypeOK, record_panel_damage

(* Every outcome of tick_inner is well typed.                               *)
LEMMA TickType ==
  ASSUME TypeOK, NEW cfg \in Configs, NEW armed \in BOOLEAN,
         tick_inner(cfg, armed),
         idle_retry' \in 0..IdleRetry, UNCHANGED call
  PROVE  TypeOK'
<1> DEFINE decision == FrameDecision(cfg, armed)
           damage == damage_for_decision(decision, FrameDamage)
<1> HIDE DEF damage
<1>1. /\ pending \in PendingPresentation /\ pending # NoFrame
      /\ \A o \in PresentationOutcome : Terminal(pending, o) \in TerminalFrame
      /\ pending.frame_id \in 0..MaxFrameId
  BY DEF tick_inner, TypeOK, PendingPresentation, Terminal, TerminalFrame
<1>2. damage \subseteq Tiles
  BY FrameDamageType, <1>1 DEF damage_for_decision, damage
<1>3. StagedFrame \in Surface /\ Composed \in Surface
  BY StagedType, ComposedType
<1>4. decision.complete_refresh \in BOOLEAN
  <2>1. decision.complete_refresh =
          Decide(cfg, debt, pending.intent, pending.class,
                 Cardinality(FrameDamage), PanelArea,
                 pending.force_cleanup \/ armed
                   \/ static_cleanup_due(cfg, pending.force_cleanup \/ armed)
                ).complete_refresh
    BY DEF FrameDecision, Decide
  <2> HIDE DEF decision
  <2> QED  BY <2>1, DecideComplete
<1>5. CASE FrameFails(armed, {}) \/ FrameFails(armed, damage)
  <2>1. PICK D \in SUBSET Tiles : FrameFails(armed, D)
    BY <1>2, <1>5
  <2>2. /\ panel' \in [Tiles -> Shade \cup {"Unknown"}]
        /\ terminal' \in TerminalFrame
        /\ working' \in Surface
    BY <1>1, <2>1 DEF FrameFails, PanelFails, TypeOK, PresentationOutcome
  <2>3. /\ logical_frame_id' \in 0..MaxFrameId
        /\ fast_updates' \in 0..CountMax
    BY <2>1, CountMaxAssumption, CoreAssumption
    DEF FrameFails, mark_panel_failure
  <2> QED
    BY <2>1, <2>2, <2>3
    DEF tick_inner, FrameFails, mark_panel_failure, PanelFails, TypeOK, planeVars
<1>6. CASE FrameUnchanged(armed)
  BY <1>1, <1>3, <1>6, CoreAssumption
  DEF tick_inner, FrameUnchanged, TypeOK, planeVars, debtVars, panelVars,
      PresentationOutcome
<1>7. ASSUME NEW n \in 1..MaxSubmissions,
             FrameSubmitted(armed, decision, damage, n)
      PROVE  TypeOK'
  <2> DEFINE image == IF decision.complete_refresh THEN Composed ELSE StagedFrame
  <2>1. image \in Surface
    BY <1>3
  <2>2. /\ partial_damage' \in 0..DamageMax /\ partial_age' \in 0..IdleCap
    BY <1>2, <1>7, RecordType DEF FrameSubmitted
  <2>3. debt' \in RefreshDebt
    BY <1>4, <1>7, DebtType DEF FrameSubmitted, TypeOK
  <2>4. settle_damage' \subseteq Tiles /\ fast_updates' \in 0..CountMax
    <3>1. saturating_add(fast_updates, n) \in 0..CountMax
      BY SaturatingType DEF TypeOK
    <3> QED
      BY <1>2, <1>4, <1>7, <3>1, CountMaxAssumption
      DEF FrameSubmitted, SettleDebt, merge_tiled_damage, TypeOK
  <2>5. /\ panel' \in [Tiles -> Shade \cup {"Unknown"}]
        /\ fast_seen' \subseteq Tiles /\ residue' \subseteq Tiles
        /\ suspect' \in BOOLEAN /\ drive' \in {"complete", "partial"}
    BY <1>2, <1>4, <1>7, <2>1
    DEF FrameSubmitted, PanelShows, TypeOK, copy_regions_from, Surface
  <2>6. presented' \in Surface /\ working' \in Surface
    BY <1>7, <2>1, CopyType DEF FrameSubmitted, CopyBack, TypeOK, Surface
  <2>7. force_cleanup_next' \in BOOLEAN
    BY <1>7 DEF FrameSubmitted, StillArmed
  <2>8. terminal' \in TerminalFrame
    BY <1>1, <1>7 DEF FrameSubmitted, PresentationOutcome
  <2>9. /\ presented_frame_id' \in 0..MaxFrameId
        /\ fps_wait' \in 0..FrameInterval
        /\ panel_state_uncertain' \in BOOLEAN
        /\ presented_base' \in [Tiles -> Pixels]
    <3>1. /\ presented_frame_id' = pending.frame_id
          /\ fps_wait' = FrameInterval
          /\ panel_state_uncertain' = FALSE
          /\ presented_base' = base
      BY <1>7 DEF FrameSubmitted
    <3>2. FrameInterval \in 0..FrameInterval
      BY CoreAssumption
    <3> QED
      BY <1>1, <3>1, <3>2 DEF TypeOK
  <2> QED
    BY <1>7, <2>2, <2>3, <2>4, <2>5, <2>6, <2>7, <2>8, <2>9
    DEF tick_inner, FrameSubmitted, TypeOK, planeVars
<1> QED
  BY <1>4, <1>5, <1>6, <1>7 DEF tick_inner, damage
(* Every outcome of request_cleanup is well typed.                          *)
LEMMA CleanupType ==
  ASSUME TypeOK, NEW cfg \in Configs, request_cleanup(cfg),
         idle_retry' \in 0..IdleRetry, UNCHANGED call
  PROVE  TypeOK'
<1>1. CASE tick_inner(cfg, TRUE)
  BY <1>1, TickType
<1>2. CASE StayArmed(cfg)
  BY <1>2 DEF StayArmed, TypeOK, surfaceVars, planeVars, frameVars, debtVars,
              panelVars
<1>3. CASE MaintenanceFails(cfg, {}) \/ MaintenanceFails(cfg, Tiles)
  <2>1. PICK D \in SUBSET Tiles : MaintenanceFails(cfg, D)
    BY <1>3
  <2>2. panel' \in [Tiles -> Shade \cup {"Unknown"}]
    BY <2>1 DEF MaintenanceFails, PanelFails, TypeOK
  <2>3. /\ logical_frame_id' \in 0..MaxFrameId
        /\ fast_updates' \in 0..CountMax
    BY <2>1, CountMaxAssumption, CoreAssumption
    DEF MaintenanceFails, mark_panel_failure
  <2> QED
    BY <2>1, <2>2, <2>3
    DEF MaintenanceFails, mark_panel_failure, PanelFails, TypeOK, surfaceVars,
        planeVars
<1>4. CASE MaintenanceRefresh(cfg)
  <2> DEFINE decision ==
        Decide(cfg, debt, "Settled", "TextUi", PanelArea, PanelArea, TRUE)
  <2> HIDE DEF decision
  <2>1.   /\ decision.complete_refresh \in BOOLEAN
          /\ PanelShows(presented, Tiles, decision, TRUE)
          /\ record_panel_damage(decision, Tiles)
          /\ debt' = presented_submissions(debt, decision.complete_refresh, 1)
    BY <1>4, DecideComplete DEF MaintenanceRefresh, decision
  <2>2. partial_damage' \in 0..DamageMax /\ partial_age' \in 0..IdleCap
    BY <2>1, RecordType
  <2>3. debt' \in RefreshDebt
    BY <2>1, DebtType DEF TypeOK
  <2>4. /\ panel' \in [Tiles -> Shade \cup {"Unknown"}]
        /\ fast_seen' \subseteq Tiles /\ residue' \subseteq Tiles
        /\ suspect' \in BOOLEAN /\ drive' \in {"complete", "partial"}
    BY <2>1 DEF PanelShows, TypeOK, copy_regions_from, Surface
  <2>5. fps_wait' \in 0..FrameInterval /\ fast_updates' \in 0..CountMax
    BY <1>4, CoreAssumption, CountMaxAssumption DEF MaintenanceRefresh
  <2> QED
    BY <1>4, <2>2, <2>3, <2>4, <2>5
    DEF MaintenanceRefresh, TypeOK, surfaceVars, planeVars, frameVars
<1> QED
  BY <1>1, <1>2, <1>3, <1>4 DEF request_cleanup

(* A fresh core is well typed (DisplayCore::new).                           *)
LEMMA NewCoreType ==
  ASSUME NEW cfg \in Configs, NEW armed \in BOOLEAN, NEW d \in RefreshDebt,
         NewCore(cfg, armed, d), terminal' \in TerminalFrame \cup {NoTerminal},
         drive' \in {"none", "reset"}
  PROVE  TypeOK'
<1>1. Blank \in [Tiles -> Pixels] /\ Blank \in Surface
  BY CoreAssumption DEF Blank, Surface, Shade
<1>2. 0 \in 0..MaxFrameId /\ 0 \in 0..FrameInterval /\ 0 \in 0..IdleRetry
      /\ 0 \in 0..CountMax /\ 0 \in 0..DamageMax /\ 0 \in 0..IdleCap
  BY CoreAssumption, CountMaxAssumption
<1> QED
  BY <1>1, <1>2 DEF NewCore, TypeOK

(* Presenting a plane is well typed (present_plane).                        *)
LEMMA PlaneType ==
  ASSUME TypeOK, PresentPlane
  PROVE  TypeOK'
<1> DEFINE damage == damage_for_decision(PlaneDecision, PlaneDamage)
<1> HIDE DEF damage
<1>1. damage \subseteq Tiles
  BY PlaneDamageType DEF damage, damage_for_decision
<1>2. PlaneDecision.complete_refresh \in BOOLEAN
  BY DecideComplete DEF PlaneDecision
<1>3. StagedPlane \in Surface
  BY StagedType
<1>4. CASE PlaneUnchanged
  BY <1>3, <1>4
  DEF PresentPlane, PlaneUnchanged, Quiet, TypeOK, policyVars, debtVars,
      timerVars, panelVars, frameVars
<1>5. CASE PlaneFails(damage)
  <2>1. panel' \in [Tiles -> Shade \cup {"Unknown"}]
    BY <1>5 DEF PlaneFails, PanelFails, TypeOK
  <2> QED
    BY <1>3, <1>5, <2>1
    DEF PresentPlane, PlaneFails, PanelFails, TypeOK, policyVars, debtVars,
        timerVars, frameVars
<1>6. ASSUME NEW n \in 1..MaxSubmissions,
             PlaneSubmitted(PlaneDecision, damage, n)
      PROVE  TypeOK'
  <2>1. partial_damage' \in 0..DamageMax /\ partial_age' \in 0..IdleCap
    BY <1>1, <1>6, RecordType DEF PlaneSubmitted
  <2>2. debt' \in RefreshDebt
    BY <1>2, <1>6, DebtType DEF PlaneSubmitted, TypeOK
  <2>3. settle_damage' \subseteq Tiles /\ fast_updates' \in 0..CountMax
    <3>1. saturating_add(fast_updates, n) \in 0..CountMax
      BY SaturatingType DEF TypeOK
    <3> QED
      BY <1>1, <1>2, <1>6, <3>1, CountMaxAssumption
      DEF PlaneSubmitted, PlaneSettleDebt, merge_tiled_damage, TypeOK
  <2>4. /\ panel' \in [Tiles -> Shade \cup {"Unknown"}]
        /\ fast_seen' \subseteq Tiles /\ residue' \subseteq Tiles
        /\ suspect' \in BOOLEAN /\ drive' \in {"complete", "partial"}
    BY <1>1, <1>2, <1>3, <1>6
    DEF PlaneSubmitted, PanelShows, TypeOK, copy_regions_from, Surface
  <2>5. presented' \in Surface
    BY <1>3, <1>6, CopyType DEF PlaneSubmitted, TypeOK, Surface
  <2>6. force_cleanup_next' \in BOOLEAN
    BY <1>6 DEF PlaneSubmitted, StillArmed
  <2>7. fps_wait' \in 0..FrameInterval
    BY <1>6, CoreAssumption DEF PlaneSubmitted
  <2> QED
    BY <1>3, <1>6, <2>1, <2>2, <2>3, <2>4, <2>5, <2>6, <2>7
    DEF PresentPlane, PlaneSubmitted, TypeOK, frameVars
<1> QED
  BY <1>4, <1>5, <1>6 DEF PresentPlane, damage
(* Accepting a frame is well typed (commit_timed).                          *)
LEMMA CommitType ==
  ASSUME TypeOK, CommitAny
  PROVE  TypeOK'
<1>1. PICK id \in 1..MaxFrameId, base_frame_id \in 0..MaxFrameId,
           intent \in FrameIntent, class \in Classes,
           regions \in SUBSET Tiles \ {{}}, image \in [Tiles -> Pixels] :
             Commit(id, base_frame_id, intent, class, regions, image)
  BY DEF CommitAny
<1>2. base' \in [Tiles -> Pixels]
  BY <1>1, CopyType DEF Commit, TypeOK
<1>3. CarriedHint(regions) \in SUBSET Tiles
  BY DEF TypeOK, CarriedHint, PendingPresentation
<1>4. pending' \in PendingPresentation
  BY <1>1, <1>3, CoreAssumption DEF Commit, TypeOK, PendingPresentation
<1>5. terminal' \in TerminalFrame \cup {NoTerminal}
  BY <1>1
  DEF Commit, TypeOK, Terminal, TerminalFrame, PendingPresentation,
      PresentationOutcome
<1>6. logical_frame_id' \in 0..MaxFrameId /\ base_valid' = TRUE
  BY <1>1 DEF Commit
<1> QED
  BY <1>1, <1>2, <1>4, <1>5, <1>6
  DEF Commit, DeadlineKept, TypeOK, planeVars, policyVars, debtVars, timerVars,
      panelVars

(* Every call that changes a plane is well typed.                           *)
LEMMA PlaneCallType ==
  ASSUME TypeOK, PlaneCall
  PROVE  TypeOK'
<1>1. /\ menu' \subseteq Tiles /\ ink' \subseteq Tiles /\ peer' \subseteq Tiles
      /\ ink_dirty' \subseteq Tiles
      /\ \E kind \in {"overlay", "ink"}, U \in SUBSET Tiles : BeginPlane(kind, U)
  <2>1. ASSUME NEW covered \in SUBSET Tiles, RenderMenu(covered)  PROVE <1>1!:
    BY <2>1 DEF RenderMenu, TypeOK
  <2>2. ASSUME NEW covered \in SUBSET Tiles, NEW clear_ink \in BOOLEAN,
               UpdateOverlay(covered, clear_ink)
        PROVE  <1>1!:
    BY <2>2 DEF UpdateOverlay, TypeOK
  <2>3. ASSUME NEW dirty \in SUBSET Tiles, NEW touched \in SUBSET dirty,
               NEW erase \in BOOLEAN, InkStroke(dirty, touched, erase)
        PROVE  <1>1!:
    BY <2>3 DEF InkStroke, TypeOK
  <2>4. ASSUME ClearInk  PROVE <1>1!:
    BY <2>4 DEF ClearInk, TypeOK
  <2> QED  BY <2>1, <2>2, <2>3, <2>4 DEF PlaneCall
<1> QED
  BY <1>1
  DEF BeginPlane, Quiet, TypeOK, surfaceVars, frameVars, policyVars, debtVars,
      timerVars

(* The initial core is well typed.                                          *)
LEMMA InitType == Init => TypeOK
<1>1. Blank \in [Tiles -> Pixels] /\ Blank \in Surface
  BY CoreAssumption DEF Blank, Surface, Shade
<1>2. NoDebt \in RefreshDebt
  BY CountMaxAssumption DEF NoDebt, RefreshDebt
<1>3. 0 \in 0..MaxFrameId /\ 0 \in 0..FrameInterval /\ 0 \in 0..IdleRetry
      /\ 0 \in 0..CountMax /\ 0 \in 0..DamageMax /\ 0 \in 0..IdleCap
  BY CoreAssumption, CountMaxAssumption
<1> QED  BY <1>1, <1>2, <1>3 DEF Init, TypeOK

(* Every step of the scheduler preserves its type invariant.                *)
LEMMA TypeStep == TypeOK /\ [Next]_vars => TypeOK'
<1> SUFFICES ASSUME TypeOK, [Next]_vars  PROVE TypeOK'
  OBVIOUS
<1>1. CASE CommitAny
  BY <1>1, CommitType
<1>2. CASE TickPresents \/ FlushPending
  BY <1>2, TickType DEF TickPresents, FlushPending, TypeOK
<1>3. CASE TickCleans
  <2>1. idle_retry' \in 0..IdleRetry
    BY <1>3, CoreAssumption DEF TickCleans
  <2> QED  BY <1>3, <2>1, CleanupType DEF TickCleans, TypeOK
<1>4. CASE RequestCleanup \/ \E cfg \in Configs : ChangeRefreshProfile(cfg)
  BY <1>4, CleanupType DEF RequestCleanup, ChangeRefreshProfile, TypeOK
<1>5. ASSUME NEW cfg \in Configs, update_refresh_config(cfg)  PROVE TypeOK'
  BY <1>5
  DEF update_refresh_config, Quiet, TypeOK, surfaceVars, planeVars, frameVars,
      debtVars, timerVars, panelVars
<1>6. CASE freeze_presented
  <2>1. terminal' \in TerminalFrame \cup {NoTerminal}
    BY <1>6
    DEF freeze_presented, TypeOK, Terminal, TerminalFrame, PendingPresentation,
        PresentationOutcome
  <2> QED
    BY <1>6, <2>1
    DEF freeze_presented, TypeOK, planeVars, policyVars, debtVars, timerVars,
        panelVars
<1>7. CASE PlaneCall
  BY <1>7, PlaneCallType
<1>8. CASE PresentPlane
  BY <1>8, PlaneType
<1>9. CASE open_surface
  <2>1. terminal' \in TerminalFrame \cup {NoTerminal}
    BY <1>9
    DEF open_surface, TypeOK, Terminal, TerminalFrame, PendingPresentation,
        PresentationOutcome
  <2> QED  BY <1>9, <2>1, NewCoreType DEF open_surface, TypeOK
<1>10. ASSUME NEW cfg \in Configs, NEW armed \in BOOLEAN, Reconnect(cfg, armed)
       PROVE  TypeOK'
  <2>1. NoDebt \in RefreshDebt
    BY CountMaxAssumption DEF NoDebt, RefreshDebt
  <2> QED  BY <1>10, <2>1, NewCoreType DEF Reconnect
<1>11. CASE Elapse
  <2>1. /\ fps_wait' \in 0..FrameInterval /\ idle_retry' \in 0..IdleRetry
        /\ partial_age' \in 0..IdleCap
    BY <1>11, CoreAssumption DEF Elapse, Remaining, TypeOK
  <2>2. pending' \in PendingPresentation \cup {NoFrame}
    <3>1. CASE pending = NoFrame
      BY <1>11, <3>1 DEF Elapse
    <3>2. CASE pending # NoFrame
      <4>1. pending \in PendingPresentation
        BY <3>2 DEF TypeOK
      <4> DEFINE older == IF pending.age < SettledDeadline THEN pending.age + 1
                                                            ELSE pending.age
      <4>2. older \in 0..SettledDeadline
        BY <4>1, CoreAssumption DEF PendingPresentation
      <4>3. pending' = [pending EXCEPT !.age = older]
        BY <1>11, <3>2 DEF Elapse
      <4> HIDE DEF older
      <4> QED  BY <4>1, <4>2, <4>3 DEF PendingPresentation
    <3> QED  BY <3>1, <3>2
  <2> QED
    BY <1>11, <2>1, <2>2
    DEF Elapse, Quiet, TypeOK, surfaceVars, planeVars, policyVars, panelVars
<1>12. CASE UNCHANGED vars
  BY <1>12
  DEF vars, TypeOK, surfaceVars, planeVars, frameVars, policyVars, debtVars,
      timerVars, panelVars
<1> QED
  BY <1>1, <1>2, <1>3, <1>4, <1>5, <1>6, <1>7, <1>8, <1>9, <1>10, <1>11, <1>12
  DEF Next

(* The scheduler's fields always have their types: no counter overflows, no *)
(* pending frame is half-formed, whatever the panel size and the bounds     *)
(* (scheduler.rs:106).                                                      *)
THEOREM TypeCorrect == Spec => []TypeOK
  BY InitType, TypeStep, PTL DEF Spec
--------------------------------------------------------------------------------
(* Convergence.  The three facts that make PanelConverges inductive.        *)

\* Nothing obliges the next presentation to redraw the whole panel.
Incremental == base_valid /\ (pending = NoFrame \/ ~pending.force_full_damage)

\* Tiles the software knows it has yet to redraw.
Outstanding ==
  (IF pending = NoFrame THEN {} ELSE pending.damage_hint)
    \cup (IF call = "ink" THEN ink_dirty ELSE {})

\* The panel shows the presented composite as long as deltas may build on it.
PanelTracks == alive /\ Incremental => panel = presented

\* Where nothing is outstanding the presented composite is up to date.
HintCovers ==
  alive /\ Incremental /\ call # "overlay" =>
    \A t \in Tiles \ Outstanding : Matches(presented, t)

\* A waiting frame is the newest logical frame and its base is valid.
PendingNewest ==
  pending # NoFrame => base_valid /\ pending.frame_id = logical_frame_id

CoreInv == TypeOK /\ BuffersAgree /\ PanelTracks /\ HintCovers /\ PendingNewest
(* The convergence facts depend only on the state listed here.              *)
LEMMA ConvergenceFrame ==
  ASSUME BuffersAgree, PanelTracks, HintCovers,
         UNCHANGED <<surfaceVars, planeVars, panelVars, call, alive>>,
         Incremental' => Incremental,
         Incremental' => Outstanding \subseteq Outstanding'
  PROVE  BuffersAgree' /\ PanelTracks' /\ HintCovers'
<1>1. Composed' = Composed
  BY DEF Composed, surfaceVars, planeVars
<1>2. \A t : Matches(presented, t) => Matches(presented, t)'
  BY <1>1 DEF Matches, surfaceVars, planeVars, panelVars
<1>3. BuffersAgree' /\ PanelTracks'
  BY DEF BuffersAgree, PanelTracks, surfaceVars, panelVars
<1>4. HintCovers'
  BY <1>2 DEF HintCovers
<1> QED  BY <1>3, <1>4

(* Presenting the pending frame leaves the panel up to date or the base     *)
(* invalid, whatever happens (tick_inner).                                  *)
LEMMA TickConverges ==
  ASSUME CoreInv, alive, NEW cfg, NEW armed, tick_inner(cfg, armed),
         UNCHANGED call
  PROVE  BuffersAgree' /\ PanelTracks' /\ HintCovers' /\ PendingNewest'
<1> DEFINE decision == FrameDecision(cfg, armed)
           complete == decision.complete_refresh
           damage == damage_for_decision(decision, FrameDamage)
           undrawn == IF call = "ink" THEN ink_dirty ELSE {}
<1>1. /\ pending # NoFrame /\ pending' = NoFrame
      /\ pending.damage_hint \subseteq Tiles
      /\ UNCHANGED <<base, menu, ink, peer, ink_dirty, alive>>
  BY DEF tick_inner, planeVars, CoreInv, TypeOK, PendingPresentation
<1>2. /\ Composed' = Composed
      /\ Outstanding = pending.damage_hint \cup undrawn
      /\ Outstanding' = undrawn
  BY <1>1 DEF Composed, Outstanding
<1>3. /\ working = presented
      /\ Composed \in [Tiles -> Shade] /\ presented \in [Tiles -> Shade]
      /\ panel \in [Tiles -> Shade \cup {"Unknown"}]
  BY ComposedType DEF CoreInv, BuffersAgree, TypeOK, Surface
<1>4. \A t \in Tiles :
        StagedFrame[t] = IF t \in ComposeRegions THEN Composed[t] ELSE presented[t]
  BY <1>3 DEF StagedFrame, copy_regions_from
<1>5. PendingNewest'
  BY <1>1 DEF PendingNewest
<1>6. ~pending.force_full_damage =>
        /\ Incremental => panel = presented
        /\ FrameDamage \subseteq ComposeRegions
        /\ \A t \in Tiles \ FrameDamage : StagedFrame[t] = presented[t]
  BY <1>1, <1>4
  DEF CoreInv, PanelTracks, FrameDamage, merge_tiled_damage, ComposeRegions,
      tile_damage_regions
<1>7. base_valid /\ ~pending.force_full_damage /\ call # "overlay" =>
        \A t \in Tiles \ (ComposeRegions \cup undrawn) : Matches(presented, t)
  BY <1>1, <1>2 DEF CoreInv, HintCovers, Incremental, ComposeRegions
<1>8. CASE FrameFails(armed, {}) \/ FrameFails(armed, damage)
  <2>1. base_valid' = FALSE /\ presented' = presented /\ working' = presented
    BY <1>3, <1>8 DEF FrameFails, mark_panel_failure
  <2> QED
    BY <1>5, <2>1 DEF BuffersAgree, PanelTracks, HintCovers, Incremental
<1>9. CASE damage = {} /\ FrameUnchanged(armed)
  <2>1. ~pending.force_full_damage /\ FrameDamage = {}
    BY <1>9, CoreAssumption
    DEF FrameDamage, merge_tiled_damage, damage_for_decision
  <2>2. /\ working' = StagedFrame
        /\ UNCHANGED <<presented, base_valid, panel, residue>>
    BY <1>9 DEF FrameUnchanged, panelVars
  <2>3. StagedFrame = presented
    BY <1>3, <1>6, <2>1 DEF StagedFrame, copy_regions_from
  <2>4. BuffersAgree'
    BY <2>2, <2>3 DEF BuffersAgree
  <2>5. PanelTracks'
    BY <1>6, <2>1, <2>2 DEF PanelTracks, Incremental
  <2>6. ASSUME call # "overlay", base_valid, NEW t \in Tiles \ undrawn
        PROVE  Matches(presented, t)'
    BY <1>1, <1>2, <1>4, <1>7, <2>1, <2>2, <2>3, <2>6 DEF Matches
  <2>7. HintCovers'
    BY <1>2, <2>2, <2>6 DEF HintCovers, Incremental
  <2> QED  BY <1>5, <2>4, <2>5, <2>7
<1>10. ASSUME damage # {}, NEW n, FrameSubmitted(armed, decision, damage, n)
       PROVE  BuffersAgree' /\ PanelTracks' /\ HintCovers' /\ PendingNewest'
  <2> DEFINE image == IF complete THEN Composed ELSE StagedFrame
  <2>1. /\ presented' = image
        /\ working' = copy_regions_from(presented, image, damage)
        /\ panel' = copy_regions_from(panel, image, damage)
        /\ residue' = {t \in residue : t \in damage => image[t] # Composed[t]}
        /\ base_valid' = base_valid
    BY <1>10 DEF FrameSubmitted, CopyBack, PanelShows
  <2>2. image \in [Tiles -> Shade]
    BY <1>3 DEF StagedFrame, copy_regions_from
  <2>3. damage = IF complete THEN Tiles ELSE FrameDamage
    BY DEF damage_for_decision
  <2>4. pending.force_full_damage => damage = Tiles
    BY <2>3, FrameDamageType, <1>1 DEF FrameDamage, merge_tiled_damage, CoreInv
  <2>5. \A t \in Tiles \ damage : image[t] = presented[t]
    BY <1>6, <2>3, <2>4
  <2>6. working' = image
    BY <1>3, <2>1, <2>2, <2>5 DEF copy_regions_from
  <2>7. base_valid => panel' = image
    <3>1. ASSUME base_valid, NEW t \in Tiles \ damage
          PROVE  panel[t] = image[t]
      BY <1>6, <2>4, <2>5, <3>1 DEF Incremental
    <3> QED  BY <2>1, <2>2, <3>1 DEF copy_regions_from
  <2>8. ASSUME call # "overlay", base_valid, NEW t \in Tiles \ undrawn
        PROVE  Matches(presented, t)'
    <3>1. CASE image[t] = Composed[t]
      BY <1>2, <2>1, <3>1 DEF Matches
    <3>2. CASE image[t] # Composed[t]
      <4>1. ~complete /\ t \notin ComposeRegions
        BY <1>4, <3>2
      <4>2. ~pending.force_full_damage
        BY <4>1 DEF ComposeRegions
      <4>3. Matches(presented, t) /\ t \notin damage
        BY <1>6, <1>7, <2>3, <2>8, <4>1, <4>2
      <4> QED  BY <1>2, <2>1, <2>5, <3>2, <4>3 DEF Matches
    <3> QED  BY <3>1, <3>2
  <2>9. HintCovers'
    BY <1>2, <2>1, <2>8 DEF HintCovers, Incremental
  <2> QED
    BY <1>5, <2>1, <2>6, <2>7, <2>9 DEF BuffersAgree, PanelTracks, Incremental
<1> QED
  BY <1>8, <1>9, <1>10 DEF tick_inner
(* Drawing a plane brings the panel up to date or ends the session          *)
(* (present_plane).                                                         *)
LEMMA PlaneConverges ==
  ASSUME CoreInv, PresentPlane
  PROVE  BuffersAgree' /\ PanelTracks' /\ HintCovers' /\ PendingNewest'
<1> DEFINE complete == PlaneDecision.complete_refresh
           damage == damage_for_decision(PlaneDecision, PlaneDamage)
<1>1. /\ alive /\ call # "idle" /\ call' = "idle"
      /\ pending = NoFrame
      /\ working' = StagedPlane
      /\ UNCHANGED <<menu, ink, peer, base, base_valid, pending>>
  BY DEF PresentPlane, frameVars
<1>2. /\ Composed' = Composed /\ Outstanding' = {}
      /\ Outstanding = IF call = "ink" THEN ink_dirty ELSE {}
      /\ Incremental' = Incremental
  BY <1>1 DEF Composed, Outstanding, Incremental
<1>3. /\ working = presented
      /\ Composed \in [Tiles -> Shade] /\ presented \in [Tiles -> Shade]
      /\ panel \in [Tiles -> Shade \cup {"Unknown"}]
      /\ call \in {"overlay", "ink"} /\ ink_dirty \subseteq Tiles
  BY <1>1, ComposedType DEF CoreInv, BuffersAgree, TypeOK, Surface
<1>4. \A t \in Tiles :
        StagedPlane[t] = IF t \in PlaneRegions THEN Composed[t] ELSE presented[t]
  BY <1>3 DEF StagedPlane, copy_regions_from
<1>5. PendingNewest'
  BY <1>1 DEF PendingNewest
<1>6. StagedPlane \in [Tiles -> Shade] /\ PlaneRegions \subseteq Tiles
  BY <1>3 DEF StagedPlane, copy_regions_from, PlaneRegions
<1>7. \A t \in Tiles \ PlaneDamage : StagedPlane[t] = presented[t]
  BY <1>4 DEF PlaneDamage, tile_damage_regions, PlaneRegions
<1>8. Incremental => panel = presented
  BY <1>1 DEF CoreInv, PanelTracks
<1>9. ASSUME Incremental, NEW t \in Tiles
      PROVE  t \in PlaneRegions \/ Matches(presented, t)
  BY <1>1, <1>2, <1>3, <1>9 DEF CoreInv, HintCovers, PlaneRegions
<1>10. CASE PlaneUnchanged
  <2>1. PlaneDamage = {} /\ UNCHANGED <<presented, panel, residue, alive>>
    BY <1>10 DEF PlaneUnchanged, panelVars
  <2>2. StagedPlane = presented
    BY <1>3, <1>6, <1>7, <2>1
  <2>3. ASSUME Incremental, NEW t \in Tiles  PROVE Matches(presented, t)'
    BY <1>1, <1>2, <1>4, <1>9, <2>1, <2>2, <2>3 DEF Matches
  <2> QED
    BY <1>1, <1>2, <1>5, <1>8, <2>1, <2>2, <2>3
    DEF BuffersAgree, PanelTracks, HintCovers
<1>11. CASE PlaneFails(damage)
  BY <1>5, <1>11 DEF PlaneFails, BuffersAgree, PanelTracks, HintCovers
<1>12. ASSUME NEW n, PlaneSubmitted(PlaneDecision, damage, n)
       PROVE  BuffersAgree' /\ PanelTracks' /\ HintCovers' /\ PendingNewest'
  <2>1. /\ presented' = copy_regions_from(presented, StagedPlane, damage)
        /\ panel' = copy_regions_from(panel, StagedPlane, damage)
        /\ residue' = {t \in residue :
                         t \in damage => StagedPlane[t] # Composed[t]}
        /\ UNCHANGED alive
    BY <1>12 DEF PlaneSubmitted, PanelShows
  <2>2. damage = IF complete THEN Tiles ELSE PlaneDamage
    BY DEF damage_for_decision
  <2>3. \A t \in Tiles \ damage : StagedPlane[t] = presented[t]
    BY <1>7, <2>2
  <2>4. presented' = StagedPlane
    BY <1>3, <1>6, <2>1, <2>3 DEF copy_regions_from
  <2>5. Incremental => panel' = StagedPlane
    BY <1>3, <1>6, <1>8, <2>1, <2>3 DEF copy_regions_from
  <2>6. ASSUME Incremental, NEW t \in Tiles  PROVE Matches(presented, t)'
    <3>1. CASE t \in PlaneRegions
      BY <1>2, <1>4, <2>4, <3>1 DEF Matches
    <3>2. CASE t \notin PlaneRegions
      <4>1. Matches(presented, t) /\ StagedPlane[t] = presented[t]
        BY <1>4, <1>9, <2>6, <3>2
      <4> QED  BY <1>2, <2>1, <2>4, <4>1 DEF Matches
    <3> QED  BY <3>1, <3>2
  <2> QED
    BY <1>1, <1>2, <1>5, <2>1, <2>4, <2>5, <2>6
    DEF BuffersAgree, PanelTracks, HintCovers
<1> QED
  BY <1>10, <1>11, <1>12 DEF PresentPlane

(* Changing a plane leaves exactly the tiles stale that its presentation    *)
(* will redraw, or that clear_ink abandons.                                 *)
LEMMA PlaneCallConverges ==
  ASSUME CoreInv, PlaneCall
  PROVE  BuffersAgree' /\ PanelTracks' /\ HintCovers' /\ PendingNewest'
<1>1. ASSUME NEW kind, NEW U, BeginPlane(kind, U)
      PROVE  /\ BuffersAgree' /\ PanelTracks' /\ PendingNewest'
             /\ Incremental' = Incremental
             /\ call' = kind /\ residue' = residue \cup U
             /\ UNCHANGED <<presented, base, pending, alive>>
  BY <1>1
  DEF BeginPlane, surfaceVars, frameVars, CoreInv, BuffersAgree, PanelTracks,
      PendingNewest, Incremental
<1>2. ASSUME NEW covered, RenderMenu(covered)
      PROVE  BuffersAgree' /\ PanelTracks' /\ HintCovers' /\ PendingNewest'
  BY <1>1, <1>2 DEF RenderMenu, HintCovers
<1>3. ASSUME NEW covered, NEW clear_ink, UpdateOverlay(covered, clear_ink)
      PROVE  BuffersAgree' /\ PanelTracks' /\ HintCovers' /\ PendingNewest'
  BY <1>1, <1>3 DEF UpdateOverlay, HintCovers
<1>4. ASSUME NEW dirty \in SUBSET Tiles, NEW touched \in SUBSET dirty,
             NEW erase, InkStroke(dirty, touched, erase)
      PROVE  BuffersAgree' /\ PanelTracks' /\ HintCovers' /\ PendingNewest'
  <2>1. /\ BeginPlane("ink", {}) /\ alive /\ call = "idle"
        /\ ink_dirty' = dirty
        /\ \A t \in Tiles \ dirty : t \in ink' <=> t \in ink
        /\ UNCHANGED <<menu, peer>>
    BY <1>4 DEF InkStroke, Ready
  <2>2. /\ residue \subseteq residue'
        /\ Outstanding' = (IF pending = NoFrame THEN {} ELSE pending.damage_hint)
                            \cup dirty
        /\ Outstanding = IF pending = NoFrame THEN {} ELSE pending.damage_hint
    BY <1>1, <2>1 DEF Outstanding
  <2>3. \A t \in Tiles \ dirty : Composed'[t] = Composed[t]
    BY <1>1, <2>1 DEF Composed
  <2>4. HintCovers'
    BY <1>1, <2>1, <2>2, <2>3 DEF HintCovers, CoreInv, Matches
  <2> QED  BY <1>1, <2>1, <2>4
<1>5. ASSUME ClearInk
      PROVE  BuffersAgree' /\ PanelTracks' /\ HintCovers' /\ PendingNewest'
  <2>1. /\ BeginPlane("ink", ink) /\ alive /\ call = "idle"
        /\ ink' = {} /\ ink_dirty' = {}
        /\ UNCHANGED <<menu, peer>>
    BY <1>5 DEF ClearInk, Ready
  <2>2. /\ residue' = residue \cup ink
        /\ Outstanding' = Outstanding
    BY <1>1, <2>1 DEF Outstanding
  <2>3. \A t \in Tiles :
          Composed'[t] = Composed[t] \/ (Composed[t] = "ink" /\ t \in ink)
    BY <1>1, <2>1 DEF Composed
  <2>4. ASSUME NEW t \in Tiles, Matches(presented, t)  PROVE Matches(presented, t)'
    BY <1>1, <2>1, <2>2, <2>3, <2>4 DEF Matches
  <2>5. HintCovers'
    BY <1>1, <2>1, <2>2, <2>4 DEF HintCovers, CoreInv
  <2> QED  BY <1>1, <2>1, <2>5
<1> QED
  BY <1>2, <1>3, <1>4, <1>5 DEF PlaneCall
(* Accepting a frame records every tile it makes stale, or demands the      *)
(* whole panel (commit_timed).                                              *)
LEMMA CommitConverges ==
  ASSUME CoreInv, CommitAny
  PROVE  BuffersAgree' /\ PanelTracks' /\ HintCovers' /\ PendingNewest'
<1>1. PICK id \in 1..MaxFrameId, base_frame_id \in 0..MaxFrameId,
           intent \in FrameIntent, class \in Classes,
           regions \in SUBSET Tiles \ {{}}, image \in [Tiles -> Pixels] :
             Commit(id, base_frame_id, intent, class, regions, image)
  BY DEF CommitAny
<1>2. /\ alive /\ call = "idle"
      /\ base' = copy_regions_from(base, image, regions)
      /\ base_valid' = TRUE /\ logical_frame_id' = id
      /\ UNCHANGED <<presented, working, panel, residue, menu, ink, peer, call,
                     alive>>
  BY <1>1 DEF Commit, Ready, planeVars, panelVars
<1>3. /\ pending'.frame_id = id /\ pending' # NoFrame
      /\ pending'.damage_hint = CarriedHint(regions)
      /\ ~pending'.force_full_damage => Incremental
  BY <1>1 DEF Commit, NoFrame, Incremental
<1>4. /\ BuffersAgree' /\ PendingNewest'
  BY <1>2, <1>3 DEF CoreInv, BuffersAgree, PendingNewest
<1>5. PanelTracks'
  BY <1>2, <1>3 DEF CoreInv, PanelTracks, Incremental
<1>6. Outstanding' = Outstanding \cup regions
  BY <1>2, <1>3 DEF Outstanding, CarriedHint
<1>7. \A t \in Tiles \ regions : Composed'[t] = Composed[t]
  BY <1>2 DEF Composed, copy_regions_from
<1>8. HintCovers'
  <2>1. Incremental' => Incremental
    BY <1>3 DEF Incremental
  <2>2. ASSUME NEW t \in Tiles \ regions, Matches(presented, t)
        PROVE  Matches(presented, t)'
    BY <1>2, <1>7, <2>2 DEF Matches
  <2> QED  BY <1>2, <1>6, <2>1, <2>2 DEF CoreInv, HintCovers
<1> QED  BY <1>4, <1>5, <1>8

(* A cleanup converges like a frame, or resubmits what is presented         *)
(* (request_cleanup).                                                       *)
LEMMA CleanupConverges ==
  ASSUME CoreInv, alive, NEW cfg, request_cleanup(cfg), UNCHANGED call
  PROVE  BuffersAgree' /\ PanelTracks' /\ HintCovers' /\ PendingNewest'
<1>1. CASE tick_inner(cfg, TRUE)
  BY <1>1, TickConverges
<1>2. CASE StayArmed(cfg)
  <2>1. UNCHANGED <<surfaceVars, planeVars, panelVars, call, alive, pending,
                    base_valid, logical_frame_id>>
    BY <1>2 DEF StayArmed, frameVars
  <2>2. Incremental' = Incremental /\ Outstanding' = Outstanding
    BY <2>1 DEF Incremental, Outstanding, planeVars
  <2> QED
    BY <2>1, <2>2, ConvergenceFrame DEF CoreInv, PendingNewest
<1>3. CASE MaintenanceFails(cfg, {}) \/ MaintenanceFails(cfg, Tiles)
  BY <1>3
  DEF MaintenanceFails, mark_panel_failure, surfaceVars, CoreInv, BuffersAgree,
      PanelTracks, HintCovers, PendingNewest, Incremental
<1>4. CASE MaintenanceRefresh(cfg)
  <2>1. /\ UNCHANGED <<presented, working, base, menu, ink, peer, ink_dirty,
                       base_valid, pending, logical_frame_id, alive>>
        /\ panel' = copy_regions_from(panel, presented, Tiles)
        /\ residue' = {t \in residue : t \in Tiles => presented[t] # Composed[t]}
    BY <1>4
    DEF MaintenanceRefresh, PanelShows, surfaceVars, planeVars, frameVars
  <2>2. panel' = presented
    BY <2>1 DEF copy_regions_from, CoreInv, TypeOK, Surface
  <2>3. /\ Composed' = Composed /\ Incremental' = Incremental
        /\ Outstanding' = Outstanding
    BY <2>1 DEF Composed, Incremental, Outstanding
  <2>4. ASSUME NEW t \in Tiles, Matches(presented, t)
        PROVE  Matches(presented, t)'
    BY <2>1, <2>3, <2>4 DEF Matches
  <2> QED
    BY <2>1, <2>2, <2>3, <2>4
    DEF CoreInv, BuffersAgree, PanelTracks, HintCovers, PendingNewest
<1> QED
  BY <1>1, <1>2, <1>3, <1>4 DEF request_cleanup
(* A fresh core has nothing to converge to (DisplayCore::new).              *)
LEMMA NewCoreConverges ==
  ASSUME NEW cfg, NEW armed, NEW d, NewCore(cfg, armed, d)
  PROVE  BuffersAgree' /\ PanelTracks' /\ HintCovers' /\ PendingNewest'
  BY DEF NewCore, BuffersAgree, PanelTracks, HintCovers, PendingNewest,
         Incremental

(* Every step preserves the convergence invariant.                          *)
LEMMA CoreInvStep == CoreInv /\ [Next]_vars => CoreInv'
<1> SUFFICES ASSUME CoreInv, [Next]_vars
             PROVE  BuffersAgree' /\ PanelTracks' /\ HintCovers' /\ PendingNewest'
  BY TypeStep DEF CoreInv
<1>1. CASE CommitAny
  BY <1>1, CommitConverges
<1>2. CASE TickPresents \/ FlushPending
  BY <1>2, TickConverges DEF TickPresents, FlushPending, Ready
<1>3. CASE TickCleans \/ RequestCleanup
  BY <1>3, CleanupConverges DEF TickCleans, RequestCleanup, Ready
<1>4. CASE \E cfg \in Configs : ChangeRefreshProfile(cfg)
  BY <1>4, CleanupConverges DEF ChangeRefreshProfile, Ready
<1>5. CASE \/ \E cfg \in Configs : update_refresh_config(cfg)
           \/ Elapse \/ UNCHANGED vars
  <2>1. /\ UNCHANGED <<surfaceVars, planeVars, panelVars, call, alive>>
        /\ UNCHANGED <<logical_frame_id, base_valid>>
        /\ pending' = pending \/ (pending # NoFrame /\ Elapse)
    <3>1. CASE \E cfg \in Configs : update_refresh_config(cfg)
      BY <3>1 DEF update_refresh_config, frameVars
    <3>2. CASE Elapse
      BY <3>2 DEF Elapse
    <3>3. CASE UNCHANGED vars
      BY <3>3 DEF vars, frameVars
    <3> QED  BY <1>5, <3>1, <3>2, <3>3
  <2>2. CASE pending' = pending
    <3>1. Incremental' = Incremental /\ Outstanding' = Outstanding
      BY <2>1, <2>2 DEF Incremental, Outstanding, planeVars
    <3> QED
      BY <2>1, <2>2, <3>1, ConvergenceFrame DEF CoreInv, PendingNewest
  <2>3. CASE pending # NoFrame /\ Elapse
    <3>1. pending \in PendingPresentation
      BY <2>3 DEF CoreInv, TypeOK
    <3>2. PICK older : pending' = [pending EXCEPT !.age = older]
      BY <2>3 DEF Elapse
    <3>3. /\ pending' # NoFrame
          /\ pending'.frame_id = pending.frame_id
          /\ pending'.force_full_damage = pending.force_full_damage
          /\ pending'.damage_hint = pending.damage_hint
      BY <3>1, <3>2 DEF PendingPresentation, NoFrame
    <3>4. Incremental' = Incremental /\ Outstanding' = Outstanding
      BY <2>1, <2>3, <3>3 DEF Incremental, Outstanding, planeVars
    <3> QED
      BY <2>1, <2>3, <3>3, <3>4, ConvergenceFrame DEF CoreInv, PendingNewest
  <2> QED  BY <2>1, <2>2, <2>3
<1>6. CASE freeze_presented
  BY <1>6
  DEF freeze_presented, CoreInv, BuffersAgree, PanelTracks, HintCovers,
      PendingNewest, Incremental
<1>7. CASE PlaneCall
  BY <1>7, PlaneCallConverges
<1>8. CASE PresentPlane
  BY <1>8, PlaneConverges
<1>9. CASE open_surface \/ \E cfg \in Configs, armed \in BOOLEAN :
                             Reconnect(cfg, armed)
  BY <1>9, NewCoreConverges DEF open_surface, Reconnect
<1> QED
  BY <1>1, <1>2, <1>3, <1>4, <1>5, <1>6, <1>7, <1>8, <1>9 DEF Next

(* The convergence invariant holds throughout.                              *)
LEMMA CoreInvariant == Spec => []CoreInv
<1>1. Init => CoreInv
  <2>1. Init => BuffersAgree /\ PanelTracks /\ HintCovers /\ PendingNewest
    BY DEF Init, BuffersAgree, PanelTracks, HintCovers, PendingNewest,
           Incremental
  <2> QED  BY <2>1, InitType DEF CoreInv
<1> QED  BY <1>1, CoreInvStep, PTL DEF Spec

(* The staging buffer never drifts from the presented composite while the   *)
(* core is in use (the swap, copy-back and rollback of tick_inner).         *)
THEOREM BuffersNeverDrift == Spec => []BuffersAgree
<1>1. CoreInv => BuffersAgree
  BY DEF CoreInv
<1> QED  BY <1>1, CoreInvariant, PTL

(* Whenever the base is valid and no frame waits, the physical panel shows  *)
(* the newest accepted frame under the local planes, after any sequence of  *)
(* superseded, cancelled and failed frames, plane updates and cleanups.     *)
THEOREM PanelAlwaysConverges == Spec => []PanelConverges
<1>1. CoreInv => PanelConverges
  <2> SUFFICES ASSUME CoreInv, Ready, base_valid, pending = NoFrame,
                      NEW t \in Tiles
               PROVE  Matches(panel, t)
    BY DEF PanelConverges
  <2>1. Incremental /\ Outstanding = {} /\ panel = presented
    BY DEF CoreInv, PanelTracks, Incremental, Outstanding, Ready
  <2>2. Matches(presented, t)
    BY <2>1 DEF CoreInv, HintCovers, Ready
  <2> QED  BY <2>1, <2>2 DEF Matches
<1> QED  BY <1>1, CoreInvariant, PTL
--------------------------------------------------------------------------------
(* Cleanup requests.                                                        *)

(* Presenting a frame while a cleanup is armed performs it or keeps it      *)
(* armed (tick_inner).                                                      *)
LEMMA TickCleansArmed ==
  ASSUME TypeOK, NEW cfg, tick_inner(cfg, TRUE)
  PROVE  CleanupKept
<1> DEFINE decision == FrameDecision(cfg, TRUE)
           damage == damage_for_decision(decision, FrameDamage)
<1>1. decision.complete_refresh = TRUE
  <2> DEFINE plain == Decide(cfg, debt, pending.intent, pending.class,
                             Cardinality(FrameDamage), PanelArea,
                             (pending.force_cleanup \/ TRUE)
                               \/ static_cleanup_due(cfg,
                                    pending.force_cleanup \/ TRUE))
  <2>1. decision.complete_refresh = plain.complete_refresh
    BY DEF FrameDecision, Decide
  <2>2. plain.complete_refresh = TRUE
    BY DecideComplete
  <2> QED  BY <2>1, <2>2
<1>2. damage # {}
  BY <1>1, CoreAssumption DEF damage_for_decision
<1> HIDE DEF damage, decision
<1>3. CASE FrameFails(TRUE, {}) \/ FrameFails(TRUE, damage)
  BY <1>3 DEF FrameFails, Terminal, CleanupKept
<1>4. ASSUME NEW n, FrameSubmitted(TRUE, decision, damage, n)
      PROVE  CleanupKept
  <2>1. drive' = "complete"
    BY <1>1, <1>4 DEF FrameSubmitted, PanelShows
  <2> QED  BY <2>1 DEF CleanupKept
<1> QED
  BY <1>2, <1>3, <1>4 DEF tick_inner, damage, decision

(* The same for every outcome of a cleanup request (request_cleanup).       *)
LEMMA RequestCleansArmed ==
  ASSUME TypeOK, NEW cfg, request_cleanup(cfg)
  PROVE  CleanupKept
<1>1. CASE tick_inner(cfg, TRUE)
  BY <1>1, TickCleansArmed
<1>2. CASE StayArmed(cfg)
  BY <1>2 DEF StayArmed, CleanupKept
<1>3. CASE MaintenanceFails(cfg, {}) \/ MaintenanceFails(cfg, Tiles)
  BY <1>3 DEF MaintenanceFails, CleanupKept
<1>4. CASE MaintenanceRefresh(cfg)
  <2> DEFINE decision ==
        Decide(cfg, debt, "Settled", "TextUi", PanelArea, PanelArea, TRUE)
  <2>1. decision.complete_refresh
    BY DecideComplete
  <2>2. PanelShows(presented, Tiles, decision, TRUE) /\ terminal' = NoTerminal
    BY <1>4 DEF MaintenanceRefresh
  <2> HIDE DEF decision
  <2> QED  BY <2>1, <2>2 DEF PanelShows, CleanupKept
<1> QED
  BY <1>1, <1>2, <1>3, <1>4 DEF request_cleanup

(* An armed cleanup survives everything except a new connection until a     *)
(* complete refresh succeeds, and no frame is presented before it           *)
(* (force_cleanup_next).                                                    *)
THEOREM CleanupNeverLost == Spec => CleanupHonoured
<1>1. TypeOK /\ [Next]_vars => [CleanupKept]_vars
  <2> SUFFICES ASSUME TypeOK, Next, alive, force_cleanup_next, drive' # "reset"
               PROVE  CleanupKept
    BY DEF CleanupKept
  <2>1. force_cleanup_next = TRUE
    BY DEF TypeOK
  <2>2. CASE CommitAny
    BY <2>1, <2>2 DEF CommitAny, Commit, policyVars, Terminal, CleanupKept
  <2>3. CASE TickPresents \/ FlushPending
    BY <2>1, <2>3, TickCleansArmed DEF TickPresents, FlushPending
  <2>4. CASE \/ TickCleans \/ RequestCleanup
             \/ \E cfg \in Configs : ChangeRefreshProfile(cfg)
    BY <2>4, RequestCleansArmed
    DEF TickCleans, RequestCleanup, ChangeRefreshProfile
  <2>5. CASE \E cfg \in Configs : update_refresh_config(cfg)
    BY <2>5 DEF update_refresh_config, Quiet, CleanupKept
  <2>6. CASE freeze_presented
    BY <2>6 DEF freeze_presented, policyVars, Terminal, CleanupKept
  <2>7. CASE PlaneCall
    BY <2>7
    DEF PlaneCall, RenderMenu, UpdateOverlay, InkStroke, ClearInk, BeginPlane,
        Quiet, policyVars, CleanupKept
  <2>8. CASE PresentPlane
    <3> DEFINE damage == damage_for_decision(PlaneDecision, PlaneDamage)
    <3>1. CASE PlaneUnchanged
      BY <3>1 DEF PlaneUnchanged, Quiet, policyVars, CleanupKept
    <3>2. CASE PlaneFails(damage)
      BY <3>2 DEF PlaneFails, policyVars, CleanupKept
    <3>3. ASSUME NEW n, PlaneSubmitted(PlaneDecision, damage, n)
          PROVE  CleanupKept
      BY <3>3 DEF PlaneSubmitted, StillArmed, PanelShows, CleanupKept
    <3> QED  BY <2>8, <3>1, <3>2, <3>3 DEF PresentPlane
  <2>9. CASE open_surface
    BY <2>9 DEF open_surface, NewCore, Terminal, CleanupKept
  <2>10. CASE \E cfg \in Configs, armed \in BOOLEAN : Reconnect(cfg, armed)
    BY <2>10 DEF Reconnect
  <2>11. CASE Elapse
    BY <2>11 DEF Elapse, Quiet, policyVars, CleanupKept
  <2> QED
    BY <2>2, <2>3, <2>4, <2>5, <2>6, <2>7, <2>8, <2>9, <2>10, <2>11 DEF Next
<1> QED  BY <1>1, TypeCorrect, PTL DEF Spec, CleanupHonoured
--------------------------------------------------------------------------------
(* Recovery and settling on the bare base.  Both facts need a panel that no *)
(* local plane shares: present_plane forgets the settle region and the      *)
(* doubt about the panel (scheduler.rs:445) without repainting every tile.  *)

\* No plane is being presented.
AtRest == call = "idle"

\* A doubt about the panel ends in a complete refresh: no frame can be accepted
\* that does not carry it.
DoubtRemembered ==
  suspect => /\ panel_state_uncertain
             /\ IF pending = NoFrame THEN ~base_valid ELSE pending.force_cleanup

\* Every tile last driven fast is in the settle region, unless the next
\* presentation redraws the whole panel anyway.
FastRecorded == Incremental => fast_seen \subseteq settle_damage

BareInv == CoreInv /\ AtRest /\ DoubtRemembered /\ FastRecorded

\* What RecoveryCleans asks of a step.
DoubtEnds ==
  alive /\ suspect /\ terminal' # NoTerminal /\ terminal'.outcome = "Presented"
    => drive' = "complete"

\* What SettledRepaintsFast asks of a step.
SettledClears ==
  pending # NoFrame /\ terminal' # NoTerminal
    => (pending.intent = "Settled" /\ terminal'.outcome = "Presented"
          => fast_seen' = {})

(* A complete refresh is never driven with a motion waveform (decide).      *)
LEMMA DecideSlow ==
  ASSUME NEW c, NEW d, NEW i, NEW k, NEW m, NEW p, NEW f,
         Decide(c, d, i, k, m, p, f).complete_refresh
  PROVE  ~IsFast(Decide(c, d, i, k, m, p, f).waveform)
  BY DEF Decide, IsFast

(* What tick_inner's decision owes to a forced cleanup.                     *)
LEMMA FrameDecisionFacts ==
  ASSUME NEW cfg, NEW armed
  PROVE  /\ FrameDecision(cfg, armed).complete_refresh \in BOOLEAN
         /\ pending.force_cleanup => FrameDecision(cfg, armed).complete_refresh
         /\ FrameDecision(cfg, armed).complete_refresh
              => ~IsFast(FrameDecision(cfg, armed).waveform)
<1> DEFINE force == \/ pending.force_cleanup \/ armed
                    \/ static_cleanup_due(cfg, pending.force_cleanup \/ armed)
           plain == Decide(cfg, debt, pending.intent, pending.class,
                           Cardinality(FrameDamage), PanelArea, force)
<1>1. /\ FrameDecision(cfg, armed).complete_refresh = plain.complete_refresh
      /\ FrameDecision(cfg, armed).waveform = plain.waveform
  BY DEF FrameDecision, Decide
<1>2. /\ plain.complete_refresh \in BOOLEAN
      /\ force => plain.complete_refresh
  BY DecideComplete
<1>3. plain.complete_refresh => ~IsFast(plain.waveform)
  BY DecideSlow
<1>4. pending.force_cleanup => force
  OBVIOUS
<1> HIDE DEF plain, force
<1> QED  BY <1>1, <1>2, <1>3, <1>4

(* A presentation settles its doubts or leaves the base invalid, and keeps  *)
(* account of every tile it drives fast (tick_inner).                       *)
LEMMA TickRecovers ==
  ASSUME BareInv, NEW cfg, NEW armed, tick_inner(cfg, armed)
  PROVE  DoubtRemembered' /\ FastRecorded' /\ DoubtEnds /\ SettledClears
<1> DEFINE decision == FrameDecision(cfg, armed)
           complete == decision.complete_refresh
           damage == damage_for_decision(decision, FrameDamage)
<1>1. /\ pending # NoFrame /\ pending' = NoFrame
      /\ base_valid
      /\ fast_seen \subseteq Tiles /\ settle_damage \subseteq Tiles
  BY DEF tick_inner, BareInv, CoreInv, PendingNewest, TypeOK
<1>2. /\ complete \in BOOLEAN
      /\ pending.force_cleanup => complete
      /\ complete => ~IsFast(decision.waveform)
  BY FrameDecisionFacts
<1>3. damage = IF complete THEN Tiles ELSE FrameDamage
  BY DEF damage_for_decision
<1>4. /\ FrameDamage \subseteq Tiles
      /\ pending.force_full_damage => FrameDamage = Tiles
      /\ pending.intent = "Settled" => settle_damage \subseteq FrameDamage
  BY FrameDamageType, <1>1
  DEF FrameDamage, merge_tiled_damage, BareInv, CoreInv
<1>5. ~pending.force_full_damage => fast_seen \subseteq settle_damage
  BY <1>1 DEF BareInv, FastRecorded, Incremental
<1>6. suspect => pending.force_cleanup
  BY <1>1 DEF BareInv, DoubtRemembered
<1>7. Tiles # {}
  BY CoreAssumption
<1> HIDE DEF decision, damage
<1>8. CASE FrameFails(armed, {}) \/ FrameFails(armed, damage)
  <2>1. /\ base_valid' = FALSE /\ panel_state_uncertain' = TRUE
        /\ terminal' = Terminal(pending, "BackendFailure")
    BY <1>8 DEF FrameFails, mark_panel_failure
  <2> QED
    BY <1>1, <2>1
    DEF DoubtRemembered, FastRecorded, Incremental, DoubtEnds, SettledClears,
        Terminal
<1>9. CASE damage = {} /\ FrameUnchanged(armed)
  <2>1. ~complete /\ FrameDamage = {}
    BY <1>2, <1>3, <1>7, <1>9
  <2>2. ~suspect /\ ~pending.force_full_damage
    BY <1>2, <1>4, <1>6, <1>7, <2>1
  <2>3. UNCHANGED <<suspect, fast_seen, settle_damage>>
    BY <1>9 DEF FrameUnchanged, debtVars, panelVars
  <2>4. fast_seen \subseteq settle_damage
    BY <1>5, <2>2
  <2>5. pending.intent = "Settled" => fast_seen' = {}
    BY <1>4, <2>1, <2>3, <2>4
  <2> QED
    BY <2>2, <2>3, <2>4, <2>5
    DEF DoubtRemembered, FastRecorded, DoubtEnds, SettledClears
<1>10. ASSUME NEW n, FrameSubmitted(armed, decision, damage, n)
       PROVE  DoubtRemembered' /\ FastRecorded' /\ DoubtEnds /\ SettledClears
  <2> DEFINE settles == pending.intent = "Settled"
  <2>1. /\ fast_seen' = IF IsFast(decision.waveform) /\ ~settles
                          THEN fast_seen \cup damage ELSE fast_seen \ damage
        /\ suspect' = (suspect /\ ~complete)
        /\ drive' = IF complete THEN "complete" ELSE "partial"
    BY <1>10 DEF FrameSubmitted, PanelShows
  <2>2. SettleDebt(decision, settles, damage, n)
    BY <1>10 DEF FrameSubmitted
  <2>3. ~suspect'
    BY <1>2, <1>6, <2>1
  <2>4. suspect => drive' = "complete"
    BY <1>2, <1>6, <2>1
  <2>5. damage \subseteq Tiles /\ (pending.force_full_damage => damage = Tiles)
    BY <1>3, <1>4
  <2>6. ASSUME complete \/ settles
        PROVE  fast_seen' = {} /\ settle_damage' = {}
    <3>1. fast_seen' = fast_seen \ damage
      BY <1>2, <2>1, <2>6
    <3>2. fast_seen \subseteq damage
      <4>1. CASE complete
        BY <1>1, <1>3, <4>1
      <4>2. CASE ~complete
        BY <1>1, <1>3, <1>4, <1>5, <2>5, <2>6, <4>2
      <4> QED  BY <4>1, <4>2
    <3>3. settle_damage' = {}
      BY <2>2, <2>6 DEF SettleDebt
    <3> QED  BY <3>1, <3>2, <3>3
  <2>7. ASSUME ~complete, ~settles
        PROVE  fast_seen' \subseteq settle_damage'
    <3>1. CASE IsFast(decision.waveform)
      <4>1. /\ settle_damage' = settle_damage \cup damage
            /\ fast_seen' = fast_seen \cup damage
        BY <2>1, <2>2, <2>7, <3>1 DEF SettleDebt, merge_tiled_damage
      <4> QED  BY <1>1, <1>5, <2>5, <4>1
    <3>2. CASE ~IsFast(decision.waveform)
      <4>1. settle_damage' = settle_damage /\ fast_seen' = fast_seen \ damage
        BY <2>1, <2>2, <2>7, <3>2 DEF SettleDebt
      <4> QED  BY <1>1, <1>5, <2>5, <4>1
    <3> QED  BY <3>1, <3>2
  <2>8. fast_seen' \subseteq settle_damage'
    BY <2>6, <2>7
  <2>9. settles => fast_seen' = {}
    BY <2>6
  <2> QED
    BY <2>3, <2>4, <2>8, <2>9
    DEF DoubtRemembered, FastRecorded, DoubtEnds, SettledClears
<1> QED
  BY <1>8, <1>9, <1>10 DEF tick_inner, decision, damage

(* A cleanup request repaints the whole panel, fails, or waits              *)
(* (request_cleanup).                                                       *)
LEMMA CleanupRecovers ==
  ASSUME BareInv, NEW cfg, request_cleanup(cfg)
  PROVE  DoubtRemembered' /\ FastRecorded' /\ DoubtEnds /\ SettledClears
<1>1. CASE tick_inner(cfg, TRUE)
  BY <1>1, TickRecovers
<1>2. CASE StayArmed(cfg)
  BY <1>2
  DEF StayArmed, frameVars, debtVars, panelVars, BareInv, DoubtRemembered,
      FastRecorded, Incremental, DoubtEnds, SettledClears
<1>3. CASE MaintenanceFails(cfg, {}) \/ MaintenanceFails(cfg, Tiles)
  <2>1. /\ pending = NoFrame /\ pending' = NoFrame
        /\ base_valid' = FALSE /\ panel_state_uncertain' = TRUE
        /\ terminal' = NoTerminal
    BY <1>3 DEF MaintenanceFails, mark_panel_failure
  <2> QED
    BY <2>1
    DEF DoubtRemembered, FastRecorded, Incremental, DoubtEnds, SettledClears
<1>4. CASE MaintenanceRefresh(cfg)
  <2> DEFINE decision ==
        Decide(cfg, debt, "Settled", "TextUi", PanelArea, PanelArea, TRUE)
  <2>1. decision.complete_refresh
    BY DecideComplete
  <2>2. /\ PanelShows(presented, Tiles, decision, TRUE)
        /\ terminal' = NoTerminal
    BY <1>4 DEF MaintenanceRefresh
  <2> HIDE DEF decision
  <2>3. fast_seen' = {} /\ ~suspect'
    BY <2>1, <2>2 DEF PanelShows, BareInv, CoreInv, TypeOK
  <2> QED
    BY <2>2, <2>3 DEF DoubtRemembered, FastRecorded, DoubtEnds, SettledClears
<1> QED
  BY <1>1, <1>2, <1>3, <1>4 DEF request_cleanup

(* A frame accepted in doubt is a keyframe that forces the cleanup, and one *)
(* that supersedes it inherits the obligation (commit_timed).               *)
LEMMA CommitRecovers ==
  ASSUME BareInv, CommitAny
  PROVE  DoubtRemembered' /\ FastRecorded' /\ DoubtEnds /\ SettledClears
<1>1. PICK id \in 1..MaxFrameId, base_frame_id \in 0..MaxFrameId,
           intent \in FrameIntent, class \in Classes,
           regions \in SUBSET Tiles \ {{}}, image \in [Tiles -> Pixels] :
             Commit(id, base_frame_id, intent, class, regions, image)
  BY DEF CommitAny
<1> DEFINE keyframe == base_frame_id = 0
           superseded == pending # NoFrame
<1>2. /\ pending' # NoFrame
      /\ pending'.force_full_damage =
           \/ superseded /\ pending.force_full_damage
           \/ keyframe /\ (presented_frame_id = 0 \/ ~base_valid)
      /\ pending'.force_cleanup =
           \/ superseded /\ pending.force_cleanup
           \/ keyframe /\ panel_state_uncertain
      /\ keyframe \/ base_valid
      /\ UNCHANGED <<suspect, panel_state_uncertain, fast_seen, settle_damage>>
  BY <1>1 DEF Commit, NoFrame, panelVars, debtVars
<1>3. DoubtRemembered'
  BY <1>2 DEF BareInv, DoubtRemembered
<1>4. FastRecorded'
  BY <1>2 DEF BareInv, FastRecorded, Incremental
<1>5. terminal' # NoTerminal => terminal'.outcome # "Presented"
  BY <1>1 DEF Commit, Terminal
<1> QED  BY <1>3, <1>4, <1>5 DEF DoubtEnds, SettledClears

(* Without local planes every step keeps the invariant and does what both   *)
(* properties ask.                                                          *)
LEMMA BareStep ==
  ASSUME Planes = {}
  PROVE  BareInv /\ [Next]_vars
           => BareInv' /\ [DoubtEnds]_vars /\ [SettledClears]_vars
<1> SUFFICES ASSUME BareInv, [Next]_vars
             PROVE  /\ AtRest' /\ DoubtRemembered' /\ FastRecorded'
                    /\ [DoubtEnds]_vars /\ [SettledClears]_vars
  BY CoreInvStep DEF BareInv
<1>1. CASE CommitAny
  <2>1. AtRest'
    BY <1>1 DEF CommitAny, Commit, BareInv, AtRest
  <2> QED  BY <1>1, <2>1, CommitRecovers
<1>2. CASE TickPresents
  BY <1>2, TickRecovers DEF TickPresents, BareInv, AtRest
<1>3. CASE \/ TickCleans \/ RequestCleanup
           \/ \E cfg \in Configs : ChangeRefreshProfile(cfg)
  BY <1>3, CleanupRecovers
  DEF TickCleans, RequestCleanup, ChangeRefreshProfile, BareInv, AtRest
<1>4. CASE \E cfg \in Configs : update_refresh_config(cfg)
  BY <1>4
  DEF update_refresh_config, Quiet, frameVars, debtVars, panelVars, BareInv,
      AtRest, DoubtRemembered, FastRecorded, Incremental, DoubtEnds,
      SettledClears
<1>5. CASE freeze_presented
  <2>1. /\ pending' = NoFrame /\ base_valid' = FALSE
        /\ terminal' # NoTerminal => terminal'.outcome = "Cancelled"
        /\ UNCHANGED <<call, suspect, panel_state_uncertain>>
    BY <1>5 DEF freeze_presented, Terminal, panelVars
  <2> QED
    BY <2>1
    DEF BareInv, AtRest, DoubtRemembered, FastRecorded, Incremental, DoubtEnds,
        SettledClears
<1>6. CASE PlaneCall
  BY <1>6 DEF PlaneCall, RenderMenu, UpdateOverlay, InkStroke, ClearInk
<1>7. CASE FlushPending \/ PresentPlane
  BY <1>7 DEF FlushPending, PresentPlane, BareInv, AtRest
<1>8. CASE open_surface \/ \E cfg \in Configs, armed \in BOOLEAN :
                             Reconnect(cfg, armed)
  <2>1. /\ call' = "idle" /\ base_valid' = FALSE /\ suspect' = FALSE
        /\ terminal' # NoTerminal => terminal'.outcome = "Cancelled"
    BY <1>8 DEF open_surface, Reconnect, NewCore, Terminal
  <2> QED
    BY <2>1
    DEF AtRest, DoubtRemembered, FastRecorded, Incremental, DoubtEnds,
        SettledClears
<1>9. CASE Elapse
  <2>1. /\ UNCHANGED <<call, suspect, panel_state_uncertain, base_valid,
                       fast_seen, settle_damage>>
        /\ terminal' = NoTerminal
    BY <1>9 DEF Elapse, Quiet, panelVars
  <2>2. /\ pending' = NoFrame <=> pending = NoFrame
        /\ pending # NoFrame =>
             /\ pending'.force_full_damage = pending.force_full_damage
             /\ pending'.force_cleanup = pending.force_cleanup
    <3>1. CASE pending = NoFrame
      BY <1>9, <3>1 DEF Elapse
    <3>2. CASE pending # NoFrame
      <4>1. pending \in PendingPresentation
        BY <3>2 DEF BareInv, CoreInv, TypeOK
      <4>2. PICK older : pending' = [pending EXCEPT !.age = older]
        BY <1>9, <3>2 DEF Elapse
      <4> QED  BY <4>1, <4>2 DEF PendingPresentation, NoFrame
    <3> QED  BY <3>1, <3>2
  <2>3. AtRest' /\ DoubtRemembered'
    BY <2>1, <2>2 DEF BareInv, AtRest, DoubtRemembered
  <2>4. FastRecorded'
    BY <2>1, <2>2 DEF BareInv, FastRecorded, Incremental
  <2> QED  BY <2>1, <2>3, <2>4 DEF DoubtEnds, SettledClears
<1>10. CASE UNCHANGED vars
  BY <1>10
  DEF vars, frameVars, debtVars, panelVars, BareInv, AtRest, DoubtRemembered,
      FastRecorded, Incremental
<1> QED
  BY <1>1, <1>2, <1>3, <1>4, <1>5, <1>6, <1>7, <1>8, <1>9, <1>10 DEF Next

(* The invariant holds throughout on the bare base.                         *)
LEMMA BareInvariant ==
  ASSUME Planes = {}
  PROVE  Spec => []BareInv
<1>1. Init => BareInv
  <2>1. Init => AtRest /\ DoubtRemembered /\ FastRecorded
    BY DEF Init, AtRest, DoubtRemembered, FastRecorded, Incremental
  <2>2. Init => CoreInv
    <3>1. Init => BuffersAgree /\ PanelTracks /\ HintCovers /\ PendingNewest
      BY DEF Init, BuffersAgree, PanelTracks, HintCovers, PendingNewest,
             Incremental
    <3> QED  BY <3>1, InitType DEF CoreInv
  <2> QED  BY <2>1, <2>2 DEF BareInv
<1>2. BareInv /\ [Next]_vars => BareInv'
  BY BareStep
<1> QED  BY <1>1, <1>2, PTL DEF Spec

(* After a panel failure the next frame that is presented is a complete     *)
(* refresh, whatever is superseded, frozen, failed again or reconfigured in *)
(* between (panel_state_uncertain, force_cleanup), on a panel that no local *)
(* plane shares.                                                            *)
THEOREM FailureIsCleaned ==
  ASSUME Planes = {}
  PROVE  Spec => RecoveryCleans
<1>1. BareInv /\ [Next]_vars => [DoubtEnds]_vars
  BY BareStep
<1> QED
  BY <1>1, BareInvariant, PTL DEF Spec, RecoveryCleans, DoubtEnds

(* A presented SETTLED frame leaves no tile in a motion waveform, however   *)
(* the fast updates, failures and cleanups before it fell (settle_damage in *)
(* tick_inner), on a panel that no local plane shares.                      *)
THEOREM SettlingIsComplete ==
  ASSUME Planes = {}
  PROVE  Spec => SettledRepaintsFast
<1>1. BareInv /\ [Next]_vars => [SettledClears]_vars
  BY BareStep
<1> QED
  BY <1>1, BareInvariant, PTL DEF Spec, SettledRepaintsFast, SettledClears
--------------------------------------------------------------------------------
(* The frame contract.  FrameContract!Next is split by what a step does to  *)
(* the pending frame.                                                       *)

\* The frame the contract sees waiting.
Waiting == IF pending = NoFrame THEN NoFrame
           ELSE [frame_id |-> pending.frame_id, intent |-> pending.intent]

(* A waiting frame is a frame of the contract.                              *)
LEMMA WaitingType ==
  ASSUME TypeOK, pending # NoFrame
  PROVE  /\ Waiting = [frame_id |-> pending.frame_id, intent |-> pending.intent]
         /\ Waiting \in Contract!Frame /\ Waiting # NoFrame
         /\ Waiting.frame_id = pending.frame_id
         /\ Waiting.intent = pending.intent
  BY DEF TypeOK, Waiting, Contract!Frame, PendingPresentation, FrameIntent,
         NoFrame

(* A step that resolves the pending frame is a step of the contract.        *)
LEMMA ResolveRefines ==
  ASSUME TypeOK, pending # NoFrame, pending' = NoFrame, drive' # "reset",
         \/ /\ terminal' = Terminal(pending, "Presented")
            /\ presented_frame_id' = pending.frame_id
         \/ /\ terminal' = Terminal(pending, "BackendFailure")
            /\ presented_frame_id' = presented_frame_id
         \/ /\ terminal' = Terminal(pending, "Cancelled")
            /\ presented_frame_id' \in {presented_frame_id, 0}
  PROVE  Contract!Next
<1>1. /\ Waiting # NoFrame /\ Waiting' = NoFrame
      /\ Waiting.frame_id = pending.frame_id
  BY WaitingType DEF Waiting
<1> QED
  BY <1>1
  DEF Waiting, Contract!Next, Contract!Present, Contract!Fail, Contract!Cancel,
      Contract!Result, Terminal

(* A step that reports nothing and keeps what is waiting is a step of the   *)
(* contract.                                                                *)
LEMMA OtherRefines ==
  ASSUME TypeOK, Waiting' = Waiting, terminal' = NoTerminal, drive' # "reset",
         \/ presented_frame_id' = presented_frame_id
         \/ pending = NoFrame /\ presented_frame_id' = 0
  PROVE  Contract!Next
  BY DEF Waiting, Contract!Next, Contract!Other

(* Presenting the pending frame refines Present or Fail.                    *)
LEMMA TickRefines ==
  ASSUME TypeOK, NEW cfg, NEW armed, tick_inner(cfg, armed)
  PROVE  Contract!Next
<1> DEFINE decision == FrameDecision(cfg, armed)
           damage == damage_for_decision(decision, FrameDamage)
<1> HIDE DEF decision, damage
<1>1. pending # NoFrame /\ pending' = NoFrame
  BY DEF tick_inner
<1>2. CASE FrameFails(armed, {}) \/ FrameFails(armed, damage)
  BY <1>1, <1>2, ResolveRefines DEF FrameFails, PanelFails
<1>3. CASE FrameUnchanged(armed)
  BY <1>1, <1>3, ResolveRefines DEF FrameUnchanged
<1>4. ASSUME NEW n, FrameSubmitted(armed, decision, damage, n)
      PROVE  Contract!Next
  BY <1>1, <1>4, ResolveRefines DEF FrameSubmitted, PanelShows
<1> QED  BY <1>2, <1>3, <1>4 DEF tick_inner, decision, damage

(* A cleanup resolves the pending frame or concerns none.                   *)
LEMMA CleanupRefines ==
  ASSUME TypeOK, NEW cfg, request_cleanup(cfg)
  PROVE  Contract!Next
<1>1. CASE tick_inner(cfg, TRUE)
  BY <1>1, TickRefines
<1>2. CASE StayArmed(cfg)
  BY <1>2, OtherRefines DEF StayArmed, frameVars, Waiting
<1>3. CASE MaintenanceFails(cfg, {}) \/ MaintenanceFails(cfg, Tiles)
  BY <1>3, OtherRefines DEF MaintenanceFails, PanelFails, Waiting
<1>4. CASE MaintenanceRefresh(cfg)
  BY <1>4, OtherRefines DEF MaintenanceRefresh, PanelShows, frameVars, Waiting
<1> QED  BY <1>1, <1>2, <1>3, <1>4 DEF request_cleanup

(* Accepting a frame refines Accept or Supersede, and only by a newer frame *)
(* (commit_timed; frame ids grow because a waiting frame is the newest).    *)
LEMMA CommitRefines ==
  ASSUME CoreInv, CommitAny
  PROVE  Contract!Next
<1>1. PICK id \in 1..MaxFrameId, base_frame_id \in 0..MaxFrameId,
           intent \in FrameIntent, class \in Classes,
           regions \in SUBSET Tiles \ {{}}, image \in [Tiles -> Pixels] :
             Commit(id, base_frame_id, intent, class, regions, image)
  BY DEF CommitAny
<1>2. /\ pending' # NoFrame
      /\ Waiting' = [frame_id |-> id, intent |-> intent]
      /\ UNCHANGED presented_frame_id /\ drive' = "none"
  BY <1>1 DEF Commit, NoFrame, Waiting
<1>3. Waiting' \in [frame_id : 1..MaxFrameId, intent : {"Latest", "Settled"}]
  BY <1>2 DEF FrameIntent
<1>4. CASE pending = NoFrame
  <2>1. Waiting = NoFrame /\ terminal' = NoTerminal
    BY <1>1, <1>4 DEF Commit, Waiting
  <2> QED
    BY <1>2, <1>3, <2>1 DEF Waiting, Contract!Next, Contract!Accept, Contract!Frame
<1>5. CASE pending # NoFrame
  <2>1. /\ pending.intent # "Settled" /\ id > pending.frame_id
        /\ terminal' = Terminal(pending, "Superseded")
    BY <1>1, <1>5 DEF Commit, Replaceable, CoreInv, PendingNewest
  <2>2. /\ Waiting # NoFrame /\ Waiting.frame_id = pending.frame_id
        /\ Waiting.intent = "Latest"
    BY <1>5, <2>1, WaitingType
    DEF CoreInv, TypeOK, PendingPresentation, FrameIntent
  <2>3. Waiting'.frame_id > Waiting.frame_id
    BY <1>2, <2>1, <2>2
  <2> QED
    BY <1>2, <1>3, <2>1, <2>2, <2>3
    DEF Waiting, Contract!Next, Contract!Supersede, Contract!Frame,
        Contract!Result, Terminal
<1> QED  BY <1>4, <1>5

(* Replacing the surface or losing the connection refines Cancel, Other or  *)
(* Disconnect.                                                              *)
LEMMA NewCoreRefines ==
  ASSUME TypeOK,
         open_surface \/ \E cfg \in Configs, armed \in BOOLEAN :
                           Reconnect(cfg, armed)
  PROVE  Contract!Next
<1>1. CASE open_surface
  <2>1. pending' = NoFrame /\ presented_frame_id' = 0 /\ drive' = "none"
    BY <1>1 DEF open_surface, NewCore
  <2>2. CASE pending = NoFrame
    BY <1>1, <2>1, <2>2, OtherRefines DEF open_surface, Waiting
  <2>3. CASE pending # NoFrame
    BY <1>1, <2>1, <2>3, ResolveRefines DEF open_surface
  <2> QED  BY <2>2, <2>3
<1>2. CASE \E cfg \in Configs, armed \in BOOLEAN : Reconnect(cfg, armed)
  BY <1>2 DEF Reconnect, NewCore, Contract!Next, Contract!Disconnect
<1> QED  BY <1>1, <1>2

(* The scheduler implements the frame contract: one waiting frame, one      *)
(* terminal result for each accepted frame, SETTLED never superseded, only  *)
(* newer frames superseding, and a presented id that follows the results.   *)
THEOREM ImplementsFrameContract == Spec => KeepsFrameContract
<1>1. Init => Contract!Init
  BY DEF Init, Contract!Init
<1>2. CoreInv /\ [Next]_vars => [Contract!Next]_(Contract!contractVars)
  <2> SUFFICES ASSUME CoreInv, [Next]_vars
               PROVE  Contract!Next \/ UNCHANGED Contract!contractVars
    OBVIOUS
  <2>1. TypeOK
    BY DEF CoreInv
  <2>2. CASE CommitAny
    BY <2>2, CommitRefines
  <2>3. CASE TickPresents \/ FlushPending
    BY <2>1, <2>3, TickRefines DEF TickPresents, FlushPending
  <2>4. CASE \/ TickCleans \/ RequestCleanup
             \/ \E cfg \in Configs : ChangeRefreshProfile(cfg)
    BY <2>1, <2>4, CleanupRefines
    DEF TickCleans, RequestCleanup, ChangeRefreshProfile
  <2>5. CASE \E cfg \in Configs : update_refresh_config(cfg)
    BY <2>1, <2>5, OtherRefines
    DEF update_refresh_config, Quiet, frameVars, Waiting
  <2>6. CASE freeze_presented
    <3>1. CASE pending = NoFrame
      BY <2>1, <2>6, <3>1, OtherRefines DEF freeze_presented, Waiting
    <3>2. CASE pending # NoFrame
      BY <2>1, <2>6, <3>2, ResolveRefines DEF freeze_presented
    <3> QED  BY <3>1, <3>2
  <2>7. CASE PlaneCall
    <3>1. terminal' = NoTerminal /\ drive' = "none" /\ UNCHANGED frameVars
      BY <2>7
      DEF PlaneCall, RenderMenu, UpdateOverlay, InkStroke, ClearInk, BeginPlane,
          Quiet
    <3> QED  BY <2>1, <3>1, OtherRefines DEF frameVars, Waiting
  <2>8. CASE PresentPlane
    <3>1. terminal' = NoTerminal /\ drive' # "reset" /\ UNCHANGED frameVars
      BY <2>8
      DEF PresentPlane, PlaneUnchanged, PlaneFails, PlaneSubmitted, Quiet,
          PanelFails, PanelShows
    <3> QED  BY <2>1, <3>1, OtherRefines DEF frameVars, Waiting
  <2>9. CASE open_surface \/ \E cfg \in Configs, armed \in BOOLEAN :
                               Reconnect(cfg, armed)
    BY <2>1, <2>9, NewCoreRefines
  <2>10. CASE Elapse
    <3>1. terminal' = NoTerminal /\ drive' = "none" /\ UNCHANGED presented_frame_id
      BY <2>10 DEF Elapse, Quiet
    <3>2. Waiting' = Waiting
      <4>1. CASE pending = NoFrame
        BY <2>10, <4>1 DEF Elapse, Waiting
      <4>2. CASE pending # NoFrame
        <5>1. pending \in PendingPresentation
          BY <2>1, <4>2 DEF TypeOK
        <5>2. PICK older : pending' = [pending EXCEPT !.age = older]
          BY <2>10, <4>2 DEF Elapse
        <5> QED
          BY <4>2, <5>1, <5>2 DEF PendingPresentation, NoFrame, Waiting
      <4> QED  BY <4>1, <4>2
    <3> QED  BY <2>1, <3>1, <3>2, OtherRefines
  <2>11. CASE UNCHANGED vars
    BY <2>11 DEF vars, frameVars, Contract!contractVars
  <2> QED
    BY <2>2, <2>3, <2>4, <2>5, <2>6, <2>7, <2>8, <2>9, <2>10, <2>11 DEF Next
<1> QED
  BY <1>1, <1>2, CoreInvariant, PTL DEF Spec, KeepsFrameContract, Contract!Spec
================================================================================
