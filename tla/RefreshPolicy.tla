----------------------------- MODULE RefreshPolicy -----------------------------
(***************************************************************************)
(* The receiver's refresh policy (rm-display-core/src/refresh.rs): which   *)
(* waveform drives a panel update, and when an update becomes a complete   *)
(* (full-panel, ghost-removing) refresh.  The policy is pure: everything   *)
(* here is an operator on a configuration record and on the refresh debt.  *)
(*                                                                         *)
(* Damage is counted in damage tiles.  u32 counters saturate at CountMax.  *)
(***************************************************************************)
EXTENDS Integers

CONSTANT CountMax   \* u32::MAX, the value at which the counters saturate

ASSUME CountMaxAssumption == CountMax \in Nat

NamedProfiles == {"Realtime", "Animate", "Balanced", "Reading", "Quality"}

RefreshProfile == NamedProfiles \cup {"Custom"}

Waveform == {"Fastest", "Fast", "Quality", "FullQuality"}

FrameIntent == {"Latest", "Settled"}

\* TextUi stands for the three classes that share the text waveform.
ContentClass == {"TextUi", "Photo", "Video"}

(* A policy configuration.  damage_tile, which only sets the granularity of *)
(* damage, is abstracted into the tile set of the scheduler.                *)
RefreshPolicyConfig ==
  [profile : RefreshProfile,
   latest_text_waveform : Waveform, latest_photo_waveform : Waveform,
   latest_video_waveform : Waveform, settled_waveform : Waveform,
   partial_refresh_enabled : BOOLEAN, clean_first_frame : BOOLEAN,
   cleanup_after_updates : 0..CountMax,
   large_update_threshold_percent : Nat,
   static_cleanup_after_fast_updates : 0..CountMax]

(* The preset of every profile. *)
for_profile(p) ==
  [profile |-> p,
   latest_text_waveform |->
     CASE p \in {"Realtime", "Animate"} -> "Fastest"
       [] p \in {"Balanced", "Custom"}  -> "Fast"
       [] OTHER                         -> "Quality",
   latest_photo_waveform |-> "Quality",
   latest_video_waveform |->
     CASE p = "Reading" -> "Fast"
       [] p = "Quality" -> "Quality"
       [] OTHER         -> "Fastest",
   settled_waveform |-> "Quality",
   partial_refresh_enabled |-> TRUE,
   clean_first_frame |-> p # "Realtime",
   cleanup_after_updates |-> IF p = "Custom" THEN 90 ELSE 0,
   large_update_threshold_percent |-> 0,
   static_cleanup_after_fast_updates |-> IF p = "Custom" THEN 6 ELSE 0]

(* validate: FullQuality is never configured, only chosen by Decide. *)
ValidConfig(c) ==
  /\ c.large_update_threshold_percent <= 100
  /\ "FullQuality" \notin {c.latest_text_waveform, c.latest_photo_waveform,
                           c.latest_video_waveform, c.settled_waveform}

(* switched_to: a value that still is the old preset's moves to the new     *)
(* preset's, another one is the operator's and stays.                       *)
switched_to(c, p) ==
  LET Kept(field) ==
        IF c[field] # for_profile(c.profile)[field]
          THEN c[field] ELSE for_profile(p)[field]
  IN [for_profile(p) EXCEPT
        !.cleanup_after_updates = Kept("cleanup_after_updates"),
        !.large_update_threshold_percent =
          Kept("large_update_threshold_percent"),
        !.static_cleanup_after_fast_updates =
          Kept("static_cleanup_after_fast_updates"),
        !.partial_refresh_enabled = c.partial_refresh_enabled,
        !.clean_first_frame = c.clean_first_frame]

--------------------------------------------------------------------------------
(* Refresh debt: whether the panel was ever driven, and how many partial    *)
(* submissions it took since the last complete refresh.                     *)
RefreshDebt ==
  {d \in [has_presented : BOOLEAN, since_cleanup : 0..CountMax] :
     d.has_presented \/ d.since_cleanup = 0}

NoDebt == [has_presented |-> FALSE, since_cleanup |-> 0]

\* Mutant: the counter does not stop at its maximum.
saturating_add_Unbounded(n, k) == n + k

saturating_add(n, k) == IF n + k > CountMax THEN CountMax ELSE n + k

(* presented_submissions: debt after a successful submission of n updates. *)
presented_submissions(d, complete, n) ==
  [has_presented |-> TRUE,
   since_cleanup |-> IF complete THEN 0 ELSE saturating_add(d.since_cleanup, n)]

(* The first complete-refresh trigger that applies, in priority order.      *)
RefreshReason(c, d, intent, damage, panel, force) ==
  IF ~c.partial_refresh_enabled THEN "PartialDisabled"
  ELSE IF force THEN "Forced"
  ELSE IF ~d.has_presented /\ c.clean_first_frame THEN "FirstFrame"
  ELSE IF /\ c.cleanup_after_updates > 0
          /\ d.since_cleanup >= c.cleanup_after_updates THEN "Periodic"
  ELSE IF /\ intent = "Settled"
          /\ c.large_update_threshold_percent > 0
          /\ damage * 100 >= panel * c.large_update_threshold_percent
       THEN "LargeDamage"
  ELSE "None"

(* The waveform of an update that stays partial. *)
PartialWaveform(c, intent, class) ==
  IF intent = "Settled" THEN c.settled_waveform
  ELSE CASE class = "Photo" -> c.latest_photo_waveform
         [] class = "Video" -> c.latest_video_waveform
         [] OTHER           -> c.latest_text_waveform

(* decide *)
Decide(c, d, intent, class, damage, panel, force) ==
  LET reason == RefreshReason(c, d, intent, damage, panel, force)
  IN [waveform |->
        IF reason = "None" THEN PartialWaveform(c, intent, class)
        ELSE IF c.profile = "Quality" THEN "FullQuality" ELSE "Quality",
      complete_refresh |-> reason # "None",
      reason |-> reason]
================================================================================
