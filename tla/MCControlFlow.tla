----------------------------- MODULE MCControlFlow -----------------------------
(* Small instances of ControlFlow for TLC. *)
EXTENDS ControlFlow

CommandLine == for_profile("Realtime")

\* Every version range and every set of the features that minors need; and the
\* ways to be refused.
SomeHellos ==
  {[min_minor |-> min, max_minor |-> max,
    features |-> IF "EpaperProfileControl" \in f
                   THEN f \cup {"EpaperRefreshControl", "PointerInput",
                                "LocalInk", "ColorRgb565"}
                   ELSE f,
    mandatory |-> TRUE, rgb565 |-> TRUE, well_formed |-> TRUE,
    authentic |-> TRUE] :
     min \in 0..4, max \in 0..4,
     f \in SUBSET {"ByteCredits", "EpaperCustomProfile", "RemoteOverlay",
                   "EpaperProfileControl"}}
  \cup {[ReferenceHello EXCEPT !.mandatory = FALSE],
        [ReferenceHello EXCEPT !.well_formed = FALSE],
        [ReferenceHello EXCEPT !.authentic = FALSE]}

Tablet == [input_device |-> TRUE, pen |-> TRUE, color_rgb565 |-> FALSE]

Custom ==
  [for_profile("Custom") EXCEPT !.cleanup_after_updates = 1]

ProfileRequest(op, p, c) ==
  [id |-> 0, operation |-> op, profile |-> p, custom |-> c]

SomeProfileRequests ==
  {ProfileRequest("Query", "Unspecified", {}),
   ProfileRequest("Set", "Quality", {}),
   ProfileRequest("Set", "Custom", {Custom}),
   ProfileRequest("Set", "Custom",
     {[Custom EXCEPT !.large_update_threshold_percent = 101]}),
   ProfileRequest("Set", "Quality", {Custom})}

RefreshRequest(op, partial, interval, percent) ==
  [id |-> 0, operation |-> op, partial_refresh_enabled |-> partial,
   cleanup_after_updates |-> interval,
   large_update_threshold_percent |-> percent,
   static_cleanup_after_fast_updates |-> {}]

SomeRefreshRequests ==
  {RefreshRequest("Query", {}, {}, {}),
   RefreshRequest("Update", {}, {1}, {}),
   RefreshRequest("Update", {}, {}, {101}),
   RefreshRequest("Cleanup", {}, {}, {}),
   RefreshRequest("Cleanup", {FALSE}, {}, {})}
================================================================================
