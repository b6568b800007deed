------------------------------ MODULE Negotiation ------------------------------
(***************************************************************************)
(* The hello exchange: what the receiver accepts, which protocol minor it  *)
(* selects, what it enables (rm-display-receiver/src/session.rs) and what  *)
(* the reference producer makes of the answer (rm-display-cli/src/client.rs). *)
(* Pure operators on the two hello messages.                               *)
(***************************************************************************)
EXTENDS Integers

MAX_MINOR == 3

\* ProtocolFeature, the ones that are optional and gate something.
OptionalFeatures ==
  {"PointerInput", "RemoteOverlay", "LocalInk", "EpaperProfileControl",
   "EpaperCustomProfile", "EpaperRefreshControl", "ByteCredits", "ColorRgb565"}

\* features are the optional ones; mandatory says that the mandatory features,
\* Gray8 and Raw are offered, rgb565 that the format is; well_formed that ids,
\* token, nonce and producer kind are, authentic that the verifier agrees.
ClientHello ==
  [min_minor : Nat, max_minor : Nat, features : SUBSET OptionalFeatures,
   mandatory : BOOLEAN, rgb565 : BOOLEAN, well_formed : BOOLEAN,
   authentic : BOOLEAN]

\* What the device offers: a touch device, a pen, a colour panel.
Hardware == [input_device : BOOLEAN, pen : BOOLEAN, color_rgb565 : BOOLEAN]

validate_hello(h) ==
  /\ h.min_minor <= h.max_minor /\ h.min_minor <= MAX_MINOR
  /\ h.well_formed
  /\ h.mandatory
  /\ h.authentic

Covers(h, minor) == h.min_minor <= minor /\ minor <= h.max_minor

NoMinor == -1

\* Mutant: a producer that also speaks an older minor gets that one.
select_minor_Lowest(h) ==
  IF h.min_minor = 0 THEN 0
  ELSE IF Covers(h, 1) /\ "ByteCredits" \in h.features THEN 1
  ELSE NoMinor

select_minor(h) ==
  IF Covers(h, 3) /\ {"ByteCredits", "EpaperCustomProfile", "RemoteOverlay"}
                       \subseteq h.features THEN 3
  ELSE IF Covers(h, 2) /\ {"ByteCredits", "EpaperCustomProfile"}
                            \subseteq h.features THEN 2
  ELSE IF Covers(h, 1) /\ "ByteCredits" \in h.features THEN 1
  ELSE IF h.min_minor = 0 THEN 0
  ELSE NoMinor

Accepts(h) == validate_hello(h) /\ select_minor(h) # NoMinor

\* What accept_hello enables, given the features offered and the hardware;
\* byte credits come with minor 1.
Enabled(h, device, f) ==
  LET minor == select_minor(h)
  IN CASE f = "ByteCredits" -> minor >= 1
       [] f = "PointerInput" ->
            f \in h.features /\ (device.input_device \/ device.pen)
       [] f = "RemoteOverlay" -> f \in h.features /\ minor >= 3
       [] f = "LocalInk" ->
            /\ {f, "RemoteOverlay"} \subseteq h.features /\ minor >= 3
            /\ device.pen
       [] f = "EpaperCustomProfile" ->
            /\ {f, "EpaperProfileControl"} \subseteq h.features /\ minor >= 2
       [] f = "ColorRgb565" ->
            /\ f \in h.features /\ h.rgb565 /\ device.color_rgb565
            /\ minor >= 1
       [] OTHER -> f \in h.features

\* accept_hello: the features it enables are the ones it echoes.
ServerHello(h, device) ==
  [selected_minor |-> select_minor(h),
   features |-> {f \in OptionalFeatures : Enabled(h, device, f)}]

\* The features a producer may rely on at each minor.
MinorFeatures(minor) ==
  (IF minor >= 1 THEN {"ByteCredits"} ELSE {})
    \cup (IF minor >= 2 THEN {"EpaperCustomProfile"} ELSE {})
    \cup (IF minor >= 3 THEN {"RemoteOverlay"} ELSE {})

\* Of validate_server_hello, the checks a receiver's answer could fail.
validate_server_hello(s) ==
  s.selected_minor <= MAX_MINOR /\ MinorFeatures(s.selected_minor) \subseteq s.features

\* The hello of the reference producer.
ReferenceHello ==
  [min_minor |-> 0, max_minor |-> MAX_MINOR,
   features |-> OptionalFeatures \ {"ColorRgb565"},
   mandatory |-> TRUE, rgb565 |-> FALSE, well_formed |-> TRUE,
   authentic |-> TRUE]
================================================================================
