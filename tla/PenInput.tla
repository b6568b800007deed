-------------------------------- MODULE PenInput --------------------------------
(***************************************************************************)
(* The pen: the digitizer state that becomes DOWN, MOVE, UP, HOVER and     *)
(* CANCEL records (evdev.rs), the captured reports, and                    *)
(* pen_reports_inner (session.rs), which forwards records to the producer  *)
(* and rasterises strokes locally, freezing the background at the first    *)
(* DOWN.                                                                   *)
(*                                                                         *)
(* A record names its stroke, the contact from one DOWN to its UP or       *)
(* CANCEL, in place of coordinates; a drawn segment is the pair of strokes *)
(* its end points belong to.  The core is reduced to whether a frame was   *)
(* ever presented on the surface.  The application's hook and the          *)
(* producer's overlay commands are both local_ink controls.                *)
(***************************************************************************)
EXTENDS Integers, Sequences

CONSTANTS
  CAPACITY,            \* reports the capture queue holds
  freeze_on_pen_down,  \* Session.freeze_on_pen_down
  MaxStroke,           \* bound on the strokes of a behaviour
  MaxGeneration        \* bound on the surfaces and connections of a behaviour

ASSUME PenAssumption ==
  /\ CAPACITY \in Nat \ {0} /\ freeze_on_pen_down \in BOOLEAN
  /\ MaxStroke \in Nat /\ MaxGeneration \in Nat

VARIABLES
  tool, tip,          \* BTN_TOOL_* in range and BTN_TOUCH, as last read
  last,               \* EvdevPenDevice.last
  stroke,             \* strokes begun so far
  queue, batch,       \* captured reports; those drained and not yet handled
  pen_available,      \* cleared when the capture thread fails
  failed,             \* the capture thread has ended
  surface,            \* a surface is open
  generation,         \* surfaces and connections so far
  pen_forwarding_enabled,
  physical_pen_in_proximity,  \* Session's view of the pen: holds off idle cleanup
  visible,            \* the local menu is open
  presented,          \* the surface has shown a frame
  local_ink, ink_paused, ink_frozen,
  pen_needs_down, ink_needs_down,
  pen_point,          \* stroke of the last drawn point, 0 for none
  last_pen,           \* a record was accepted that was not CANCEL
  drawn,              \* segments the last step rasterised
  inked,              \* history: strokes whose DOWN was drawn since rearm_ink
  bound,              \* history: strokes whose DOWN met a presented frame
  producer            \* the producer's view of the pen

deviceVars  == <<tool, tip, last, stroke>>
captureVars == <<queue, batch, failed>>
surfaceVars == <<surface, generation, pen_forwarding_enabled, visible, presented,
                 local_ink, ink_paused, pen_available>>
inkVars     == <<ink_frozen, pen_needs_down, ink_needs_down, pen_point, last_pen,
                 inked, bound>>
penVars     == <<deviceVars, captureVars, surfaceVars, inkVars, drawn, producer,
                 physical_pen_in_proximity>>

Tools == {"none", "pen", "eraser"}
NoPen == [eraser |-> FALSE, touching |-> FALSE, seen |-> FALSE]
Record(phase, s) == [phase |-> phase, stroke |-> s]

--------------------------------------------------------------------------------
(* EvdevPenDevice                                                           *)

Cancelled == IF last.seen THEN <<Record("Cancel", stroke)>> ELSE <<>>

Phase(touching, was_touching) ==
  CASE touching /\ ~was_touching -> "Down"
    [] touching /\ was_touching  -> "Move"
    [] ~touching /\ was_touching -> "Up"
    [] OTHER                     -> "Hover"

\* Reports are compared with later instants only: `stale' for the surface,
\* `ink_stale' for the last rearm_ink.
Entry(records) == [records |-> records, stale |-> FALSE, ink_stale |-> FALSE]

\* The reserved entry an overflow or a read error leaves.
Fault == <<>>

Full == Len(queue) = CAPACITY

Capture(records) ==
  IF records = <<>> THEN UNCHANGED <<queue, failed>>
  ELSE IF Full
    THEN queue' = Append(queue, Entry(Fault)) /\ failed' = TRUE
    ELSE queue' = Append(queue, Entry(records)) /\ UNCHANGED failed

Unobserved ==
  drawn' = {} /\ UNCHANGED <<surfaceVars, inkVars, producer, physical_pen_in_proximity>>

\* report: one packet ends with the pen over the panel, or away from it.
PenReport ==
  /\ ~failed
  /\ tool' \in Tools /\ tip' \in BOOLEAN
  /\ IF tool' = "none"
     THEN /\ Capture(Cancelled)
          /\ last' = NoPen /\ UNCHANGED stroke
     ELSE LET eraser  == tool' = "eraser"
              flipped == last.seen /\ last.eraser # eraser
              phase   == IF tip' /\ (flipped \/ ~last.seen) THEN "Down"
                         ELSE Phase(tip', last.touching)
          IN /\ stroke' = IF phase = "Down" THEN stroke + 1 ELSE stroke
             /\ stroke' <= MaxStroke
             /\ last' = [eraser |-> eraser, touching |-> tip', seen |-> TRUE]
             /\ Capture((IF flipped THEN Cancelled ELSE <<>>)
                          \o <<Record(phase, stroke')>>)
  /\ UNCHANGED batch
  /\ Unobserved

\* The kernel lost events: cancel, then read the device's state again.
PenDropped ==
  /\ ~failed
  /\ tool' \in Tools /\ tip' \in BOOLEAN
  /\ last' = NoPen
  /\ Capture(Cancelled)
  /\ UNCHANGED <<stroke, batch>>
  /\ Unobserved

CaptureFails ==
  /\ ~failed /\ failed' = TRUE
  /\ queue' = Append(queue, Entry(Fault))
  /\ UNCHANGED <<deviceVars, batch>>
  /\ Unobserved

Drain ==
  /\ batch = <<>> /\ queue # <<>>
  /\ batch' = queue /\ queue' = <<>>
  /\ UNCHANGED <<deviceVars, failed>>
  /\ Unobserved

--------------------------------------------------------------------------------
(* pen_reports_inner                                                        *)

\* Records are handled in order; a report has at most a CANCEL and one more.
InOrder(Handle(_, _), state, records) ==
  CASE records = <<>>   -> state
    [] Len(records) = 1 -> Handle(state, records[1])
    [] OTHER            -> Handle(Handle(state, records[1]), records[2])

\* The producer's view after a record; "broken" when it cannot follow.
Seen(view, r) ==
  CASE view = "broken" -> "broken"
    [] r.phase = "Cancel" -> "away"
    [] r.phase = "Down"   -> IF view = "down" THEN "broken" ELSE "down"
    [] r.phase = "Move"   -> IF view = "down" THEN "down" ELSE "broken"
    [] r.phase = "Up"     -> IF view = "down" THEN "hover" ELSE "broken"
    [] r.phase = "Hover"  -> IF view = "down" THEN "broken" ELSE "hover"

Emit(records) ==
  producer' = IF pen_forwarding_enabled THEN InOrder(Seen, producer, records)
                                        ELSE producer

NeedsDown(needs, phase) ==
  IF phase = "Down" THEN FALSE
  ELSE IF phase \in {"Up", "Cancel"} THEN TRUE ELSE needs

\* Mutant: MOVE and UP of a contact that began behind the menu pass.
Withheld_Never(needs, phase) == FALSE

Withheld(needs, phase) == needs /\ phase \in {"Move", "Up"}

\* The filter: what is left of a report for the producer and the ink.
Accept(st, r) ==
  IF Withheld(st.needs_down, r.phase) THEN st
  ELSE [needs_down |-> NeedsDown(st.needs_down, r.phase),
        last_pen |-> r.phase # "Cancel", kept |-> Append(st.kept, r)]

Accepted(records) ==
  InOrder(Accept, [needs_down |-> pen_needs_down, last_pen |-> last_pen,
                   kept |-> <<>>], records)

\* Mutant: only a stroke's first point freezes nothing.
Freezes_Never(st, r) == FALSE

\* The first DOWN on a presented frame freezes the background.
Freezes(st, r) ==
  local_ink /\ freeze_on_pen_down /\ r.phase = "Down" /\ ~st.frozen /\ presented

\* One accepted record on the ink plane.
InkStep(st, r) ==
  IF Withheld(st.needs_down, r.phase) THEN st
  ELSE LET draws == local_ink /\ presented /\ r.phase \in {"Down", "Move"}
           from  == IF st.point = 0 THEN r.stroke ELSE st.point
       IN [needs_down |-> NeedsDown(st.needs_down, r.phase),
           frozen     |-> st.frozen \/ Freezes(st, r),
           point      |-> IF draws THEN r.stroke ELSE 0,
           drawn      |-> IF draws THEN st.drawn \cup {<<from, r.stroke>>}
                                   ELSE st.drawn,
           inked      |-> IF r.phase = "Down" THEN st.inked \cup {r.stroke}
                                              ELSE st.inked,
           bound      |-> IF r.phase = "Down" /\ local_ink /\ presented
                            THEN st.bound \cup {r.stroke} ELSE st.bound]

Ink(records) ==
  InOrder(InkStep, [needs_down |-> ink_needs_down, frozen |-> ink_frozen,
                    point |-> pen_point, drawn |-> {}, inked |-> inked,
                    bound |-> bound], records)

\* Records the surface takes: forwarded, then drawn unless held back.
Take(records, paused) ==
  LET a == Accepted(records)
      i == Ink(IF paused THEN <<>> ELSE a.kept)
  IN /\ pen_needs_down' = a.needs_down /\ last_pen' = a.last_pen
     /\ Emit(a.kept)
     /\ ink_needs_down' = i.needs_down /\ ink_frozen' = i.frozen
     /\ pen_point' = i.point /\ drawn' = i.drawn
     /\ inked' = i.inked /\ bound' = i.bound

\* Mutant: the current segment survives.
RearmPoint_Kept == pen_point

RearmPoint == 0

\* rearm_ink; `inked' only records what this promises.
Rearm == pen_point' = RearmPoint /\ ink_needs_down' = TRUE /\ inked' = {}

\* The menu, or nobody, takes the report.
Skip ==
  /\ pen_needs_down' = TRUE /\ Rearm /\ drawn' = {}
  /\ UNCHANGED <<ink_frozen, last_pen, bound, producer>>

Ignored == drawn' = {} /\ UNCHANGED <<inkVars, producer>>

LastOf(records) == records[Len(records)]

Listening == pen_available /\ (pen_forwarding_enabled \/ local_ink) /\ ~visible

pen_reports ==
  /\ batch # <<>> /\ Head(batch).records # Fault
  /\ batch' = Tail(batch)
  /\ LET e == Head(batch)
     IN /\ physical_pen_in_proximity' = (LastOf(e.records).phase # "Cancel")
        /\ \/ (e.stale \/ ~surface) /\ Ignored
           \/ ~e.stale /\ surface /\ ~Listening /\ Skip
           \/ ~e.stale /\ surface /\ Listening
                /\ Take(e.records, ink_paused \/ e.ink_stale)
  /\ UNCHANGED <<deviceVars, queue, failed, surfaceVars>>

\* Mutant: the failed pen stays where it was.
CancelRecords_None == <<>>

\* The last accepted record, as a CANCEL.
CancelRecords == IF last_pen THEN <<Record("Cancel", stroke)>> ELSE <<>>

\* input_capture_failed: the pen is cancelled and gone for the session.  The
\* ink is rearmed by the CANCEL, by the boundary or by the pause before it.
pen_capture_failed ==
  /\ batch # <<>> /\ Head(batch).records = Fault
  /\ batch' = Tail(batch)
  /\ IF surface /\ last_pen /\ ~Head(batch).stale
       THEN /\ pen_needs_down' = TRUE /\ ink_needs_down' = TRUE
            /\ IF Listening THEN last_pen' = FALSE /\ Emit(CancelRecords)
                            ELSE UNCHANGED <<last_pen, producer>>
       ELSE UNCHANGED <<pen_needs_down, ink_needs_down, last_pen, producer>>
  /\ pen_available' = FALSE /\ pen_forwarding_enabled' = FALSE
  /\ physical_pen_in_proximity' = FALSE
  /\ pen_point' = 0 /\ drawn' = {}
  /\ UNCHANGED <<deviceVars, queue, failed, surface, generation, visible, presented,
                 local_ink, ink_paused, ink_frozen, inked, bound>>

--------------------------------------------------------------------------------
(* What interrupts a stroke.                                                *)

\* rearm_ink(now): reports captured before now are not drawn.
InkBoundary ==
  \E old \in 0..Len(queue) :
    queue' = [i \in DOMAIN queue |->
                [queue[i] EXCEPT !.ink_stale = queue[i].ink_stale \/ i <= old]]

\* power_key_pressed: the last pen record is cancelled on either edge.
pen_power_key ==
  /\ batch = <<>>
  /\ visible' = ~visible
  /\ IF ~surface THEN Ignored /\ UNCHANGED queue
     ELSE /\ pen_point' = 0 /\ pen_needs_down' = TRUE /\ last_pen' = FALSE
          /\ drawn' = {}
          /\ IF Listening \/ ~last_pen
             THEN /\ Emit(CancelRecords)
                  /\ ink_needs_down' = (ink_needs_down \/ (last_pen /\ ~ink_paused))
                  /\ UNCHANGED <<inked, queue>>
             ELSE /\ InkBoundary
                  /\ ink_needs_down' = TRUE /\ inked' = {}
                  /\ UNCHANGED producer
          /\ UNCHANGED <<ink_frozen, bound>>
  /\ UNCHANGED <<deviceVars, batch, failed, surface, generation,
                 pen_forwarding_enabled, presented, local_ink, ink_paused,
                 pen_available, physical_pen_in_proximity>>

Control ==
  /\ batch = <<>> /\ surface
  /\ InkBoundary /\ Rearm /\ drawn' = {}
  /\ UNCHANGED <<deviceVars, batch, failed, surface, generation,
                 pen_forwarding_enabled, visible, presented, pen_available,
                 pen_needs_down, last_pen, bound, producer,
                 physical_pen_in_proximity>>

set_local_ink(enabled) ==
  /\ local_ink # enabled /\ (enabled => pen_available)
  /\ local_ink' = enabled
  /\ Control /\ UNCHANGED <<ink_paused, ink_frozen>>

set_ink_paused(paused) ==
  /\ ink_paused # paused /\ ink_paused' = paused
  /\ Control /\ UNCHANGED <<local_ink, ink_frozen>>

set_frame_frozen(frozen) ==
  /\ ink_frozen # frozen /\ (frozen => presented)
  /\ ink_frozen' = frozen
  /\ Control /\ UNCHANGED <<local_ink, ink_paused>>

\* clear_ink, or an overlay command with clear.
clear_ink == Control /\ UNCHANGED <<local_ink, ink_paused, ink_frozen>>

\* OverlayUpdate.local_ink: FALSE also clears and releases the base.
overlay_local_ink(enabled) ==
  /\ local_ink' = enabled
  /\ ink_frozen' = (ink_frozen /\ enabled)
  /\ Control /\ UNCHANGED ink_paused

\* A tap on the menu's close button.
CloseMenu ==
  /\ visible /\ visible' = FALSE
  /\ drawn' = {}
  /\ UNCHANGED <<deviceVars, captureVars, surface, generation,
                 pen_forwarding_enabled, presented, local_ink, ink_paused,
                 pen_available, inkVars, producer, physical_pen_in_proximity>>

Present ==
  /\ batch = <<>> /\ surface /\ ~presented /\ presented' = TRUE
  /\ drawn' = {}
  /\ UNCHANGED <<deviceVars, captureVars, surface, generation,
                 pen_forwarding_enabled, visible, local_ink, ink_paused,
                 pen_available, inkVars, producer, physical_pen_in_proximity>>

\* What a new ActiveSurface starts with, and what is left without one.
NewSurface ==
  /\ visible' = FALSE /\ presented' = FALSE
  /\ local_ink' = FALSE /\ ink_paused' = FALSE /\ ink_frozen' = FALSE
  /\ pen_needs_down' = TRUE /\ ink_needs_down' = TRUE
  /\ pen_point' = 0 /\ last_pen' = FALSE
  /\ inked' = {} /\ bound' = {} /\ drawn' = {} /\ producer' = "away"

\* SurfaceOpen: queued reports captured before it belong to the old surface.
pen_open_surface ==
  /\ batch = <<>> /\ generation < MaxGeneration
  /\ generation' = generation + 1
  /\ surface' = TRUE /\ pen_forwarding_enabled' \in {FALSE, pen_available}
  /\ NewSurface
  /\ \E old \in 0..Len(queue) :
       queue' = [i \in DOMAIN queue |->
                   [queue[i] EXCEPT !.stale = queue[i].stale \/ i <= old]]
  /\ UNCHANGED <<deviceVars, batch, failed, pen_available, physical_pen_in_proximity>>

pen_close_surface ==
  /\ batch = <<>> /\ surface
  /\ surface' = FALSE /\ pen_forwarding_enabled' = FALSE
  /\ NewSurface
  /\ UNCHANGED <<deviceVars, captureVars, generation, pen_available,
                 physical_pen_in_proximity>>

\* The next connection: a new session; the device is drained and cancelled.
PenReconnect ==
  /\ generation < MaxGeneration /\ generation' = generation + 1
  /\ tool' \in Tools /\ tip' \in BOOLEAN /\ last' = NoPen
  /\ queue' = <<>> /\ batch' = <<>> /\ failed' = FALSE
  /\ surface' = FALSE /\ pen_forwarding_enabled' = FALSE
  /\ pen_available' = TRUE /\ physical_pen_in_proximity' = FALSE
  /\ NewSurface
  /\ UNCHANGED stroke

PenInit ==
  /\ tool \in Tools /\ tip \in BOOLEAN /\ last = NoPen /\ stroke = 0
  /\ queue = <<>> /\ batch = <<>> /\ failed = FALSE /\ pen_available = TRUE
  /\ surface = FALSE /\ generation = 0 /\ pen_forwarding_enabled = FALSE
  /\ visible = FALSE /\ presented = FALSE
  /\ local_ink = FALSE /\ ink_paused = FALSE /\ ink_frozen = FALSE
  /\ pen_needs_down = TRUE /\ ink_needs_down = TRUE
  /\ pen_point = 0 /\ last_pen = FALSE
  /\ drawn = {} /\ inked = {} /\ bound = {} /\ producer = "away"
  /\ physical_pen_in_proximity = FALSE

PenNext ==
  \/ PenReport
  \/ PenDropped
  \/ CaptureFails
  \/ Drain
  \/ pen_reports
  \/ pen_capture_failed
  \/ pen_power_key
  \/ \E on \in BOOLEAN :
       \/ set_local_ink(on)
       \/ set_ink_paused(on)
       \/ set_frame_frozen(on)
       \/ overlay_local_ink(on)
  \/ clear_ink
  \/ CloseMenu
  \/ Present
  \/ pen_open_surface
  \/ pen_close_surface
  \/ PenReconnect

PenSpec == PenInit /\ [][PenNext]_penVars

--------------------------------------------------------------------------------
(* Properties.                                                              *)

Underway == batch \o queue

(* The queue holds at most CAPACITY reports and the reserved fault, and the *)
(* pen's fields keep their types (InputCapture, ActiveSurface).             *)
PenTypeOK ==
  /\ tool \in Tools /\ tip \in BOOLEAN /\ stroke \in 0..MaxStroke
  /\ last \in [eraser : BOOLEAN, touching : BOOLEAN, seen : BOOLEAN]
  /\ Len(queue) <= CAPACITY + 1
  /\ \A i \in DOMAIN Underway : Len(Underway[i].records) <= 2
  /\ generation \in 0..MaxGeneration
  /\ producer \in {"away", "hover", "down", "broken"}
  /\ pen_point \in 0..stroke

(* A subscribed producer sees the pen as DOWN, MOVEs, one UP or CANCEL, and *)
(* HOVERs outside a contact, whatever the menu, a flipped eraser, a dropped *)
(* event, the surface or the capture thread does (pen_reports_inner).       *)
PenStream == producer # "broken"

(* When the pen has left, or the device has failed, and its reports are     *)
(* handled, the producer holds no pen and physical_pen_in_proximity, which  *)
(* holds off idle cleanup, is off (input_capture_failed, cancel).           *)
PenLeaves ==
  (tool = "none" \/ failed) /\ Underway = <<>> =>
    producer = "away" /\ ~physical_pen_in_proximity

(* Local ink is only drawn inside one contact whose DOWN came after the     *)
(* last control that re-armed the ink: no segment joins two contacts and    *)
(* none continues a contact the pause, freeze, clear or menu interrupted    *)
(* ("Resuming requires a fresh DOWN", set_ink_paused).                      *)
InkFollowsDown == \A seg \in drawn : seg[1] = seg[2] /\ seg[2] \in inked

(* With freeze_on_pen_down a contact that began on a presented frame is     *)
(* drawn on a frozen base to its end, although the base may be released and *)
(* frozen again around it (pen_reports_inner, set_frame_frozen).            *)
FreezeHolds ==
  freeze_on_pen_down => \A seg \in drawn : seg[2] \in bound => ink_frozen
================================================================================
