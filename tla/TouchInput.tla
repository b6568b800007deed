------------------------------- MODULE TouchInput -------------------------------
(***************************************************************************)
(* From a finger on the panel to the producer: the Type-B parser           *)
(* (evdev.rs), the bounded queue between the capture thread and the        *)
(* connection loop (input_capture.rs), the cleanup chord and the local     *)
(* menu that consume contacts, and the InputBatch stream (session.rs).     *)
(*                                                                         *)
(* Coordinates are left out except for whether a contact has any.  One     *)
(* kernel packet, from its first event to SYN_REPORT, is one step, and so  *)
(* is its way into the queue: nothing reads the parser or the thread's     *)
(* ordering buffer in between.                                             *)
(***************************************************************************)
EXTENDS Integers, Sequences, FiniteSets

CONSTANTS
  Slots,          \* multitouch slots of the device (MAX_SLOTS)
  ChordSize,      \* contacts of the cleanup chord (5)
  CAPACITY,       \* reports the queue holds
  Packets,        \* kinds of packets the kernel delivers, a subset of AllPackets
  MaxContactId,   \* bound on the contacts of a behaviour
  MaxGeneration   \* bound on the surfaces of a behaviour

(* What a packet can say about a slot.  The kernel leaves out an axis that  *)
(* has the value it last had in that slot, so a new contact may arrive      *)
(* without its position; and a slot may pass from one contact to the next   *)
(* without -1 in between.                                                   *)
AllPackets == {"down", "down_partial", "move", "up", "replace"}

ASSUME TouchAssumption ==
  /\ IsFiniteSet(Slots)
  /\ ChordSize \in Nat \ {0} /\ CAPACITY \in Nat \ {0}
  /\ Packets \subseteq AllPackets
  /\ MaxContactId \in Nat /\ MaxGeneration \in Nat

VARIABLES
  touching,         \* slots with a finger on the panel, as the kernel knows
  slots,            \* TypeBParser.slots
  next_contact_id,
  queue,            \* InputCapture.queue
  batch,            \* reports drained and not yet handled
  failed,           \* the capture thread has given up; so has the device
  generation,       \* of the open surface, 0 while there is none
  touch_forwarding_enabled,
  visible,          \* the local menu is open
  active, forwarded, suppress_until_clear,  \* FiveFingerCleanupGesture
  sent,             \* records of the InputBatch the last step wrote
  producer,         \* contacts that are down for the producer on this surface
  cleanups          \* history: cleanups since the contacts were last all up

kernelVars  == <<touching, slots, next_contact_id>>
captureVars == <<queue, batch, failed>>
surfaceVars == <<generation, touch_forwarding_enabled, visible>>
gestureVars == <<active, forwarded, suppress_until_clear>>
outputVars  == <<sent, producer, cleanups>>
touchVars   == <<kernelVars, captureVars, surfaceVars, gestureVars, outputVars>>

NoContact == [contact_id |-> 0, located |-> FALSE]
Record(phase, contact_id) == [phase |-> phase, contact_id |-> contact_id]
Fault == {}

Ids(records) == {r.contact_id : r \in records}
Pressed(records)  == Ids({r \in records : r.phase \in {"Down", "Move"}})
Released(records) == Ids({r \in records : r.phase \in {"Up", "Cancel"}})

--------------------------------------------------------------------------------
(* TypeBParser                                                              *)

\* Slots in which a packet starts a contact.
Started(packet) ==
  {s \in DOMAIN packet : packet[s] \in {"down", "down_partial", "replace"}}

\* A slot after the events of a packet, id the contact id allocated for it.
SlotAfter(slot, change, id) ==
  CASE change \in {"down", "replace"} -> [contact_id |-> id, located |-> TRUE]
    [] change = "down_partial" -> [contact_id |-> id, located |-> FALSE]
    [] change = "move" -> [slot EXCEPT !.located = slot # NoContact]
    [] change = "up" -> NoContact

\* The record finish_report makes of a slot; "None" for none.
PhaseOf(slot, change) ==
  CASE change \in {"down", "replace"} -> "Down"
    [] change = "move" /\ slot # NoContact ->
         IF slot.located THEN "Move" ELSE "Down"
    [] change = "up" /\ slot.located -> "Up"
    [] OTHER -> "None"

\* A packet the kernel can deliver next.
Deliverable(packet) ==
  \A s \in DOMAIN packet :
    (s \in touching) <=> packet[s] \in {"move", "up", "replace"}

TouchingAfter(packet) ==
  (touching \cup Started(packet)) \ {s \in DOMAIN packet : packet[s] = "up"}

Entry(report) == [report |-> report, stale |-> FALSE]

\* InputCapture::push: the report, or a fault in the reserved entry.
Push(report) ==
  IF Len(queue) = CAPACITY
    THEN failed' = TRUE /\ queue' = Append(queue, Entry(Fault))
    ELSE queue' = Append(queue, Entry(report)) /\ UNCHANGED failed

\* A packet without records is not a report.
Capture(report) ==
  IF report = {} THEN UNCHANGED <<queue, failed>> ELSE Push(report)

Quiet == sent' = {} /\ UNCHANGED <<surfaceVars, gestureVars, producer, cleanups>>

SYN_REPORT ==
  \E changed \in SUBSET Slots \ {{}} :
  \E packet \in [changed -> Packets] :
    LET count == Cardinality(Started(packet))
        ids   == next_contact_id..next_contact_id + count - 1
    IN /\ ~failed /\ Deliverable(packet)
       /\ next_contact_id + count - 1 <= MaxContactId
       /\ touching' = TouchingAfter(packet)
       /\ next_contact_id' = next_contact_id + count
       /\ \E id \in [Started(packet) -> ids] :
            LET IdOf(s) == IF s \in Started(packet) THEN id[s]
                                                    ELSE slots[s].contact_id
            IN /\ \A s, t \in Started(packet) : id[s] = id[t] => s = t
               /\ slots' = [s \in Slots |->
                    IF s \in changed THEN SlotAfter(slots[s], packet[s], IdOf(s))
                                     ELSE slots[s]]
               /\ Capture({Record(PhaseOf(slots[s], packet[s]), IdOf(s)) :
                    s \in {t \in changed : PhaseOf(slots[t], packet[t]) # "None"}})
       /\ UNCHANGED batch
       /\ Quiet

\* The contacts the producer or the gesture may know are cancelled.
DroppedReport ==
  {Record("Cancel", slots[s].contact_id) : s \in {t \in Slots : slots[t].located}}

\* The kernel lost events: whatever the fingers did meanwhile, all slots reset.
SYN_DROPPED ==
  /\ ~failed
  /\ touching' \in SUBSET Slots
  /\ slots' = [s \in Slots |-> NoContact]
  /\ Capture(DroppedReport)
  /\ UNCHANGED <<next_contact_id, batch>>
  /\ Quiet

\* A read error, an unplugged device or a full ordering buffer ends the thread.
CaptureFails ==
  /\ ~failed /\ failed' = TRUE
  /\ queue' = Append(queue, Entry(Fault))
  /\ UNCHANGED <<kernelVars, batch>>
  /\ Quiet

--------------------------------------------------------------------------------
(* FiveFingerCleanupGesture, as operators on its fields.                    *)

\* active after a report.
ActiveAfter(report) == (active \cup Pressed(report)) \ Released(report)

Outcome(fwd, suppress, forward, cancel, cleanup) ==
  [forwarded |-> fwd, suppress |-> suppress, forward |-> forward,
   cancel |-> cancel, cleanup |-> cleanup]

CancelAll(contacts) == {Record("Cancel", c) : c \in contacts}

StaysSuppressed(report) == ActiveAfter(report) # {}

\* Mutant: the chord is recognised before the suppression.
process_ChordFirst(report, forward_enabled, cleanup_enabled) ==
  IF Cardinality(ActiveAfter(report)) >= ChordSize
    THEN Outcome({}, TRUE, {}, CancelAll(forwarded), cleanup_enabled)
  ELSE IF suppress_until_clear
    THEN LET stays == StaysSuppressed(report)
         IN Outcome(IF stays THEN forwarded ELSE {}, stays, {}, {}, FALSE)
  ELSE IF ~forward_enabled
    THEN Outcome(forwarded, FALSE, {}, {}, FALSE)
  ELSE Outcome((forwarded \cup Pressed(report)) \ Released(report), FALSE, report,
               {}, FALSE)

process(report, forward_enabled, cleanup_enabled) ==
  IF suppress_until_clear
    THEN LET stays == StaysSuppressed(report)
         IN Outcome(IF stays THEN forwarded ELSE {}, stays, {}, {}, FALSE)
  ELSE IF Cardinality(ActiveAfter(report)) >= ChordSize
    THEN Outcome({}, TRUE, {}, CancelAll(forwarded), cleanup_enabled)
  ELSE IF ~forward_enabled
    THEN Outcome(forwarded, FALSE, {}, {}, FALSE)
  ELSE Outcome((forwarded \cup Pressed(report)) \ Released(report), FALSE, report,
               {}, FALSE)

\* Mutant: contacts still down are not held back on the next surface.
Suppressed_Not(suppress, contacts) == suppress

\* surface_transition: contacts still down are held back until all are up.
Suppressed(suppress, contacts) == suppress \/ contacts # {}

--------------------------------------------------------------------------------
(* The session.                                                             *)

\* What the producer makes of the records of a batch.
Emit(records) ==
  LET out == IF generation # 0 THEN records ELSE {}
  IN /\ sent' = out
     /\ producer' = (producer \cup Pressed(out)) \ Released(out)

\* Cleanups of the gesture in progress.
Count(cleanup) ==
  cleanups' = IF active' = {} THEN 0 ELSE cleanups + (IF cleanup THEN 1 ELSE 0)

Process(o, report) ==
  /\ active' = ActiveAfter(report)
  /\ forwarded' = o.forwarded
  /\ suppress_until_clear' = o.suppress
  /\ Count(o.cleanup)

\* process, then surface_transition: what was forwarded is cancelled.
ProcessAndDetach(o, report) ==
  /\ active' = ActiveAfter(report)
  /\ forwarded' = {}
  /\ suppress_until_clear' = Suppressed(o.suppress, active')
  /\ Count(o.cleanup)

\* A report older than the surface.
StaleReport(report) ==
  LET o == process(report, FALSE, FALSE)
  IN /\ ProcessAndDetach(o, report)
     /\ Emit(o.cancel \cup CancelAll(o.forwarded))
     /\ UNCHANGED surfaceVars

\* The menu eats the report; a release in it is a tap on a button, which may
\* close the menu.  NEW PAIR and CLOSE APP end the session: see Reconnect.
MenuReport(report) ==
  LET o == process(report, FALSE, FALSE)
  IN /\ Emit({})
     /\ \/ /\ \E r \in report : r.phase = "Up"
           /\ ProcessAndDetach(o, report)
           /\ visible' \in BOOLEAN
        \/ /\ \A r \in report : r.phase # "Up"
           /\ Process(o, report)
           /\ UNCHANGED visible
     /\ UNCHANGED <<generation, touch_forwarding_enabled>>

GestureReport(report) ==
  LET o == process(report, generation # 0 /\ touch_forwarding_enabled,
                   generation # 0)
  IN /\ Process(o, report)
     /\ Emit(o.cancel \cup o.forward)
     /\ UNCHANGED surfaceVars

\* Mutant: the gesture keeps the contacts of a dead device.
AfterFault_Kept == active

AfterFault == {}

\* input_capture_failed
FaultReport ==
  /\ active' = AfterFault /\ forwarded' = {} /\ suppress_until_clear' = FALSE
  /\ Emit(CancelAll(forwarded))
  /\ Count(FALSE)
  /\ UNCHANGED surfaceVars

\* The connection loop takes the whole queue and handles it before anything else.
Drain ==
  /\ batch = <<>> /\ queue # <<>>
  /\ batch' = queue /\ queue' = <<>>
  /\ UNCHANGED <<kernelVars, failed>>
  /\ Quiet

input_reports ==
  /\ batch # <<>>
  /\ batch' = Tail(batch)
  /\ LET report == Head(batch).report
     IN \/ report = Fault /\ FaultReport
        \/ report # Fault /\ Head(batch).stale /\ StaleReport(report)
        \/ report # Fault /\ ~Head(batch).stale /\ visible /\ MenuReport(report)
        \/ report # Fault /\ ~Head(batch).stale /\ ~visible
             /\ GestureReport(report)
  /\ UNCHANGED <<kernelVars, queue, failed>>

MenuCancels == CancelAll(forwarded)

power_key_pressed ==
  /\ batch = <<>>
  /\ visible' = ~visible
  /\ forwarded' = {}
  /\ suppress_until_clear' = Suppressed(suppress_until_clear, active)
  /\ Emit(MenuCancels)
  /\ UNCHANGED <<kernelVars, captureVars, generation, touch_forwarding_enabled,
                 active, cleanups>>

\* The old surface and its contacts are gone for the producer.
Detach ==
  /\ forwarded' = {}
  /\ suppress_until_clear' = Suppressed(suppress_until_clear, active)
  /\ visible' = FALSE
  /\ sent' = {} /\ producer' = {}
  /\ UNCHANGED <<active, cleanups>>

\* SurfaceOpen: input_not_before divides the reports already queued.
open_surface ==
  /\ batch = <<>> /\ generation < MaxGeneration
  /\ generation' = generation + 1
  /\ touch_forwarding_enabled' \in BOOLEAN
  /\ Detach
  /\ \E old \in 0..Len(queue) :
       queue' = [i \in DOMAIN queue |->
                   [queue[i] EXCEPT !.stale = queue[i].stale \/ i <= old]]
  /\ UNCHANGED <<kernelVars, batch, failed>>

close_surface ==
  /\ batch = <<>> /\ generation # 0
  /\ generation' = 0 /\ touch_forwarding_enabled' = FALSE
  /\ Detach
  /\ UNCHANGED <<kernelVars, captureVars>>

NewSession ==
  /\ generation' = 0 /\ touch_forwarding_enabled' = FALSE /\ visible' = FALSE
  /\ active' = {} /\ forwarded' = {} /\ suppress_until_clear' = FALSE
  /\ sent' = {} /\ producer' = {} /\ cleanups' = 0

\* Another connection: a new session, and a capture thread that starts by
\* forgetting the contacts.  A failed device stays closed.
Reconnect ==
  /\ NewSession
  /\ queue' = <<>> /\ batch' = <<>>
  /\ slots' = [s \in Slots |-> NoContact]
  /\ UNCHANGED <<touching, next_contact_id, failed>>

TouchInit ==
  /\ touching = {} /\ slots = [s \in Slots |-> NoContact]
  /\ next_contact_id = 1
  /\ queue = <<>> /\ batch = <<>> /\ failed = FALSE
  /\ generation = 0 /\ touch_forwarding_enabled = FALSE /\ visible = FALSE
  /\ active = {} /\ forwarded = {} /\ suppress_until_clear = FALSE
  /\ sent = {} /\ producer = {} /\ cleanups = 0

TouchNext ==
  \/ SYN_REPORT
  \/ SYN_DROPPED
  \/ CaptureFails
  \/ Drain
  \/ input_reports
  \/ power_key_pressed
  \/ open_surface
  \/ close_surface
  \/ Reconnect

TouchSpec == TouchInit /\ [][TouchNext]_touchVars

--------------------------------------------------------------------------------
(* Properties.                                                              *)

Phase  == {"Down", "Move", "Up", "Cancel"}
Report == SUBSET [phase : Phase, contact_id : 1..MaxContactId]

(* Contact ids and generations stay in range and the queue never holds more *)
(* than CAPACITY reports and the reserved fault (TypeBParser, InputCapture, *)
(* FiveFingerCleanupGesture).                                               *)
TouchTypeOK ==
  /\ touching \subseteq Slots
  /\ slots \in [Slots -> [contact_id : 0..MaxContactId, located : BOOLEAN]]
  /\ next_contact_id \in 1..MaxContactId + 1
  /\ Len(queue) <= CAPACITY + 1
  /\ \A i \in DOMAIN queue : queue[i] \in [report : Report, stale : BOOLEAN]
  /\ \A i \in DOMAIN batch : batch[i] \in [report : Report, stale : BOOLEAN]
  /\ failed \in BOOLEAN /\ visible \in BOOLEAN
  /\ generation \in 0..MaxGeneration /\ touch_forwarding_enabled \in BOOLEAN
  /\ active \subseteq 1..MaxContactId /\ forwarded \subseteq 1..MaxContactId
  /\ suppress_until_clear \in BOOLEAN
  /\ sent \in Report /\ producer \subseteq 1..MaxContactId
  /\ cleanups \in Nat

\* Reports on their way to the gesture.
Underway == batch \o queue

(* When the last finger has left and its reports are handled, or the device *)
(* has failed and the fault is handled, no contact stays down for the       *)
(* producer, in the gesture (it would block idle cleanup for ever) or in    *)
(* the suppression of later touches.                                        *)
QuietMeansReleased ==
  (touching = {} \/ failed) /\ Underway = <<>> =>
    producer = {} /\ active = {} /\ ~suppress_until_clear

(* On one surface the producer sees DOWN, then MOVEs, then one UP or CANCEL *)
(* for a contact, and nothing of a contact that was already down before the *)
(* surface, the menu or a chord took it over (pointer_batch).               *)
PointerStream ==
  [][\A r \in sent' : (r.phase = "Down") <=> (r.contact_id \notin producer)]_touchVars

(* A chord asks for one cleanup until all contacts are up, and from then on *)
(* the producer holds no contact of it, although the surface may be         *)
(* replaced or the menu opened in the middle (suppress_until_clear).        *)
ChordCleansOnce == cleanups <= 1 /\ (cleanups = 1 => producer = {})

================================================================================
