---------------------------- MODULE TouchInputProofs ----------------------------
(***************************************************************************)
(* Proofs about TouchInput, for every number of slots, chord size, queue   *)
(* capacity and bound on contacts and surfaces.                            *)
(*                                                                         *)
(* A report is judged twice: when the parser makes it from its slots, and  *)
(* when the gesture handles it, several other steps later.  The invariant  *)
(* joins the two by a view: which contacts are down after each report on   *)
(* its way.  It starts with the contacts the gesture knows and ends with   *)
(* those the parser has located, and each report fits the view before it.  *)
(***************************************************************************)
EXTENDS TouchInput, FiniteSetTheorems, SequenceTheorems, TLAPS

--------------------------------------------------------------------------------
(* The inductive invariant.                                                 *)

Known   == 1..next_contact_id - 1
SlotSet == [contact_id : 0..MaxContactId, located : BOOLEAN]
Entries == [report : Report, stale : BOOLEAN]

KernelTypes ==
  /\ touching \subseteq Slots /\ slots \in [Slots -> SlotSet]
  /\ next_contact_id \in 1..MaxContactId + 1

QueueTypes ==
  /\ queue \in Seq(Entries) /\ batch \in Seq(Entries) /\ failed \in BOOLEAN
  /\ Len(queue) <= CAPACITY + 1 /\ (~failed => Len(queue) <= CAPACITY)

SurfaceTypes ==
  /\ generation \in 0..MaxGeneration
  /\ touch_forwarding_enabled \in BOOLEAN /\ visible \in BOOLEAN

GestureTypes ==
  /\ active \subseteq 1..MaxContactId /\ forwarded \subseteq 1..MaxContactId
  /\ suppress_until_clear \in BOOLEAN
  /\ sent \in Report /\ producer \subseteq 1..MaxContactId

Types == KernelTypes /\ QueueTypes /\ SurfaceTypes /\ GestureTypes

\* The reports on their way to the gesture, in order.
Size == Len(batch) + Len(queue)
Reports ==
  [k \in 1..Size |-> IF k <= Len(batch) THEN batch[k].report
                                        ELSE queue[k - Len(batch)].report]

\* Contacts that are down after a report.
Through(held, report) == (held \cup Pressed(report)) \ Released(report)

\* A report says one thing of a contact: DOWN if it was up, else the rest.
Fits(report, held) ==
  /\ \A r \in report : (r.phase = "Down") <=> (r.contact_id \notin held)
  /\ \A r, q \in report : r.contact_id = q.contact_id => r = q

\* A view of n reports: it starts with the contacts held and follows each one.
Joins(view, n, reports, held, known) ==
  /\ view \in [0..n -> SUBSET known]
  /\ view[0] = held
  /\ \A k \in 1..n : /\ view[k] = Through(view[k - 1], reports[k])
                     /\ Fits(reports[k], view[k - 1])

\* A contact id belongs to one slot, and to a finger on the panel.
SlotsOK ==
  /\ \A s \in Slots : slots[s] # NoContact =>
       s \in touching /\ slots[s].contact_id \in Known
  /\ \A s, t \in Slots :
       slots[s] # NoContact /\ slots[s].contact_id = slots[t].contact_id => s = t

\* Of the slots' contacts those are held that are located; and while slots
\* are released before they are reused, no others.
Matches(held) ==
  /\ \A s \in Slots : slots[s].contact_id \in held <=> slots[s].located
  /\ "replace" \notin Packets =>
       \A c \in held : \E s \in Slots : slots[s].located /\ slots[s].contact_id = c

\* The reports on their way lead to the contacts of the slots ...
Arrives(view) == failed \/ Matches(view[Size])

\* ... from those of the gesture.
ViewOK ==
  \E view \in [0..Size -> SUBSET Known] :
    Joins(view, Size, Reports, active, Known) /\ Arrives(view)

\* A fault is the last report of a failed device.
FaultOK ==
  /\ \A k \in 1..Size : Reports[k] = Fault => k = Size /\ failed
  /\ failed => IF Size = 0 THEN active = {} ELSE Reports[Size] = Fault

\* The gesture forwards all contacts that are down, or none.
Forwarding ==
  generation # 0 /\ touch_forwarding_enabled /\ ~visible /\ ~suppress_until_clear

GestureOK ==
  /\ producer = forwarded
  /\ forwarded = IF Forwarding THEN active ELSE {}
  /\ suppress_until_clear => active # {}
  /\ cleanups \in {0, 1} /\ (cleanups = 1 => suppress_until_clear)

TouchInv == Types /\ SlotsOK /\ ViewOK /\ FaultOK /\ GestureOK

--------------------------------------------------------------------------------
(* Views.                                                                   *)

\* A report without records changes nothing.
LEMMA NothingSaid ==
  ASSUME NEW held
  PROVE  Through(held, {}) = held /\ Fits({}, held)
BY DEF Through, Fits, Pressed, Released, Ids

\* A view follows the reports that do not change.
LEMMA JoinsSame ==
  ASSUME NEW view, NEW n \in Nat, NEW reports, NEW more, NEW held, NEW known,
         NEW wider, Joins(view, n, reports, held, known), known \subseteq wider,
         \A k \in 1..n : more[k] = reports[k]
  PROVE  Joins(view, n, more, held, wider)
BY DEF Joins

\* The view of no report.
LEMMA JoinsNone ==
  ASSUME NEW reports, NEW held, NEW known, held \subseteq known
  PROVE  \E view \in [0..0 -> SUBSET known] : /\ Joins(view, 0, reports, held, known)
                                              /\ view[0] = held
<1> DEFINE view == [k \in 0..0 |-> held]
<1>1. view \in [0..0 -> SUBSET known] /\ view[0] = held
  OBVIOUS
<1>2. Joins(view, 0, reports, held, known)
  BY <1>1 DEF Joins
<1> QED BY <1>1, <1>2

\* A view with a report more at the end, and one less at the start.
Longer(view, n, report) ==
  [k \in 0..n + 1 |-> IF k <= n THEN view[k] ELSE Through(view[n], report)]
Shorter(view, n) == [k \in 0..n - 1 |-> view[k + 1]]

\* A report more at the end.
LEMMA JoinsPush ==
  ASSUME NEW view, NEW n \in Nat, NEW reports, NEW more, NEW held, NEW known,
         NEW wider, Joins(view, n, reports, held, known), known \subseteq wider,
         \A k \in 1..n : more[k] = reports[k],
         Fits(more[n + 1], view[n]), Through(view[n], more[n + 1]) \subseteq wider
  PROVE  /\ Joins(Longer(view, n, more[n + 1]), n + 1, more, held, wider)
         /\ Longer(view, n, more[n + 1])[n + 1] = Through(view[n], more[n + 1])
<1> DEFINE longer == Longer(view, n, more[n + 1])
<1> USE DEF Longer
<1>1. longer \in [0..n + 1 -> SUBSET wider]
  BY DEF Joins
<1>2. longer[0] = held /\ longer[n + 1] = Through(view[n], more[n + 1])
  BY DEF Joins
<1>3. ASSUME NEW k \in 1..n + 1
      PROVE  /\ longer[k] = Through(longer[k - 1], more[k])
             /\ Fits(more[k], longer[k - 1])
  <2>1. longer[k - 1] = view[k - 1]
    OBVIOUS
  <2>2. CASE k = n + 1
    BY <2>1, <2>2, <1>2
  <2>3. CASE k # n + 1
    <3>1. k \in 1..n /\ longer[k] = view[k]
      BY <2>3
    <3> QED BY <2>1, <3>1 DEF Joins
  <2> QED BY <2>2, <2>3
<1>4. Joins(longer, n + 1, more, held, wider)
  BY <1>1, <1>2, <1>3 DEF Joins
<1> QED BY <1>1, <1>2, <1>4

\* A report less at the start.
LEMMA JoinsPop ==
  ASSUME NEW view, NEW n \in Nat, n # 0, NEW reports, NEW fewer, NEW held,
         NEW known, Joins(view, n, reports, held, known),
         \A k \in 1..n - 1 : fewer[k] = reports[k + 1]
  PROVE  /\ Joins(Shorter(view, n), n - 1, fewer, Through(held, reports[1]), known)
         /\ Shorter(view, n)[n - 1] = view[n]
<1> DEFINE shorter == Shorter(view, n)
<1> USE DEF Shorter
<1>1. shorter \in [0..n - 1 -> SUBSET known] /\ shorter[n - 1] = view[n]
  BY DEF Joins
<1>2. shorter[0] = Through(held, reports[1])
  <2>1. shorter[0] = view[1]
    OBVIOUS
  <2>2. view[1] = Through(view[1 - 1], reports[1]) /\ view[0] = held
    BY DEF Joins
  <2> QED BY <2>1, <2>2
<1>3. ASSUME NEW k \in 1..n - 1
      PROVE  /\ shorter[k] = Through(shorter[k - 1], fewer[k])
             /\ Fits(fewer[k], shorter[k - 1])
  <2>1. PICK j : j = k + 1
    OBVIOUS
  <2>2. j \in 1..n /\ j - 1 = k
    BY <2>1
  <2>3. view[j] = Through(view[j - 1], reports[j]) /\ Fits(reports[j], view[j - 1])
    BY <2>2 DEF Joins
  <2>4. shorter[k] = view[j] /\ shorter[k - 1] = view[k] /\ fewer[k] = reports[j]
    BY <2>1
  <2> QED BY <2>2, <2>3, <2>4
<1>4. Joins(shorter, n - 1, fewer, Through(held, reports[1]), known)
  BY <1>1, <1>2, <1>3 DEF Joins
<1> QED BY <1>1, <1>4

--------------------------------------------------------------------------------
(* One packet.                                                              *)

\* What SYN_REPORT makes of a slot: its contact, its next state, its phase.
IdIn(packet, id, s) ==
  IF s \in Started(packet) THEN id[s] ELSE slots[s].contact_id
SlotIn(packet, id, s) ==
  IF s \in DOMAIN packet THEN SlotAfter(slots[s], packet[s], IdIn(packet, id, s))
                         ELSE slots[s]
PhaseIn(packet, s) == PhaseOf(slots[s], packet[s])
Said(packet) == {t \in DOMAIN packet : PhaseIn(packet, t) # "None"}
ReportOf(packet, id) ==
  {Record(PhaseIn(packet, s), IdIn(packet, id, s)) : s \in Said(packet)}

\* A packet that the kernel delivers and the contact ids it takes.
Packet(packet, id, next) ==
  /\ DOMAIN packet \subseteq Slots
  /\ \A s \in DOMAIN packet : packet[s] \in Packets
  /\ Deliverable(packet)
  /\ next \in next_contact_id..MaxContactId + 1
  /\ \A s \in Started(packet) : id[s] \in next_contact_id..next - 1
  /\ \A s, t \in Started(packet) : id[s] = id[t] => s = t

\* What can happen to a slot.
Starts(packet, id, s) ==
  LET after == SlotIn(packet, id, s)
  IN /\ s \in Started(packet)
     /\ after # NoContact /\ after.contact_id = id[s]
     /\ PhaseIn(packet, s) = IF after.located THEN "Down" ELSE "None"

Continues(packet, id, s) ==
  LET after == SlotIn(packet, id, s)
  IN /\ s \in DOMAIN packet \ Started(packet) /\ packet[s] = "move"
     /\ slots[s] # NoContact
     /\ after # NoContact /\ after.contact_id = slots[s].contact_id /\ after.located
     /\ PhaseIn(packet, s) = IF slots[s].located THEN "Move" ELSE "Down"

Leaves(packet, id, s) ==
  /\ s \in DOMAIN packet \ Started(packet)
  /\ SlotIn(packet, id, s) = NoContact
  /\ PhaseIn(packet, s) = "Up" /\ slots[s].located

Vanishes(packet, id, s) ==
  /\ s \in DOMAIN packet \ Started(packet)
  /\ SlotIn(packet, id, s) = NoContact
  /\ PhaseIn(packet, s) = "None" /\ ~slots[s].located

Rests(packet, id, s) == s \notin DOMAIN packet /\ SlotIn(packet, id, s) = slots[s]

LEMMA Slot ==
  ASSUME TouchAssumption, KernelTypes, SlotsOK,
         NEW packet, NEW id, NEW next, Packet(packet, id, next), NEW s \in Slots
  PROVE  /\ \/ Starts(packet, id, s)   \/ Continues(packet, id, s)
            \/ Leaves(packet, id, s)   \/ Vanishes(packet, id, s)
            \/ Rests(packet, id, s)
         /\ SlotIn(packet, id, s) # NoContact => s \in TouchingAfter(packet)
         /\ SlotIn(packet, id, s) \in SlotSet
         /\ s \in Started(packet) => id[s] \in Nat \ {0} /\ id[s] >= next_contact_id
                                      /\ id[s] \in 0..MaxContactId
<1>1. slots[s] \in SlotSet /\ next_contact_id \in Nat \ {0} /\ MaxContactId \in Nat
  BY DEF KernelTypes, TouchAssumption
<1>2. s \in Started(packet) => id[s] \in Nat \ {0} /\ id[s] >= next_contact_id
                                 /\ id[s] \in 0..MaxContactId
  BY <1>1 DEF Packet
<1>3. slots[s] # NoContact => s \in touching
  BY DEF SlotsOK
<1>4. NoContact \in SlotSet
  BY <1>1 DEF NoContact, SlotSet
<1>5. CASE s \notin DOMAIN packet
  BY <1>5, <1>1, <1>2, <1>3 DEF Rests, SlotIn, TouchingAfter, Started
<1>6. CASE s \in DOMAIN packet
  <2>1. packet[s] \in AllPackets
    BY <1>6 DEF Packet, TouchAssumption
  <2>2. (s \in touching) <=> packet[s] \in {"move", "up", "replace"}
    BY <1>6 DEF Packet, Deliverable
  <2> DEFINE after == SlotIn(packet, id, s)
             slot == slots[s]
  <2>3. CASE packet[s] \in {"down", "down_partial", "replace"}
    <3>1. s \in Started(packet) /\ IdIn(packet, id, s) = id[s]
      BY <1>6, <2>3 DEF Started, IdIn
    <3>2. after = [contact_id |-> id[s], located |-> packet[s] # "down_partial"]
      BY <1>6, <2>3, <3>1 DEF SlotIn, SlotAfter
    <3>3. PhaseIn(packet, s) = IF packet[s] # "down_partial" THEN "Down" ELSE "None"
      BY <2>3 DEF PhaseIn, PhaseOf
    <3>4. after # NoContact /\ after \in SlotSet
      BY <3>2, <3>1, <1>2 DEF NoContact, SlotSet
    <3>5. after.contact_id = id[s] /\ after.located = (packet[s] # "down_partial")
      BY <3>2
    <3>6. Starts(packet, id, s)
      BY <3>1, <3>3, <3>4, <3>5 DEF Starts
    <3>7. s \in TouchingAfter(packet)
      BY <3>1, <2>3 DEF TouchingAfter
    <3> QED BY <3>4, <3>6, <3>7, <1>2
  <2>4. CASE packet[s] = "move"
    <3>1. s \notin Started(packet) /\ IdIn(packet, id, s) = slot.contact_id
      BY <2>4 DEF Started, IdIn
    <3>2. after = [slot EXCEPT !.located = slot # NoContact]
      BY <1>6, <2>4 DEF SlotIn, SlotAfter
    <3>3. after \in SlotSet /\ after.contact_id = slot.contact_id
          /\ after.located = (slot # NoContact)
      BY <3>2, <1>1 DEF SlotSet
    <3>4. s \in TouchingAfter(packet)
      BY <2>2, <2>4 DEF TouchingAfter
    <3>5. CASE slot = NoContact
      <4> DEFINE located == slot # NoContact
      <4>0. located = FALSE
        BY <3>5
      <4>1. ~slot.located /\ after.contact_id = 0 /\ ~after.located
        <5>1. after.located = located /\ after.contact_id = slot.contact_id
          BY <3>3
        <5>2. slot.contact_id = 0 /\ ~slot.located
          BY <3>5 DEF NoContact
        <5> HIDE DEF located, slot, after
        <5> QED BY <4>0, <5>1, <5>2
      <4>2. after = NoContact
        BY <3>3, <4>1 DEF NoContact, SlotSet
      <4>3. PhaseIn(packet, s) = "None"
        BY <2>4, <3>5 DEF PhaseIn, PhaseOf, NoContact
      <4>4. Vanishes(packet, id, s)
        BY <1>6, <3>1, <4>1, <4>2, <4>3 DEF Vanishes
      <4> QED BY <4>4, <3>3, <3>4, <1>2
    <3>6. CASE slot # NoContact
      <4>1. PhaseIn(packet, s) = IF slot.located THEN "Move" ELSE "Down"
        BY <2>4, <3>6 DEF PhaseIn, PhaseOf
      <4>2. after.located /\ after # NoContact
        <5>1. after.located
          BY <3>3, <3>6
        <5>2. NoContact.located = FALSE
          BY DEF NoContact
        <5> QED BY <5>1, <5>2
      <4>3. Continues(packet, id, s)
        BY <1>6, <2>4, <3>1, <3>3, <3>6, <4>1, <4>2 DEF Continues
      <4> QED BY <4>3, <3>3, <3>4, <1>2
    <3> QED BY <3>5, <3>6
  <2>5. CASE packet[s] = "up"
    <3>1. s \notin Started(packet) /\ after = NoContact
      BY <1>6, <2>5 DEF Started, SlotIn, SlotAfter
    <3>2. PhaseIn(packet, s) = IF slot.located THEN "Up" ELSE "None"
      BY <2>5 DEF PhaseIn, PhaseOf
    <3>3. Leaves(packet, id, s) \/ Vanishes(packet, id, s)
      BY <1>6, <3>1, <3>2 DEF Leaves, Vanishes
    <3> QED BY <3>1, <3>3, <1>2, <1>4
  <2> QED BY <2>1, <2>3, <2>4, <2>5 DEF AllPackets
<1> QED BY <1>5, <1>6

\* Records of a packet belong to located contacts, each to one slot.
LEMMA Spoken ==
  ASSUME TouchAssumption, KernelTypes, SlotsOK, NEW packet, NEW id, NEW next,
         Packet(packet, id, next), NEW held, held \subseteq Known, Matches(held),
         NEW s \in Slots, s \in Said(packet)
  PROVE  /\ IdIn(packet, id, s) \in 1..next - 1
         /\ PhaseIn(packet, s) \in {"Down", "Move", "Up"}
         /\ (PhaseIn(packet, s) = "Down") <=> IdIn(packet, id, s) \notin held
         /\ s \notin Started(packet) =>
              /\ slots[s] # NoContact /\ IdIn(packet, id, s) = slots[s].contact_id
         /\ PhaseIn(packet, s) # "Up" =>
              /\ SlotIn(packet, id, s).located
              /\ SlotIn(packet, id, s).contact_id = IdIn(packet, id, s)
<1>1. next_contact_id \in Nat \ {0} /\ next \in Nat /\ next_contact_id <= next
  BY DEF KernelTypes, Packet, TouchAssumption
<1>2. s \in Started(packet) => IdIn(packet, id, s) = id[s] /\ id[s] \in 1..next - 1
                                 /\ id[s] \notin Known
  BY <1>1 DEF Packet, IdIn, Known
<1>3. s \notin Started(packet) => IdIn(packet, id, s) = slots[s].contact_id
  BY DEF IdIn
<1>4. slots[s] # NoContact => slots[s].contact_id \in 1..next - 1
  BY <1>1 DEF SlotsOK, Known
<1>5. slots[s].located => slots[s] # NoContact
  BY DEF NoContact
<1>6. slots[s].contact_id \in held <=> slots[s].located
  BY DEF Matches
<1>7. PhaseIn(packet, s) # "None"
  BY DEF Said
<1>8. \/ Starts(packet, id, s)   \/ Continues(packet, id, s)
      \/ Leaves(packet, id, s)   \/ Vanishes(packet, id, s)
      \/ Rests(packet, id, s)
  BY Slot
<1>9. CASE Starts(packet, id, s)
  BY <1>9, <1>2, <1>7 DEF Starts
<1>10. CASE Continues(packet, id, s)
  BY <1>10, <1>3, <1>4, <1>6 DEF Continues
<1>11. CASE Leaves(packet, id, s)
  BY <1>11, <1>3, <1>4, <1>5, <1>6 DEF Leaves
<1> QED BY <1>7, <1>8, <1>9, <1>10, <1>11 DEF Vanishes, Rests, Said

LEMMA SpokenOnce ==
  ASSUME TouchAssumption, KernelTypes, SlotsOK, NEW packet, NEW id, NEW next,
         Packet(packet, id, next), NEW held, held \subseteq Known, Matches(held),
         NEW s \in Said(packet), NEW t \in Slots,
         \/ t \in Said(packet) \/ t \in Started(packet)
         \/ slots[t] # NoContact,
         IdIn(packet, id, s) = IdIn(packet, id, t)
  PROVE  s = t
<1>1. s \in Slots
  BY DEF Said, Packet
<1>2. s \notin Started(packet) =>
        slots[s] # NoContact /\ IdIn(packet, id, s) = slots[s].contact_id
  BY <1>1, Spoken
<1>3. t \notin Started(packet) =>
        slots[t] # NoContact /\ IdIn(packet, id, t) = slots[t].contact_id
  BY Spoken DEF IdIn
<1>4. \A u \in Slots : slots[u] # NoContact => slots[u].contact_id \in Known
  BY DEF SlotsOK
<1>5. \A u \in Started(packet) : IdIn(packet, id, u) = id[u] /\ id[u] \notin Known
  BY DEF Packet, IdIn, Known, KernelTypes
<1>6. CASE s \in Started(packet) /\ t \in Started(packet)
  BY <1>5, <1>6 DEF Packet
<1>7. CASE s \notin Started(packet) /\ t \notin Started(packet)
  BY <1>1, <1>2, <1>3, <1>7 DEF SlotsOK
<1> QED BY <1>1, <1>2, <1>3, <1>4, <1>5, <1>6, <1>7

\* The report of a packet, by its contacts.
LEMMA ReportIds ==
  ASSUME NEW packet, NEW id, NEW c,
         \A s \in Said(packet) : PhaseIn(packet, s) \in {"Down", "Move", "Up"}
  PROVE  /\ c \in Pressed(ReportOf(packet, id)) <=>
              \E s \in Said(packet) : /\ PhaseIn(packet, s) # "Up"
                                      /\ IdIn(packet, id, s) = c
         /\ c \in Released(ReportOf(packet, id)) <=>
              \E s \in Said(packet) : /\ PhaseIn(packet, s) = "Up"
                                      /\ IdIn(packet, id, s) = c
<1>1. \A r : r \in ReportOf(packet, id) <=> \E s \in Said(packet) :
        r = Record(PhaseIn(packet, s), IdIn(packet, id, s))
  BY DEF ReportOf
<1>2. \A p, i : Record(p, i).phase = p /\ Record(p, i).contact_id = i
  BY DEF Record
<1>3. c \in Pressed(ReportOf(packet, id)) <=> \E r \in ReportOf(packet, id) :
        r.phase \in {"Down", "Move"} /\ r.contact_id = c
  BY DEF Pressed, Ids
<1>4. c \in Released(ReportOf(packet, id)) <=> \E r \in ReportOf(packet, id) :
        r.phase \in {"Up", "Cancel"} /\ r.contact_id = c
  BY DEF Released, Ids
<1>5. (\E r \in ReportOf(packet, id) : r.phase \in {"Down", "Move"} /\ r.contact_id = c)
        <=> \E s \in Said(packet) : PhaseIn(packet, s) # "Up" /\ IdIn(packet, id, s) = c
  BY <1>1, <1>2
<1>6. (\E r \in ReportOf(packet, id) : r.phase \in {"Up", "Cancel"} /\ r.contact_id = c)
        <=> \E s \in Said(packet) : PhaseIn(packet, s) = "Up" /\ IdIn(packet, id, s) = c
  BY <1>1, <1>2
<1> QED BY <1>3, <1>4, <1>5, <1>6


LEMMA PacketFits ==
  ASSUME TouchAssumption, KernelTypes, SlotsOK, NEW packet, NEW id, NEW next,
         Packet(packet, id, next), NEW held, held \subseteq Known, Matches(held)
  PROVE  /\ Fits(ReportOf(packet, id), held)
         /\ Through(held, ReportOf(packet, id)) \subseteq 1..next - 1
         /\ ReportOf(packet, id) \in Report
<1>1. \A s \in Said(packet) :
        /\ s \in Slots /\ IdIn(packet, id, s) \in 1..next - 1
        /\ PhaseIn(packet, s) \in {"Down", "Move", "Up"}
        /\ (PhaseIn(packet, s) = "Down") <=> IdIn(packet, id, s) \notin held
  <2> TAKE s \in Said(packet)
  <2>1. s \in Slots
    BY DEF Said, Packet
  <2> QED BY <2>1, Spoken
<1>2. \A s, t \in Said(packet) : IdIn(packet, id, s) = IdIn(packet, id, t) => s = t
  BY <1>1, SpokenOnce
<1>3. \A r \in ReportOf(packet, id) : \E s \in Said(packet) :
        /\ r = Record(PhaseIn(packet, s), IdIn(packet, id, s))
        /\ r.phase = PhaseIn(packet, s) /\ r.contact_id = IdIn(packet, id, s)
  BY DEF ReportOf, Record
<1>4. \A r \in ReportOf(packet, id) : (r.phase = "Down") <=> r.contact_id \notin held
  BY <1>1, <1>3
<1>5. \A r, q \in ReportOf(packet, id) : r.contact_id = q.contact_id => r = q
  <2> SUFFICES ASSUME NEW r \in ReportOf(packet, id), NEW q \in ReportOf(packet, id),
                      r.contact_id = q.contact_id
               PROVE  r = q
    OBVIOUS
  <2>1. PICK s \in Said(packet) :
          /\ r = Record(PhaseIn(packet, s), IdIn(packet, id, s))
          /\ r.contact_id = IdIn(packet, id, s)
    BY <1>3
  <2>2. PICK t \in Said(packet) :
          /\ q = Record(PhaseIn(packet, t), IdIn(packet, id, t))
          /\ q.contact_id = IdIn(packet, id, t)
    BY <1>3
  <2>3. s = t
    BY <1>2, <2>1, <2>2
  <2> QED BY <2>1, <2>2, <2>3
<1>6. Fits(ReportOf(packet, id), held)
  BY <1>4, <1>5 DEF Fits
<1>7. next_contact_id \in Nat /\ next \in Nat /\ next_contact_id <= next
      /\ next <= MaxContactId + 1 /\ MaxContactId \in Nat
  BY DEF KernelTypes, Packet, TouchAssumption
<1>8. held \subseteq 1..next - 1 /\ 1..next - 1 \subseteq 1..MaxContactId
  BY <1>7 DEF Known
<1>9. Pressed(ReportOf(packet, id)) \subseteq 1..next - 1
  BY <1>1, ReportIds
<1>10. ReportOf(packet, id) \in Report
  <2>1. \A r \in ReportOf(packet, id) :
          r \in [phase : Phase, contact_id : 1..MaxContactId]
    BY <1>1, <1>3, <1>8 DEF Record, Phase
  <2> QED BY <2>1 DEF Report
<1> QED BY <1>6, <1>8, <1>9, <1>10 DEF Through

\* Contacts that are down after a packet are those its slots locate.
LEMMA PacketMatches ==
  ASSUME TouchAssumption, KernelTypes, SlotsOK, NEW packet, NEW id, NEW next,
         Packet(packet, id, next), NEW held, held \subseteq Known, Matches(held),
         slots' = [s \in Slots |-> SlotIn(packet, id, s)],
         NEW down, down = Through(held, ReportOf(packet, id))
  PROVE  Matches(down)'
<1> DEFINE report == ReportOf(packet, id)
<1>1. \A s \in Said(packet) : /\ s \in Slots
                              /\ PhaseIn(packet, s) \in {"Down", "Move", "Up"}
  <2> TAKE s \in Said(packet)
  <2>1. s \in Slots
    BY DEF Said, Packet
  <2> QED BY <2>1, Spoken
<1>2. \A c : c \in Pressed(report) <=>
        \E s \in Said(packet) : PhaseIn(packet, s) # "Up" /\ IdIn(packet, id, s) = c
  BY <1>1, ReportIds
<1>3. \A c : c \in Released(report) <=>
        \E s \in Said(packet) : PhaseIn(packet, s) = "Up" /\ IdIn(packet, id, s) = c
  BY <1>1, ReportIds
<1>4. \A c : c \in down <=> (c \in held \/ c \in Pressed(report)) /\ c \notin Released(report)
  BY DEF Through
<1>5. 0 \notin down
  <2>1. down \subseteq 1..next - 1
    BY PacketFits
  <2>2. next \in Int /\ 0 \notin 1..next - 1
    BY DEF Packet, KernelTypes, TouchAssumption
  <2> QED BY <2>1, <2>2
<1>6. ASSUME NEW s \in Slots
      PROVE  slots'[s].contact_id \in down <=> slots'[s].located
  <2>1. slots'[s] = SlotIn(packet, id, s)
    OBVIOUS
  <2>2. slots[s].contact_id \in held <=> slots[s].located
    BY DEF Matches
  <2>3. s \in Started(packet) => IdIn(packet, id, s) = id[s] /\ id[s] \notin held
    BY DEF IdIn, Packet, Known, KernelTypes
  <2>4. s \notin Started(packet) => IdIn(packet, id, s) = slots[s].contact_id
    BY DEF IdIn
  <2>5. s \in Started(packet) \/ slots[s] # NoContact =>
          \A t \in Said(packet) : IdIn(packet, id, t) = IdIn(packet, id, s) => t = s
    BY SpokenOnce
  <2>6. NoContact.contact_id = 0 /\ ~NoContact.located
    BY DEF NoContact
  <2>7. \/ Starts(packet, id, s)   \/ Continues(packet, id, s)
        \/ Leaves(packet, id, s)   \/ Vanishes(packet, id, s)
        \/ Rests(packet, id, s)
    BY Slot
  <2>8. s \in DOMAIN packet => (s \in Said(packet) <=> PhaseIn(packet, s) # "None")
    BY DEF Said
  <2>9. s \in Said(packet) => s \in DOMAIN packet
    BY DEF Said
  <2>10. CASE Starts(packet, id, s)
    <3>1. s \in Started(packet) /\ s \in DOMAIN packet
      BY <2>10 DEF Starts, Started
    <3>2. SlotIn(packet, id, s).contact_id = IdIn(packet, id, s)
          /\ PhaseIn(packet, s) = IF SlotIn(packet, id, s).located THEN "Down" ELSE "None"
      BY <2>3, <2>10, <3>1 DEF Starts
    <3>3. SlotIn(packet, id, s).located \in BOOLEAN
      BY Slot DEF SlotSet
    <3>4. CASE SlotIn(packet, id, s).located
      <4>1. s \in Said(packet) /\ PhaseIn(packet, s) = "Down"
        BY <2>8, <3>1, <3>2, <3>4
      <4>2. IdIn(packet, id, s) \in Pressed(report)
        BY <1>2, <4>1
      <4>3. IdIn(packet, id, s) \notin Released(report)
        BY <1>3, <2>5, <3>1, <4>1
      <4> QED BY <1>4, <2>1, <3>2, <3>4, <4>2, <4>3
    <3>5. CASE ~SlotIn(packet, id, s).located
      <4>1. s \notin Said(packet)
        BY <2>8, <3>1, <3>2, <3>5
      <4>2. IdIn(packet, id, s) \notin Pressed(report)
        BY <1>2, <2>5, <3>1, <4>1
      <4> QED BY <1>4, <2>1, <2>3, <3>1, <3>2, <3>5, <4>2
    <3> QED BY <3>4, <3>5
  <2>11. CASE Continues(packet, id, s)
    <3>1. s \notin Started(packet) /\ s \in DOMAIN packet /\ slots[s] # NoContact
      BY <2>11 DEF Continues
    <3>2. SlotIn(packet, id, s).contact_id = IdIn(packet, id, s)
          /\ SlotIn(packet, id, s).located /\ PhaseIn(packet, s) \in {"Down", "Move"}
      BY <2>4, <2>11, <3>1 DEF Continues
    <3>3. s \in Said(packet)
      BY <2>8, <3>1, <3>2
    <3>4. IdIn(packet, id, s) \in Pressed(report)
      BY <1>2, <3>2, <3>3
    <3>5. IdIn(packet, id, s) \notin Released(report)
      BY <1>3, <2>5, <3>1, <3>2
    <3> QED BY <1>4, <2>1, <3>2, <3>4, <3>5
  <2>12. CASE Leaves(packet, id, s) \/ Vanishes(packet, id, s)
    BY <1>5, <2>1, <2>6, <2>12 DEF Leaves, Vanishes
  <2>13. CASE Rests(packet, id, s)
    <3>1. slots'[s] = slots[s] /\ s \notin DOMAIN packet
      BY <2>1, <2>13 DEF Rests
    <3>2. s \notin Started(packet) /\ s \notin Said(packet)
      BY <3>1, <2>9 DEF Started
    <3>3. CASE slots[s] = NoContact
      BY <1>5, <2>6, <3>1, <3>3
    <3>4. CASE slots[s] # NoContact
      <4>1. slots[s].contact_id \notin Pressed(report)
            /\ slots[s].contact_id \notin Released(report)
        BY <1>2, <1>3, <2>4, <2>5, <3>2, <3>4
      <4> QED BY <1>4, <2>2, <3>1, <4>1
    <3> QED BY <3>3, <3>4
  <2> QED BY <2>7, <2>10, <2>11, <2>12, <2>13
<1>7. ASSUME "replace" \notin Packets, NEW c \in down
      PROVE  \E s \in Slots : slots'[s].located /\ slots'[s].contact_id = c
  <2>1. CASE c \in Pressed(report)
    <3>1. PICK s \in Said(packet) : PhaseIn(packet, s) # "Up" /\ IdIn(packet, id, s) = c
      BY <1>2, <2>1
    <3>2. s \in Slots /\ SlotIn(packet, id, s).located
          /\ SlotIn(packet, id, s).contact_id = c
      BY <1>1, <3>1, Spoken
    <3> QED BY <3>2
  <2>2. CASE c \in held
    <3>1. PICK s \in Slots : slots[s].located /\ slots[s].contact_id = c
      BY <1>7, <2>2 DEF Matches
    <3>2. slots[s] # NoContact
      BY <3>1 DEF NoContact
    <3>3. s \in touching
      BY <3>2 DEF SlotsOK
    <3>4. s \in DOMAIN packet => packet[s] \in {"move", "up"}
      BY <1>7, <3>3 DEF Packet, Deliverable
    <3>5. s \notin Started(packet)
      BY <3>4 DEF Started
    <3>6. IdIn(packet, id, s) = c
      BY <3>1, <3>5 DEF IdIn
    <3>7. ~Leaves(packet, id, s)
      <4>1. Leaves(packet, id, s) => s \in Said(packet) /\ PhaseIn(packet, s) = "Up"
        BY DEF Leaves, Said
      <4> QED BY <1>3, <1>4, <1>7, <3>6, <4>1
    <3>8. \/ Starts(packet, id, s)   \/ Continues(packet, id, s)
          \/ Leaves(packet, id, s)   \/ Vanishes(packet, id, s)
          \/ Rests(packet, id, s)
      BY Slot
    <3>9. Continues(packet, id, s) \/ Rests(packet, id, s)
      BY <3>1, <3>5, <3>7, <3>8 DEF Starts, Vanishes
    <3>10. SlotIn(packet, id, s).located /\ SlotIn(packet, id, s).contact_id = c
      BY <3>1, <3>9 DEF Continues, Rests
    <3> QED BY <3>10
  <2> QED BY <1>4, <1>7, <2>1, <2>2
<1> QED BY <1>6, <1>7 DEF Matches


\* The slots after a packet.
LEMMA PacketSlots ==
  ASSUME TouchAssumption, KernelTypes, SlotsOK, NEW packet, NEW id, NEW next,
         Packet(packet, id, next),
         slots' = [s \in Slots |-> SlotIn(packet, id, s)],
         touching' = TouchingAfter(packet), next_contact_id' = next
  PROVE  KernelTypes' /\ SlotsOK' /\ Known \subseteq Known'
<1>1. next_contact_id \in Nat \ {0} /\ next \in Nat /\ next_contact_id <= next
      /\ next \in 1..MaxContactId + 1
  BY DEF KernelTypes, Packet, TouchAssumption
<1>2. Known \subseteq Known'
  BY <1>1 DEF Known
<1>3. KernelTypes'
  <2>1. touching' \subseteq Slots
    BY DEF KernelTypes, TouchingAfter, Started, Packet
  <2>2. slots' \in [Slots -> SlotSet]
    BY Slot
  <2> QED BY <1>1, <2>1, <2>2 DEF KernelTypes
<1>4. NoContact.contact_id = 0
  BY DEF NoContact
\* A contact is in the slot where it was, or new.
<1>5. ASSUME NEW s \in Slots, slots'[s] # NoContact
      PROVE  \/ /\ s \in Started(packet)
                /\ slots'[s].contact_id = id[s] /\ id[s] \in Known' \ Known
             \/ /\ slots[s] # NoContact
                /\ slots'[s].contact_id = slots[s].contact_id
                /\ slots[s].contact_id \in Known
  <2>1. slots'[s] = SlotIn(packet, id, s)
    OBVIOUS
  <2>2. slots[s] # NoContact => slots[s].contact_id \in Known
    BY DEF SlotsOK
  <2>3. s \in Started(packet) => id[s] \in Known' \ Known
    BY <1>1 DEF Packet, Known
  <2>4. \/ Starts(packet, id, s)   \/ Continues(packet, id, s)
        \/ Leaves(packet, id, s)   \/ Vanishes(packet, id, s)
        \/ Rests(packet, id, s)
    BY Slot
  <2> QED BY <1>5, <2>1, <2>2, <2>3, <2>4
          DEF Starts, Continues, Leaves, Vanishes, Rests
<1>6. 0 \notin Known'
  BY <1>1 DEF Known
<1>7. \A s \in Slots : slots'[s] # NoContact =>
        s \in touching' /\ slots'[s].contact_id \in Known'
  BY <1>2, <1>5, Slot
<1>8. ASSUME NEW s \in Slots, NEW t \in Slots, slots'[s] # NoContact,
             slots'[s].contact_id = slots'[t].contact_id
      PROVE  s = t
  <2>1. slots'[t] # NoContact
    BY <1>4, <1>6, <1>7, <1>8
  <2> QED BY <1>5, <1>8, <2>1 DEF SlotsOK, Packet
<1> QED BY <1>2, <1>3, <1>7, <1>8 DEF SlotsOK

--------------------------------------------------------------------------------
(* The way of the reports.                                                  *)

LEMMA QueueFacts ==
  ASSUME QueueTypes
  PROVE  /\ Len(batch) \in Nat /\ Len(queue) \in Nat /\ Size \in Nat
         /\ \A i \in 1..Len(batch) : batch[i] \in Entries
         /\ \A i \in 1..Len(queue) : queue[i] \in Entries
         /\ DOMAIN queue = 1..Len(queue) /\ DOMAIN batch = 1..Len(batch)
         /\ DOMAIN Reports = 1..Size
BY DEF QueueTypes, Size, Reports

LEMMA Pushed ==
  ASSUME QueueTypes, NEW report \in Report, queue' = Append(queue, Entry(report)),
         UNCHANGED batch
  PROVE  /\ Size' = Size + 1 /\ Len(queue') = Len(queue) + 1
         /\ queue' \in Seq(Entries) /\ batch' \in Seq(Entries)
         /\ \A k \in 1..Size : Reports'[k] = Reports[k]
         /\ Reports'[Size + 1] = report
<1>1. Entry(report) \in Entries /\ Entry(report).report = report
  BY DEF Entry, Entries
<1>2. /\ Len(queue') = Len(queue) + 1 /\ queue' \in Seq(Entries)
      /\ \A i \in 1..Len(queue) : queue'[i] = queue[i]
      /\ queue'[Len(queue) + 1] = Entry(report)
  BY <1>1 DEF QueueTypes
<1>3. PICK b \in Nat, q \in Nat : b = Len(batch) /\ q = Len(queue)
  BY QueueFacts
<1>4. Size = b + q /\ Size' = b + q + 1
  BY <1>2, <1>3 DEF Size
<1>5. Reports'[b + q + 1] = report
  <2>1. Reports'[b + q + 1] = IF b + q + 1 <= b THEN batch'[b + q + 1].report
                              ELSE queue'[b + q + 1 - b].report
    BY <1>3, <1>4 DEF Reports
  <2>2. ~(b + q + 1 <= b) /\ b + q + 1 - b = q + 1
    BY <1>3
  <2> QED BY <1>1, <1>2, <1>3, <2>1, <2>2
<1>6. ASSUME NEW k \in 1..Size
      PROVE  Reports'[k] = Reports[k]
  <2>1. k \in 1..Size'
    BY <1>3, <1>4
  <2>2. Reports'[k] = IF k <= b THEN batch[k].report ELSE queue'[k - b].report
    BY <1>3, <2>1 DEF Reports
  <2>3. Reports[k] = IF k <= b THEN batch[k].report ELSE queue[k - b].report
    BY <1>3 DEF Reports
  <2>4. ~(k <= b) => k - b \in 1..q
    BY <1>3, <1>4
  <2> QED BY <1>2, <1>3, <2>2, <2>3, <2>4
<1> QED BY <1>2, <1>3, <1>4, <1>5, <1>6 DEF QueueTypes

LEMMA Popped ==
  ASSUME QueueTypes, batch # <<>>, batch' = Tail(batch), UNCHANGED queue
  PROVE  /\ Size # 0 /\ Size' = Size - 1 /\ batch' \in Seq(Entries)
         /\ Head(batch) \in Entries /\ Head(batch).report = Reports[1]
         /\ \A k \in 1..Size - 1 : Reports'[k] = Reports[k + 1]
<1>1. PICK b \in Nat, q \in Nat : b = Len(batch) /\ q = Len(queue)
  BY QueueFacts
<1>2. /\ b # 0 /\ Len(batch') = b - 1 /\ Head(batch) = batch[1]
      /\ batch' \in Seq(Entries) /\ \A i \in 1..b - 1 : batch'[i] = batch[i + 1]
  BY <1>1 DEF QueueTypes
<1>3. Size = b + q /\ Size' = b - 1 + q
  BY <1>1, <1>2 DEF Size
<1>4. Reports[1] = batch[1].report
  BY <1>1, <1>2, <1>3 DEF Reports
<1>5. ASSUME NEW k \in 1..Size - 1
      PROVE  Reports'[k] = Reports[k + 1]
  <2>1. PICK j : j = k + 1
    OBVIOUS
  <2>2. j \in 1..Size /\ k \in 1..Size'
    BY <1>1, <1>2, <1>3, <2>1
  <2>3. Reports'[k] = IF k <= b - 1 THEN batch'[k].report ELSE queue[k - (b - 1)].report
    BY <1>1, <1>2, <2>2 DEF Reports
  <2>4. Reports[j] = IF j <= b THEN batch[j].report ELSE queue[j - b].report
    BY <1>1, <2>2 DEF Reports
  <2>5. (k <= b - 1 <=> j <= b) /\ k - (b - 1) = j - b
    BY <1>1, <1>2, <1>3, <2>1
  <2>6. k <= b - 1 => batch'[k] = batch[j]
    BY <1>1, <1>2, <1>3, <2>1
  <2> QED BY <2>1, <2>3, <2>4, <2>5, <2>6
<1>6. Head(batch) \in Entries
  BY <1>1, <1>2, QueueFacts
<1> QED BY <1>1, <1>2, <1>3, <1>4, <1>5, <1>6

LEMMA Drained ==
  ASSUME QueueTypes, batch = <<>>, batch' = queue, queue' = <<>>
  PROVE  /\ Size' = Size /\ \A k \in 1..Size : Reports'[k] = Reports[k]
         /\ queue' \in Seq(Entries) /\ Len(queue') = 0
<1>1. PICK q \in Nat : q = Len(queue)
  BY QueueFacts
<1>2. Len(batch) = 0 /\ Len(queue') = 0 /\ Len(batch') = q
  BY <1>1
<1>3. Size = q /\ Size' = q
  BY <1>1, <1>2 DEF Size
<1>4. ASSUME NEW k \in 1..Size
      PROVE  Reports'[k] = Reports[k]
  <2>1. Reports'[k] = IF k <= q THEN queue[k].report ELSE queue'[k - q].report
    BY <1>2, <1>3 DEF Reports
  <2>2. Reports[k] = IF k <= 0 THEN batch[k].report ELSE queue[k - 0].report
    BY <1>2, <1>3 DEF Reports
  <2>3. k <= q /\ ~(k <= 0) /\ k - 0 = k
    BY <1>3
  <2> QED BY <2>1, <2>2, <2>3
<1> QED BY <1>2, <1>3, <1>4

\* Dividing the reports at a surface's start moves none.
LEMMA Divided ==
  ASSUME QueueTypes, UNCHANGED batch, NEW old,
         queue' = [i \in DOMAIN queue |->
                     [queue[i] EXCEPT !.stale = queue[i].stale \/ i <= old]]
  PROVE  /\ Size' = Size /\ \A k \in 1..Size : Reports'[k] = Reports[k]
         /\ queue' \in Seq(Entries) /\ Len(queue') = Len(queue)
<1>1. PICK b \in Nat, q \in Nat : b = Len(batch) /\ q = Len(queue)
  BY QueueFacts
<1>2. DOMAIN queue = 1..q
  BY <1>1, QueueFacts
<1>3. ASSUME NEW i \in 1..q
      PROVE  queue'[i] \in Entries /\ queue'[i].report = queue[i].report
  <2>1. queue[i] \in Entries
    BY <1>1, QueueFacts
  <2>2. queue'[i] = [queue[i] EXCEPT !.stale = queue[i].stale \/ i <= old]
    BY <1>2
  <2> QED BY <2>1, <2>2 DEF Entries
<1>4. queue' \in Seq(Entries) /\ Len(queue') = q
  <2>1. queue' \in [1..q -> Entries]
    BY <1>2, <1>3
  <2>2. queue' \in Seq(Entries)
    <3>1. [1..q -> Entries] \in {[1..n -> Entries] : n \in Nat}
      OBVIOUS
    <3> QED BY <2>1, <3>1, SeqDef
  <2>3. Len(queue') \in Nat /\ DOMAIN queue' = 1..Len(queue')
    BY <2>2
  <2>4. DOMAIN queue' = 1..q
    BY <2>1
  <2> QED BY <2>2, <2>3, <2>4
<1>5. Size = b + q /\ Size' = b + q
  BY <1>1, <1>4 DEF Size
<1>6. ASSUME NEW k \in 1..Size
      PROVE  Reports'[k] = Reports[k]
  <2>1. Reports'[k] = IF k <= b THEN batch[k].report ELSE queue'[k - b].report
    BY <1>1, <1>5 DEF Reports
  <2>2. Reports[k] = IF k <= b THEN batch[k].report ELSE queue[k - b].report
    BY <1>1, <1>5 DEF Reports
  <2>3. ~(k <= b) => k - b \in 1..q
    BY <1>1, <1>5
  <2> QED BY <1>3, <2>1, <2>2, <2>3
<1> QED BY <1>1, <1>4, <1>5, <1>6

\* A packet's report on its way, or the fault of a full queue.
LEMMA Captured ==
  ASSUME TouchAssumption, QueueTypes, FaultOK, ~failed, UNCHANGED <<batch, active>>,
         NEW view, Joins(view, Size, Reports, active, Known),
         NEW report \in Report, Fits(report, view[Size]), Capture(report),
         NEW down, down = Through(view[Size], report), down \subseteq Known',
         Known \subseteq Known', Matches(down)'
  PROVE  QueueTypes' /\ ViewOK' /\ FaultOK'
<1>1. CASE report = {}
  <2>1. QueueTypes' /\ Size' = Size /\ Reports' = Reports /\ failed' = failed
    BY <1>1 DEF Capture, QueueTypes, Size, Reports
  <2>2. down = view[Size]
    BY <1>1, NothingSaid
  <2>3. Joins(view, Size, Reports', active, Known')
    BY <2>1, JoinsSame, QueueFacts
  <2>4. view \in [0..Size -> SUBSET Known']
    BY <2>3 DEF Joins
  <2>5. Arrives(view)'
    BY <2>1, <2>2 DEF Arrives, Matches
  <2>6. ViewOK'
    BY <2>1, <2>3, <2>4, <2>5 DEF ViewOK
  <2>7. FaultOK'
    BY <2>1 DEF FaultOK
  <2> QED BY <2>1, <2>6, <2>7
<1>2. CASE report # {} /\ Len(queue) = CAPACITY
  <2>1. failed' = TRUE /\ queue' = Append(queue, Entry(Fault))
    BY <1>2 DEF Capture, Push
  <2>2. Fault \in Report
    BY DEF Fault, Report
  <2>3. /\ Size' = Size + 1 /\ Len(queue') = Len(queue) + 1
        /\ queue' \in Seq(Entries) /\ batch' \in Seq(Entries)
        /\ \A k \in 1..Size : Reports'[k] = Reports[k]
        /\ Reports'[Size + 1] = Fault
    BY <2>1, <2>2, Pushed
  <2>4. QueueTypes'
    BY <1>2, <2>1, <2>3 DEF QueueTypes, TouchAssumption
  <2>5. Size \in Nat
    BY QueueFacts
  <2>6. FaultOK'
    BY <2>1, <2>3, <2>5 DEF FaultOK
  <2>7. view[Size] \subseteq Known
    BY <2>5 DEF Joins
  <2>8. Fits(Fault, view[Size]) /\ Through(view[Size], Fault) = view[Size]
    BY NothingSaid DEF Fault
  <2>9. PICK longer : Joins(longer, Size + 1, Reports', active, Known')
    BY <2>3, <2>5, <2>7, <2>8, JoinsPush
  <2>10. longer \in [0..Size + 1 -> SUBSET Known']
    BY <2>9 DEF Joins
  <2>11. ViewOK'
    BY <2>1, <2>3, <2>9, <2>10 DEF ViewOK, Arrives
  <2> QED BY <2>4, <2>6, <2>11
<1>3. CASE report # {} /\ Len(queue) # CAPACITY
  <2>1. failed' = failed /\ queue' = Append(queue, Entry(report))
    BY <1>3 DEF Capture, Push
  <2>2. /\ Size' = Size + 1 /\ Len(queue') = Len(queue) + 1
        /\ queue' \in Seq(Entries) /\ batch' \in Seq(Entries)
        /\ \A k \in 1..Size : Reports'[k] = Reports[k]
        /\ Reports'[Size + 1] = report
    BY <2>1, Pushed
  <2>3. Size \in Nat /\ Len(queue) \in Nat
    BY QueueFacts
  <2>4. QueueTypes'
    BY <1>3, <2>1, <2>2, <2>3 DEF QueueTypes, TouchAssumption
  <2>5. FaultOK'
    <3>1. ASSUME NEW k \in 1..Size', Reports'[k] = Fault
          PROVE  FALSE
      <4>1. CASE k = Size + 1
        BY <1>3, <2>2, <3>1, <4>1 DEF Fault
      <4>2. CASE k # Size + 1
        <5>1. k \in 1..Size
          BY <2>2, <2>3, <4>2
        <5> QED BY <2>2, <3>1, <5>1 DEF FaultOK
      <4> QED BY <4>1, <4>2
    <3> QED BY <2>1, <3>1 DEF FaultOK
  <2>6. PICK longer : /\ Joins(longer, Size + 1, Reports', active, Known')
                      /\ longer[Size + 1] = down
    <3>1. /\ Fits(Reports'[Size + 1], view[Size])
          /\ Through(view[Size], Reports'[Size + 1]) \subseteq Known'
          /\ Through(view[Size], Reports'[Size + 1]) = down
      BY <2>2
    <3>2. /\ Joins(Longer(view, Size, Reports'[Size + 1]), Size + 1, Reports',
                   active, Known')
          /\ Longer(view, Size, Reports'[Size + 1])[Size + 1]
               = Through(view[Size], Reports'[Size + 1])
      BY <2>2, <2>3, <3>1, JoinsPush
    <3> QED BY <3>1, <3>2
  <2>7. ViewOK'
    <3>1. longer \in [0..Size + 1 -> SUBSET Known']
      BY <2>6 DEF Joins
    <3>2. PICK n : n = Size + 1
      OBVIOUS
    <3>3. Matches(longer[n])'
      BY <2>6, <3>2 DEF Matches
    <3>4. n = Size'
      BY <2>2, <3>2
    <3>5. Arrives(longer)'
      BY <3>3, <3>4 DEF Arrives, Matches
    <3> QED BY <2>2, <2>6, <3>1, <3>5 DEF ViewOK
  <2> QED BY <2>4, <2>5, <2>7
<1> QED BY <1>1, <1>2, <1>3


\* Nothing on the way moves.
LEMMA Unmoved ==
  ASSUME QueueTypes, ViewOK, FaultOK, UNCHANGED <<kernelVars, failed, active>>,
         Size' = Size, \A k \in 1..Size : Reports'[k] = Reports[k]
  PROVE  ViewOK' /\ FaultOK'
<1>1. Size \in Nat
  BY QueueFacts
<1>2. Known' = Known
  BY DEF Known, kernelVars
<1>3. PICK view \in [0..Size -> SUBSET Known] :
        Joins(view, Size, Reports, active, Known) /\ Arrives(view)
  BY DEF ViewOK
<1>4. Joins(view, Size, Reports', active, Known)
  BY <1>1, <1>3, JoinsSame
<1>5. Arrives(view)'
  BY <1>3 DEF Arrives, Matches, kernelVars
<1>6. ViewOK'
  BY <1>2, <1>3, <1>4, <1>5 DEF ViewOK
<1>7. FaultOK'
  BY <1>1 DEF FaultOK
<1> QED BY <1>6, <1>7

\* A report is handled: a fault, or contacts that become those after it.
LEMMA Handled ==
  ASSUME QueueTypes, ViewOK, FaultOK, batch # <<>>, batch' = Tail(batch),
         UNCHANGED <<kernelVars, queue, failed>>, NEW report,
         report = Head(batch).report,
         active' = IF report = Fault THEN {} ELSE Through(active, report)
  PROVE  QueueTypes' /\ ViewOK' /\ FaultOK'
<1>1. /\ Size # 0 /\ Size' = Size - 1 /\ batch' \in Seq(Entries)
      /\ report = Reports[1]
      /\ \A k \in 1..Size - 1 : Reports'[k] = Reports[k + 1]
  BY Popped
<1>2. PICK n \in Nat : n = Size
  BY QueueFacts
<1>3. Known' = Known
  BY DEF Known, kernelVars
<1>4. QueueTypes'
  BY <1>1 DEF QueueTypes
<1>5. ASSUME NEW k \in 1..n - 1, Reports'[k] = Fault
      PROVE  k = n - 1 /\ failed
  <2>1. k + 1 \in 1..n /\ Reports[k + 1] = Fault
    BY <1>1, <1>2, <1>5
  <2>2. k + 1 = n /\ failed
    BY <1>2, <2>1 DEF FaultOK
  <2> QED BY <1>2, <2>2
<1>6. CASE report = Fault
  <2>1. n = 1 /\ failed
    <3>1. 1 \in 1..Size /\ Reports[1] = Fault
      BY <1>1, <1>2, <1>6
    <3>2. 1 = Size /\ failed
      BY <3>1 DEF FaultOK
    <3> QED BY <1>2, <3>2
  <2>2. Size' = 0
    BY <1>1, <1>2, <2>1
  <2>3. FaultOK'
    BY <1>6, <2>2 DEF FaultOK
  <2>4. \E view \in [0..0 -> SUBSET Known] : Joins(view, 0, Reports', {}, Known)
    BY JoinsNone
  <2>5. ViewOK'
    BY <1>3, <1>6, <2>1, <2>2, <2>4 DEF ViewOK, Arrives
  <2> QED BY <1>4, <2>3, <2>5
<1>7. CASE report # Fault
  <2>1. FaultOK'
    <3>1. ASSUME failed
          PROVE  n - 1 # 0 /\ Reports'[n - 1] = Fault
      <4>1. Reports[n] = Fault
        BY <1>1, <1>2, <3>1 DEF FaultOK
      <4>2. n # 1 /\ n # 0
        BY <1>1, <1>2, <1>7, <4>1
      <4>3. PICK k \in Nat : k = n - 1
        BY <4>2
      <4>4. k \in 1..n - 1 /\ k + 1 = n
        BY <4>2, <4>3
      <4>5. Reports'[k] = Reports[k + 1]
        BY <1>1, <1>2, <4>4
      <4> QED BY <4>1, <4>2, <4>3, <4>4, <4>5
    <3> QED BY <1>1, <1>2, <1>5, <3>1 DEF FaultOK
  <2>2. PICK view \in [0..Size -> SUBSET Known] :
          Joins(view, Size, Reports, active, Known) /\ Arrives(view)
    BY DEF ViewOK
  <2>3. PICK shorter : /\ Joins(shorter, n - 1, Reports', active', Known)
                       /\ shorter[n - 1] = view[n]
    <3>1. /\ Joins(Shorter(view, n), n - 1, Reports', Through(active, Reports[1]), Known)
          /\ Shorter(view, n)[n - 1] = view[n]
      BY <1>1, <1>2, <2>2, JoinsPop
    <3> QED BY <1>1, <1>7, <3>1
  <2>4. failed \/ Matches(view[n])'
    BY <1>2, <2>2 DEF Arrives, Matches, kernelVars
  <2>5. shorter \in [0..n - 1 -> SUBSET Known]
    BY <2>3 DEF Joins
  <2>6. PICK m : m = n - 1
    OBVIOUS
  <2>7. failed' \/ Matches(shorter[m])'
    BY <2>3, <2>4, <2>6 DEF Matches
  <2>8. m = Size'
    BY <1>1, <1>2, <2>6
  <2>9. Arrives(shorter)'
    BY <2>7, <2>8 DEF Arrives, Matches
  <2>10. ViewOK'
    BY <1>3, <2>3, <2>5, <2>6, <2>8, <2>9 DEF ViewOK
  <2> QED BY <1>4, <2>1, <2>10
<1> QED BY <1>6, <1>7

--------------------------------------------------------------------------------
(* The gesture.                                                             *)

\* What process can decide about a report.
Decision(o, report, forward_enabled, cleanup_enabled) ==
  /\ o.suppress \in BOOLEAN /\ o.cleanup \in BOOLEAN
  /\ \/ /\ suppress_until_clear /\ o.forward = {} /\ o.cancel = {} /\ ~o.cleanup
        /\ o.suppress <=> ActiveAfter(report) # {}
        /\ o.forwarded = IF o.suppress THEN forwarded ELSE {}
     \/ /\ ~suppress_until_clear /\ ActiveAfter(report) # {}
        /\ o.forwarded = {} /\ o.suppress /\ o.forward = {}
        /\ o.cancel = CancelAll(forwarded) /\ (o.cleanup => cleanup_enabled)
     \/ /\ ~suppress_until_clear /\ ~forward_enabled
        /\ o.forwarded = forwarded /\ ~o.suppress
        /\ o.forward = {} /\ o.cancel = {} /\ ~o.cleanup
     \/ /\ ~suppress_until_clear /\ forward_enabled
        /\ o.forwarded = Through(forwarded, report) /\ ~o.suppress
        /\ o.forward = report /\ o.cancel = {} /\ ~o.cleanup

LEMMA Outcomes ==
  ASSUME TouchAssumption, NEW report, NEW forward_enabled \in BOOLEAN,
         NEW cleanup_enabled \in BOOLEAN, suppress_until_clear \in BOOLEAN
  PROVE  Decision(process(report, forward_enabled, cleanup_enabled), report,
                  forward_enabled, cleanup_enabled)
<1> DEFINE o == process(report, forward_enabled, cleanup_enabled)
<1>1. Cardinality(ActiveAfter(report)) >= ChordSize => ActiveAfter(report) # {}
  <2>1. Cardinality({}) = 0 /\ ChordSize \in Nat \ {0}
    BY FS_EmptySet DEF TouchAssumption
  <2> QED BY <2>1
<1> DEFINE chord == Cardinality(ActiveAfter(report)) >= ChordSize
<1> HIDE DEF chord
<1>2. chord => ActiveAfter(report) # {}
  BY <1>1 DEF chord
<1>3. CASE suppress_until_clear
  BY <1>3 DEF process, Outcome, StaysSuppressed, Decision
<1>4. CASE ~suppress_until_clear /\ chord
  <2>1. o = Outcome({}, TRUE, {}, CancelAll(forwarded), cleanup_enabled)
    BY <1>4 DEF process, chord
  <2>2. /\ o.forwarded = {} /\ o.suppress = TRUE /\ o.forward = {}
        /\ o.cancel = CancelAll(forwarded) /\ o.cleanup = cleanup_enabled
    BY <2>1 DEF Outcome
  <2> HIDE DEF o
  <2>3. Decision(o, report, forward_enabled, cleanup_enabled)
    BY <1>2, <1>4, <2>2 DEF Decision
  <2> QED BY <2>3 DEF o
<1>5. CASE ~suppress_until_clear /\ ~chord /\ ~forward_enabled
  <2>1. o = Outcome(forwarded, FALSE, {}, {}, FALSE)
    BY <1>5 DEF process, chord
  <2>2. /\ o.forwarded = forwarded /\ o.suppress = FALSE /\ o.forward = {}
        /\ o.cancel = {} /\ o.cleanup = FALSE
    BY <2>1 DEF Outcome
  <2> HIDE DEF o
  <2>3. Decision(o, report, forward_enabled, cleanup_enabled)
    BY <1>5, <2>2 DEF Decision
  <2> QED BY <2>3 DEF o
<1>6. CASE ~suppress_until_clear /\ ~chord /\ forward_enabled
  <2>1. PICK after : after = Through(forwarded, report)
    OBVIOUS
  <2>2. o = Outcome(after, FALSE, report, {}, FALSE)
    BY <1>6, <2>1 DEF process, chord, Through
  <2>3. /\ o.forwarded = after /\ o.suppress = FALSE /\ o.forward = report
        /\ o.cancel = {} /\ o.cleanup = FALSE
    BY <2>2 DEF Outcome
  <2> HIDE DEF o
  <2>4. Decision(o, report, forward_enabled, cleanup_enabled)
    BY <1>6, <2>1, <2>3 DEF Decision
  <2> QED BY <2>4 DEF o
<1> QED BY <1>3, <1>4, <1>5, <1>6

\* Cancelling contacts releases them and no others.
LEMMA CancelFacts ==
  ASSUME NEW contacts
  PROVE  /\ Pressed(CancelAll(contacts)) = {}
         /\ Released(CancelAll(contacts)) = contacts
         /\ Through(contacts, CancelAll(contacts)) = {}
         /\ \A r \in CancelAll(contacts) : r.phase # "Down" /\ r.contact_id \in contacts
         /\ contacts \subseteq 1..MaxContactId => CancelAll(contacts) \in Report
         /\ CancelAll({}) = {}
<1>1. \A r : r \in CancelAll(contacts) <=> \E c \in contacts : r = Record("Cancel", c)
  BY DEF CancelAll
<1>2. \A c : Record("Cancel", c).phase = "Cancel" /\ Record("Cancel", c).contact_id = c
  BY DEF Record
<1>3. Pressed(CancelAll(contacts)) = {}
  BY <1>1, <1>2 DEF Pressed, Ids
<1>4. Released(CancelAll(contacts)) = contacts
  BY <1>1, <1>2 DEF Released, Ids
<1>5. Through(contacts, CancelAll(contacts)) = {}
  BY <1>3, <1>4 DEF Through
<1>6. contacts \subseteq 1..MaxContactId => CancelAll(contacts) \in Report
  BY <1>1 DEF Record, Report, Phase
<1> QED BY <1>1, <1>2, <1>3, <1>4, <1>5, <1>6 DEF CancelAll

\* A report's contacts are in range.
LEMMA ThroughTypes ==
  ASSUME NEW held, held \subseteq 1..MaxContactId, NEW report \in Report
  PROVE  Through(held, report) \subseteq 1..MaxContactId
BY DEF Through, Pressed, Ids, Report


--------------------------------------------------------------------------------
(* What is written to the producer.                                         *)

\* The step of PointerStream.
StreamStep == \A r \in sent' : (r.phase = "Down") <=> (r.contact_id \notin producer)

\* Contacts the producer holds only while a surface is open.
LEMMA Holding ==
  ASSUME GestureOK
  PROVE  /\ producer = forwarded /\ forwarded \subseteq active
         /\ generation = 0 \/ suppress_until_clear \/ visible => forwarded = {}
         /\ ~suppress_until_clear => cleanups = 0
BY DEF GestureOK, Forwarding

LEMMA EmitNothing ==
  ASSUME Emit({})
  PROVE  sent' = {} /\ sent' \in Report /\ producer' = producer /\ StreamStep
BY DEF Emit, Pressed, Released, Ids, Report, StreamStep

LEMMA EmitCancels ==
  ASSUME GestureTypes, GestureOK, Emit(CancelAll(forwarded))
  PROVE  sent' \in Report /\ producer' = {} /\ StreamStep
<1>1. CASE generation = 0
  <2>1. Emit({}) /\ forwarded = {} /\ producer = {}
    <3>1. forwarded = {} /\ producer = {}
      BY <1>1, Holding
    <3> QED BY <1>1, <3>1, CancelFacts DEF Emit
  <2> QED BY <2>1, EmitNothing
<1>2. CASE generation # 0
  <2>1. sent' = CancelAll(forwarded) /\ producer' = Through(producer, CancelAll(forwarded))
    BY <1>2 DEF Emit, Through
  <2>2. producer = forwarded /\ forwarded \subseteq 1..MaxContactId
    BY Holding DEF GestureTypes
  <2> QED BY <2>1, <2>2, CancelFacts DEF StreamStep
<1> QED BY <1>1, <1>2

\* The gesture after a report: nothing is forwarded.
LEMMA NothingForwarded ==
  ASSUME GestureOK, producer' = {}, forwarded' = {}, suppress_until_clear' \in BOOLEAN,
         suppress_until_clear' <=> active' # {},
         \/ cleanups' = cleanups /\ (suppress_until_clear => suppress_until_clear')
         \/ cleanups' = IF active' = {} THEN 0 ELSE cleanups
         \/ cleanups' = 0
  PROVE  GestureOK'
<1>1. Forwarding' => active' = {}
  BY DEF Forwarding
<1>2. cleanups' \in {0, 1} /\ (cleanups' = 1 => suppress_until_clear')
  BY DEF GestureOK
<1> QED BY <1>1, <1>2 DEF GestureOK

LEMMA StaleStep ==
  ASSUME TouchAssumption, SurfaceTypes, GestureTypes, GestureOK,
         NEW report \in Report, StaleReport(report)
  PROVE  /\ SurfaceTypes' /\ GestureTypes' /\ GestureOK' /\ StreamStep
         /\ active' = Through(active, report)
<1>1. PICK o : o = process(report, FALSE, FALSE)
  OBVIOUS
<1>2. active' = ActiveAfter(report) /\ active' = Through(active, report)
  BY DEF StaleReport, ProcessAndDetach, ActiveAfter, Through
<1>0. Decision(o, report, FALSE, FALSE)
  BY <1>1, Outcomes DEF GestureTypes
<1>3. /\ o.suppress \in BOOLEAN /\ ~o.cleanup /\ (o.suppress => active' # {})
      /\ o.cancel \cup CancelAll(o.forwarded) = CancelAll(forwarded)
  <2>1. /\ o.suppress \in BOOLEAN
        /\ \/ /\ suppress_until_clear /\ o.cancel = {} /\ ~o.cleanup
              /\ o.suppress <=> active' # {}
              /\ o.forwarded = IF o.suppress THEN forwarded ELSE {}
           \/ /\ ~suppress_until_clear /\ active' # {}
              /\ o.forwarded = {} /\ o.cancel = CancelAll(forwarded) /\ ~o.cleanup
           \/ /\ ~suppress_until_clear
              /\ o.forwarded = forwarded /\ ~o.suppress /\ o.cancel = {} /\ ~o.cleanup
    BY <1>0, <1>2 DEF Decision
  <2>2. suppress_until_clear => forwarded = {}
    BY Holding
  <2> QED BY <2>1, <2>2, CancelFacts
<1>4. Emit(CancelAll(forwarded)) /\ UNCHANGED surfaceVars
  BY <1>1, <1>3 DEF StaleReport
<1>5. /\ forwarded' = {} /\ suppress_until_clear' = (o.suppress \/ active' # {})
      /\ cleanups' = IF active' = {} THEN 0 ELSE cleanups + (IF o.cleanup THEN 1 ELSE 0)
  BY <1>1 DEF StaleReport, ProcessAndDetach, Suppressed, Count
<1>6. suppress_until_clear' \in BOOLEAN /\ (suppress_until_clear' <=> active' # {})
  BY <1>3, <1>5
<1>7. sent' \in Report /\ producer' = {} /\ StreamStep
  BY <1>4, EmitCancels
<1>8. cleanups' = IF active' = {} THEN 0 ELSE cleanups
  BY <1>3, <1>5 DEF GestureOK
<1>9. GestureOK'
  BY <1>5, <1>6, <1>7, <1>8, NothingForwarded
<1>10. active' \subseteq 1..MaxContactId
  BY <1>2, ThroughTypes DEF GestureTypes
<1>11. GestureTypes'
  BY <1>5, <1>6, <1>7, <1>10 DEF GestureTypes
<1>12. SurfaceTypes'
  BY <1>4 DEF SurfaceTypes, surfaceVars
<1> QED BY <1>2, <1>7, <1>9, <1>11, <1>12

LEMMA MenuStep ==
  ASSUME TouchAssumption, SurfaceTypes, GestureTypes, GestureOK, visible,
         NEW report \in Report, MenuReport(report)
  PROVE  /\ SurfaceTypes' /\ GestureTypes' /\ GestureOK' /\ StreamStep
         /\ active' = Through(active, report)
<1>1. PICK o : o = process(report, FALSE, FALSE)
  OBVIOUS
<1>2. active' = ActiveAfter(report) /\ active' = Through(active, report)
  BY DEF MenuReport, ProcessAndDetach, Process, ActiveAfter, Through
<1>3. forwarded = {} /\ producer = {}
  BY Holding
<1>0. Decision(o, report, FALSE, FALSE)
  BY <1>1, Outcomes DEF GestureTypes
<1>4. /\ o.suppress \in BOOLEAN /\ ~o.cleanup /\ (o.suppress => active' # {})
      /\ o.forwarded = {} /\ (suppress_until_clear /\ active' # {} => o.suppress)
  BY <1>0, <1>2, <1>3 DEF Decision
<1>5. sent' = {} /\ sent' \in Report /\ producer' = {} /\ StreamStep
  BY <1>3, EmitNothing DEF MenuReport
<1>6. active' \subseteq 1..MaxContactId
  BY <1>2, ThroughTypes DEF GestureTypes
<1>7. /\ generation' = generation
      /\ touch_forwarding_enabled' = touch_forwarding_enabled
  BY DEF MenuReport
<1>8. cleanups' = IF active' = {} THEN 0 ELSE cleanups
  <2>1. cleanups' = IF active' = {} THEN 0
                    ELSE cleanups + (IF o.cleanup THEN 1 ELSE 0)
    BY <1>1 DEF MenuReport, ProcessAndDetach, Process, Count
  <2> QED BY <1>4, <2>1 DEF GestureOK
<1>9. CASE ProcessAndDetach(o, report) /\ visible' \in BOOLEAN
  <2>1. forwarded' = {} /\ suppress_until_clear' = (o.suppress \/ active' # {})
    BY <1>9 DEF ProcessAndDetach, Suppressed
  <2>2. suppress_until_clear' \in BOOLEAN /\ (suppress_until_clear' <=> active' # {})
    BY <1>4, <2>1
  <2>3. GestureOK'
    BY <1>5, <1>8, <2>1, <2>2, NothingForwarded
  <2>4. GestureTypes'
    BY <1>5, <1>6, <2>1, <2>2 DEF GestureTypes
  <2>5. SurfaceTypes'
    BY <1>7, <1>9 DEF SurfaceTypes
  <2> QED BY <1>2, <1>5, <2>3, <2>4, <2>5
<1>10. CASE Process(o, report) /\ visible' = visible
  <2>1. forwarded' = {} /\ suppress_until_clear' = o.suppress
    BY <1>4, <1>10 DEF Process
  <2>2. GestureOK'
    BY <1>4, <1>5, <1>8, <1>10, <2>1 DEF GestureOK, Forwarding
  <2>3. GestureTypes'
    BY <1>4, <1>5, <1>6, <2>1 DEF GestureTypes
  <2>4. SurfaceTypes'
    BY <1>7, <1>10 DEF SurfaceTypes
  <2> QED BY <1>2, <1>5, <2>2, <2>3, <2>4
<1> QED BY <1>1, <1>9, <1>10 DEF MenuReport

LEMMA GestureStep ==
  ASSUME TouchAssumption, SurfaceTypes, GestureTypes, GestureOK, ~visible,
         NEW report \in Report, Fits(report, active), GestureReport(report)
  PROVE  /\ SurfaceTypes' /\ GestureTypes' /\ GestureOK' /\ StreamStep
         /\ active' = Through(active, report)
<1> DEFINE open == generation # 0
           on   == generation # 0 /\ touch_forwarding_enabled
<1>1. PICK o : o = process(report, on, open)
  OBVIOUS
<1>2. active' = ActiveAfter(report) /\ active' = Through(active, report)
  BY DEF GestureReport, Process, ActiveAfter, Through
<1>3. /\ forwarded' = o.forwarded /\ suppress_until_clear' = o.suppress
      /\ cleanups' = IF active' = {} THEN 0 ELSE cleanups + (IF o.cleanup THEN 1 ELSE 0)
      /\ Emit(o.cancel \cup o.forward) /\ UNCHANGED surfaceVars
  BY <1>1 DEF GestureReport, Process, Count
<1>4. on \in BOOLEAN /\ open \in BOOLEAN
  BY DEF SurfaceTypes
<1>5. SurfaceTypes' /\ (Forwarding' <=> on /\ ~suppress_until_clear')
  BY <1>3 DEF SurfaceTypes, surfaceVars, Forwarding
<1>6. Forwarding <=> on /\ ~suppress_until_clear
  BY DEF Forwarding
<1>7. active' \subseteq 1..MaxContactId
  BY <1>2, ThroughTypes DEF GestureTypes
<1> HIDE DEF on, open
<1>8. /\ o.suppress \in BOOLEAN
      /\ \/ /\ suppress_until_clear /\ o.forward = {} /\ o.cancel = {} /\ ~o.cleanup
            /\ o.suppress <=> active' # {}
            /\ o.forwarded = IF o.suppress THEN forwarded ELSE {}
         \/ /\ ~suppress_until_clear /\ active' # {}
            /\ o.forwarded = {} /\ o.suppress /\ o.forward = {}
            /\ o.cancel = CancelAll(forwarded) /\ o.cleanup \in BOOLEAN
         \/ /\ ~suppress_until_clear /\ ~on
            /\ o.forwarded = forwarded /\ ~o.suppress
            /\ o.forward = {} /\ o.cancel = {} /\ ~o.cleanup
         \/ /\ ~suppress_until_clear /\ on
            /\ o.forwarded = Through(forwarded, report) /\ ~o.suppress
            /\ o.forward = report /\ o.cancel = {} /\ ~o.cleanup
  <2>1. Decision(o, report, on, open)
    BY <1>1, <1>4, Outcomes DEF GestureTypes
  <2> QED BY <1>2, <2>1 DEF Decision
<1>9. suppress_until_clear => forwarded = {}
  BY Holding
<1>10. producer = forwarded
  BY Holding
<1>11. CASE o.forward = {} /\ o.cancel = {} /\ ~o.cleanup /\ o.forwarded = {}
            /\ forwarded = {} /\ (o.suppress => active' # {})
            /\ (suppress_until_clear /\ active' # {} => o.suppress)
            /\ (on => suppress_until_clear)
  <2>1. Emit({})
    BY <1>3, <1>11
  <2>2. sent' \in Report /\ producer' = {} /\ StreamStep
    BY <1>10, <1>11, <2>1, EmitNothing
  <2>3. GestureTypes'
    BY <1>3, <1>7, <1>8, <1>11, <2>2 DEF GestureTypes
  <2>4. cleanups' = IF active' = {} THEN 0 ELSE cleanups
    BY <1>3, <1>11 DEF GestureOK
  <2>5. Forwarding' => active' = {}
    BY <1>3, <1>5, <1>11
  <2>6. GestureOK'
    BY <1>3, <1>11, <2>2, <2>4, <2>5 DEF GestureOK
  <2> QED BY <1>2, <1>5, <2>2, <2>3, <2>6
<1>12. CASE ~suppress_until_clear /\ active' # {} /\ o.forwarded = {} /\ o.suppress
            /\ o.forward = {} /\ o.cancel = CancelAll(forwarded) /\ o.cleanup \in BOOLEAN
  <2>1. Emit(CancelAll(forwarded))
    BY <1>3, <1>12
  <2>2. sent' \in Report /\ producer' = {} /\ StreamStep
    BY <2>1, EmitCancels
  <2>3. GestureTypes'
    BY <1>3, <1>7, <1>8, <1>12, <2>2 DEF GestureTypes
  <2>4. cleanups = 0
    BY <1>12, Holding
  <2>5. cleanups' \in {0, 1}
    BY <1>3, <1>12, <2>4
  <2>6. GestureOK'
    BY <1>3, <1>5, <1>12, <2>2, <2>5 DEF GestureOK
  <2> QED BY <1>2, <1>5, <2>2, <2>3, <2>6
<1>13. CASE ~suppress_until_clear /\ on /\ o.forwarded = Through(forwarded, report)
            /\ ~o.suppress /\ o.forward = report /\ o.cancel = {} /\ ~o.cleanup
  <2>1. Emit(report) /\ forwarded = active
    BY <1>3, <1>6, <1>13 DEF GestureOK
  <2>2. generation # 0
    BY <1>13 DEF on
  <2>3. sent' = report /\ producer' = Through(producer, report)
    BY <2>1, <2>2 DEF Emit, Through
  <2>4. StreamStep
    BY <1>10, <2>1, <2>3 DEF Fits, StreamStep
  <2>5. producer' = active' /\ forwarded' = active'
    BY <1>2, <1>3, <1>10, <1>13, <2>1, <2>3
  <2>6. GestureTypes'
    BY <1>3, <1>7, <1>8, <2>3, <2>5 DEF GestureTypes
  <2>7. cleanups' = 0
    BY <1>3, <1>13, Holding
  <2>8. GestureOK'
    BY <1>3, <1>5, <1>13, <2>5, <2>7 DEF GestureOK
  <2> QED BY <1>2, <1>5, <2>4, <2>6, <2>8
<1>14. ~suppress_until_clear /\ ~on => forwarded = {}
  BY <1>6 DEF GestureOK
<1> QED BY <1>8, <1>9, <1>11, <1>12, <1>13, <1>14


--------------------------------------------------------------------------------
(* The steps.                                                               *)

\* Steps of the capture thread and of the queue leave the gesture alone.
LEMMA QuietStep ==
  ASSUME SurfaceTypes, GestureTypes, GestureOK, Quiet
  PROVE  SurfaceTypes' /\ GestureTypes' /\ GestureOK' /\ StreamStep /\ active' = active
<1>1. sent' = {} /\ sent' \in Report
  BY DEF Quiet, Report
<1>2. UNCHANGED <<surfaceVars, gestureVars, producer, cleanups>>
  BY DEF Quiet
<1>3. SurfaceTypes' /\ GestureTypes' /\ active' = active
  BY <1>1, <1>2 DEF SurfaceTypes, GestureTypes, surfaceVars, gestureVars
<1>4. GestureOK'
  BY <1>2 DEF GestureOK, Forwarding, surfaceVars, gestureVars
<1> QED BY <1>1, <1>3, <1>4 DEF StreamStep

\* What the parser knows of the reports on their way.
LEMMA Arrival ==
  ASSUME QueueTypes, ViewOK
  PROVE  \E view : /\ Joins(view, Size, Reports, active, Known)
                   /\ view[Size] \subseteq Known
                   /\ ~failed => Matches(view[Size])
<1>1. PICK view \in [0..Size -> SUBSET Known] :
        Joins(view, Size, Reports, active, Known) /\ Arrives(view)
  BY DEF ViewOK
<1>2. Size \in Nat
  BY QueueFacts
<1>3. view[Size] \subseteq Known
  BY <1>1, <1>2
<1> QED BY <1>1, <1>3 DEF Arrives

\* The packet of SYN_REPORT, from the slots it changes and its contact ids.
Delivery(changed, packet, id) ==
  LET count == Cardinality(Started(packet))
      IdOf(s) == IF s \in Started(packet) THEN id[s] ELSE slots[s].contact_id
  IN /\ ~failed /\ Deliverable(packet)
     /\ next_contact_id + count - 1 <= MaxContactId
     /\ touching' = TouchingAfter(packet)
     /\ next_contact_id' = next_contact_id + count
     /\ id \in [Started(packet) -> next_contact_id..next_contact_id + count - 1]
     /\ \A s, t \in Started(packet) : id[s] = id[t] => s = t
     /\ slots' = [s \in Slots |->
          IF s \in changed THEN SlotAfter(slots[s], packet[s], IdOf(s))
                           ELSE slots[s]]
     /\ Capture({Record(PhaseOf(slots[s], packet[s]), IdOf(s)) :
          s \in {t \in changed : PhaseOf(slots[t], packet[t]) # "None"}})
     /\ UNCHANGED batch /\ Quiet

LEMMA SynReport ==
  ASSUME TouchAssumption, TouchInv, SYN_REPORT
  PROVE  TouchInv' /\ StreamStep
<1> USE DEF TouchInv, Types
<1>1. PICK changed \in SUBSET Slots \ {{}} : \E packet \in [changed -> Packets] :
        \E id : Delivery(changed, packet, id)
  BY DEF SYN_REPORT, Delivery
<1>2. PICK packet \in [changed -> Packets] : \E id : Delivery(changed, packet, id)
  BY <1>1
<1>3. PICK id : Delivery(changed, packet, id)
  BY <1>2
<1>4. PICK count \in Nat : count = Cardinality(Started(packet))
  <2>1. Started(packet) \in SUBSET Slots
    BY DEF Started
  <2>2. IsFiniteSet(Started(packet))
    BY <2>1, FS_Subset DEF TouchAssumption
  <2> QED BY <2>2, FS_CardinalityType
<1>5. PICK next : next = next_contact_id + count
  OBVIOUS
<1>6. DOMAIN packet = changed
  OBVIOUS
<1>7. slots' = [s \in Slots |-> SlotIn(packet, id, s)]
  BY <1>3, <1>6 DEF SlotIn, IdIn, Delivery
<1>8. Capture(ReportOf(packet, id))
  BY <1>3, <1>6 DEF ReportOf, Said, PhaseIn, IdIn, Delivery
<1>9. Packet(packet, id, next)
  <2>1. next_contact_id \in Nat /\ MaxContactId \in Nat
    BY DEF KernelTypes, TouchAssumption
  <2>2. next \in next_contact_id..MaxContactId + 1
    BY <1>3, <1>4, <1>5, <2>1 DEF Delivery
  <2>3. \A s \in Started(packet) : id[s] \in next_contact_id..next - 1
    <3>1. next - 1 = next_contact_id + count - 1
      BY <1>5, <2>1
    <3> QED BY <1>3, <1>4, <3>1 DEF Delivery
  <2> QED BY <1>3, <1>6, <2>2, <2>3 DEF Packet, Delivery
<1>10. /\ touching' = TouchingAfter(packet) /\ next_contact_id' = next
      /\ ~failed /\ UNCHANGED batch /\ Quiet
  BY <1>3, <1>4, <1>5 DEF Delivery
<1>11. KernelTypes' /\ SlotsOK' /\ Known \subseteq Known'
  BY <1>7, <1>9, <1>10, PacketSlots
<1>12. PICK view : /\ Joins(view, Size, Reports, active, Known)
                   /\ view[Size] \subseteq Known
                   /\ ~failed => Matches(view[Size])
  BY Arrival
<1>13. PICK held : held = view[Size]
  OBVIOUS
<1>14. PICK report : report = ReportOf(packet, id)
  OBVIOUS
<1>15. PICK down : down = Through(held, report)
  OBVIOUS
<1>16. /\ Fits(report, held) /\ down \subseteq 1..next - 1 /\ report \in Report
  BY <1>9, <1>10, <1>12, <1>13, <1>14, <1>15, PacketFits
<1>17. Matches(down)'
  BY <1>7, <1>9, <1>10, <1>12, <1>13, <1>14, <1>15, PacketMatches
<1>18. down \subseteq Known'
  BY <1>10, <1>16 DEF Known
<1>19. SurfaceTypes' /\ GestureTypes' /\ GestureOK' /\ StreamStep /\ active' = active
  BY <1>10, QuietStep
<1>20. QueueTypes' /\ ViewOK' /\ FaultOK'
  BY <1>8, <1>10, <1>11, <1>12, <1>13, <1>14, <1>15, <1>16, <1>17, <1>18, <1>19, Captured
<1> QED BY <1>11, <1>19, <1>20

LEMMA SynDropped ==
  ASSUME TouchAssumption, TouchInv, SYN_DROPPED
  PROVE  TouchInv' /\ StreamStep
<1> USE DEF TouchInv, Types
<1>1. /\ ~failed /\ touching' \in SUBSET Slots
      /\ slots' = [s \in Slots |-> NoContact] /\ Capture(DroppedReport)
      /\ UNCHANGED <<next_contact_id, batch>> /\ Quiet
  BY DEF SYN_DROPPED
<1>2. NoContact \in SlotSet /\ NoContact.contact_id = 0 /\ ~NoContact.located
  BY DEF NoContact, SlotSet, TouchAssumption
<1>3. \A s \in Slots : slots'[s] = NoContact
  BY <1>1
<1>4. KernelTypes' /\ SlotsOK' /\ Known' = Known
  BY <1>1, <1>2, <1>3 DEF KernelTypes, SlotsOK, Known
<1>5. PICK view : /\ Joins(view, Size, Reports, active, Known)
                  /\ view[Size] \subseteq Known
                  /\ ~failed => Matches(view[Size])
  BY Arrival
<1>6. PICK held : held = view[Size]
  OBVIOUS
<1>7. PICK report : report = DroppedReport
  OBVIOUS
<1>8. \A r \in report : \E s \in Slots :
        /\ slots[s].located /\ r = Record("Cancel", slots[s].contact_id)
        /\ r.phase = "Cancel" /\ r.contact_id = slots[s].contact_id
  BY <1>7 DEF DroppedReport, Record
<1>9. \A s \in Slots : slots[s].contact_id \in held <=> slots[s].located
  BY <1>1, <1>5, <1>6 DEF Matches
<1>10. Fits(report, held)
  BY <1>8, <1>9 DEF Fits
<1>11. report \in Report
  <2>1. \A s \in Slots : slots[s].located => slots[s].contact_id \in 1..MaxContactId
    BY <1>5, <1>6, <1>9 DEF Known, KernelTypes, TouchAssumption
  <2> QED BY <1>8, <2>1 DEF Report, Record, Phase
<1>12. Pressed(report) = {}
  BY <1>8 DEF Pressed, Ids
<1>13. \A s \in Slots : slots[s].located => slots[s].contact_id \in Released(report)
  <2>1. \A s \in Slots : slots[s].located => Record("Cancel", slots[s].contact_id) \in report
    BY <1>7 DEF DroppedReport
  <2>2. \A c : Record("Cancel", c).phase = "Cancel" /\ Record("Cancel", c).contact_id = c
    BY DEF Record
  <2> QED BY <2>1, <2>2 DEF Released, Ids
<1>14. PICK down : down = Through(held, report)
  OBVIOUS
<1>15. \A c \in down : c \in held /\ c \notin Released(report)
  BY <1>12, <1>14 DEF Through
<1>16. down \subseteq Known'
  BY <1>4, <1>5, <1>6, <1>15
<1>17. Matches(down)'
  <2>1. 0 \notin Known
    BY DEF Known
  <2>2. 0 \notin down
    BY <1>4, <1>16, <2>1
  <2>3. "replace" \notin Packets => down = {}
    BY <1>1, <1>5, <1>6, <1>13, <1>15 DEF Matches
  <2> QED BY <1>2, <1>3, <2>2, <2>3 DEF Matches
<1>18. SurfaceTypes' /\ GestureTypes' /\ GestureOK' /\ StreamStep /\ active' = active
  BY <1>1, QuietStep
<1>19. QueueTypes' /\ ViewOK' /\ FaultOK'
  BY <1>1, <1>4, <1>5, <1>6, <1>7, <1>10, <1>11, <1>14, <1>16, <1>17, <1>18, Captured
<1> QED BY <1>4, <1>18, <1>19


LEMMA CaptureFailure ==
  ASSUME TouchAssumption, TouchInv, CaptureFails
  PROVE  TouchInv' /\ StreamStep
<1> USE DEF TouchInv, Types
<1>1. /\ ~failed /\ failed' = TRUE /\ queue' = Append(queue, Entry(Fault))
      /\ UNCHANGED <<kernelVars, batch>> /\ Quiet
  BY DEF CaptureFails
<1>2. SurfaceTypes' /\ GestureTypes' /\ GestureOK' /\ StreamStep /\ active' = active
  BY <1>1, QuietStep
<1>3. KernelTypes' /\ SlotsOK' /\ Known' = Known
  BY <1>1 DEF KernelTypes, SlotsOK, Known, kernelVars
<1>4. Fault \in Report
  BY DEF Fault, Report
<1>5. /\ Size' = Size + 1 /\ Len(queue') = Len(queue) + 1
      /\ queue' \in Seq(Entries) /\ batch' \in Seq(Entries)
      /\ \A k \in 1..Size : Reports'[k] = Reports[k]
      /\ Reports'[Size + 1] = Fault
  BY <1>1, <1>4, Pushed
<1>6. Size \in Nat /\ Len(queue) \in Nat
  BY QueueFacts
<1>7. QueueTypes'
  BY <1>1, <1>5, <1>6 DEF QueueTypes, TouchAssumption
<1>8. FaultOK'
  BY <1>1, <1>5, <1>6 DEF FaultOK
<1>9. PICK view : /\ Joins(view, Size, Reports, active, Known)
                  /\ view[Size] \subseteq Known
  BY Arrival
<1>10. Fits(Fault, view[Size]) /\ Through(view[Size], Fault) = view[Size]
  BY NothingSaid DEF Fault
<1>11. PICK longer : Joins(longer, Size + 1, Reports', active, Known)
  BY <1>5, <1>6, <1>9, <1>10, JoinsPush
<1>12. longer \in [0..Size + 1 -> SUBSET Known]
  BY <1>11 DEF Joins
<1>13. ViewOK'
  BY <1>1, <1>2, <1>3, <1>5, <1>11, <1>12 DEF ViewOK, Arrives
<1> QED BY <1>2, <1>3, <1>7, <1>8, <1>13

LEMMA DrainStep ==
  ASSUME TouchAssumption, TouchInv, Drain
  PROVE  TouchInv' /\ StreamStep
<1> USE DEF TouchInv, Types
<1>1. /\ batch = <<>> /\ batch' = queue /\ queue' = <<>>
      /\ UNCHANGED <<kernelVars, failed>> /\ Quiet
  BY DEF Drain
<1>2. SurfaceTypes' /\ GestureTypes' /\ GestureOK' /\ StreamStep /\ active' = active
  BY <1>1, QuietStep
<1>3. KernelTypes' /\ SlotsOK'
  BY <1>1 DEF KernelTypes, SlotsOK, Known, kernelVars
<1>4. /\ Size' = Size /\ \A k \in 1..Size : Reports'[k] = Reports[k]
      /\ queue' \in Seq(Entries) /\ Len(queue') = 0
  BY <1>1, Drained
<1>5. QueueTypes'
  BY <1>1, <1>4 DEF QueueTypes, TouchAssumption
<1>6. ViewOK' /\ FaultOK'
  BY <1>1, <1>2, <1>4, Unmoved
<1> QED BY <1>2, <1>3, <1>5, <1>6

LEMMA InputReports ==
  ASSUME TouchAssumption, TouchInv, input_reports
  PROVE  TouchInv' /\ StreamStep
<1> USE DEF TouchInv, Types
<1>1. PICK report : report = Head(batch).report
  OBVIOUS
<1>2. /\ batch # <<>> /\ batch' = Tail(batch) /\ UNCHANGED <<kernelVars, queue, failed>>
      /\ \/ report = Fault /\ FaultReport
         \/ report # Fault /\ StaleReport(report)
         \/ report # Fault /\ visible /\ MenuReport(report)
         \/ report # Fault /\ ~visible /\ GestureReport(report)
  BY <1>1 DEF input_reports
<1>3. KernelTypes' /\ SlotsOK'
  BY <1>2 DEF KernelTypes, SlotsOK, Known, kernelVars
<1>4. Size # 0 /\ report = Reports[1] /\ report \in Report
  BY <1>1, <1>2, Popped DEF Entries
<1>5. Fits(report, active)
  <2>1. PICK view : Joins(view, Size, Reports, active, Known)
    BY Arrival
  <2>2. 1 \in 1..Size
    BY <1>4, QueueFacts
  <2>3. view[0] = active /\ Fits(Reports[1], view[1 - 1])
    BY <2>1, <2>2 DEF Joins
  <2> QED BY <1>4, <2>3
<1>6. /\ SurfaceTypes' /\ GestureTypes' /\ GestureOK' /\ StreamStep
      /\ active' = IF report = Fault THEN {} ELSE Through(active, report)
  <2>1. CASE report = Fault /\ FaultReport
    <3>1. /\ active' = {} /\ forwarded' = {} /\ suppress_until_clear' = FALSE
          /\ Emit(CancelAll(forwarded)) /\ UNCHANGED surfaceVars
          /\ cleanups' = 0
      BY <2>1 DEF FaultReport, AfterFault, Count
    <3>2. sent' \in Report /\ producer' = {} /\ StreamStep
      BY <3>1, EmitCancels
    <3>3. GestureOK'
      BY <3>1, <3>2, NothingForwarded
    <3>4. GestureTypes' /\ SurfaceTypes'
      BY <3>1, <3>2 DEF GestureTypes, SurfaceTypes, surfaceVars
    <3> QED BY <2>1, <3>1, <3>2, <3>3, <3>4
  <2>2. CASE report # Fault /\ StaleReport(report)
    BY <1>4, <2>2, StaleStep
  <2>3. CASE report # Fault /\ visible /\ MenuReport(report)
    BY <1>4, <2>3, MenuStep
  <2>4. CASE report # Fault /\ ~visible /\ GestureReport(report)
    BY <1>4, <1>5, <2>4, GestureStep
  <2> QED BY <1>2, <2>1, <2>2, <2>3, <2>4
<1>7. QueueTypes' /\ ViewOK' /\ FaultOK'
  BY <1>1, <1>2, <1>6, Handled
<1> QED BY <1>3, <1>6, <1>7

LEMMA PowerKey ==
  ASSUME TouchAssumption, TouchInv, power_key_pressed
  PROVE  TouchInv' /\ StreamStep
<1> USE DEF TouchInv, Types
<1>1. /\ batch = <<>> /\ visible' = ~visible /\ forwarded' = {}
      /\ suppress_until_clear' = (suppress_until_clear \/ active # {})
      /\ Emit(CancelAll(forwarded))
      /\ UNCHANGED <<kernelVars, captureVars, generation, touch_forwarding_enabled,
                     active, cleanups>>
  BY DEF power_key_pressed, MenuCancels, Suppressed
<1>2. sent' \in Report /\ producer' = {} /\ StreamStep
  BY <1>1, EmitCancels
<1>3. suppress_until_clear' \in BOOLEAN /\ (suppress_until_clear' <=> active' # {})
      /\ (suppress_until_clear => suppress_until_clear')
  BY <1>1 DEF GestureTypes, GestureOK
<1>4. GestureOK'
  BY <1>1, <1>2, <1>3, NothingForwarded
<1>5. GestureTypes' /\ SurfaceTypes'
  BY <1>1, <1>2, <1>3 DEF GestureTypes, SurfaceTypes
<1>6. KernelTypes' /\ SlotsOK' /\ QueueTypes'
  BY <1>1 DEF KernelTypes, SlotsOK, Known, QueueTypes, kernelVars, captureVars
<1>7. Size' = Size /\ \A k \in 1..Size : Reports'[k] = Reports[k]
  BY <1>1 DEF Size, Reports, captureVars
<1>8. ViewOK' /\ FaultOK'
  BY <1>1, <1>7, Unmoved DEF captureVars
<1> QED BY <1>2, <1>4, <1>5, <1>6, <1>8

\* Without its surface the producer has no contact.
LEMMA Detached ==
  ASSUME GestureTypes, GestureOK, Detach
  PROVE  GestureTypes' /\ GestureOK' /\ StreamStep /\ visible' = FALSE /\ active' = active
<1>1. /\ forwarded' = {} /\ suppress_until_clear' = (suppress_until_clear \/ active # {})
      /\ visible' = FALSE /\ sent' = {} /\ producer' = {}
      /\ UNCHANGED <<active, cleanups>>
  BY DEF Detach, Suppressed
<1>2. suppress_until_clear' \in BOOLEAN /\ (suppress_until_clear' <=> active' # {})
      /\ (suppress_until_clear => suppress_until_clear')
  BY <1>1 DEF GestureTypes, GestureOK
<1>3. GestureOK'
  BY <1>1, <1>2, NothingForwarded
<1>4. GestureTypes'
  BY <1>1, <1>2 DEF GestureTypes, Report
<1> QED BY <1>1, <1>3, <1>4 DEF StreamStep

LEMMA OpenSurface ==
  ASSUME TouchAssumption, TouchInv, open_surface
  PROVE  TouchInv' /\ StreamStep
<1> USE DEF TouchInv, Types
<1>1. /\ generation < MaxGeneration /\ generation' = generation + 1
      /\ touch_forwarding_enabled' \in BOOLEAN /\ Detach
      /\ UNCHANGED <<kernelVars, batch, failed>>
  BY DEF open_surface
<1>2. PICK old \in 0..Len(queue) :
        queue' = [i \in DOMAIN queue |->
                    [queue[i] EXCEPT !.stale = queue[i].stale \/ i <= old]]
  BY DEF open_surface
<1>3. GestureTypes' /\ GestureOK' /\ StreamStep /\ visible' = FALSE /\ active' = active
  BY <1>1, Detached
<1>4. SurfaceTypes'
  <2>1. MaxGeneration \in Nat
    BY DEF TouchAssumption
  <2>2. generation' \in 0..MaxGeneration
    BY <1>1, <2>1 DEF SurfaceTypes
  <2> QED BY <1>1, <1>3, <2>2 DEF SurfaceTypes
<1>5. KernelTypes' /\ SlotsOK'
  BY <1>1 DEF KernelTypes, SlotsOK, Known, kernelVars
<1>6. /\ Size' = Size /\ \A k \in 1..Size : Reports'[k] = Reports[k]
      /\ queue' \in Seq(Entries) /\ Len(queue') = Len(queue)
  BY <1>1, <1>2, Divided
<1>7. QueueTypes'
  BY <1>1, <1>6 DEF QueueTypes
<1>8. ViewOK' /\ FaultOK'
  BY <1>1, <1>3, <1>6, Unmoved
<1> QED BY <1>3, <1>4, <1>5, <1>7, <1>8

LEMMA CloseSurface ==
  ASSUME TouchAssumption, TouchInv, close_surface
  PROVE  TouchInv' /\ StreamStep
<1> USE DEF TouchInv, Types
<1>1. /\ generation' = 0 /\ touch_forwarding_enabled' = FALSE /\ Detach
      /\ UNCHANGED <<kernelVars, captureVars>>
  BY DEF close_surface
<1>2. GestureTypes' /\ GestureOK' /\ StreamStep /\ visible' = FALSE /\ active' = active
  BY <1>1, Detached
<1>3. SurfaceTypes'
  <2>1. MaxGeneration \in Nat
    BY DEF TouchAssumption
  <2>2. generation' \in 0..MaxGeneration
    BY <1>1, <2>1
  <2> QED BY <1>1, <1>2, <2>2 DEF SurfaceTypes
<1>4. KernelTypes' /\ SlotsOK' /\ QueueTypes'
  BY <1>1 DEF KernelTypes, SlotsOK, Known, QueueTypes, kernelVars, captureVars
<1>5. Size' = Size /\ \A k \in 1..Size : Reports'[k] = Reports[k]
  BY <1>1 DEF Size, Reports, captureVars
<1>6. ViewOK' /\ FaultOK'
  BY <1>1, <1>2, <1>5, Unmoved DEF captureVars
<1> QED BY <1>2, <1>3, <1>4, <1>6

\* A session without surface, menu or contact.
NoSession ==
  /\ generation = 0 /\ touch_forwarding_enabled = FALSE /\ visible = FALSE
  /\ active = {} /\ forwarded = {} /\ suppress_until_clear = FALSE
  /\ sent = {} /\ producer = {} /\ cleanups = 0

\* Where nothing is on the way and no slot and no gesture holds a contact.
Blank ==
  /\ touching \subseteq Slots /\ next_contact_id \in 1..MaxContactId + 1
  /\ slots = [s \in Slots |-> NoContact] /\ queue = <<>> /\ batch = <<>>
  /\ failed \in BOOLEAN /\ NoSession

LEMMA BlankHolds == Blank => TouchInv
<1> SUFFICES ASSUME Blank
             PROVE  TouchInv
  OBVIOUS
<1> USE TouchAssumption DEF Blank
<1>1. /\ generation = 0 /\ touch_forwarding_enabled = FALSE /\ visible = FALSE
      /\ active = {} /\ forwarded = {} /\ suppress_until_clear = FALSE
      /\ sent = {} /\ producer = {} /\ cleanups = 0
  BY DEF NoSession
<1>2. NoContact \in SlotSet /\ NoContact.contact_id = 0 /\ ~NoContact.located
  BY DEF NoContact, SlotSet, TouchAssumption
<1>3. \A s \in Slots : slots[s] = NoContact
  OBVIOUS
<1>4. KernelTypes /\ SlotsOK
  BY <1>2, <1>3 DEF KernelTypes, SlotsOK
<1>5. QueueTypes
  BY DEF QueueTypes, TouchAssumption
<1>6. SurfaceTypes /\ GestureTypes
  <2>1. MaxGeneration \in Nat
    BY DEF TouchAssumption
  <2>2. generation \in 0..MaxGeneration
    BY <1>1, <2>1
  <2>4. SurfaceTypes
    BY <1>1, <2>2 DEF SurfaceTypes
  <2>3. GestureTypes
    BY <1>1 DEF GestureTypes, Report
  <2> QED BY <2>4, <2>3
<1>7. GestureOK
  BY <1>1 DEF GestureOK
<1>8. Size = 0
  BY DEF Size
<1>9. FaultOK
  BY <1>1, <1>8 DEF FaultOK
<1>10. PICK view \in [0..0 -> SUBSET Known] :
         Joins(view, 0, Reports, active, Known) /\ view[0] = active
  BY <1>1, JoinsNone
<1>11. Matches({})
  BY <1>2, <1>3 DEF Matches
<1>12. ViewOK
  BY <1>1, <1>8, <1>10, <1>11 DEF ViewOK, Arrives
<1> QED BY <1>4, <1>5, <1>6, <1>7, <1>9, <1>12 DEF TouchInv, Types

LEMMA BlankNext == Blank' => TouchInv'
<1>1. (Blank => TouchInv)'
  BY BlankHolds, PTL
<1> QED BY <1>1


LEMMA ReconnectStep ==
  ASSUME TouchAssumption, TouchInv, Reconnect
  PROVE  TouchInv' /\ StreamStep
<1>1. /\ queue' = <<>> /\ batch' = <<>> /\ slots' = [s \in Slots |-> NoContact]
      /\ UNCHANGED <<touching, next_contact_id, failed>> /\ sent' = {}
  BY DEF Reconnect, NewSession
<1>2. NoSession'
  BY DEF Reconnect, NewSession, NoSession
<1>3. touching' \subseteq Slots /\ next_contact_id' \in 1..MaxContactId + 1
      /\ failed' \in BOOLEAN
  BY <1>1 DEF TouchInv, Types, KernelTypes, QueueTypes
<1>4. TouchInv'
  BY <1>1, <1>2, <1>3, BlankNext DEF Blank
<1> QED BY <1>1, <1>4 DEF StreamStep

--------------------------------------------------------------------------------
(* The theorems.                                                            *)

\* TouchInv is inductive, and every step keeps the producer's stream.
LEMMA TouchInitially ==
  ASSUME TouchAssumption, TouchInit
  PROVE  TouchInv
<1>1. NoSession
  BY DEF TouchInit, NoSession
<1>2. touching \subseteq Slots /\ next_contact_id \in 1..MaxContactId + 1
      /\ failed \in BOOLEAN
  <2>1. MaxContactId \in Nat /\ next_contact_id = 1
    BY DEF TouchInit, TouchAssumption
  <2>2. next_contact_id \in 1..MaxContactId + 1
    BY <2>1
  <2> QED BY <2>2 DEF TouchInit
<1>3. slots = [s \in Slots |-> NoContact] /\ queue = <<>> /\ batch = <<>>
  BY DEF TouchInit
<1> QED BY <1>1, <1>2, <1>3, BlankHolds DEF Blank

LEMMA TouchSteps ==
  ASSUME TouchAssumption, TouchInv, TouchNext
  PROVE  TouchInv' /\ StreamStep
<1>1. CASE SYN_REPORT
  BY <1>1, SynReport
<1>2. CASE SYN_DROPPED
  BY <1>2, SynDropped
<1>3. CASE CaptureFails
  BY <1>3, CaptureFailure
<1>4. CASE Drain
  BY <1>4, DrainStep
<1>5. CASE input_reports
  BY <1>5, InputReports
<1>6. CASE power_key_pressed
  BY <1>6, PowerKey
<1>7. CASE open_surface
  BY <1>7, OpenSurface
<1>8. CASE close_surface
  BY <1>8, CloseSurface
<1>9. CASE Reconnect
  BY <1>9, ReconnectStep
<1> QED BY <1>1, <1>2, <1>3, <1>4, <1>5, <1>6, <1>7, <1>8, <1>9 DEF TouchNext

LEMMA TouchStutters ==
  ASSUME TouchInv, UNCHANGED touchVars
  PROVE  TouchInv'
<1>1. Size' = Size /\ Reports' = Reports /\ Known' = Known
  BY DEF Size, Reports, Known, touchVars, kernelVars, captureVars
<1>2. Types' /\ SlotsOK'
  BY <1>1 DEF TouchInv, Types, KernelTypes, QueueTypes, SurfaceTypes, GestureTypes,
              SlotsOK, touchVars, kernelVars, captureVars, surfaceVars, gestureVars,
              outputVars
<1>3. ViewOK' /\ FaultOK'
  <2>1. QueueTypes /\ ViewOK /\ FaultOK /\ UNCHANGED <<kernelVars, failed, active>>
    BY DEF TouchInv, Types, touchVars, captureVars, gestureVars
  <2> QED BY <1>1, <2>1, Unmoved
<1>4. GestureOK'
  BY DEF TouchInv, GestureOK, Forwarding, touchVars, surfaceVars, gestureVars, outputVars
<1> QED BY <1>2, <1>3, <1>4 DEF TouchInv

(* The invariant behind the theorems: the reports on their way lead from    *)
(* the contacts the gesture knows to those the parser's slots locate.       *)
THEOREM TouchInvariant == TouchSpec => []TouchInv
<1>1. TouchInit => TouchInv
  BY TouchAssumption, TouchInitially
<1>2. TouchInv /\ [TouchNext]_touchVars => TouchInv'
  BY TouchAssumption, TouchSteps, TouchStutters
<1> QED BY <1>1, <1>2, PTL DEF TouchSpec

(* Contact ids and generations stay in range and the queue never holds more *)
(* than CAPACITY reports and the reserved fault (TypeBParser, InputCapture, *)
(* FiveFingerCleanupGesture).                                               *)
THEOREM TouchTypes == TouchSpec => []TouchTypeOK
<1>1. TouchInv => TouchTypeOK
  <2> SUFFICES ASSUME TouchInv
               PROVE  TouchTypeOK
    OBVIOUS
  <2>1. /\ \A i \in DOMAIN queue : queue[i] \in [report : Report, stale : BOOLEAN]
        /\ \A i \in DOMAIN batch : batch[i] \in [report : Report, stale : BOOLEAN]
    BY QueueFacts DEF TouchInv, Types, Entries
  <2>2. cleanups \in Nat
    BY DEF TouchInv, GestureOK
  <2> QED BY <2>1, <2>2 DEF TouchInv, Types, TouchTypeOK, KernelTypes, QueueTypes,
                            SurfaceTypes, GestureTypes, SlotSet
<1> QED BY <1>1, TouchInvariant, PTL

(* A chord asks for one cleanup until all contacts are up, and from then on *)
(* the producer holds no contact of it, although the surface may be         *)
(* replaced or the menu opened in the middle (suppress_until_clear).        *)
THEOREM ChordCleans == TouchSpec => []ChordCleansOnce
<1>1. TouchInv => ChordCleansOnce
  <2> SUFFICES ASSUME TouchInv
               PROVE  ChordCleansOnce
    OBVIOUS
  <2>1. GestureOK /\ (suppress_until_clear => producer = {})
    BY Holding DEF TouchInv
  <2> QED BY <2>1 DEF GestureOK, ChordCleansOnce
<1> QED BY <1>1, TouchInvariant, PTL

(* When a driver releases a slot before it reuses it, then once the last    *)
(* finger has left, or the device has failed, and the reports are handled,  *)
(* the producer and the gesture hold no contact and suppress none.          *)
THEOREM QuietReleases ==
  ASSUME "replace" \notin Packets
  PROVE  TouchSpec => []QuietMeansReleased
<1>1. TouchInv => QuietMeansReleased
  <2> SUFFICES ASSUME TouchInv, touching = {} \/ failed, Underway = <<>>
               PROVE  producer = {} /\ active = {} /\ ~suppress_until_clear
    BY DEF QuietMeansReleased
  <2>1. Len(batch) = 0 /\ Len(queue) = 0
    BY QueueFacts DEF TouchInv, Types, QueueTypes, Underway
  <2>2. Size = 0
    BY <2>1 DEF Size
  <2>3. active = {}
    <3>1. CASE failed
      BY <2>2, <3>1 DEF TouchInv, FaultOK
    <3>2. CASE ~failed
      <4>1. PICK view : /\ Joins(view, Size, Reports, active, Known)
                        /\ Matches(view[Size])
        BY <3>2, Arrival DEF TouchInv, Types
      <4>2. view[0] = active /\ Matches(view[0])
        BY <2>2, <4>1 DEF Joins
      <4>3. \A c \in active : \E s \in Slots : slots[s].located
        BY <4>2 DEF Matches
      <4>4. \A s \in Slots : slots[s].located => s \in touching
        BY DEF TouchInv, SlotsOK, NoContact
      <4> QED BY <3>2, <4>3, <4>4
    <3> QED BY <3>1, <3>2
  <2>4. producer = {} /\ ~suppress_until_clear
    BY <2>3, Holding DEF TouchInv, GestureOK
  <2> QED BY <2>3, <2>4
<1> QED BY <1>1, TouchInvariant, PTL

(* On one surface the producer sees DOWN, then MOVEs, then one UP or CANCEL *)
(* for a contact, and nothing of a contact that was already down before the *)
(* surface, the menu or a chord took it over (pointer_batch).               *)
THEOREM ProducerStream == TouchSpec => PointerStream
<1>1. TouchInv /\ [TouchNext]_touchVars =>
        [\A r \in sent' : (r.phase = "Down") <=> (r.contact_id \notin producer)]_touchVars
  BY TouchAssumption, TouchSteps DEF StreamStep
<1> QED BY <1>1, TouchInvariant, PTL DEF TouchSpec, PointerStream
================================================================================
