----------------------------- MODULE PenInputProofs -----------------------------
(***************************************************************************)
(* Proofs about PenInput, for every queue capacity, setting of             *)
(* freeze_on_pen_down and bound on strokes and surfaces.                   *)
(*                                                                         *)
(* The digitizer judges a record by the pen it has seen, the session by    *)
(* what it has handled, several steps later.  The invariant joins the two  *)
(* by a trace: the pen after each report on its way, from the one the      *)
(* session is about to handle to the one the device saw last.  The         *)
(* session's filters are right about the pen at the start of the trace.    *)
(***************************************************************************)
EXTENDS PenInput, SequenceTheorems, TLAPS

--------------------------------------------------------------------------------
(* The inductive invariant.                                                 *)

Phases  == {"Down", "Move", "Up", "Hover", "Cancel"}
RecordSet == [phase : Phases, stroke : 0..MaxStroke]
Short   == {records \in Seq(RecordSet) : Len(records) <= 2}
Entries == [records : Short, stale : BOOLEAN, ink_stale : BOOLEAN]
Views   == {"away", "hover", "down"}

DeviceTypes ==
  /\ tool \in Tools /\ tip \in BOOLEAN
  /\ stroke \in Nat /\ stroke <= MaxStroke
  /\ last \in [eraser : BOOLEAN, touching : BOOLEAN, seen : BOOLEAN]

QueueTypes ==
  /\ queue \in Seq(Entries) /\ batch \in Seq(Entries) /\ failed \in BOOLEAN
  /\ Len(queue) <= CAPACITY + 1 /\ (~failed => Len(queue) <= CAPACITY)

SessionTypes ==
  /\ generation \in 0..MaxGeneration
  /\ surface \in BOOLEAN /\ pen_available \in BOOLEAN
  /\ pen_forwarding_enabled \in BOOLEAN /\ visible \in BOOLEAN
  /\ presented \in BOOLEAN /\ local_ink \in BOOLEAN /\ ink_paused \in BOOLEAN
  /\ physical_pen_in_proximity \in BOOLEAN

InkTypes ==
  /\ ink_frozen \in BOOLEAN /\ pen_needs_down \in BOOLEAN
  /\ ink_needs_down \in BOOLEAN /\ last_pen \in BOOLEAN
  /\ producer \in Views

Types == DeviceTypes /\ QueueTypes /\ SessionTypes /\ InkTypes

\* The entries on their way to the session, in order.
Size == Len(batch) + Len(queue)
Way ==
  [k \in 1..Size |-> IF k <= Len(batch) THEN batch[k] ELSE queue[k - Len(batch)]]

\* The pen as records tell it.
Pens(strokes) == [touching : BOOLEAN, seen : BOOLEAN, stroke : 0..strokes]
AfterRecord(pen, r) ==
  [touching |-> r.phase \in {"Down", "Move"}, seen |-> r.phase # "Cancel",
   stroke |-> r.stroke]
After(pen, records) == InOrder(AfterRecord, pen, records)

\* A record that can follow; an UP may come after the eraser was flipped.
Follows(pen, r) ==
  /\ r.phase = "Down" => ~pen.touching /\ r.stroke = pen.stroke + 1
  /\ r.phase # "Down" => r.stroke = pen.stroke
  /\ r.phase = "Move" => pen.touching
  /\ r.phase = "Hover" => ~pen.touching

Fits(pen, records) ==
  /\ Len(records) >= 1 => Follows(pen, records[1])
  /\ Len(records) >= 2 => Follows(AfterRecord(pen, records[1]), records[2])

\* A trace of n reports that starts with a pen.
Joins(trace, n, way, pen, strokes) ==
  /\ trace \in [0..n -> Pens(strokes)]
  /\ trace[0] = pen
  /\ \A k \in 1..n : /\ trace[k] = After(trace[k - 1], way[k].records)
                     /\ Fits(trace[k - 1], way[k].records)

\* The device's pen, which the trace reaches as long as nothing failed.
Device == [touching |-> last.touching, seen |-> last.seen, stroke |-> stroke]
Arrives(trace) == failed \/ trace[Size] = Device

TraceOK(pen) ==
  \E trace \in [0..Size -> Pens(stroke)] :
    Joins(trace, Size, Way, pen, stroke) /\ Arrives(trace)

\* What the filter for the producer knows of the pen.
PenGood(pen, forwarding, needs_down, view, last_accepted) ==
  /\ view \in Views
  /\ ~forwarding => view = "away"
  /\ forwarding => (needs_down <=> view # "down")
  /\ view # "away" => pen.seen /\ last_accepted
  /\ ~needs_down => pen.touching /\ last_accepted

\* What the ink knows of the pen: st is the state that InkStep transforms.
InkGood(pen, needs_down, last_accepted, st) ==
  /\ ~st.needs_down =>
       /\ ~needs_down /\ last_accepted /\ pen.stroke \in st.inked
       /\ freeze_on_pen_down /\ pen.stroke \in st.bound => st.frozen
  /\ st.point # 0 => ~st.needs_down /\ st.point = pen.stroke
  /\ \A s \in st.bound : s <= pen.stroke /\ s \in Nat
  /\ \A seg \in st.drawn :
       /\ seg[1] = seg[2] /\ seg[2] \in st.inked
       /\ freeze_on_pen_down /\ seg[2] \in st.bound => st.frozen

InkState(segments) ==
  [needs_down |-> ink_needs_down, frozen |-> ink_frozen, point |-> pen_point,
   drawn |-> segments, inked |-> inked, bound |-> bound]

SessionOK(pen) ==
  /\ PenGood(pen, pen_forwarding_enabled, pen_needs_down, producer, last_pen)
  /\ InkGood(pen, pen_needs_down, last_pen, InkState(drawn))
  /\ physical_pen_in_proximity => pen.seen

\* A contact is followed only on an open surface, with the pen listened to.
Scope ==
  /\ producer # "away" => surface /\ Listening
  /\ ~pen_needs_down => surface
  /\ ink_paused => ink_needs_down

\* Reports from before the surface, or before rearm_ink, are handled first, and
\* until then no contact is followed.
StaleOK ==
  /\ \A i, j \in 1..Size : i < j => /\ Way[j].stale => Way[i].stale
                                    /\ Way[j].ink_stale => Way[i].ink_stale
  /\ Size # 0 /\ Way[1].stale => pen_needs_down /\ producer = "away"
  /\ Size # 0 /\ Way[1].ink_stale => ink_needs_down

\* A fault is the last report of a failed device, and the pen is gone after it.
FaultOK ==
  /\ \A k \in 1..Size : Way[k].records = Fault => k = Size /\ failed
  /\ failed => IF Size = 0 THEN ~pen_available /\ ~physical_pen_in_proximity
                           ELSE Way[Size].records = Fault
  /\ ~last.seen => last = NoPen
  /\ tool = "none" => ~last.seen
  /\ ~pen_available => ~pen_forwarding_enabled

PenInv ==
  /\ Types /\ Scope /\ StaleOK /\ FaultOK
  /\ \E pen \in Pens(stroke) : TraceOK(pen) /\ SessionOK(pen)


--------------------------------------------------------------------------------
(* Traces.                                                                  *)

\* A report without records changes nothing.
LEMMA NothingSaid ==
  ASSUME NEW pen
  PROVE  After(pen, <<>>) = pen /\ Fits(pen, <<>>)
BY DEF After, InOrder, Fits

\* A trace follows the reports that do not change.
LEMMA JoinsSame ==
  ASSUME NEW trace, NEW n \in Nat, NEW way, NEW more, NEW pen, NEW strokes \in Nat,
         NEW above \in Nat, strokes <= above, Joins(trace, n, way, pen, strokes),
         \A k \in 1..n : more[k].records = way[k].records
  PROVE  Joins(trace, n, more, pen, above)
<1>1. Pens(strokes) \subseteq Pens(above)
  BY DEF Pens
<1>2. trace \in [0..n -> Pens(above)]
  BY <1>1 DEF Joins
<1> QED BY <1>2 DEF Joins

\* The trace of no report.
LEMMA JoinsNone ==
  ASSUME NEW way, NEW strokes, NEW pen \in Pens(strokes)
  PROVE  \E trace \in [0..0 -> Pens(strokes)] : /\ Joins(trace, 0, way, pen, strokes)
                                                /\ trace[0] = pen
<1> DEFINE trace == [k \in 0..0 |-> pen]
<1>1. trace \in [0..0 -> Pens(strokes)] /\ trace[0] = pen
  OBVIOUS
<1>2. Joins(trace, 0, way, pen, strokes)
  BY <1>1 DEF Joins
<1> QED BY <1>1, <1>2

\* A trace with a report more at the end, and one less at the start.
Longer(trace, n, records) ==
  [k \in 0..n + 1 |-> IF k <= n THEN trace[k] ELSE After(trace[n], records)]
Shorter(trace, n) == [k \in 0..n - 1 |-> trace[k + 1]]

Pushes(trace, n, m, way, more, pen, strokes, above, records) ==
  /\ n \in Nat /\ m = n + 1 /\ strokes \in Nat /\ above \in Nat /\ strokes <= above
  /\ Joins(trace, n, way, pen, strokes)
  /\ \A k \in 1..n : more[k].records = way[k].records
  /\ more[m].records = records
  /\ Fits(trace[n], records) /\ After(trace[n], records) \in Pens(above)

LEMMA JoinsPush ==
  ASSUME NEW trace, NEW n, NEW m, NEW way, NEW more, NEW pen, NEW strokes,
         NEW above, NEW records,
         Pushes(trace, n, m, way, more, pen, strokes, above, records)
  PROVE  /\ Joins(Longer(trace, n, records), m, more, pen, above)
         /\ Longer(trace, n, records)[m] = After(trace[n], records)
<1> DEFINE longer == Longer(trace, n, records)
<1> USE DEF Longer
<1>0. /\ n \in Nat /\ m = n + 1 /\ strokes \in Nat /\ above \in Nat /\ strokes <= above
      /\ Joins(trace, n, way, pen, strokes)
      /\ \A k \in 1..n : more[k].records = way[k].records
      /\ more[m].records = records
      /\ Fits(trace[n], records) /\ After(trace[n], records) \in Pens(above)
  BY DEF Pushes
<1>1. Joins(trace, n, more, pen, above)
  BY <1>0, JoinsSame
<1>2. longer \in [0..n + 1 -> Pens(above)]
  BY <1>0, <1>1 DEF Joins
<1>3. longer[0] = pen /\ longer[n + 1] = After(trace[n], records)
  BY <1>0 DEF Joins
<1>4. ASSUME NEW k \in 1..n + 1
      PROVE  /\ longer[k] = After(longer[k - 1], more[k].records)
             /\ Fits(longer[k - 1], more[k].records)
  <2>1. longer[k - 1] = trace[k - 1]
    BY <1>0
  <2>2. CASE k = n + 1
    BY <1>0, <1>3, <2>1, <2>2
  <2>3. CASE k # n + 1
    <3>1. k \in 1..n /\ longer[k] = trace[k]
      BY <1>0, <2>3
    <3> QED BY <1>1, <2>1, <3>1 DEF Joins
  <2> QED BY <2>2, <2>3
<1>5. Joins(longer, n + 1, more, pen, above)
  BY <1>0, <1>2, <1>3, <1>4 DEF Joins
<1> QED BY <1>0, <1>3, <1>5

LEMMA JoinsPop ==
  ASSUME NEW trace, NEW n \in Nat, n # 0, NEW way, NEW fewer, NEW pen,
         NEW strokes, Joins(trace, n, way, pen, strokes),
         \A k \in 1..n - 1 : fewer[k] = way[k + 1]
  PROVE  /\ Joins(Shorter(trace, n), n - 1, fewer, After(pen, way[1].records), strokes)
         /\ Shorter(trace, n)[n - 1] = trace[n]
<1> DEFINE shorter == Shorter(trace, n)
<1> USE DEF Shorter
<1>1. shorter \in [0..n - 1 -> Pens(strokes)] /\ shorter[n - 1] = trace[n]
  BY DEF Joins
<1>2. shorter[0] = After(pen, way[1].records)
  <2>1. shorter[0] = trace[1]
    OBVIOUS
  <2>2. trace[1] = After(trace[1 - 1], way[1].records) /\ trace[0] = pen
    BY DEF Joins
  <2> QED BY <2>1, <2>2
<1>3. ASSUME NEW k \in 1..n - 1
      PROVE  /\ shorter[k] = After(shorter[k - 1], fewer[k].records)
             /\ Fits(shorter[k - 1], fewer[k].records)
  <2>1. PICK j : j = k + 1
    OBVIOUS
  <2>2. j \in 1..n /\ j - 1 = k
    BY <2>1
  <2>3. trace[j] = After(trace[j - 1], way[j].records) /\ Fits(trace[j - 1], way[j].records)
    BY <2>2 DEF Joins
  <2>4. shorter[k] = trace[j] /\ shorter[k - 1] = trace[k] /\ fewer[k] = way[j]
    BY <2>1
  <2> QED BY <2>2, <2>3, <2>4
<1>4. Joins(shorter, n - 1, fewer, After(pen, way[1].records), strokes)
  BY <1>1, <1>2, <1>3 DEF Joins
<1> QED BY <1>1, <1>4

--------------------------------------------------------------------------------
(* The way of the reports.                                                  *)

LEMMA QueueFacts ==
  ASSUME QueueTypes
  PROVE  /\ Len(batch) \in Nat /\ Len(queue) \in Nat /\ Size \in Nat
         /\ \A i \in 1..Len(batch) : batch[i] \in Entries
         /\ \A i \in 1..Len(queue) : queue[i] \in Entries
         /\ DOMAIN queue = 1..Len(queue) /\ DOMAIN batch = 1..Len(batch)
         /\ DOMAIN Way = 1..Size
BY DEF QueueTypes, Size, Way

LEMMA Pushed ==
  ASSUME QueueTypes, NEW records \in Short, queue' = Append(queue, Entry(records)),
         UNCHANGED batch
  PROVE  /\ Size' = Size + 1 /\ Len(queue') = Len(queue) + 1
         /\ queue' \in Seq(Entries) /\ batch' \in Seq(Entries)
         /\ \A k \in 1..Size : Way'[k] = Way[k]
         /\ Way'[Size + 1] = Entry(records)
<1>1. Entry(records) \in Entries
  BY DEF Entry, Entries
<1>2. /\ Len(queue') = Len(queue) + 1 /\ queue' \in Seq(Entries)
      /\ \A i \in 1..Len(queue) : queue'[i] = queue[i]
      /\ queue'[Len(queue) + 1] = Entry(records)
  BY <1>1 DEF QueueTypes
<1>3. PICK b \in Nat, q \in Nat : b = Len(batch) /\ q = Len(queue)
  BY QueueFacts
<1>4. Size = b + q /\ Size' = b + q + 1
  BY <1>2, <1>3 DEF Size
<1>5. Way'[b + q + 1] = Entry(records)
  <2>1. Way'[b + q + 1] = IF b + q + 1 <= b THEN batch'[b + q + 1]
                          ELSE queue'[b + q + 1 - b]
    BY <1>3, <1>4 DEF Way
  <2>2. ~(b + q + 1 <= b) /\ b + q + 1 - b = q + 1
    BY <1>3
  <2> QED BY <1>2, <1>3, <2>1, <2>2
<1>6. ASSUME NEW k \in 1..Size
      PROVE  Way'[k] = Way[k]
  <2>1. k \in 1..Size'
    BY <1>3, <1>4
  <2>2. Way'[k] = IF k <= b THEN batch[k] ELSE queue'[k - b]
    BY <1>3, <2>1 DEF Way
  <2>3. Way[k] = IF k <= b THEN batch[k] ELSE queue[k - b]
    BY <1>3 DEF Way
  <2>4. ~(k <= b) => k - b \in 1..q
    BY <1>3, <1>4
  <2> QED BY <1>2, <1>3, <2>2, <2>3, <2>4
<1> QED BY <1>2, <1>3, <1>4, <1>5, <1>6 DEF QueueTypes

LEMMA Popped ==
  ASSUME QueueTypes, batch # <<>>, batch' = Tail(batch), UNCHANGED queue
  PROVE  /\ Size # 0 /\ Size' = Size - 1 /\ batch' \in Seq(Entries)
         /\ Head(batch) \in Entries /\ Head(batch) = Way[1]
         /\ \A k \in 1..Size - 1 : Way'[k] = Way[k + 1]
<1>1. PICK b \in Nat, q \in Nat : b = Len(batch) /\ q = Len(queue)
  BY QueueFacts
<1>2. /\ b # 0 /\ Len(batch') = b - 1 /\ Head(batch) = batch[1]
      /\ batch' \in Seq(Entries) /\ \A i \in 1..b - 1 : batch'[i] = batch[i + 1]
  BY <1>1 DEF QueueTypes
<1>3. Size = b + q /\ Size' = b - 1 + q
  BY <1>1, <1>2 DEF Size
<1>4. Way[1] = batch[1]
  BY <1>1, <1>2, <1>3 DEF Way
<1>5. ASSUME NEW k \in 1..Size - 1
      PROVE  Way'[k] = Way[k + 1]
  <2>1. PICK j : j = k + 1
    OBVIOUS
  <2>2. j \in 1..Size /\ k \in 1..Size'
    BY <1>1, <1>2, <1>3, <2>1
  <2>3. Way'[k] = IF k <= b - 1 THEN batch'[k] ELSE queue[k - (b - 1)]
    BY <1>1, <1>2, <2>2 DEF Way
  <2>4. Way[j] = IF j <= b THEN batch[j] ELSE queue[j - b]
    BY <1>1, <2>2 DEF Way
  <2>5. (k <= b - 1 <=> j <= b) /\ k - (b - 1) = j - b
    BY <1>1, <1>2, <1>3, <2>1
  <2>6. k <= b - 1 => batch'[k] = batch[j]
    BY <1>1, <1>2, <1>3, <2>1
  <2> QED BY <2>1, <2>3, <2>4, <2>5, <2>6
<1>6. Head(batch) \in Entries
  BY <1>1, <1>2, QueueFacts
<1> QED BY <1>1, <1>2, <1>3, <1>4, <1>5, <1>6

LEMMA Drained ==
  ASSUME QueueTypes, batch = <<>>, batch' = queue, queue' = <<>>
  PROVE  /\ Size' = Size /\ \A k \in 1..Size : Way'[k] = Way[k]
         /\ queue' \in Seq(Entries) /\ Len(queue') = 0
<1>1. PICK q \in Nat : q = Len(queue)
  BY QueueFacts
<1>2. Len(batch) = 0 /\ Len(queue') = 0 /\ Len(batch') = q
  BY <1>1
<1>3. Size = q /\ Size' = q
  BY <1>1, <1>2 DEF Size
<1>4. ASSUME NEW k \in 1..Size
      PROVE  Way'[k] = Way[k]
  <2>1. Way'[k] = IF k <= q THEN queue[k] ELSE queue'[k - q]
    BY <1>2, <1>3 DEF Way
  <2>2. Way[k] = IF k <= 0 THEN batch[k] ELSE queue[k - 0]
    BY <1>2, <1>3 DEF Way
  <2>3. k <= q /\ ~(k <= 0) /\ k - 0 = k
    BY <1>3
  <2> QED BY <2>1, <2>2, <2>3
<1> QED BY <1>2, <1>3, <1>4


\* A surface that starts divides the reports and moves none.
LEMMA Divided ==
  ASSUME QueueTypes, batch = <<>>, batch' = <<>>, NEW old \in Nat,
         queue' = [i \in DOMAIN queue |->
                     [queue[i] EXCEPT !.stale = queue[i].stale \/ i <= old]]
  PROVE  /\ Size' = Size /\ queue' \in Seq(Entries) /\ Len(queue') = Len(queue)
         /\ \A k \in 1..Size :
              /\ Way'[k].records = Way[k].records
              /\ Way'[k].ink_stale = Way[k].ink_stale
              /\ Way'[k].stale <=> Way[k].stale \/ k <= old
<1>1. PICK q \in Nat : q = Len(queue)
  BY QueueFacts
<1>2. DOMAIN queue = 1..q /\ Len(batch) = 0 /\ Len(batch') = 0
  BY <1>1, QueueFacts
<1>3. ASSUME NEW i \in 1..q
      PROVE  /\ queue'[i] \in Entries /\ queue'[i].records = queue[i].records
             /\ queue'[i].ink_stale = queue[i].ink_stale
             /\ queue'[i].stale <=> queue[i].stale \/ i <= old
  <2>1. queue[i] \in Entries
    BY <1>1, QueueFacts
  <2>2. PICK flag \in BOOLEAN : flag <=> queue[i].stale \/ i <= old
    OBVIOUS
  <2>3. queue'[i] = [queue[i] EXCEPT !.stale = flag]
    BY <1>2, <2>1, <2>2 DEF Entries
  <2> QED BY <2>1, <2>2, <2>3 DEF Entries
<1>4. queue' \in Seq(Entries) /\ Len(queue') = q
  <2>1. queue' \in [1..q -> Entries]
    BY <1>2, <1>3
  <2>2. queue' \in Seq(Entries)
    <3>1. [1..q -> Entries] \in {[1..n -> Entries] : n \in Nat}
      OBVIOUS
    <3> QED BY <2>1, <3>1, SeqDef
  <2>3. Len(queue') \in Nat /\ DOMAIN queue' = 1..Len(queue')
    BY <2>2
  <2>4. DOMAIN queue' = 1..q
    BY <2>1
  <2> QED BY <2>2, <2>3, <2>4
<1>5. Size = q /\ Size' = q
  BY <1>1, <1>2, <1>4 DEF Size
<1>6. ASSUME NEW k \in 1..Size
      PROVE  k \in 1..q /\ Way[k] = queue[k] /\ Way'[k] = queue'[k]
  <2>1. Way'[k] = IF k <= 0 THEN batch'[k] ELSE queue'[k - 0]
    BY <1>2, <1>5 DEF Way
  <2>2. Way[k] = IF k <= 0 THEN batch[k] ELSE queue[k - 0]
    BY <1>2, <1>5 DEF Way
  <2> QED BY <1>5, <2>1, <2>2
<1>7. ASSUME NEW k \in 1..Size
      PROVE  /\ Way'[k].records = Way[k].records
             /\ Way'[k].ink_stale = Way[k].ink_stale
             /\ Way'[k].stale <=> Way[k].stale \/ k <= old
  <2>1. k \in 1..q /\ Way[k] = queue[k] /\ Way'[k] = queue'[k]
    BY <1>6
  <2> QED BY <1>3, <2>1
<1> QED BY <1>1, <1>4, <1>5, <1>7

\* So does rearm_ink.
LEMMA Bounded ==
  ASSUME QueueTypes, batch = <<>>, batch' = <<>>, NEW old \in Nat,
         queue' = [i \in DOMAIN queue |->
                     [queue[i] EXCEPT !.ink_stale = queue[i].ink_stale \/ i <= old]]
  PROVE  /\ Size' = Size /\ queue' \in Seq(Entries) /\ Len(queue') = Len(queue)
         /\ \A k \in 1..Size :
              /\ Way'[k].records = Way[k].records
              /\ Way'[k].stale = Way[k].stale
              /\ Way'[k].ink_stale <=> Way[k].ink_stale \/ k <= old
<1>1. PICK q \in Nat : q = Len(queue)
  BY QueueFacts
<1>2. DOMAIN queue = 1..q /\ Len(batch) = 0 /\ Len(batch') = 0
  BY <1>1, QueueFacts
<1>3. ASSUME NEW i \in 1..q
      PROVE  /\ queue'[i] \in Entries /\ queue'[i].records = queue[i].records
             /\ queue'[i].stale = queue[i].stale
             /\ queue'[i].ink_stale <=> queue[i].ink_stale \/ i <= old
  <2>1. queue[i] \in Entries
    BY <1>1, QueueFacts
  <2>2. PICK flag \in BOOLEAN : flag <=> queue[i].ink_stale \/ i <= old
    OBVIOUS
  <2>3. queue'[i] = [queue[i] EXCEPT !.ink_stale = flag]
    BY <1>2, <2>1, <2>2 DEF Entries
  <2> QED BY <2>1, <2>2, <2>3 DEF Entries
<1>4. queue' \in Seq(Entries) /\ Len(queue') = q
  <2>1. queue' \in [1..q -> Entries]
    BY <1>2, <1>3
  <2>2. queue' \in Seq(Entries)
    <3>1. [1..q -> Entries] \in {[1..n -> Entries] : n \in Nat}
      OBVIOUS
    <3> QED BY <2>1, <3>1, SeqDef
  <2>3. Len(queue') \in Nat /\ DOMAIN queue' = 1..Len(queue')
    BY <2>2
  <2>4. DOMAIN queue' = 1..q
    BY <2>1
  <2> QED BY <2>2, <2>3, <2>4
<1>5. Size = q /\ Size' = q
  BY <1>1, <1>2, <1>4 DEF Size
<1>6. ASSUME NEW k \in 1..Size
      PROVE  k \in 1..q /\ Way[k] = queue[k] /\ Way'[k] = queue'[k]
  <2>1. Way'[k] = IF k <= 0 THEN batch'[k] ELSE queue'[k - 0]
    BY <1>2, <1>5 DEF Way
  <2>2. Way[k] = IF k <= 0 THEN batch[k] ELSE queue[k - 0]
    BY <1>2, <1>5 DEF Way
  <2> QED BY <1>5, <2>1, <2>2
<1>7. ASSUME NEW k \in 1..Size
      PROVE  /\ Way'[k].records = Way[k].records
             /\ Way'[k].stale = Way[k].stale
             /\ Way'[k].ink_stale <=> Way[k].ink_stale \/ k <= old
  <2>1. k \in 1..q /\ Way[k] = queue[k] /\ Way'[k] = queue'[k]
    BY <1>6
  <2> QED BY <1>3, <2>1
<1> QED BY <1>1, <1>4, <1>5, <1>7


--------------------------------------------------------------------------------
(* One record.                                                              *)

\* What NeedsDown and Withheld say of each phase.
LEMMA Phased ==
  ASSUME NEW needs \in BOOLEAN, NEW phase \in Phases
  PROVE  /\ NeedsDown(needs, phase) \in BOOLEAN
         /\ Withheld(needs, phase) <=> needs /\ phase \in {"Move", "Up"}
         /\ phase = "Down" => ~NeedsDown(needs, phase)
         /\ phase \in {"Up", "Cancel"} => NeedsDown(needs, phase)
         /\ phase \in {"Move", "Hover"} => (NeedsDown(needs, phase) <=> needs)
BY DEF NeedsDown, Withheld, Phases

\* The producer's view when a record is forwarded.
Forward(forwarding, view, r) == IF forwarding THEN Seen(view, r) ELSE view

LEMMA AcceptRecord ==
  ASSUME NEW strokes \in Nat, NEW pen \in Pens(strokes), NEW r \in RecordSet,
         Follows(pen, r), NEW forwarding \in BOOLEAN, NEW view,
         NEW st, st.needs_down \in BOOLEAN, st.last_pen \in BOOLEAN,
         PenGood(pen, forwarding, st.needs_down, view, st.last_pen)
  PROVE  /\ Accept(st, r).needs_down \in BOOLEAN /\ Accept(st, r).last_pen \in BOOLEAN
         /\ Withheld(st.needs_down, r.phase) =>
              /\ Accept(st, r) = st
              /\ PenGood(AfterRecord(pen, r), forwarding, st.needs_down, view, st.last_pen)
         /\ ~Withheld(st.needs_down, r.phase) =>
              /\ Accept(st, r).kept = Append(st.kept, r)
              /\ Accept(st, r).needs_down = NeedsDown(st.needs_down, r.phase)
              /\ Accept(st, r).last_pen = (r.phase # "Cancel")
              /\ PenGood(AfterRecord(pen, r), forwarding, Accept(st, r).needs_down,
                         Forward(forwarding, view, r), Accept(st, r).last_pen)
<1> DEFINE next == AfterRecord(pen, r)
           a == Accept(st, r)
<1>1. r.phase \in Phases /\ pen.touching \in BOOLEAN /\ pen.seen \in BOOLEAN
  BY DEF RecordSet, Pens
<1>2. /\ next.touching <=> r.phase \in {"Down", "Move"}
      /\ next.seen <=> r.phase # "Cancel"
  BY DEF AfterRecord
<1>3. CASE Withheld(st.needs_down, r.phase)
  <2>1. a = st
    BY <1>3 DEF Accept
  <2>2. st.needs_down /\ r.phase \in {"Move", "Up"}
    BY <1>3 DEF Withheld
  <2>3. next.seen
    BY <1>2, <2>2
  <2>4. PenGood(next, forwarding, st.needs_down, view, st.last_pen)
    BY <2>2, <2>3 DEF PenGood
  <2> QED BY <1>3, <2>1, <2>4
<1>4. CASE ~Withheld(st.needs_down, r.phase)
  <2> DEFINE cancelled == r.phase # "Cancel"
             needs == NeedsDown(st.needs_down, r.phase)
             seen  == Forward(forwarding, view, r)
  <2>1. a = [needs_down |-> needs, last_pen |-> cancelled, kept |-> Append(st.kept, r)]
    BY <1>4 DEF Accept
  <2>2. needs \in BOOLEAN
    BY <1>1, Phased
  <2>3. PenGood(next, forwarding, needs, seen, cancelled)
    <3>1. /\ view \in Views /\ (~forwarding => view = "away")
          /\ (forwarding => (st.needs_down <=> view # "down"))
          /\ (~st.needs_down => pen.touching)
      BY DEF PenGood
    <3>2. r.phase = "Down" => ~pen.touching
      BY DEF Follows
    <3>3. r.phase = "Hover" => ~pen.touching
      BY DEF Follows
    <3>4. r.phase \in {"Move", "Up"} => ~st.needs_down
      BY <1>4 DEF Withheld
    <3>5. CASE ~forwarding
      <4>1. seen = "away" /\ seen \in Views
        BY <3>1, <3>5 DEF Forward, Views
      <4>2. ~needs => next.touching /\ cancelled
        BY <1>1, <1>2, <3>1, <3>2, <3>3, <3>4, Phased DEF Phases
      <4> QED BY <3>5, <4>1, <4>2 DEF PenGood
    <3>6. CASE forwarding /\ r.phase = "Cancel"
      <4>1. seen = "away"
        BY <3>1, <3>6 DEF Forward, Seen, Views
      <4>2. needs
        BY <1>1, <3>6, Phased
      <4> QED BY <3>6, <4>1, <4>2 DEF PenGood, Views
    <3>7. CASE forwarding /\ r.phase = "Down"
      <4>1. view # "down"
        BY <3>1, <3>2, <3>7
      <4>2. seen = "down"
        BY <3>1, <3>7, <4>1 DEF Forward, Seen, Views
      <4>3. ~needs
        BY <1>1, <3>7, Phased
      <4>4. next.touching /\ next.seen /\ cancelled
        BY <1>2, <3>7
      <4> QED BY <3>7, <4>2, <4>3, <4>4 DEF PenGood, Views
    <3>8. CASE forwarding /\ r.phase = "Move"
      <4>1. view = "down" /\ ~st.needs_down
        BY <3>1, <3>4, <3>8
      <4>2. seen = "down"
        BY <3>8, <4>1 DEF Forward, Seen
      <4>3. ~needs
        BY <1>1, <3>8, <4>1, Phased
      <4>4. next.touching /\ next.seen /\ cancelled
        BY <1>2, <3>8
      <4> QED BY <3>8, <4>2, <4>3, <4>4 DEF PenGood, Views
    <3>9. CASE forwarding /\ r.phase = "Up"
      <4>1. view = "down"
        BY <3>1, <3>4, <3>9
      <4>2. seen = "hover"
        BY <3>9, <4>1 DEF Forward, Seen
      <4>3. needs
        BY <1>1, <3>9, Phased
      <4>4. next.seen /\ cancelled
        BY <1>2, <3>9
      <4> QED BY <3>9, <4>2, <4>3, <4>4 DEF PenGood, Views
    <3>10. CASE forwarding /\ r.phase = "Hover"
      <4>1. view # "down" /\ st.needs_down
        BY <3>1, <3>3, <3>10
      <4>2. seen = "hover"
        BY <3>1, <3>10, <4>1 DEF Forward, Seen, Views
      <4>3. needs
        BY <1>1, <3>10, <4>1, Phased
      <4>4. next.seen /\ cancelled
        BY <1>2, <3>10
      <4> QED BY <3>10, <4>2, <4>3, <4>4 DEF PenGood, Views
    <3> QED BY <1>1, <3>5, <3>6, <3>7, <3>8, <3>9, <3>10 DEF Phases
  <2>4. a.needs_down = needs /\ a.last_pen = cancelled /\ a.kept = Append(st.kept, r)
    BY <2>1
  <2>5. cancelled \in BOOLEAN
    OBVIOUS
  <2> HIDE DEF needs, seen, cancelled, next, a
  <2>6. /\ a.needs_down \in BOOLEAN /\ a.last_pen \in BOOLEAN
        /\ PenGood(next, forwarding, a.needs_down, seen, a.last_pen)
    BY <2>2, <2>3, <2>4, <2>5
  <2> QED BY <1>4, <2>4, <2>6 DEF needs, seen, cancelled, next, a
<1> QED BY <1>1, <1>3, <1>4


\* The ink after a record that the filter withheld: it follows no contact.
LEMMA InkWithheld ==
  ASSUME NEW strokes \in Nat, NEW pen \in Pens(strokes), NEW r \in RecordSet,
         Follows(pen, r), NEW needs_down, needs_down, NEW last_accepted, NEW st,
         r.phase # "Down", InkGood(pen, needs_down, last_accepted, st)
  PROVE  InkGood(AfterRecord(pen, r), needs_down, last_accepted, st)
BY DEF InkGood, AfterRecord, Follows

\* The ink after a record that was accepted and is drawn.
LEMMA InkRecord ==
  ASSUME NEW strokes \in Nat, NEW pen \in Pens(strokes), NEW r \in RecordSet,
         Follows(pen, r), NEW forwarding \in BOOLEAN, NEW view, NEW needs \in BOOLEAN,
         NEW accepted \in BOOLEAN, PenGood(pen, forwarding, needs, view, accepted),
         ~Withheld(needs, r.phase), local_ink \in BOOLEAN, presented \in BOOLEAN,
         freeze_on_pen_down \in BOOLEAN,
         NEW st, st.needs_down \in BOOLEAN, st.frozen \in BOOLEAN,
         InkGood(pen, needs, accepted, st)
  PROVE  /\ InkStep(st, r).needs_down \in BOOLEAN /\ InkStep(st, r).frozen \in BOOLEAN
         /\ InkGood(AfterRecord(pen, r), NeedsDown(needs, r.phase),
                    r.phase # "Cancel", InkStep(st, r))
<1> DEFINE next == AfterRecord(pen, r)
           new  == InkStep(st, r)
           needs2 == NeedsDown(needs, r.phase)
           held2  == r.phase # "Cancel"
<1>1. /\ r.phase \in Phases /\ r.stroke \in Nat /\ pen.stroke \in Nat
      /\ pen.touching \in BOOLEAN
  BY DEF RecordSet, Pens
<1>2. next.stroke = r.stroke
  BY DEF AfterRecord
<1>3. /\ ~st.needs_down => /\ ~needs /\ accepted /\ pen.stroke \in st.inked
                           /\ freeze_on_pen_down /\ pen.stroke \in st.bound => st.frozen
      /\ st.point # 0 => ~st.needs_down /\ st.point = pen.stroke
      /\ \A s \in st.bound : s <= pen.stroke /\ s \in Nat
      /\ \A seg \in st.drawn :
           /\ seg[1] = seg[2] /\ seg[2] \in st.inked
           /\ freeze_on_pen_down /\ seg[2] \in st.bound => st.frozen
  BY DEF InkGood
<1>4. ~needs => pen.touching
  BY DEF PenGood
<1>5. pen.stroke <= r.stroke
  BY <1>1 DEF Follows
<1>6. CASE Withheld(st.needs_down, r.phase)
  <2>1. new = st
    BY <1>6 DEF InkStep
  <2>2. st.needs_down
    BY <1>6 DEF Withheld
  <2>3. \A s \in st.bound : s <= r.stroke /\ s \in Nat
    BY <1>1, <1>3, <1>5
  <2>4. InkGood(next, needs2, held2, st)
    BY <1>2, <1>3, <2>2, <2>3 DEF InkGood
  <2> QED BY <2>1, <2>4
<1>7. CASE ~Withheld(st.needs_down, r.phase)
  <2> DEFINE draws == local_ink /\ presented /\ r.phase \in {"Down", "Move"}
             from  == IF st.point = 0 THEN r.stroke ELSE st.point
             down  == r.phase = "Down"
             frozen == st.frozen \/ Freezes(st, r)
             ink_needs == NeedsDown(st.needs_down, r.phase)
             point == IF draws THEN r.stroke ELSE 0
             segs  == IF draws THEN st.drawn \cup {<<from, r.stroke>>} ELSE st.drawn
             marks == IF down THEN st.inked \cup {r.stroke} ELSE st.inked
             ties  == IF down /\ local_ink /\ presented THEN st.bound \cup {r.stroke}
                                                        ELSE st.bound
  <2>1. new = [needs_down |-> ink_needs, frozen |-> frozen, point |-> point,
               drawn |-> segs, inked |-> marks, bound |-> ties]
    BY <1>7 DEF InkStep
  <2>2. ink_needs \in BOOLEAN /\ needs2 \in BOOLEAN
    BY <1>1, Phased
  <2>3. frozen \in BOOLEAN
    BY DEF Freezes
  <2>4. new.needs_down = ink_needs /\ new.frozen = frozen /\ new.point = point
        /\ new.drawn = segs /\ new.inked = marks /\ new.bound = ties
    BY <2>1
\* A contact that the ink follows is the record's, and so is the last point.
  <2>5. ~st.needs_down /\ r.phase \in {"Move"} => r.stroke = pen.stroke
    BY DEF Follows
  <2>6. r.phase = "Down" => st.needs_down /\ st.point = 0 /\ ~(r.stroke \in st.bound)
    <3>1. r.phase = "Down" => ~pen.touching /\ r.stroke = pen.stroke + 1
      BY DEF Follows
    <3>2. r.phase = "Down" => needs
      BY <1>4, <3>1
    <3>3. \A s \in st.bound : s <= pen.stroke /\ s \in Nat
      BY <1>3
    <3>4. r.phase = "Down" => ~(r.stroke \in st.bound)
      BY <1>1, <3>1, <3>3
    <3> QED BY <1>3, <3>2, <3>4
  <2>7. r.phase = "Move" => ~st.needs_down /\ r.stroke = pen.stroke
    BY <1>7, <2>5 DEF Withheld
  <2>8. r.phase = "Hover" => st.needs_down
    BY <1>3, <1>4 DEF Follows
  <2>9. draws => from = r.stroke
    BY <1>3, <2>6, <2>7
\* Frozen where it must be.
  <2>10. freeze_on_pen_down /\ down /\ local_ink /\ presented => frozen
    BY DEF Freezes
  <2>11. st.frozen => frozen
    OBVIOUS
  <2>12. ~ink_needs => /\ ~needs2 /\ held2 /\ r.stroke \in marks
                       /\ freeze_on_pen_down /\ r.stroke \in ties => frozen
    <3>1. CASE down
      <4>1. ~needs2 /\ held2 /\ r.stroke \in marks
        BY <1>1, <3>1, Phased
      <4>2. freeze_on_pen_down /\ r.stroke \in ties => frozen
        BY <2>6, <2>10, <3>1
      <4> QED BY <4>1, <4>2
    <3>2. CASE r.phase = "Move"
      <4>1. (ink_needs <=> st.needs_down) /\ (needs2 <=> needs)
        BY <1>1, <3>2, Phased
      <4>2. marks = st.inked /\ ties = st.bound /\ held2
        BY <3>2
      <4>3. ~st.needs_down /\ r.stroke = pen.stroke
        BY <2>7, <3>2
      <4> HIDE DEF marks, ties, held2, needs2, ink_needs, frozen
      <4> QED BY <1>3, <2>11, <4>1, <4>2, <4>3
    <3>3. CASE r.phase \in {"Up", "Cancel"}
      BY <1>1, <3>3, Phased
    <3>4. CASE r.phase = "Hover"
      BY <1>1, <2>8, <3>4, Phased
    <3> QED BY <1>1, <3>1, <3>2, <3>3, <3>4 DEF Phases
  <2>13. point # 0 => ~ink_needs /\ point = r.stroke
    <3>1. r.phase = "Down" => ~ink_needs
      BY <1>1, Phased
    <3>2. r.phase = "Move" => ~ink_needs
      BY <1>1, <2>7, Phased
    <3> QED BY <3>1, <3>2
  <2>14. \A s \in ties : s <= r.stroke /\ s \in Nat
    BY <1>1, <1>3, <1>5
  <2>15. ASSUME NEW seg \in segs
         PROVE  /\ seg[1] = seg[2] /\ seg[2] \in marks
                /\ freeze_on_pen_down /\ seg[2] \in ties => frozen
    <3>1. CASE seg \in st.drawn
      <4>1. seg[1] = seg[2] /\ seg[2] \in marks
        BY <1>3, <3>1
      <4>2. seg[2] \in ties => seg[2] \in st.bound \/ (down /\ local_ink /\ presented)
        OBVIOUS
      <4>3. freeze_on_pen_down /\ seg[2] \in ties => frozen
        BY <1>3, <2>10, <2>11, <3>1, <4>2
      <4> QED BY <4>1, <4>3
    <3>2. CASE draws /\ seg = <<from, r.stroke>>
      <4>1. seg[1] = r.stroke /\ seg[2] = r.stroke
        BY <2>9, <3>2
      <4>2. ~ink_needs
        BY <1>1, <2>7, <3>2, Phased
      <4> HIDE DEF marks, ties, frozen, ink_needs
      <4> QED BY <2>12, <4>1, <4>2
    <3> QED BY <3>1, <3>2
  <2> HIDE DEF new, next, needs2, held2, draws, frozen, ink_needs, point, segs, marks, ties
  <2>16. InkGood(next, needs2, held2, new)
    BY <1>2, <2>4, <2>12, <2>13, <2>14, <2>15 DEF InkGood
  <2>17. new.needs_down \in BOOLEAN /\ new.frozen \in BOOLEAN
    BY <2>2, <2>3, <2>4
  <2> QED BY <2>16, <2>17 DEF new, next, needs2, held2
<1> QED BY <1>6, <1>7


--------------------------------------------------------------------------------
(* One report: the filter, the producer and the ink, record by record.      *)

\* An ink that follows no contact stays as it is while the pen moves on.
LEMMA InkRests ==
  ASSUME NEW pen, NEW next, pen.stroke \in Nat, next.stroke \in Nat,
         pen.stroke <= next.stroke, NEW needs, NEW accepted, NEW needs2, NEW accepted2,
         NEW st, st.needs_down, InkGood(pen, needs, accepted, st)
  PROVE  InkGood(next, needs2, accepted2, st)
<1>1. \A s \in st.bound : s <= next.stroke /\ s \in Nat
  BY DEF InkGood
<1>2. st.point = 0
  BY DEF InkGood
<1>3. \A seg \in st.drawn :
        /\ seg[1] = seg[2] /\ seg[2] \in st.inked
        /\ freeze_on_pen_down /\ seg[2] \in st.bound => st.frozen
  BY DEF InkGood
<1> QED BY <1>1, <1>2, <1>3 DEF InkGood

\* The three together: acc that Accept transforms, view that Seen transforms and
\* ink that InkStep transforms.
Together(g, r) ==
  IF Withheld(g.acc.needs_down, r.phase) THEN g
  ELSE [acc |-> Accept(g.acc, r), view |-> Forward(pen_forwarding_enabled, g.view, r),
        ink |-> InkStep(g.ink, r)]

Good(pen, g) ==
  /\ g.acc.needs_down \in BOOLEAN /\ g.acc.last_pen \in BOOLEAN
  /\ g.ink.needs_down \in BOOLEAN /\ g.ink.frozen \in BOOLEAN
  /\ PenGood(pen, pen_forwarding_enabled, g.acc.needs_down, g.view, g.acc.last_pen)
  /\ InkGood(pen, g.acc.needs_down, g.acc.last_pen, g.ink)

LEMMA TogetherGood ==
  ASSUME Types, NEW pen \in Pens(MaxStroke), NEW r \in RecordSet,
         Follows(pen, r), NEW g, Good(pen, g)
  PROVE  /\ Good(AfterRecord(pen, r), Together(g, r))
         /\ AfterRecord(pen, r) \in Pens(MaxStroke)
         /\ pen.stroke <= AfterRecord(pen, r).stroke
<1> DEFINE next == AfterRecord(pen, r)
<1>0. PICK acc : acc = g.acc
  OBVIOUS
<1>1. /\ pen_forwarding_enabled \in BOOLEAN /\ local_ink \in BOOLEAN
      /\ presented \in BOOLEAN
  BY DEF Types, SessionTypes
<1>2. freeze_on_pen_down \in BOOLEAN /\ MaxStroke \in Nat
  BY PenAssumption
<1>3. /\ acc.needs_down \in BOOLEAN /\ acc.last_pen \in BOOLEAN
      /\ g.ink.needs_down \in BOOLEAN /\ g.ink.frozen \in BOOLEAN
      /\ PenGood(pen, pen_forwarding_enabled, acc.needs_down, g.view, acc.last_pen)
      /\ InkGood(pen, acc.needs_down, acc.last_pen, g.ink)
  BY <1>0 DEF Good
<1>4. next \in Pens(MaxStroke) /\ pen.stroke <= next.stroke
  <2>1. r.stroke \in 0..MaxStroke /\ pen.stroke \in 0..MaxStroke /\ r.phase \in Phases
    BY DEF RecordSet, Pens
  <2>2. (r.phase \in {"Down", "Move"}) \in BOOLEAN /\ (r.phase # "Cancel") \in BOOLEAN
    OBVIOUS
  <2>3. next \in Pens(MaxStroke)
    BY <2>1, <2>2 DEF AfterRecord, Pens
  <2>4. pen.stroke <= next.stroke
    BY <1>2, <2>1 DEF AfterRecord, Follows
  <2> QED BY <2>3, <2>4
<1>5. /\ Accept(acc, r).needs_down \in BOOLEAN /\ Accept(acc, r).last_pen \in BOOLEAN
      /\ Withheld(acc.needs_down, r.phase) =>
           PenGood(next, pen_forwarding_enabled, acc.needs_down, g.view, acc.last_pen)
      /\ ~Withheld(acc.needs_down, r.phase) =>
           /\ Accept(acc, r).needs_down = NeedsDown(acc.needs_down, r.phase)
           /\ Accept(acc, r).last_pen = (r.phase # "Cancel")
           /\ PenGood(next, pen_forwarding_enabled, Accept(acc, r).needs_down,
                      Forward(pen_forwarding_enabled, g.view, r), Accept(acc, r).last_pen)
  BY <1>1, <1>2, <1>3, AcceptRecord
<1>6. CASE Withheld(acc.needs_down, r.phase)
  <2>1. Together(g, r) = g
    BY <1>0, <1>6 DEF Together
  <2>2. acc.needs_down /\ r.phase # "Down"
    BY <1>6 DEF Withheld
  <2>3. InkGood(next, acc.needs_down, acc.last_pen, g.ink)
    BY <1>2, <1>3, <2>2, InkWithheld
  <2>4. PenGood(next, pen_forwarding_enabled, acc.needs_down, g.view, acc.last_pen)
    BY <1>5, <1>6
  <2>5. Good(next, g)
    BY <1>0, <1>3, <2>3, <2>4 DEF Good
  <2> QED BY <1>4, <2>1, <2>5
<1>7. CASE ~Withheld(acc.needs_down, r.phase)
  <2> DEFINE a == Accept(acc, r)
             v == Forward(pen_forwarding_enabled, g.view, r)
             i == InkStep(g.ink, r)
  <2>1. Together(g, r) = [acc |-> a, view |-> v, ink |-> i]
    BY <1>0, <1>7 DEF Together
  <2>2. i.needs_down \in BOOLEAN /\ i.frozen \in BOOLEAN
        /\ InkGood(next, NeedsDown(acc.needs_down, r.phase), r.phase # "Cancel", i)
    BY <1>1, <1>2, <1>3, <1>7, InkRecord
  <2>3. /\ a.needs_down \in BOOLEAN /\ a.last_pen \in BOOLEAN
        /\ a.needs_down = NeedsDown(acc.needs_down, r.phase)
        /\ a.last_pen = (r.phase # "Cancel")
        /\ PenGood(next, pen_forwarding_enabled, a.needs_down, v, a.last_pen)
    BY <1>5, <1>7
  <2> HIDE DEF a, v, i, next
  <2>4. InkGood(next, a.needs_down, a.last_pen, i)
    BY <2>2, <2>3
  <2>5. Good(next, [acc |-> a, view |-> v, ink |-> i])
    BY <2>2, <2>3, <2>4 DEF Good
  <2> QED BY <1>4, <2>1, <2>5 DEF next
<1> QED BY <1>6, <1>7

LEMMA ShortFacts ==
  ASSUME NEW records \in Short
  PROVE  /\ Len(records) \in {0, 1, 2}
         /\ Len(records) = 0 <=> records = <<>>
         /\ Len(records) >= 1 => records[1] \in RecordSet
         /\ Len(records) >= 2 => records[2] \in RecordSet
<1>1. records \in Seq(RecordSet) /\ Len(records) <= 2
  BY DEF Short
<1>2. Len(records) \in Nat /\ (Len(records) = 0 <=> records = <<>>)
  BY <1>1, EmptySeq
<1>3. \A i \in 1..Len(records) : records[i] \in RecordSet
  BY <1>1, ElementOfSeq
<1>4. PICK n \in Nat : n = Len(records)
  BY <1>2
<1>5. n \in {0, 1, 2} /\ (n >= 1 => 1 \in 1..n) /\ (n >= 2 => 2 \in 1..n)
  BY <1>1, <1>4
<1> QED BY <1>2, <1>3, <1>4, <1>5

\* A report of at most two records.
LEMMA ReportGood ==
  ASSUME Types, NEW pen \in Pens(MaxStroke), NEW records \in Short,
         Fits(pen, records), NEW g, Good(pen, g)
  PROVE  /\ Good(After(pen, records), InOrder(Together, g, records))
         /\ After(pen, records) \in Pens(MaxStroke)
         /\ pen.stroke <= After(pen, records).stroke
<1>0. /\ Len(records) \in {0, 1, 2} /\ (Len(records) = 0 <=> records = <<>>)
      /\ Len(records) >= 1 => records[1] \in RecordSet
      /\ Len(records) >= 2 => records[2] \in RecordSet
  BY ShortFacts
<1>1. CASE Len(records) = 0
  <2>1. records = <<>>
    BY <1>0, <1>1
  <2>2. After(pen, records) = pen /\ InOrder(Together, g, records) = g
    BY <2>1 DEF After, InOrder
  <2>3. pen.stroke <= pen.stroke
    BY PenAssumption DEF Pens
  <2> QED BY <2>2, <2>3
<1>2. CASE Len(records) = 1
  <2>1. records[1] \in RecordSet /\ records # <<>>
    BY <1>0, <1>2
  <2>2. Follows(pen, records[1])
    BY <1>2 DEF Fits
  <2>3. /\ After(pen, records) = AfterRecord(pen, records[1])
        /\ InOrder(Together, g, records) = Together(g, records[1])
    BY <1>2, <2>1 DEF After, InOrder
  <2> QED BY <2>1, <2>2, <2>3, TogetherGood
<1>3. CASE Len(records) = 2
  <2>1. records[1] \in RecordSet /\ records[2] \in RecordSet /\ records # <<>>
    BY <1>0, <1>3
  <2>2. Follows(pen, records[1]) /\ Follows(AfterRecord(pen, records[1]), records[2])
    BY <1>3 DEF Fits
  <2>3. /\ After(pen, records) = AfterRecord(AfterRecord(pen, records[1]), records[2])
        /\ InOrder(Together, g, records) = Together(Together(g, records[1]), records[2])
    BY <1>3, <2>1 DEF After, InOrder
  <2>4. PICK mid : mid = AfterRecord(pen, records[1])
    OBVIOUS
  <2>5. PICK h : h = Together(g, records[1])
    OBVIOUS
  <2>6. Good(mid, h) /\ mid \in Pens(MaxStroke) /\ pen.stroke <= mid.stroke
    BY <2>1, <2>2, <2>4, <2>5, TogetherGood
  <2>7. /\ Good(AfterRecord(mid, records[2]), Together(h, records[2]))
        /\ AfterRecord(mid, records[2]) \in Pens(MaxStroke)
        /\ mid.stroke <= AfterRecord(mid, records[2]).stroke
    BY <2>1, <2>2, <2>4, <2>6, TogetherGood
  <2>8. pen.stroke <= AfterRecord(mid, records[2]).stroke
    <3>1. PICK later : later = AfterRecord(mid, records[2])
      OBVIOUS
    <3>2. pen.stroke \in Int /\ mid.stroke \in Int /\ later.stroke \in Int
      BY <2>6, <2>7, <3>1, PenAssumption DEF Pens
    <3> QED BY <2>6, <2>7, <3>1, <3>2
  <2> QED BY <2>3, <2>4, <2>5, <2>7, <2>8
<1> QED BY <1>0, <1>1, <1>2, <1>3


LEMMA AcceptShape ==
  ASSUME NEW st, NEW r
  PROVE  /\ Withheld(st.needs_down, r.phase) => Accept(st, r) = st
         /\ ~Withheld(st.needs_down, r.phase) => Accept(st, r).kept = Append(st.kept, r)
BY DEF Accept

\* What is forwarded, and drawn, is what the filter kept.
LEMMA KeptInOrder ==
  ASSUME NEW records \in Short, NEW g, g.acc.kept = <<>>
  PROVE  LET h == InOrder(Together, g, records)
         IN /\ h.acc = InOrder(Accept, g.acc, records)
            /\ h.view = IF pen_forwarding_enabled
                          THEN InOrder(Seen, g.view, h.acc.kept) ELSE g.view
            /\ h.ink = InOrder(InkStep, g.ink, h.acc.kept)
<1>0. Len(records) \in {0, 1, 2} /\ (Len(records) = 0 <=> records = <<>>)
  BY ShortFacts
<1> DEFINE Follow(h) ==
      /\ h.view = IF pen_forwarding_enabled
                    THEN InOrder(Seen, g.view, h.acc.kept) ELSE g.view
      /\ h.ink = InOrder(InkStep, g.ink, h.acc.kept)
<1>1. Follow(g)
  BY DEF InOrder
<1>2. ASSUME NEW r
      PROVE  LET h == Together(g, r)
             IN /\ h.acc = Accept(g.acc, r) /\ Follow(h)
                /\ h.acc.kept = <<>> \/ h.acc.kept = <<r>>
                /\ h.acc.kept = <<>> => h = g
                /\ h.acc.kept = <<r>> =>
                     /\ h.view = Forward(pen_forwarding_enabled, g.view, r)
                     /\ h.ink = InkStep(g.ink, r)
  <2>1. CASE Withheld(g.acc.needs_down, r.phase)
    <3>1. Together(g, r) = g /\ Accept(g.acc, r) = g.acc
      BY <2>1, AcceptShape DEF Together
    <3>2. <<>> # <<r>>
      OBVIOUS
    <3> QED BY <1>1, <3>1, <3>2
  <2>2. CASE ~Withheld(g.acc.needs_down, r.phase)
    <3>1. PICK h : h = Together(g, r)
      OBVIOUS
    <3>2. /\ h.acc = Accept(g.acc, r)
          /\ h.view = Forward(pen_forwarding_enabled, g.view, r)
          /\ h.ink = InkStep(g.ink, r)
      BY <2>2, <3>1 DEF Together
    <3>3. h.acc.kept = Append(<<>>, r)
      BY <2>2, <3>2, AcceptShape
    <3>4. Append(<<>>, r) = <<r>> /\ <<r>> # <<>> /\ Len(<<r>>) = 1 /\ <<r>>[1] = r
      OBVIOUS
    <3>5. /\ InOrder(Seen, g.view, <<r>>) = Seen(g.view, r)
          /\ InOrder(InkStep, g.ink, <<r>>) = InkStep(g.ink, r)
      BY <3>4 DEF InOrder
    <3> QED BY <3>1, <3>2, <3>3, <3>4, <3>5 DEF Forward
  <2> QED BY <2>1, <2>2
<1>3. CASE Len(records) = 0
  <2>1. records = <<>>
    BY <1>0, <1>3
  <2> QED BY <1>1, <2>1 DEF InOrder
<1>4. CASE Len(records) = 1
  <2>1. records # <<>>
    BY <1>0, <1>4
  <2>2. /\ InOrder(Together, g, records) = Together(g, records[1])
        /\ InOrder(Accept, g.acc, records) = Accept(g.acc, records[1])
    BY <1>4, <2>1 DEF InOrder
  <2> QED BY <1>2, <2>2
<1>5. CASE Len(records) = 2
  <2>1. records # <<>>
    BY <1>0, <1>5
  <2>2. PICK r : r = records[1]
    OBVIOUS
  <2>3. PICK s : s = records[2]
    OBVIOUS
  <2>4. PICK h : h = Together(g, r)
    OBVIOUS
  <2>5. PICK k : k = Together(h, s)
    OBVIOUS
  <2>6. /\ h.acc = Accept(g.acc, r) /\ Follow(h)
        /\ h.acc.kept = <<>> \/ h.acc.kept = <<r>>
        /\ h.acc.kept = <<>> => h = g
        /\ h.acc.kept = <<r>> =>
             /\ h.view = Forward(pen_forwarding_enabled, g.view, r)
             /\ h.ink = InkStep(g.ink, r)
    BY <1>2, <2>4
  <2>7. /\ InOrder(Together, g, records) = k
        /\ InOrder(Accept, g.acc, records) = Accept(h.acc, s)
    BY <1>5, <2>1, <2>2, <2>3, <2>4, <2>5, <2>6 DEF InOrder
  <2>8. k.acc = Accept(h.acc, s) /\ Follow(k)
    <3>1. CASE Withheld(h.acc.needs_down, s.phase)
      <4>1. k = h /\ Accept(h.acc, s) = h.acc
        BY <2>5, <3>1, AcceptShape DEF Together
      <4> QED BY <2>6, <4>1
    <3>2. CASE ~Withheld(h.acc.needs_down, s.phase)
      <4>1. /\ k.acc = Accept(h.acc, s)
            /\ k.view = Forward(pen_forwarding_enabled, h.view, s)
            /\ k.ink = InkStep(h.ink, s)
        BY <2>5, <3>2 DEF Together
      <4>2. k.acc.kept = Append(h.acc.kept, s)
        BY <3>2, <4>1, AcceptShape
      <4>3. CASE h.acc.kept = <<>>
        <5>1. k = Together(g, s)
          BY <2>5, <2>6, <4>3
        <5> HIDE DEF Follow
        <5> QED BY <1>2, <4>1, <5>1
      <4>4. CASE h.acc.kept = <<r>>
        <5>1. PICK both : both = k.acc.kept
          OBVIOUS
        <5>2. both # <<>> /\ Len(both) = 2 /\ both[1] = r /\ both[2] = s
          <6>1. both = Append(<<r>>, s)
            BY <4>2, <4>4, <5>1
          <6>2. <<r>> \in Seq({r, s}) /\ Len(<<r>>) = 1 /\ <<r>>[1] = r
            OBVIOUS
          <6>3. both # <<>> /\ Len(both) = 2 /\ both[1] = r /\ both[2] = s
            BY <6>1, <6>2, AppendProperties
          <6> QED BY <6>3
        <5>3. /\ InOrder(Seen, g.view, both) = Seen(Seen(g.view, r), s)
              /\ InOrder(InkStep, g.ink, both) = InkStep(InkStep(g.ink, r), s)
          BY <5>2 DEF InOrder
        <5>4. /\ h.view = IF pen_forwarding_enabled THEN Seen(g.view, r) ELSE g.view
              /\ k.view = IF pen_forwarding_enabled THEN Seen(h.view, s) ELSE h.view
              /\ h.ink = InkStep(g.ink, r)
          BY <2>6, <4>1, <4>4 DEF Forward
        <5> QED BY <4>1, <5>1, <5>3, <5>4
      <4> QED BY <2>6, <4>3, <4>4
    <3> QED BY <3>1, <3>2
  <2> QED BY <2>7, <2>8
<1> QED BY <1>0, <1>3, <1>4, <1>5


--------------------------------------------------------------------------------
(* The device.                                                              *)

LEMMA ShortOne ==
  ASSUME NEW r \in RecordSet
  PROVE  /\ <<r>> \in Short /\ <<r>> # <<>>
         /\ \A pen : /\ After(pen, <<r>>) = AfterRecord(pen, r)
                     /\ Fits(pen, <<r>>) <=> Follows(pen, r)
<1>1. PICK s : s = <<r>>
  OBVIOUS
<1>2. s \in Seq(RecordSet) /\ Len(s) = 1 /\ s[1] = r /\ s # <<>>
  BY <1>1
<1>3. s \in Short
  <2>1. s \in Seq(RecordSet) /\ Len(s) <= 2
    BY <1>2
  <2> QED BY <2>1 DEF Short
<1>4. \A pen : /\ After(pen, s) = AfterRecord(pen, r)
               /\ Fits(pen, s) <=> Follows(pen, r)
  BY <1>2 DEF After, InOrder, Fits
<1> QED BY <1>1, <1>2, <1>3, <1>4

LEMMA ShortTwo ==
  ASSUME NEW r \in RecordSet, NEW s \in RecordSet
  PROVE  /\ <<r>> \o <<s>> \in Short /\ <<r>> \o <<s>> # <<>>
         /\ \A pen :
              /\ After(pen, <<r>> \o <<s>>) = AfterRecord(AfterRecord(pen, r), s)
              /\ Follows(pen, r) /\ Follows(AfterRecord(pen, r), s)
                   => Fits(pen, <<r>> \o <<s>>)
<1>1. PICK both : both = <<r>> \o <<s>>
  OBVIOUS
<1>2. /\ <<r>> \in Seq(RecordSet) /\ Len(<<r>>) = 1 /\ <<r>>[1] = r
      /\ <<s>> \in Seq(RecordSet) /\ Len(<<s>>) = 1 /\ <<s>>[1] = s
  OBVIOUS
<1>3. both \in Seq(RecordSet) /\ Len(both) = 2
  BY <1>1, <1>2, ConcatProperties
<1>4. both[1] = r /\ both[2] = s
  BY <1>1, <1>2, ConcatProperties
<1>5. both # <<>>
  BY <1>3, EmptySeq
<1>6. both \in Short
  <2>1. both \in Seq(RecordSet) /\ Len(both) <= 2
    BY <1>3
  <2> QED BY <2>1 DEF Short
<1>7. \A pen : /\ After(pen, both) = AfterRecord(AfterRecord(pen, r), s)
               /\ Follows(pen, r) /\ Follows(AfterRecord(pen, r), s) => Fits(pen, both)
  BY <1>3, <1>4, <1>5 DEF After, InOrder, Fits
<1> QED BY <1>1, <1>5, <1>6, <1>7

\* The records a device captures lead from its pen to its next one.
Says(records) ==
  /\ records \in Short /\ Capture(records)
  /\ Fits(Device, records)
  /\ ~failed' => After(Device, records) = Device'

\* cancel, of a pen that is seen and of none.
LEMMA CancelSays ==
  ASSUME DeviceTypes, FaultOK, last' = NoPen, stroke' = stroke
  PROVE  /\ Cancelled \in Short /\ Fits(Device, Cancelled)
         /\ After(Device, Cancelled) = Device'
<1>1. Device' = [touching |-> FALSE, seen |-> FALSE, stroke |-> stroke]
  BY DEF Device, NoPen
<1>2. CASE last.seen
  <2>1. PICK r : r = Record("Cancel", stroke)
    OBVIOUS
  <2>2. r \in RecordSet /\ r.phase = "Cancel" /\ r.stroke = stroke
    BY <2>1 DEF Record, RecordSet, Phases, DeviceTypes
  <2>3. Cancelled = <<r>>
    BY <1>2, <2>1 DEF Cancelled
  <2>4. Follows(Device, r)
    BY <2>2 DEF Follows, Device
  <2>5. AfterRecord(Device, r) = Device'
    <3>1. (r.phase \in {"Down", "Move"}) = FALSE /\ (r.phase # "Cancel") = FALSE
      BY <2>2
    <3> QED BY <1>1, <2>2, <3>1 DEF AfterRecord
  <2> QED BY <2>2, <2>3, <2>4, <2>5, ShortOne
<1>3. CASE ~last.seen
  <2>1. last = NoPen
    BY <1>3 DEF FaultOK
  <2>2. Device' = Device
    BY <1>1, <2>1 DEF Device, NoPen
  <2>3. Cancelled = <<>>
    BY <1>3 DEF Cancelled
  <2>4. <<>> \in Short
    BY DEF Short
  <2> QED BY <2>2, <2>3, <2>4, NothingSaid
<1> QED BY <1>2, <1>3

LEMMA PhaseKinds ==
  ASSUME NEW touching \in BOOLEAN, NEW was_touching \in BOOLEAN
  PROVE  /\ touching /\ ~was_touching => Phase(touching, was_touching) = "Down"
         /\ touching /\ was_touching => Phase(touching, was_touching) = "Move"
         /\ ~touching /\ was_touching => Phase(touching, was_touching) = "Up"
         /\ ~touching /\ ~was_touching => Phase(touching, was_touching) = "Hover"
BY DEF Phase

LEMMA DeviceSays ==
  ASSUME DeviceTypes, FaultOK, PenReport
  PROVE  /\ DeviceTypes' /\ stroke <= stroke'
         /\ ~last'.seen => last' = NoPen
         /\ tool' = "none" => ~last'.seen
         /\ \E records : Says(records)
<1>1. tool' \in Tools /\ tip' \in BOOLEAN
  BY DEF PenReport
<1>2. NoPen \in [eraser : BOOLEAN, touching : BOOLEAN, seen : BOOLEAN] /\ ~NoPen.seen
  BY DEF NoPen
<1>3. CASE tool' = "none"
  <2>1. Capture(Cancelled) /\ last' = NoPen /\ stroke' = stroke
    BY <1>3 DEF PenReport
  <2>2. Says(Cancelled)
    BY <2>1, CancelSays DEF Says
  <2>3. DeviceTypes' /\ stroke <= stroke'
    BY <1>1, <1>2, <2>1 DEF DeviceTypes
  <2> QED BY <1>2, <2>1, <2>2, <2>3
<1>4. CASE tool' # "none"
  <2>1. PICK eraser \in BOOLEAN : eraser = (tool' = "eraser")
    OBVIOUS
  <2>2. /\ last.seen \in BOOLEAN /\ last.touching \in BOOLEAN /\ last.eraser \in BOOLEAN
        /\ stroke \in Nat /\ stroke <= MaxStroke
    BY DEF DeviceTypes
  <2>3. PICK flipped \in BOOLEAN : flipped = (last.seen /\ last.eraser # eraser)
    BY <2>2
  <2>4. PICK phase : phase = IF tip' /\ (flipped \/ ~last.seen) THEN "Down"
                             ELSE Phase(tip', last.touching)
    OBVIOUS
  <2>5. /\ stroke' = IF phase = "Down" THEN stroke + 1 ELSE stroke
        /\ stroke' <= MaxStroke
        /\ last' = [eraser |-> eraser, touching |-> tip', seen |-> TRUE]
        /\ Capture((IF flipped THEN Cancelled ELSE <<>>) \o <<Record(phase, stroke')>>)
    BY <1>4, <2>1, <2>3, <2>4 DEF PenReport
  <2>6. ~last.seen => ~last.touching
    BY DEF FaultOK, NoPen
  <2>7. /\ phase \in Phases /\ phase # "Cancel"
        /\ phase \in {"Down", "Move"} <=> tip'
        /\ phase = "Move" => last.touching /\ ~flipped
        /\ phase = "Hover" => ~last.touching
        /\ phase = "Down" /\ ~flipped => ~last.touching
    BY <1>1, <2>2, <2>4, <2>6, PhaseKinds DEF Phases
  <2>8. stroke' \in Nat /\ stroke <= stroke'
    BY <2>2, <2>5
  <2>9. DeviceTypes'
    <3>1. last' \in [eraser : BOOLEAN, touching : BOOLEAN, seen : BOOLEAN]
      BY <1>1, <2>1, <2>5
    <3> QED BY <1>1, <2>5, <2>8, <3>1 DEF DeviceTypes
  <2>10. last'.seen
    BY <2>5
  <2>11. PICK r : r = Record(phase, stroke')
    OBVIOUS
  <2>12. r \in RecordSet /\ r.phase = phase /\ r.stroke = stroke'
    BY <2>5, <2>7, <2>8, <2>11, PenAssumption DEF Record, RecordSet
  <2>13. Device' = [touching |-> tip', seen |-> TRUE, stroke |-> stroke']
    BY <2>5 DEF Device
  <2>14. \A pen : AfterRecord(pen, r) = Device'
    <3>1. (r.phase \in {"Down", "Move"}) = tip' /\ (r.phase # "Cancel") = TRUE
      BY <1>1, <2>7, <2>12
    <3> QED BY <2>12, <2>13, <3>1 DEF AfterRecord
  <2>15. CASE ~flipped
    <3>1. <<>> \o <<r>> = <<r>>
      <4>1. <<r>> \in Seq(RecordSet)
        BY <2>12
      <4> QED BY <4>1, ConcatEmptySeq
    <3>2. Capture(<<r>>)
      BY <2>5, <2>11, <2>15, <3>1
    <3>3. Follows(Device, r)
      <4>1. Device.touching = last.touching /\ Device.stroke = stroke
        BY DEF Device
      <4> QED BY <2>2, <2>5, <2>7, <2>12, <2>15, <4>1 DEF Follows
    <3>4. Says(<<r>>)
      BY <2>12, <2>14, <3>2, <3>3, ShortOne DEF Says
    <3> QED BY <1>4, <2>8, <2>9, <2>10, <3>4
  <2>16. CASE flipped
    <3>1. PICK c : c = Record("Cancel", stroke)
      OBVIOUS
    <3>2. c \in RecordSet /\ c.phase = "Cancel" /\ c.stroke = stroke
      BY <3>1 DEF Record, RecordSet, Phases, DeviceTypes
    <3>3. Capture(<<c>> \o <<r>>)
      BY <2>3, <2>5, <2>11, <2>16, <3>1 DEF Cancelled
    <3>4. PICK mid : mid = AfterRecord(Device, c)
      OBVIOUS
    <3>5. Follows(Device, c) /\ mid.touching = FALSE /\ mid.stroke = stroke
      <4>1. Follows(Device, c)
        BY <3>2 DEF Follows, Device
      <4>2. (c.phase \in {"Down", "Move"}) = FALSE
        BY <3>2
      <4> QED BY <3>2, <3>4, <4>1, <4>2 DEF AfterRecord
    <3>6. Follows(mid, r)
      BY <2>2, <2>5, <2>7, <2>12, <2>16, <3>5 DEF Follows
    <3>7. Says(<<c>> \o <<r>>)
      BY <2>12, <2>14, <3>2, <3>3, <3>4, <3>5, <3>6, ShortTwo DEF Says
    <3> QED BY <1>4, <2>8, <2>9, <2>10, <3>7
  <2> QED BY <2>15, <2>16
<1> QED BY <1>3, <1>4


--------------------------------------------------------------------------------
(* A report more.                                                           *)

LEMMA DevicePen ==
  ASSUME DeviceTypes
  PROVE  Device \in Pens(stroke)
BY DEF DeviceTypes, Device, Pens

\* An entry is pushed: the device's records, or the fault.
LEMMA PushPreserves ==
  ASSUME Types, FaultOK, StaleOK, ~failed, NEW pen \in Pens(stroke), TraceOK(pen),
         NEW records \in Short, queue' = Append(queue, Entry(records)),
         failed' \in BOOLEAN, failed' <=> records = Fault, Fits(Device, records),
         ~failed' => After(Device, records) = Device' /\ Len(queue') <= CAPACITY,
         DeviceTypes', stroke <= stroke', UNCHANGED batch, Unobserved
  PROVE  /\ QueueTypes' /\ TraceOK(pen)' /\ StaleOK'
         /\ \A k \in 1..Size' : Way'[k].records = Fault => k = Size' /\ failed'
         /\ failed' => Size' # 0 /\ Way'[Size'].records = Fault
<1>1. DeviceTypes /\ QueueTypes /\ CAPACITY \in Nat
  BY PenAssumption DEF Types
<1>2. PICK n \in Nat : n = Size
  BY <1>1, QueueFacts
<1>3. /\ Size' = n + 1 /\ Len(queue') = Len(queue) + 1
      /\ queue' \in Seq(Entries) /\ batch' \in Seq(Entries)
      /\ \A k \in 1..n : Way'[k] = Way[k]
      /\ Way'[n + 1] = Entry(records)
  BY <1>1, <1>2, Pushed
<1>4. QueueTypes'
  <2>1. Len(queue) \in Nat /\ Len(queue) <= CAPACITY
    BY <1>1, QueueFacts DEF QueueTypes
  <2>2. Len(queue') <= CAPACITY + 1
    BY <1>1, <1>3, <2>1
  <2> QED BY <1>3, <2>2 DEF QueueTypes
<1>5. Way'[n + 1].records = records /\ Way'[n + 1].stale = FALSE
      /\ Way'[n + 1].ink_stale = FALSE
  BY <1>3 DEF Entry
<1>6. TraceOK(pen)'
  <2>1. PICK trace : /\ trace \in [0..Size -> Pens(stroke)]
                       /\ Joins(trace, Size, Way, pen, stroke) /\ Arrives(trace)
    BY DEF TraceOK
  <2>2. Joins(trace, n, Way, pen, stroke) /\ trace[n] = Device
    BY <1>2, <2>1 DEF Arrives
  <2>3. stroke \in Nat /\ stroke' \in Nat
    BY <1>1 DEF DeviceTypes
  <2>4. After(Device, records) \in Pens(stroke')
    <3>1. CASE failed'
      <4>1. After(Device, records) = Device
        BY <3>1, NothingSaid DEF Fault
      <4>2. Device \in Pens(stroke)
        BY <1>1, DevicePen
      <4>3. Pens(stroke) \subseteq Pens(stroke')
        BY <2>3 DEF Pens
      <4> QED BY <4>1, <4>2, <4>3
    <3>2. CASE ~failed'
      <4>1. Device' \in Pens(stroke')
        <5>1. DeviceTypes => Device \in Pens(stroke)
          BY DevicePen
        <5>2. (DeviceTypes => Device \in Pens(stroke))'
          BY <5>1, DevicePen, PTL
        <5> QED BY <5>2
      <4> QED BY <3>2, <4>1
    <3> QED BY <3>1, <3>2
  <2>5. PICK way : way = Way
    OBVIOUS
  <2>6. PICK more : more = Way'
    OBVIOUS
  <2>7. PICK longer : longer = Longer(trace, n, records)
    OBVIOUS
  <2>8. PICK above \in Nat : above = stroke'
    BY <2>3
  <2>9. PICK m : m = n + 1
    OBVIOUS
  <2>10. Pushes(trace, n, m, way, more, pen, stroke, above, records)
    BY <1>3, <1>5, <2>2, <2>3, <2>4, <2>5, <2>6, <2>8, <2>9 DEF Pushes
  <2>11. Joins(longer, m, more, pen, above) /\ longer[m] = After(Device, records)
    <3>1. /\ Joins(Longer(trace, n, records), m, more, pen, above)
          /\ Longer(trace, n, records)[m] = After(trace[n], records)
      BY <2>10, JoinsPush
    <3> QED BY <2>2, <2>7, <3>1
  <2>12. longer \in [0..Size' -> Pens(stroke')]
    <3>1. longer \in [0..m -> Pens(above)]
      BY <2>11 DEF Joins
    <3> QED BY <1>3, <2>8, <2>9, <3>1
  <2>13. Arrives(longer)'
    BY <1>3, <2>9, <2>11 DEF Arrives
  <2>14. Joins(longer, Size', Way', pen, stroke')
    BY <1>3, <2>6, <2>8, <2>9, <2>11
  <2> QED BY <2>12, <2>13, <2>14 DEF TraceOK
<1>7. StaleOK'
  <2>1. /\ pen_needs_down' = pen_needs_down /\ ink_needs_down' = ink_needs_down
        /\ producer' = producer
    BY DEF Unobserved, inkVars
  <2>2. /\ \A i, j \in 1..n : i < j => /\ Way[j].stale => Way[i].stale
                                       /\ Way[j].ink_stale => Way[i].ink_stale
        /\ n # 0 /\ Way[1].stale => pen_needs_down /\ producer = "away"
        /\ n # 0 /\ Way[1].ink_stale => ink_needs_down
    BY <1>2 DEF StaleOK
  <2>3. ASSUME NEW i \in 1..n + 1, NEW j \in 1..n + 1, i < j
        PROVE  /\ Way'[j].stale => Way'[i].stale
               /\ Way'[j].ink_stale => Way'[i].ink_stale
    <3>1. CASE j = n + 1
      BY <1>5, <3>1
    <3>2. CASE j # n + 1
      <4>1. i \in 1..n /\ j \in 1..n
        BY <2>3, <3>2
      <4> QED BY <1>3, <2>2, <2>3, <4>1
    <3> QED BY <3>1, <3>2
  <2>4. /\ Way'[1].stale => pen_needs_down /\ producer = "away"
        /\ Way'[1].ink_stale => ink_needs_down
    <3>1. CASE n = 0
      BY <1>5, <3>1
    <3>2. CASE n # 0
      <4>1. Way'[1] = Way[1]
        BY <1>3, <3>2
      <4> QED BY <2>2, <3>2, <4>1
    <3> QED BY <3>1, <3>2
  <2> QED BY <1>3, <2>1, <2>3, <2>4 DEF StaleOK
<1>8. ASSUME NEW k \in 1..n + 1, Way'[k].records = Fault
      PROVE  k = n + 1 /\ failed'
  <2>1. CASE k = n + 1
    BY <1>5, <1>8, <2>1
  <2>2. CASE k # n + 1
    <3>1. k \in 1..n
      BY <2>2
    <3> QED BY <1>2, <1>3, <1>8, <3>1 DEF FaultOK
  <2> QED BY <2>1, <2>2
<1>9. failed' => Way'[n + 1].records = Fault
  BY <1>5
<1> QED BY <1>3, <1>4, <1>6, <1>7, <1>8, <1>9

\* The reports stay as they are, in their order.
LEMMA SameRecords ==
  ASSUME Types, FaultOK, NEW pen \in Pens(stroke), TraceOK(pen), Size' = Size,
         \A k \in 1..Size : Way'[k].records = Way[k].records,
         UNCHANGED <<stroke, failed>>, Device' = Device
  PROVE  /\ TraceOK(pen)'
         /\ \A k \in 1..Size' : Way'[k].records = Fault => k = Size' /\ failed'
         /\ failed' /\ Size' # 0 => Way'[Size'].records = Fault
<1>1. DeviceTypes /\ QueueTypes
  BY DEF Types
<1>2. PICK n \in Nat : n = Size
  BY <1>1, QueueFacts
<1>3. Size' = n /\ \A k \in 1..n : Way'[k].records = Way[k].records
  BY <1>2
<1>4. TraceOK(pen)'
  <2>1. PICK trace : /\ trace \in [0..Size -> Pens(stroke)]
                       /\ Joins(trace, Size, Way, pen, stroke) /\ Arrives(trace)
    BY DEF TraceOK
  <2>2. PICK more : more = Way'
    OBVIOUS
  <2>3. stroke \in Nat /\ \A k \in 1..n : more[k].records = Way[k].records
    BY <1>1, <1>3, <2>2 DEF DeviceTypes
  <2>4. Joins(trace, n, more, pen, stroke)
    BY <1>2, <2>1, <2>3, JoinsSame
  <2>5. Arrives(trace)'
    BY <1>2, <1>3, <2>1 DEF Arrives
  <2>6. Joins(trace, Size', Way', pen, stroke')
    BY <1>3, <2>2, <2>4
  <2>7. trace \in [0..Size' -> Pens(stroke')]
    BY <1>2, <1>3, <2>1
  <2> QED BY <2>5, <2>6, <2>7 DEF TraceOK
<1>5. /\ \A k \in 1..n : Way'[k].records = Fault => k = n /\ failed'
      /\ failed' /\ n # 0 => Way'[n].records = Fault
  <2>1. /\ \A k \in 1..n : Way[k].records = Fault => k = n /\ failed
        /\ failed /\ n # 0 => Way[n].records = Fault
    BY <1>2 DEF FaultOK
  <2>2. n # 0 => n \in 1..n
    OBVIOUS
  <2> QED BY <1>3, <2>1, <2>2
<1> QED BY <1>3, <1>4, <1>5

\* The flags are in the order of the reports.
Ordered ==
  \A i, j \in 1..Size : i < j => /\ Way[j].stale => Way[i].stale
                                 /\ Way[j].ink_stale => Way[i].ink_stale

\* The flags stay as well.
LEMMA SameWay ==
  ASSUME Types, StaleOK, FaultOK, NEW pen \in Pens(stroke), TraceOK(pen),
         Size' = Size, \A k \in 1..Size : Way'[k] = Way[k],
         UNCHANGED <<stroke, failed>>, Device' = Device
  PROVE  /\ TraceOK(pen)' /\ Ordered'
         /\ \A k \in 1..Size' : Way'[k].records = Fault => k = Size' /\ failed'
         /\ failed' /\ Size' # 0 => Way'[Size'].records = Fault
         /\ UNCHANGED <<pen_needs_down, ink_needs_down, producer>> => StaleOK'
<1>1. /\ TraceOK(pen)'
      /\ \A k \in 1..Size' : Way'[k].records = Fault => k = Size' /\ failed'
      /\ failed' /\ Size' # 0 => Way'[Size'].records = Fault
  BY SameRecords
<1>2. PICK n \in Nat : n = Size
  BY QueueFacts DEF Types
<1>3. Size' = n /\ \A k \in 1..n : Way'[k] = Way[k]
  BY <1>2
<1>4. /\ \A i, j \in 1..n : i < j => /\ Way[j].stale => Way[i].stale
                                     /\ Way[j].ink_stale => Way[i].ink_stale
      /\ n # 0 /\ Way[1].stale => pen_needs_down /\ producer = "away"
      /\ n # 0 /\ Way[1].ink_stale => ink_needs_down
  BY <1>2 DEF StaleOK
<1>5. Ordered'
  BY <1>3, <1>4 DEF Ordered
<1>6. n # 0 => Way'[1] = Way[1]
  BY <1>3
<1>7. ASSUME UNCHANGED <<pen_needs_down, ink_needs_down, producer>>
      PROVE  StaleOK'
  BY <1>3, <1>4, <1>6, <1>7 DEF StaleOK
<1> QED BY <1>1, <1>5, <1>7

\* What nobody observes leaves the session and the ink as they are.
LEMMA UnobservedKeeps ==
  ASSUME Types, Scope, NEW pen, SessionOK(pen), Unobserved
  PROVE  /\ SessionTypes' /\ InkTypes' /\ Scope' /\ SessionOK(pen)'
         /\ UNCHANGED <<pen_available, pen_forwarding_enabled,
                        physical_pen_in_proximity>>
<1>1. /\ drawn' = {} /\ UNCHANGED <<surfaceVars, inkVars, producer>>
      /\ physical_pen_in_proximity' = physical_pen_in_proximity
  BY DEF Unobserved
<1>2. /\ surface' = surface /\ generation' = generation
      /\ pen_forwarding_enabled' = pen_forwarding_enabled /\ visible' = visible
      /\ presented' = presented /\ local_ink' = local_ink
      /\ ink_paused' = ink_paused /\ pen_available' = pen_available
  BY <1>1 DEF surfaceVars
<1>3. /\ ink_frozen' = ink_frozen /\ pen_needs_down' = pen_needs_down
      /\ ink_needs_down' = ink_needs_down /\ pen_point' = pen_point
      /\ last_pen' = last_pen /\ inked' = inked /\ bound' = bound
      /\ producer' = producer
  BY <1>1 DEF inkVars
<1>4. SessionTypes' /\ InkTypes'
  BY <1>1, <1>2, <1>3 DEF Types, SessionTypes, InkTypes
<1>5. Scope'
  BY <1>2, <1>3 DEF Scope, Listening
<1>6. SessionOK(pen)'
  <2>1. PenGood(pen, pen_forwarding_enabled, pen_needs_down, producer, last_pen)'
    BY <1>2, <1>3 DEF SessionOK, PenGood
  <2>2. InkGood(pen, pen_needs_down, last_pen, InkState(drawn))'
    BY <1>1, <1>3 DEF SessionOK, InkGood, InkState
  <2> QED BY <1>1, <2>1, <2>2 DEF SessionOK
<1> QED BY <1>1, <1>2, <1>4, <1>5, <1>6


\* What the device captures.
LEMMA CapturePreserves ==
  ASSUME PenInv, ~failed, NEW records, Says(records), DeviceTypes', stroke <= stroke',
         ~last'.seen => last' = NoPen, tool' = "none" => ~last'.seen,
         UNCHANGED batch, Unobserved
  PROVE  PenInv'
<1>1. Types /\ Scope /\ StaleOK /\ FaultOK /\ DeviceTypes /\ QueueTypes
  BY DEF PenInv, Types
<1>2. PICK pen \in Pens(stroke) : TraceOK(pen) /\ SessionOK(pen)
  BY DEF PenInv
<1>3. /\ SessionTypes' /\ InkTypes' /\ Scope' /\ SessionOK(pen)'
      /\ UNCHANGED <<pen_available, pen_forwarding_enabled, physical_pen_in_proximity>>
  BY <1>1, <1>2, UnobservedKeeps
<1>4. ~pen_available' => ~pen_forwarding_enabled'
  BY <1>1, <1>3 DEF FaultOK
<1>5. pen \in Pens(stroke')
  BY <1>1, <1>2 DEF Pens, DeviceTypes
<1>6. /\ QueueTypes' /\ TraceOK(pen)' /\ StaleOK'
      /\ \A k \in 1..Size' : Way'[k].records = Fault => k = Size' /\ failed'
      /\ failed' => Size' # 0 /\ Way'[Size'].records = Fault
  <2>1. /\ records \in Short /\ Capture(records) /\ Fits(Device, records)
        /\ ~failed' => After(Device, records) = Device'
    BY DEF Says
  <2>2. Len(queue) \in Nat /\ Len(queue) <= CAPACITY /\ CAPACITY \in Nat
    BY <1>1, QueueFacts, PenAssumption DEF QueueTypes
  <2>3. CASE records = <<>>
    <3>1. queue' = queue /\ failed' = failed
      BY <2>1, <2>3 DEF Capture
    <3>2. Device' = Device
      BY <2>1, <2>3, <3>1, NothingSaid
    <3>3. stroke' = stroke
      BY <3>2 DEF Device
    <3>4. Size' = Size /\ Way' = Way
      BY <3>1 DEF Size, Way
    <3>5. QueueTypes'
      BY <1>1, <3>1 DEF QueueTypes
    <3>6. UNCHANGED <<pen_needs_down, ink_needs_down, producer>>
      BY DEF Unobserved, inkVars
    <3> QED BY <1>1, <1>2, <3>1, <3>2, <3>3, <3>4, <3>5, <3>6, SameWay
  <2>4. CASE records # <<>> /\ Full
    <3>1. queue' = Append(queue, Entry(Fault)) /\ failed' = TRUE
      BY <2>1, <2>4 DEF Capture
    <3>2. Fault \in Short /\ Fits(Device, Fault)
      BY NothingSaid DEF Fault, Short
    <3> QED BY <1>1, <1>2, <3>1, <3>2, PushPreserves
  <2>5. CASE records # <<>> /\ ~Full
    <3>1. queue' = Append(queue, Entry(records)) /\ failed' = failed
      BY <2>1, <2>5 DEF Capture
    <3>2. Len(queue) < CAPACITY
      BY <2>2, <2>5 DEF Full
    <3>3. Len(queue') <= CAPACITY
      <4>1. Len(queue') = Len(queue) + 1
        BY <1>1, <2>1, <3>1, Pushed
      <4> QED BY <2>2, <3>2, <4>1
    <3>4. failed' \in BOOLEAN /\ (failed' <=> records = Fault)
      BY <1>1, <2>5, <3>1 DEF QueueTypes, Fault
    <3> QED BY <1>1, <1>2, <2>1, <3>1, <3>3, <3>4, PushPreserves
  <2> QED BY <2>3, <2>4, <2>5
<1>7. FaultOK'
  <2>1. failed' => IF Size' = 0 THEN ~pen_available' /\ ~physical_pen_in_proximity'
                                ELSE Way'[Size'].records = Fault
    BY <1>6
  <2> QED BY <1>4, <1>6, <2>1 DEF FaultOK
<1> QED BY <1>3, <1>5, <1>6, <1>7 DEF PenInv, Types

LEMMA ReportPreserves ==
  ASSUME PenInv, PenReport
  PROVE  PenInv'
<1>1. DeviceTypes /\ FaultOK
  BY DEF PenInv, Types
<1>2. PICK records : Says(records)
  BY <1>1, DeviceSays
<1>3. /\ DeviceTypes' /\ stroke <= stroke' /\ (~last'.seen => last' = NoPen)
      /\ tool' = "none" => ~last'.seen
  BY <1>1, DeviceSays
<1>4. ~failed /\ UNCHANGED batch /\ Unobserved
  BY DEF PenReport
<1> QED BY <1>2, <1>3, <1>4, CapturePreserves

LEMMA DroppedPreserves ==
  ASSUME PenInv, PenDropped
  PROVE  PenInv'
<1>1. DeviceTypes /\ FaultOK
  BY DEF PenInv, Types
<1>2. /\ ~failed /\ UNCHANGED batch /\ Unobserved /\ Capture(Cancelled)
      /\ last' = NoPen /\ stroke' = stroke /\ tool' \in Tools /\ tip' \in BOOLEAN
  BY DEF PenDropped
<1>3. Says(Cancelled)
  BY <1>1, <1>2, CancelSays DEF Says
<1>4. DeviceTypes' /\ ~last'.seen /\ stroke <= stroke'
  BY <1>1, <1>2 DEF DeviceTypes, NoPen
<1> QED BY <1>2, <1>3, <1>4, CapturePreserves

LEMMA FailsPreserves ==
  ASSUME PenInv, CaptureFails
  PROVE  PenInv'
<1>1. Types /\ Scope /\ StaleOK /\ FaultOK /\ DeviceTypes
  BY DEF PenInv, Types
<1>2. /\ ~failed /\ failed' = TRUE /\ queue' = Append(queue, Entry(Fault))
      /\ UNCHANGED batch /\ Unobserved
      /\ tool' = tool /\ tip' = tip /\ last' = last /\ stroke' = stroke
  BY DEF CaptureFails, deviceVars
<1>3. PICK pen \in Pens(stroke) : TraceOK(pen) /\ SessionOK(pen)
  BY DEF PenInv
<1>4. /\ SessionTypes' /\ InkTypes' /\ Scope' /\ SessionOK(pen)'
      /\ UNCHANGED <<pen_available, pen_forwarding_enabled, physical_pen_in_proximity>>
  BY <1>1, <1>2, <1>3, UnobservedKeeps
<1>5. DeviceTypes' /\ stroke <= stroke' /\ pen \in Pens(stroke')
  BY <1>1, <1>2, <1>3 DEF DeviceTypes
<1>6. Fault \in Short /\ Fits(Device, Fault)
  BY NothingSaid DEF Fault, Short
<1>7. /\ QueueTypes' /\ TraceOK(pen)' /\ StaleOK'
      /\ \A k \in 1..Size' : Way'[k].records = Fault => k = Size' /\ failed'
      /\ failed' => Size' # 0 /\ Way'[Size'].records = Fault
  BY <1>1, <1>2, <1>3, <1>5, <1>6, PushPreserves
<1>8. FaultOK'
  <2>1. failed' => IF Size' = 0 THEN ~pen_available' /\ ~physical_pen_in_proximity'
                                ELSE Way'[Size'].records = Fault
    BY <1>7
  <2> QED BY <1>1, <1>2, <1>4, <1>7, <2>1 DEF FaultOK
<1> QED BY <1>4, <1>5, <1>7, <1>8 DEF PenInv, Types

LEMMA DrainPreserves ==
  ASSUME PenInv, Drain
  PROVE  PenInv'
<1>1. Types /\ Scope /\ StaleOK /\ FaultOK /\ DeviceTypes /\ QueueTypes
  BY DEF PenInv, Types
<1>2. /\ batch = <<>> /\ batch' = queue /\ queue' = <<>> /\ failed' = failed
      /\ Unobserved /\ tool' = tool /\ tip' = tip /\ last' = last /\ stroke' = stroke
  BY DEF Drain, deviceVars
<1>3. PICK pen \in Pens(stroke) : TraceOK(pen) /\ SessionOK(pen)
  BY DEF PenInv
<1>4. /\ SessionTypes' /\ InkTypes' /\ Scope' /\ SessionOK(pen)'
      /\ UNCHANGED <<pen_available, pen_forwarding_enabled, physical_pen_in_proximity>>
  BY <1>1, <1>2, <1>3, UnobservedKeeps
<1>5. DeviceTypes' /\ Device' = Device /\ pen \in Pens(stroke')
  BY <1>1, <1>2, <1>3 DEF DeviceTypes, Device
<1>6. /\ Size' = Size /\ \A k \in 1..Size : Way'[k] = Way[k]
      /\ queue' \in Seq(Entries) /\ Len(queue') = 0
  BY <1>1, <1>2, Drained
<1>7. QueueTypes'
  <2>1. batch' \in Seq(Entries) /\ failed' \in BOOLEAN /\ CAPACITY \in Nat
    BY <1>1, <1>2, PenAssumption DEF QueueTypes
  <2> QED BY <1>6, <2>1 DEF QueueTypes
<1>8. UNCHANGED <<pen_needs_down, ink_needs_down, producer>>
  BY <1>2 DEF Unobserved, inkVars
<1>9. /\ TraceOK(pen)' /\ StaleOK'
      /\ \A k \in 1..Size' : Way'[k].records = Fault => k = Size' /\ failed'
      /\ failed' /\ Size' # 0 => Way'[Size'].records = Fault
  BY <1>1, <1>2, <1>3, <1>5, <1>6, <1>8, SameWay
<1>10. FaultOK'
  <2>1. failed' => IF Size' = 0 THEN ~pen_available' /\ ~physical_pen_in_proximity'
                                ELSE Way'[Size'].records = Fault
    BY <1>1, <1>2, <1>4, <1>6, <1>9 DEF FaultOK
  <2> QED BY <1>1, <1>2, <1>4, <1>9, <2>1 DEF FaultOK
<1> QED BY <1>4, <1>5, <1>7, <1>9, <1>10 DEF PenInv, Types


--------------------------------------------------------------------------------
(* A report less.                                                           *)

\* The pen after the report at the head, and what the others are then.
LEMMA PopPreserves ==
  ASSUME Types, StaleOK, FaultOK, NEW pen \in Pens(stroke), TraceOK(pen),
         batch # <<>>, batch' = Tail(batch),
         UNCHANGED <<queue, failed, tool, tip, last, stroke>>
  PROVE  /\ DeviceTypes' /\ QueueTypes' /\ Ordered'
         /\ Head(batch) \in Entries /\ Fits(pen, Head(batch).records)
         /\ After(pen, Head(batch).records) \in Pens(stroke')
         /\ \A next : next = After(pen, Head(batch).records) => TraceOK(next)'
         /\ Head(batch).stale => pen_needs_down /\ producer = "away"
         /\ Head(batch).ink_stale => ink_needs_down
         /\ Size' # 0 => /\ Way'[1].stale => Head(batch).stale
                         /\ Way'[1].ink_stale => Head(batch).ink_stale
         /\ \A k \in 1..Size' : Way'[k].records = Fault => k = Size' /\ failed'
         /\ failed' /\ Size' # 0 => Way'[Size'].records = Fault
         /\ Head(batch).records = Fault => failed' /\ Size' = 0
         /\ Head(batch).records # Fault /\ failed' => Size' # 0
<1>1. DeviceTypes /\ QueueTypes
  BY DEF Types
<1>2. PICK n \in Nat : n = Size
  BY <1>1, QueueFacts
<1>3. /\ n # 0 /\ Size' = n - 1 /\ batch' \in Seq(Entries)
      /\ Head(batch) \in Entries /\ Head(batch) = Way[1]
      /\ \A k \in 1..n - 1 : Way'[k] = Way[k + 1]
  BY <1>1, <1>2, Popped
<1>4. DeviceTypes' /\ stroke' = stroke
  BY <1>1 DEF DeviceTypes
<1>5. QueueTypes'
  BY <1>1, <1>3 DEF QueueTypes
<1>6. /\ \A i, j \in 1..n : i < j => /\ Way[j].stale => Way[i].stale
                                     /\ Way[j].ink_stale => Way[i].ink_stale
      /\ Way[1].stale => pen_needs_down /\ producer = "away"
      /\ Way[1].ink_stale => ink_needs_down
  BY <1>2, <1>3 DEF StaleOK
<1>7. Ordered'
  <2>1. ASSUME NEW i \in 1..n - 1, NEW j \in 1..n - 1, i < j
        PROVE  /\ Way'[j].stale => Way'[i].stale
               /\ Way'[j].ink_stale => Way'[i].ink_stale
    <3>1. PICK a \in 1..n, b \in 1..n : a = i + 1 /\ b = j + 1
      <4>1. i + 1 \in 1..n /\ j + 1 \in 1..n
        OBVIOUS
      <4> QED BY <4>1
    <3>2. a < b
      BY <2>1, <3>1
    <3> QED BY <1>3, <1>6, <3>1, <3>2
  <2> QED BY <1>3, <2>1 DEF Ordered
<1>8. n - 1 # 0 => /\ Way'[1].stale => Way[1].stale
                   /\ Way'[1].ink_stale => Way[1].ink_stale
  <2>1. n - 1 # 0 => 1 \in 1..n - 1 /\ 1 \in 1..n /\ 2 \in 1..n
    BY <1>3
  <2>2. n - 1 # 0 => Way'[1] = Way[2]
    BY <1>3, <2>1
  <2> QED BY <1>6, <2>1, <2>2
<1>9. /\ \A k \in 1..n : Way[k].records = Fault => k = n /\ failed
      /\ failed => Way[n].records = Fault
  BY <1>2, <1>3 DEF FaultOK
<1>10. \A k \in 1..n - 1 : Way'[k].records = Fault => k = n - 1 /\ failed
  <2>1. \A k \in 1..n - 1 : k + 1 \in 1..n /\ (k + 1 = n => k = n - 1)
    OBVIOUS
  <2> QED BY <1>3, <1>9, <2>1
<1>11. failed /\ n - 1 # 0 => Way'[n - 1].records = Fault
  <2>1. n - 1 # 0 => n - 1 \in 1..n - 1 /\ n - 1 + 1 = n
    BY <1>3
  <2> QED BY <1>3, <1>9, <2>1
<1>12. /\ Way[1].records = Fault => failed /\ n - 1 = 0
       /\ Way[1].records # Fault /\ failed => n - 1 # 0
  <2>1. 1 \in 1..n
    BY <1>3
  <2> QED BY <1>9, <2>1
<1>13. PICK trace : /\ trace \in [0..n -> Pens(stroke)]
                    /\ Joins(trace, n, Way, pen, stroke) /\ Arrives(trace)
  BY <1>2 DEF TraceOK
<1>14. PICK records : records = Head(batch).records
  OBVIOUS
<1>15. Fits(pen, records) /\ After(pen, records) \in Pens(stroke)
  <2>1. 1 \in 1..n /\ 1 - 1 = 0
    BY <1>3
  <2>2. /\ trace[1] = After(trace[1 - 1], Way[1].records)
        /\ Fits(trace[1 - 1], Way[1].records)
        /\ trace[0] = pen
    BY <1>13, <2>1 DEF Joins
  <2>3. trace[1] \in Pens(stroke)
    BY <1>13, <2>1
  <2> QED BY <1>3, <1>14, <2>1, <2>2, <2>3
<1>16. ASSUME NEW next, next = After(pen, records)
       PROVE  TraceOK(next)'
  <2>1. PICK fewer : fewer = Way'
    OBVIOUS
  <2>2. PICK shorter : shorter = Shorter(trace, n)
    OBVIOUS
  <2>3. \A k \in 1..n - 1 : fewer[k] = Way[k + 1]
    BY <1>3, <2>1
  <2>4. Joins(shorter, n - 1, fewer, next, stroke) /\ shorter[n - 1] = trace[n]
    <3>1. /\ Joins(Shorter(trace, n), n - 1, fewer, After(pen, Way[1].records), stroke)
          /\ Shorter(trace, n)[n - 1] = trace[n]
      BY <1>3, <1>13, <2>3, JoinsPop
    <3> QED BY <1>3, <1>14, <1>16, <2>2, <3>1
  <2>5. Arrives(shorter)'
    <3>1. failed' = failed /\ Device' = Device
      BY DEF Device
    <3>2. failed \/ trace[n] = Device
      BY <1>2, <1>13 DEF Arrives
    <3> QED BY <1>3, <2>4, <3>1, <3>2 DEF Arrives
  <2>6. shorter \in [0..Size' -> Pens(stroke')]
    BY <1>3, <1>4, <2>4 DEF Joins
  <2>7. Joins(shorter, Size', Way', next, stroke')
    BY <1>3, <1>4, <2>1, <2>4
  <2> QED BY <2>5, <2>6, <2>7 DEF TraceOK
<1> HIDE DEF TraceOK, Ordered
<1> QED BY <1>3, <1>4, <1>5, <1>6, <1>7, <1>8, <1>10, <1>11, <1>12, <1>14, <1>15, <1>16

--------------------------------------------------------------------------------
(* Sessions that follow no contact.                                         *)

LEMMA PenFacts ==
  ASSUME Types, NEW pen \in Pens(stroke)
  PROVE  /\ pen.stroke \in Nat /\ pen.stroke <= stroke /\ pen \in Pens(MaxStroke)
         /\ pen.seen \in BOOLEAN /\ pen.touching \in BOOLEAN
<1>1. stroke \in Nat /\ stroke <= MaxStroke /\ MaxStroke \in Nat
  BY PenAssumption DEF Types, DeviceTypes
<1> QED BY <1>1 DEF Pens

\* The ink follows no contact and has drawn none of the pen's next contacts.
InkFresh(next) ==
  /\ ink_needs_down = TRUE /\ pen_point = 0 /\ drawn = {}
  /\ \A s \in bound : s <= next.stroke /\ s \in Nat

LEMMA FreshGood ==
  ASSUME NEW next, InkFresh(next)
  PROVE  InkGood(next, pen_needs_down, last_pen, InkState(drawn))
BY DEF InkFresh, InkGood, InkState

LEMMA FreshGoodNext ==
  ASSUME NEW next, InkFresh(next)'
  PROVE  InkGood(next, pen_needs_down, last_pen, InkState(drawn))'
<1>1. InkFresh(next) => InkGood(next, pen_needs_down, last_pen, InkState(drawn))
  BY FreshGood
<1>2. (InkFresh(next) => InkGood(next, pen_needs_down, last_pen, InkState(drawn)))'
  BY <1>1, FreshGood, PTL
<1> QED BY <1>2

\* Neither does the producer.
Away(next) ==
  /\ pen_needs_down = TRUE /\ producer = "away" /\ InkFresh(next)
  /\ physical_pen_in_proximity => next.seen

LEMMA AwayGood ==
  ASSUME NEW next, Away(next), pen_forwarding_enabled \in BOOLEAN
  PROVE  SessionOK(next)
<1>1. InkGood(next, pen_needs_down, last_pen, InkState(drawn))
  BY FreshGood DEF Away
<1>2. PenGood(next, pen_forwarding_enabled, pen_needs_down, producer, last_pen)
  BY DEF Away, PenGood, Views
<1> QED BY <1>1, <1>2 DEF Away, SessionOK

LEMMA AwayGoodNext ==
  ASSUME NEW next, Away(next)', pen_forwarding_enabled' \in BOOLEAN
  PROVE  SessionOK(next)'
<1>1. (Away(next) /\ pen_forwarding_enabled \in BOOLEAN) => SessionOK(next)
  BY AwayGood
<1>2. (Away(next) /\ pen_forwarding_enabled \in BOOLEAN => SessionOK(next))'
  BY <1>1, AwayGood, PTL
<1> QED BY <1>2

\* Where the pen is not listened to, or was not before.
LEMMA AwayFacts ==
  ASSUME Types, NEW pen \in Pens(stroke), SessionOK(pen), Scope
  PROVE  /\ ~Listening \/ ~surface => producer = "away"
         /\ ~surface => pen_needs_down
         /\ pen_needs_down => ink_needs_down
         /\ ink_needs_down => pen_point = 0
         /\ producer \in Views /\ (producer # "away" => last_pen)
         /\ ~pen_forwarding_enabled => producer = "away"
         /\ \A s \in bound : s <= pen.stroke /\ s \in Nat
<1>1. InkState(drawn).needs_down = ink_needs_down /\ InkState(drawn).point = pen_point
      /\ InkState(drawn).bound = bound
  BY DEF InkState
<1>2. /\ ~ink_needs_down => ~pen_needs_down
      /\ pen_point # 0 => ~ink_needs_down
      /\ \A s \in bound : s <= pen.stroke /\ s \in Nat
  BY <1>1 DEF SessionOK, InkGood
<1>3. /\ producer \in Views /\ (producer # "away" => last_pen)
      /\ ~pen_forwarding_enabled => producer = "away"
  BY DEF SessionOK, PenGood
<1>4. /\ ~Listening \/ ~surface => producer = "away"
      /\ ~surface => pen_needs_down
  BY DEF Scope
<1> QED BY <1>2, <1>3, <1>4


--------------------------------------------------------------------------------
(* pen_reports_inner.                                                       *)

LEMMA LastSeen ==
  ASSUME NEW pen, NEW records \in Short, records # <<>>
  PROVE  After(pen, records).seen <=> LastOf(records).phase # "Cancel"
<1>1. Len(records) \in {1, 2}
  BY ShortFacts
<1>2. CASE Len(records) = 1
  BY <1>2 DEF After, InOrder, AfterRecord, LastOf
<1>3. CASE Len(records) = 2
  BY <1>3 DEF After, InOrder, AfterRecord, LastOf
<1> QED BY <1>1, <1>2, <1>3

LEMMA TakeGood ==
  ASSUME Types, NEW pen \in Pens(MaxStroke), SessionOK(pen), NEW records \in Short,
         Fits(pen, records), NEW paused \in BOOLEAN, paused => ink_needs_down,
         Take(records, paused), pen_forwarding_enabled' = pen_forwarding_enabled,
         NEW next, next = After(pen, records)
  PROVE  /\ PenGood(next, pen_forwarding_enabled, pen_needs_down, producer, last_pen)'
         /\ InkGood(next, pen_needs_down, last_pen, InkState(drawn))'
         /\ InkTypes' /\ (paused => ink_needs_down' = TRUE)
<1> DEFINE start == [acc |-> [needs_down |-> pen_needs_down, last_pen |-> last_pen,
                              kept |-> <<>>],
                     view |-> producer, ink |-> InkState({})]
           end == InOrder(Together, start, records)
<1>1. InkTypes /\ ink_needs_down \in BOOLEAN
  BY DEF Types, InkTypes
<1>2. InkGood(pen, pen_needs_down, last_pen, InkState({}))
  BY DEF SessionOK, InkGood, InkState
<1>3. InkState({}).needs_down = ink_needs_down /\ InkState({}).frozen = ink_frozen
  BY DEF InkState
<1>4. PenGood(pen, pen_forwarding_enabled, pen_needs_down, producer, last_pen)
  BY DEF SessionOK
<1>5. Good(pen, start)
  BY <1>1, <1>2, <1>3, <1>4 DEF Good, InkTypes
<1>6. /\ start.acc = [needs_down |-> pen_needs_down, last_pen |-> last_pen, kept |-> <<>>]
      /\ start.acc.kept = <<>> /\ start.view = producer /\ start.ink = InkState({})
  OBVIOUS
<1>7. PICK s : s = start
  OBVIOUS
<1>8. PICK e : e = InOrder(Together, s, records)
  OBVIOUS
<1>9. /\ Good(next, e) /\ next \in Pens(MaxStroke) /\ pen.stroke <= next.stroke
  BY <1>5, <1>7, <1>8, ReportGood
<1>10. /\ e.acc = InOrder(Accept, s.acc, records)
       /\ e.view = IF pen_forwarding_enabled
                     THEN InOrder(Seen, s.view, e.acc.kept) ELSE s.view
       /\ e.ink = InOrder(InkStep, s.ink, e.acc.kept)
  BY <1>6, <1>7, <1>8, KeptInOrder
<1>11. Accepted(records) = e.acc
  BY <1>6, <1>7, <1>10 DEF Accepted
<1>12. /\ pen_needs_down' = e.acc.needs_down /\ last_pen' = e.acc.last_pen
       /\ producer' = e.view
  BY <1>6, <1>7, <1>10, <1>11 DEF Take, Emit
<1>13. /\ e.acc.needs_down \in BOOLEAN /\ e.acc.last_pen \in BOOLEAN
       /\ e.ink.needs_down \in BOOLEAN /\ e.ink.frozen \in BOOLEAN
       /\ PenGood(next, pen_forwarding_enabled, e.acc.needs_down, e.view, e.acc.last_pen)
       /\ InkGood(next, e.acc.needs_down, e.acc.last_pen, e.ink)
  BY <1>9 DEF Good
<1>14. PICK i : i = Ink(IF paused THEN <<>> ELSE e.acc.kept)
  OBVIOUS
<1>15. /\ ink_needs_down' = i.needs_down /\ ink_frozen' = i.frozen
       /\ pen_point' = i.point /\ drawn' = i.drawn
       /\ inked' = i.inked /\ bound' = i.bound
  BY <1>11, <1>14 DEF Take
<1>16. /\ i.needs_down \in BOOLEAN /\ i.frozen \in BOOLEAN
       /\ InkGood(next, e.acc.needs_down, e.acc.last_pen, i)
       /\ paused => i.needs_down = TRUE
  <2>1. CASE paused
    <3>1. i = InkState({})
      BY <1>14, <2>1 DEF Ink, InOrder, InkState
    <3>2. pen.stroke \in Nat /\ next.stroke \in Nat
      BY <1>9, PenAssumption DEF Pens
    <3>3. InkGood(next, e.acc.needs_down, e.acc.last_pen, i)
      <4>1. i.needs_down
        BY <1>3, <2>1, <3>1
      <4>2. InkGood(pen, pen_needs_down, last_pen, i)
        BY <1>2, <3>1
      <4> QED BY <1>9, <3>2, <4>1, <4>2, InkRests
    <3>4. ink_frozen \in BOOLEAN
      BY <1>1 DEF InkTypes
    <3> QED BY <1>1, <1>3, <2>1, <3>1, <3>3, <3>4
  <2>2. CASE ~paused
    <3>1. i = Ink(e.acc.kept)
      BY <1>14, <2>2
    <3>2. i = e.ink
      BY <1>6, <1>7, <1>10, <3>1 DEF Ink, InkState
    <3> QED BY <1>13, <2>2, <3>2
  <2> QED BY <2>1, <2>2
<1>17. PenGood(next, pen_forwarding_enabled, pen_needs_down, producer, last_pen)'
  <2>1. PenGood(next, pen_forwarding_enabled', pen_needs_down', producer', last_pen')
    BY <1>12, <1>13
  <2> QED BY <2>1 DEF PenGood
<1>18. InkGood(next, pen_needs_down, last_pen, InkState(drawn))'
  <2>1. /\ InkState(drawn)'.needs_down = i.needs_down /\ InkState(drawn)'.frozen = i.frozen
        /\ InkState(drawn)'.point = i.point /\ InkState(drawn)'.drawn = i.drawn
        /\ InkState(drawn)'.inked = i.inked /\ InkState(drawn)'.bound = i.bound
    BY <1>15 DEF InkState
  <2>2. InkGood(next, pen_needs_down', last_pen', i)
    BY <1>12, <1>16
  <2> QED BY <2>1, <2>2 DEF InkGood
<1>19. producer' \in Views
  BY <1>12, <1>13 DEF PenGood
<1> QED BY <1>12, <1>13, <1>15, <1>16, <1>17, <1>18, <1>19 DEF InkTypes


\* With nobody following the pen little is left to show.
LEMMA AwayInv ==
  ASSUME DeviceTypes, QueueTypes, SessionTypes, ink_frozen \in BOOLEAN,
         last_pen \in BOOLEAN, Ordered, FaultOK,
         NEW next \in Pens(stroke), TraceOK(next), Away(next)
  PROVE  PenInv
<1>1. SessionOK(next)
  BY AwayGood DEF SessionTypes
<1>2. pen_needs_down = TRUE /\ producer = "away" /\ ink_needs_down = TRUE
  BY DEF Away, InkFresh
<1>3. Types
  BY <1>2 DEF Types, InkTypes, Views
<1>4. Scope
  BY <1>2 DEF Scope
<1>5. StaleOK
  BY <1>2 DEF StaleOK, Ordered
<1> QED BY <1>1, <1>3, <1>4, <1>5 DEF PenInv

LEMMA AwayInvNext ==
  ASSUME DeviceTypes', QueueTypes', SessionTypes', ink_frozen' \in BOOLEAN,
         last_pen' \in BOOLEAN, Ordered', FaultOK',
         NEW next, next \in Pens(stroke'), TraceOK(next)', Away(next)'
  PROVE  PenInv'
<1>1. DeviceTypes /\ QueueTypes /\ SessionTypes /\ ink_frozen \in BOOLEAN
        /\ last_pen \in BOOLEAN /\ Ordered /\ FaultOK /\ next \in Pens(stroke)
        /\ TraceOK(next) /\ Away(next) => PenInv
  BY AwayInv
<1>2. (DeviceTypes /\ QueueTypes /\ SessionTypes /\ ink_frozen \in BOOLEAN
        /\ last_pen \in BOOLEAN /\ Ordered /\ FaultOK /\ next \in Pens(stroke)
        /\ TraceOK(next) /\ Away(next) => PenInv)'
  BY <1>1, AwayInv, PTL
<1> QED BY <1>2

LEMMA ReportsPreserves ==
  ASSUME PenInv, pen_reports
  PROVE  PenInv'
<1>1. Types /\ Scope /\ StaleOK /\ FaultOK
  BY DEF PenInv
<1>2. PICK pen \in Pens(stroke) : TraceOK(pen) /\ SessionOK(pen)
  BY DEF PenInv
<1>3. PICK e : e = Head(batch)
  OBVIOUS
<1>4. /\ batch # <<>> /\ e.records # Fault /\ batch' = Tail(batch)
      /\ physical_pen_in_proximity' = (LastOf(e.records).phase # "Cancel")
      /\ \/ (e.stale \/ ~surface) /\ Ignored
         \/ ~e.stale /\ surface /\ ~Listening /\ Skip
         \/ ~e.stale /\ surface /\ Listening /\ Take(e.records, ink_paused \/ e.ink_stale)
      /\ tool' = tool /\ tip' = tip /\ last' = last /\ stroke' = stroke
      /\ queue' = queue /\ failed' = failed
  BY <1>3 DEF pen_reports, deviceVars
<1>5. /\ surface' = surface /\ generation' = generation
      /\ pen_forwarding_enabled' = pen_forwarding_enabled /\ visible' = visible
      /\ presented' = presented /\ local_ink' = local_ink
      /\ ink_paused' = ink_paused /\ pen_available' = pen_available
  BY DEF pen_reports, surfaceVars
<1>6. PICK next : next = After(pen, e.records)
  OBVIOUS
<1>7. /\ DeviceTypes' /\ QueueTypes' /\ Ordered'
      /\ e \in Entries /\ Fits(pen, e.records)
      /\ next \in Pens(stroke') /\ TraceOK(next)'
      /\ e.stale => pen_needs_down /\ producer = "away"
      /\ e.ink_stale => ink_needs_down
      /\ Size' # 0 => (Way'[1].stale => e.stale) /\ (Way'[1].ink_stale => e.ink_stale)
      /\ \A k \in 1..Size' : Way'[k].records = Fault => k = Size' /\ failed'
      /\ failed' /\ Size' # 0 => Way'[Size'].records = Fault
      /\ failed' => Size' # 0
  BY <1>1, <1>2, <1>3, <1>4, <1>6, PopPreserves
<1>8. /\ e.records \in Short /\ e.records # <<>>
      /\ e.stale \in BOOLEAN /\ e.ink_stale \in BOOLEAN
  BY <1>4, <1>7 DEF Entries, Fault
<1>9. physical_pen_in_proximity' = next.seen /\ physical_pen_in_proximity' \in BOOLEAN
  <2>1. next.seen <=> LastOf(e.records).phase # "Cancel"
    BY <1>6, <1>8, LastSeen
  <2>2. next.seen \in BOOLEAN
    BY <1>7 DEF Pens
  <2> QED BY <1>4, <2>1, <2>2
<1>10. SessionTypes'
  BY <1>1, <1>5, <1>9 DEF Types, SessionTypes
<1>11. FaultOK'
  <2>1. failed' => IF Size' = 0 THEN ~pen_available' /\ ~physical_pen_in_proximity'
                                ELSE Way'[Size'].records = Fault
    BY <1>7
  <2> QED BY <1>1, <1>4, <1>5, <1>7, <2>1 DEF FaultOK
<1>12. /\ pen.stroke \in Nat /\ next.stroke \in Nat /\ pen.stroke <= next.stroke
       /\ pen \in Pens(MaxStroke)
  <2>1. pen.stroke \in Nat /\ pen \in Pens(MaxStroke)
    BY <1>1, <1>2, PenFacts
  <2>2. next.stroke \in Nat
    BY <1>1, <1>4, <1>7, PenFacts
  <2>3. PICK g : g = [acc |-> [needs_down |-> pen_needs_down, last_pen |-> last_pen,
                               kept |-> <<>>],
                      view |-> producer, ink |-> InkState(drawn)]
    OBVIOUS
  <2>4. Good(pen, g)
    BY <1>1, <1>2, <2>3 DEF Good, SessionOK, InkState, Types, InkTypes
  <2> QED BY <1>1, <1>6, <1>7, <1>8, <2>1, <2>2, <2>4, ReportGood
<1>13. /\ ~Listening \/ ~surface => producer = "away"
       /\ ~surface => pen_needs_down
       /\ pen_needs_down => ink_needs_down
       /\ ink_needs_down => pen_point = 0
       /\ \A s \in bound : s <= next.stroke /\ s \in Nat
  <2>1. /\ ~Listening \/ ~surface => producer = "away"
        /\ ~surface => pen_needs_down
        /\ pen_needs_down => ink_needs_down
        /\ ink_needs_down => pen_point = 0
        /\ \A s \in bound : s <= pen.stroke /\ s \in Nat
    BY <1>1, <1>2, AwayFacts
  <2> QED BY <1>12, <2>1
<1>14. InkTypes
  BY <1>1 DEF Types
<1>15. CASE (e.stale \/ ~surface) /\ Ignored
  <2>1. /\ drawn' = {} /\ producer' = producer /\ ink_frozen' = ink_frozen
        /\ pen_needs_down' = pen_needs_down /\ ink_needs_down' = ink_needs_down
        /\ pen_point' = pen_point /\ last_pen' = last_pen /\ bound' = bound
    BY <1>15 DEF Ignored, inkVars
  <2>2. pen_needs_down /\ producer = "away" /\ ink_needs_down /\ pen_point = 0
    BY <1>7, <1>13, <1>15
  <2>3. Away(next)'
    BY <1>9, <1>13, <1>14, <2>1, <2>2 DEF Away, InkFresh, InkTypes
  <2>4. ink_frozen' \in BOOLEAN /\ last_pen' \in BOOLEAN
    BY <1>14, <2>1 DEF InkTypes
  <2> QED BY <1>7, <1>10, <1>11, <2>3, <2>4, AwayInvNext
<1>16. CASE ~e.stale /\ surface /\ ~Listening /\ Skip
  <2>1. /\ drawn' = {} /\ producer' = producer /\ ink_frozen' = ink_frozen
        /\ pen_needs_down' = TRUE /\ ink_needs_down' = TRUE
        /\ pen_point' = 0 /\ last_pen' = last_pen /\ bound' = bound
    BY <1>16 DEF Skip, Rearm, RearmPoint
  <2>2. Away(next)'
    BY <1>9, <1>13, <1>16, <2>1 DEF Away, InkFresh
  <2>3. ink_frozen' \in BOOLEAN /\ last_pen' \in BOOLEAN
    BY <1>14, <2>1 DEF InkTypes
  <2> QED BY <1>7, <1>10, <1>11, <2>2, <2>3, AwayInvNext
<1>17. CASE ~e.stale /\ surface /\ Listening /\ Take(e.records, ink_paused \/ e.ink_stale)
  <2>1. PICK paused \in BOOLEAN : paused = (ink_paused \/ e.ink_stale)
    OBVIOUS
  <2>2. paused => ink_needs_down
    BY <1>1, <1>7, <2>1 DEF Scope
  <2>3. /\ PenGood(next, pen_forwarding_enabled, pen_needs_down, producer, last_pen)'
        /\ InkGood(next, pen_needs_down, last_pen, InkState(drawn))'
        /\ InkTypes' /\ (paused => ink_needs_down' = TRUE)
    BY <1>1, <1>2, <1>5, <1>6, <1>7, <1>8, <1>12, <1>17, <2>1, <2>2, TakeGood
  <2>4. SessionOK(next)'
    BY <1>9, <2>3 DEF SessionOK
  <2>5. Scope'
    BY <1>1, <1>5, <1>14, <1>17, <2>1, <2>3 DEF Scope, Listening
  <2>6. StaleOK'
    <3>1. Size' # 0 => ~Way'[1].stale
      BY <1>7, <1>17
    <3>2. Size' # 0 /\ Way'[1].ink_stale => ink_needs_down'
      BY <1>7, <2>1, <2>3
    <3> QED BY <1>7, <3>1, <3>2 DEF StaleOK, Ordered
  <2>7. Types'
    BY <1>7, <1>10, <2>3 DEF Types
  <2> HIDE DEF TraceOK, SessionOK
  <2> QED BY <1>7, <1>11, <2>4, <2>5, <2>6, <2>7 DEF PenInv
<1> QED BY <1>4, <1>15, <1>16, <1>17

--------------------------------------------------------------------------------
(* input_capture_failed.                                                    *)

LEMMA CancelEmits ==
  ASSUME Types, NEW pen \in Pens(stroke), SessionOK(pen), Scope, Emit(CancelRecords)
  PROVE  producer' = "away"
<1>1. /\ producer \in Views /\ (producer # "away" => last_pen)
      /\ ~pen_forwarding_enabled => producer = "away"
  BY AwayFacts
<1>2. CASE last_pen
  <2>1. PICK r : r = Record("Cancel", stroke)
    OBVIOUS
  <2>2. CancelRecords = <<r>> /\ r.phase = "Cancel"
    BY <1>2, <2>1 DEF CancelRecords, Record
  <2>3. <<r>> # <<>> /\ Len(<<r>>) = 1 /\ <<r>>[1] = r
    OBVIOUS
  <2>4. InOrder(Seen, producer, <<r>>) = Seen(producer, r)
    BY <2>3 DEF InOrder
  <2>5. Seen(producer, r) = "away"
    BY <1>1, <2>2 DEF Seen, Views
  <2> QED BY <1>1, <2>2, <2>4, <2>5 DEF Emit
<1>3. CASE ~last_pen
  <2>1. CancelRecords = <<>> /\ producer = "away"
    BY <1>1, <1>3 DEF CancelRecords
  <2>2. InOrder(Seen, producer, <<>>) = producer
    BY DEF InOrder
  <2> QED BY <2>1, <2>2 DEF Emit
<1> QED BY <1>2, <1>3

LEMMA CaptureFailedPreserves ==
  ASSUME PenInv, pen_capture_failed
  PROVE  PenInv'
<1>1. Types /\ Scope /\ StaleOK /\ FaultOK /\ SessionTypes /\ InkTypes
  BY DEF PenInv, Types
<1>2. PICK pen \in Pens(stroke) : TraceOK(pen) /\ SessionOK(pen)
  BY DEF PenInv
<1>3. /\ batch # <<>> /\ Head(batch).records = Fault /\ batch' = Tail(batch)
      /\ tool' = tool /\ tip' = tip /\ last' = last /\ stroke' = stroke
      /\ queue' = queue /\ failed' = failed
      /\ pen_available' = FALSE /\ pen_forwarding_enabled' = FALSE
      /\ physical_pen_in_proximity' = FALSE
      /\ pen_point' = 0 /\ drawn' = {} /\ bound' = bound /\ ink_frozen' = ink_frozen
      /\ surface' = surface /\ generation' = generation /\ visible' = visible
      /\ presented' = presented /\ local_ink' = local_ink /\ ink_paused' = ink_paused
  BY DEF pen_capture_failed, deviceVars
<1>4. /\ surface /\ last_pen /\ ~Head(batch).stale =>
           /\ pen_needs_down' = TRUE /\ ink_needs_down' = TRUE
           /\ Listening => last_pen' = FALSE /\ Emit(CancelRecords)
           /\ ~Listening => last_pen' = last_pen /\ producer' = producer
      /\ ~(surface /\ last_pen /\ ~Head(batch).stale) =>
           /\ pen_needs_down' = pen_needs_down /\ ink_needs_down' = ink_needs_down
           /\ last_pen' = last_pen /\ producer' = producer
  BY DEF pen_capture_failed
<1>5. /\ DeviceTypes' /\ QueueTypes' /\ Ordered' /\ TraceOK(pen)' /\ pen \in Pens(stroke')
      /\ Head(batch).stale => pen_needs_down /\ producer = "away"
      /\ \A k \in 1..Size' : Way'[k].records = Fault => k = Size' /\ failed'
      /\ failed' /\ Size' = 0
  <2>1. pen = After(pen, Head(batch).records)
    BY <1>3, NothingSaid DEF Fault
  <2> QED BY <1>1, <1>2, <1>3, <2>1, PopPreserves
<1>6. /\ ~Listening \/ ~surface => producer = "away"
      /\ ~surface => pen_needs_down
      /\ pen_needs_down => ink_needs_down
      /\ producer # "away" => last_pen
      /\ \A s \in bound : s <= pen.stroke /\ s \in Nat
  BY <1>1, <1>2, AwayFacts
<1>7. ~last_pen => pen_needs_down
  BY <1>2 DEF SessionOK, PenGood
<1>8. /\ pen_needs_down' = TRUE /\ ink_needs_down' = TRUE /\ producer' = "away"
      /\ last_pen' \in BOOLEAN
  <2>1. CASE surface /\ last_pen /\ ~Head(batch).stale
    <3>1. Listening => producer' = "away" /\ last_pen' = FALSE
      BY <1>1, <1>2, <1>4, <2>1, CancelEmits
    <3> QED BY <1>1, <1>4, <1>6, <2>1, <3>1 DEF InkTypes
  <2>2. CASE ~(surface /\ last_pen /\ ~Head(batch).stale)
    <3>1. pen_needs_down /\ producer = "away" /\ ink_needs_down
      BY <1>5, <1>6, <1>7, <2>2
    <3> QED BY <1>1, <1>4, <2>2, <3>1 DEF InkTypes
  <2> QED BY <2>1, <2>2
<1>9. Away(pen)'
  BY <1>3, <1>6, <1>8 DEF Away, InkFresh
<1>10. SessionTypes' /\ ink_frozen' \in BOOLEAN
  BY <1>1, <1>3 DEF SessionTypes, InkTypes
<1>11. FaultOK'
  BY <1>1, <1>3, <1>5 DEF FaultOK
<1> QED BY <1>5, <1>8, <1>9, <1>10, <1>11, AwayInvNext


--------------------------------------------------------------------------------
(* What interrupts a stroke.                                                *)

\* rearm_ink's boundary moves no report and leaves the surface's.
LEMMA BoundaryKeeps ==
  ASSUME Types, StaleOK, FaultOK, NEW pen \in Pens(stroke), TraceOK(pen),
         batch = <<>>, batch' = batch, InkBoundary,
         UNCHANGED <<stroke, failed>>, Device' = Device
  PROVE  /\ QueueTypes' /\ TraceOK(pen)' /\ Ordered' /\ Size' = Size
         /\ Size' # 0 => (Way'[1].stale => Way[1].stale)
         /\ \A k \in 1..Size' : Way'[k].records = Fault => k = Size' /\ failed'
         /\ failed' /\ Size' # 0 => Way'[Size'].records = Fault
<1>1. QueueTypes
  BY DEF Types
<1>2. PICK n \in Nat : n = Size
  BY <1>1, QueueFacts
<1>3. PICK old \in 0..Len(queue) :
        queue' = [i \in DOMAIN queue |->
                    [queue[i] EXCEPT !.ink_stale = queue[i].ink_stale \/ i <= old]]
  BY DEF InkBoundary
<1>4. old \in Nat
  BY <1>1, QueueFacts
<1>5. /\ Size' = n /\ queue' \in Seq(Entries) /\ Len(queue') = Len(queue)
      /\ \A k \in 1..n :
           /\ Way'[k].records = Way[k].records
           /\ Way'[k].stale = Way[k].stale
           /\ Way'[k].ink_stale <=> Way[k].ink_stale \/ k <= old
  BY <1>1, <1>2, <1>3, <1>4, Bounded
<1>6. QueueTypes'
  BY <1>1, <1>5 DEF QueueTypes
<1>7. \A i, j \in 1..n : i < j => /\ Way[j].stale => Way[i].stale
                                  /\ Way[j].ink_stale => Way[i].ink_stale
  BY <1>2 DEF StaleOK
<1>8. ASSUME NEW i \in 1..n, NEW j \in 1..n, i < j
      PROVE  /\ Way'[j].stale => Way'[i].stale
             /\ Way'[j].ink_stale => Way'[i].ink_stale
  <2>1. j <= old => i <= old
    BY <1>4, <1>8
  <2> QED BY <1>5, <1>7, <1>8, <2>1
<1>9. Ordered'
  BY <1>5, <1>8 DEF Ordered
<1>10. /\ TraceOK(pen)'
       /\ \A k \in 1..Size' : Way'[k].records = Fault => k = Size' /\ failed'
       /\ failed' /\ Size' # 0 => Way'[Size'].records = Fault
  BY <1>2, <1>5, SameRecords
<1>11. n # 0 => (Way'[1].stale => Way[1].stale)
  <2>1. n # 0 => 1 \in 1..n
    OBVIOUS
  <2> QED BY <1>5, <2>1
<1> QED BY <1>2, <1>5, <1>6, <1>9, <1>10, <1>11

\* So does the start of a surface.
LEMMA DividedKeeps ==
  ASSUME Types, StaleOK, FaultOK, NEW pen \in Pens(stroke), TraceOK(pen),
         batch = <<>>, batch' = batch, NEW old \in 0..Len(queue),
         queue' = [i \in DOMAIN queue |->
                     [queue[i] EXCEPT !.stale = queue[i].stale \/ i <= old]],
         UNCHANGED <<stroke, failed>>, Device' = Device
  PROVE  /\ QueueTypes' /\ TraceOK(pen)' /\ Ordered' /\ Size' = Size
         /\ \A k \in 1..Size' : Way'[k].records = Fault => k = Size' /\ failed'
         /\ failed' /\ Size' # 0 => Way'[Size'].records = Fault
<1>1. QueueTypes
  BY DEF Types
<1>2. PICK n \in Nat : n = Size
  BY <1>1, QueueFacts
<1>3. old \in Nat
  BY <1>1, QueueFacts
<1>4. /\ Size' = n /\ queue' \in Seq(Entries) /\ Len(queue') = Len(queue)
      /\ \A k \in 1..n :
           /\ Way'[k].records = Way[k].records
           /\ Way'[k].ink_stale = Way[k].ink_stale
           /\ Way'[k].stale <=> Way[k].stale \/ k <= old
  BY <1>1, <1>2, <1>3, Divided
<1>5. QueueTypes'
  BY <1>1, <1>4 DEF QueueTypes
<1>6. \A i, j \in 1..n : i < j => /\ Way[j].stale => Way[i].stale
                                  /\ Way[j].ink_stale => Way[i].ink_stale
  BY <1>2 DEF StaleOK
<1>7. ASSUME NEW i \in 1..n, NEW j \in 1..n, i < j
      PROVE  /\ Way'[j].stale => Way'[i].stale
             /\ Way'[j].ink_stale => Way'[i].ink_stale
  <2>1. j <= old => i <= old
    BY <1>3, <1>7
  <2> QED BY <1>4, <1>6, <1>7, <2>1
<1>8. Ordered'
  BY <1>4, <1>7 DEF Ordered
<1>9. /\ TraceOK(pen)'
      /\ \A k \in 1..Size' : Way'[k].records = Fault => k = Size' /\ failed'
      /\ failed' /\ Size' # 0 => Way'[Size'].records = Fault
  BY <1>2, <1>4, SameRecords
<1> QED BY <1>2, <1>4, <1>5, <1>8, <1>9

LEMMA PowerKeyPreserves ==
  ASSUME PenInv, pen_power_key
  PROVE  PenInv'
<1>1. Types /\ Scope /\ StaleOK /\ FaultOK /\ SessionTypes /\ InkTypes /\ DeviceTypes
        /\ QueueTypes
  BY DEF PenInv, Types
<1>2. PICK pen \in Pens(stroke) : TraceOK(pen) /\ SessionOK(pen)
  BY DEF PenInv
<1>3. /\ batch = <<>> /\ batch' = batch /\ failed' = failed /\ visible' = ~visible
      /\ tool' = tool /\ tip' = tip /\ last' = last /\ stroke' = stroke
      /\ surface' = surface /\ generation' = generation
      /\ pen_forwarding_enabled' = pen_forwarding_enabled
      /\ presented' = presented /\ local_ink' = local_ink /\ ink_paused' = ink_paused
      /\ pen_available' = pen_available
      /\ physical_pen_in_proximity' = physical_pen_in_proximity
  BY DEF pen_power_key, deviceVars
<1>4. Device' = Device /\ DeviceTypes' /\ pen \in Pens(stroke')
  BY <1>1, <1>2, <1>3 DEF Device, DeviceTypes
<1>5. SessionTypes'
  <2>1. visible' \in BOOLEAN
    BY <1>1, <1>3 DEF SessionTypes
  <2> QED BY <1>1, <1>3, <2>1 DEF SessionTypes
<1>6. /\ ~Listening \/ ~surface => producer = "away"
      /\ ~surface => pen_needs_down
      /\ pen_needs_down => ink_needs_down
      /\ ink_needs_down => pen_point = 0
      /\ \A s \in bound : s <= pen.stroke /\ s \in Nat
  BY <1>1, <1>2, AwayFacts
<1>7. /\ physical_pen_in_proximity => pen.seen
      /\ ~last_pen => pen_needs_down
      /\ ink_paused => ink_needs_down
  BY <1>1, <1>2 DEF SessionOK, PenGood, Scope
<1>8. /\ QueueTypes' /\ TraceOK(pen)' /\ Ordered' /\ Size' = Size
      /\ \A k \in 1..Size' : Way'[k].records = Fault => k = Size' /\ failed'
      /\ failed' /\ Size' # 0 => Way'[Size'].records = Fault
  <2>1. CASE queue' = queue
    <3>1. Size' = Size /\ Way' = Way
      BY <1>3, <2>1 DEF Size, Way
    <3>2. QueueTypes'
      BY <1>1, <1>3, <2>1 DEF QueueTypes
    <3> QED BY <1>1, <1>2, <1>3, <1>4, <3>1, <3>2, SameWay
  <2>2. CASE InkBoundary
    BY <1>1, <1>2, <1>3, <1>4, <2>2, BoundaryKeeps
  <2>3. queue' = queue \/ InkBoundary
    BY DEF pen_power_key
  <2> QED BY <2>1, <2>2, <2>3
<1>9. /\ pen_needs_down' = TRUE /\ ink_needs_down' = TRUE /\ producer' = "away"
      /\ pen_point' = 0 /\ drawn' = {} /\ bound' = bound
      /\ ink_frozen' = ink_frozen /\ last_pen' \in BOOLEAN
  <2>1. CASE ~surface
    <3>1. /\ drawn' = {} /\ producer' = producer /\ ink_frozen' = ink_frozen
          /\ pen_needs_down' = pen_needs_down /\ ink_needs_down' = ink_needs_down
          /\ pen_point' = pen_point /\ last_pen' = last_pen /\ bound' = bound
      BY <2>1 DEF pen_power_key, Ignored, inkVars
    <3>2. pen_needs_down /\ ink_needs_down /\ producer = "away" /\ pen_point = 0
      BY <1>6, <2>1
    <3> QED BY <1>1, <3>1, <3>2 DEF InkTypes
  <2>2. CASE surface
    <3>1. /\ pen_point' = 0 /\ pen_needs_down' = TRUE /\ last_pen' = FALSE
          /\ drawn' = {} /\ ink_frozen' = ink_frozen /\ bound' = bound
          /\ Listening \/ ~last_pen =>
               /\ Emit(CancelRecords)
               /\ ink_needs_down' = (ink_needs_down \/ (last_pen /\ ~ink_paused))
          /\ ~(Listening \/ ~last_pen) => ink_needs_down' = TRUE /\ producer' = producer
      BY <2>2 DEF pen_power_key
    <3>2. CASE Listening \/ ~last_pen
      <4>1. producer' = "away"
        BY <1>1, <1>2, <3>1, <3>2, CancelEmits
      <4>2. ink_needs_down' = TRUE
        BY <1>6, <1>7, <3>1, <3>2
      <4> QED BY <3>1, <4>1, <4>2
    <3>3. CASE ~(Listening \/ ~last_pen)
      BY <1>6, <3>1, <3>3
    <3> QED BY <3>2, <3>3
  <2> QED BY <2>1, <2>2
<1>10. Away(pen)'
  BY <1>3, <1>6, <1>7, <1>9 DEF Away, InkFresh
<1>11. ink_frozen' \in BOOLEAN
  BY <1>1, <1>9 DEF InkTypes
<1>12. FaultOK'
  <2>1. failed' => IF Size' = 0 THEN ~pen_available' /\ ~physical_pen_in_proximity'
                                ELSE Way'[Size'].records = Fault
    BY <1>1, <1>3, <1>8 DEF FaultOK
  <2> QED BY <1>1, <1>3, <1>8, <2>1 DEF FaultOK
<1> QED BY <1>4, <1>5, <1>8, <1>9, <1>10, <1>11, <1>12, AwayInvNext

\* The controls: the producer's stroke goes on, the ink's does not.
LEMMA ControlPreserves ==
  ASSUME PenInv, Control, local_ink' \in BOOLEAN, ink_paused' \in BOOLEAN,
         ink_frozen' \in BOOLEAN
  PROVE  PenInv'
<1>1. Types /\ Scope /\ StaleOK /\ FaultOK /\ SessionTypes /\ InkTypes /\ DeviceTypes
        /\ QueueTypes
  BY DEF PenInv, Types
<1>2. PICK pen \in Pens(stroke) : TraceOK(pen) /\ SessionOK(pen)
  BY DEF PenInv
<1>3. /\ batch = <<>> /\ batch' = batch /\ InkBoundary /\ failed' = failed
      /\ tool' = tool /\ tip' = tip /\ last' = last /\ stroke' = stroke
      /\ surface' = surface /\ generation' = generation
      /\ pen_forwarding_enabled' = pen_forwarding_enabled /\ visible' = visible
      /\ presented' = presented /\ pen_available' = pen_available
      /\ physical_pen_in_proximity' = physical_pen_in_proximity
      /\ pen_needs_down' = pen_needs_down /\ last_pen' = last_pen
      /\ bound' = bound /\ producer' = producer
      /\ pen_point' = 0 /\ ink_needs_down' = TRUE /\ drawn' = {}
  BY DEF Control, Rearm, RearmPoint, deviceVars
<1>4. Device' = Device /\ DeviceTypes' /\ pen \in Pens(stroke')
  BY <1>1, <1>2, <1>3 DEF Device, DeviceTypes
<1>5. /\ QueueTypes' /\ TraceOK(pen)' /\ Ordered' /\ Size' = Size
      /\ Size' # 0 => (Way'[1].stale => Way[1].stale)
      /\ \A k \in 1..Size' : Way'[k].records = Fault => k = Size' /\ failed'
      /\ failed' /\ Size' # 0 => Way'[Size'].records = Fault
  BY <1>1, <1>2, <1>3, <1>4, BoundaryKeeps
<1>6. /\ producer # "away" => pen_forwarding_enabled
      /\ \A s \in bound : s <= pen.stroke /\ s \in Nat
  BY <1>1, <1>2, AwayFacts
<1>7. SessionTypes' /\ InkTypes'
  BY <1>1, <1>3 DEF SessionTypes, InkTypes
<1>8. Scope'
  BY <1>1, <1>3, <1>6 DEF Scope, Listening
<1>9. StaleOK'
  <2>1. Size' # 0 /\ Way'[1].stale => pen_needs_down' /\ producer' = "away"
    BY <1>1, <1>3, <1>5 DEF StaleOK
  <2> QED BY <1>3, <1>5, <2>1 DEF StaleOK, Ordered
<1>10. FaultOK'
  <2>1. failed' => IF Size' = 0 THEN ~pen_available' /\ ~physical_pen_in_proximity'
                                ELSE Way'[Size'].records = Fault
    BY <1>1, <1>3, <1>5 DEF FaultOK
  <2> QED BY <1>1, <1>3, <1>5, <2>1 DEF FaultOK
<1>11. InkFresh(pen)'
  BY <1>3, <1>6 DEF InkFresh
<1>12. InkGood(pen, pen_needs_down, last_pen, InkState(drawn))'
  BY <1>11, FreshGoodNext
<1>13. PenGood(pen, pen_forwarding_enabled, pen_needs_down, producer, last_pen)'
  BY <1>2, <1>3 DEF SessionOK, PenGood
<1>14. SessionOK(pen)'
  BY <1>2, <1>3, <1>12, <1>13 DEF SessionOK
<1> QED BY <1>4, <1>5, <1>7, <1>8, <1>9, <1>10, <1>14 DEF PenInv, Types


\* The menu is closed, or the surface shows its first frame.
LEMMA ShownPreserves ==
  ASSUME PenInv, drawn' = {}, visible' \in BOOLEAN, presented' \in BOOLEAN,
         visible' = visible \/ visible = TRUE,
         UNCHANGED <<deviceVars, captureVars, inkVars, producer, surface, generation,
                     pen_forwarding_enabled, local_ink, ink_paused, pen_available,
                     physical_pen_in_proximity>>
  PROVE  PenInv'
<1>1. Types /\ Scope /\ StaleOK /\ FaultOK /\ SessionTypes /\ InkTypes /\ DeviceTypes
        /\ QueueTypes
  BY DEF PenInv, Types
<1>2. PICK pen \in Pens(stroke) : TraceOK(pen) /\ SessionOK(pen)
  BY DEF PenInv
<1>3. /\ batch' = batch /\ queue' = queue /\ failed' = failed
      /\ tool' = tool /\ tip' = tip /\ last' = last /\ stroke' = stroke
      /\ surface' = surface /\ generation' = generation
      /\ pen_forwarding_enabled' = pen_forwarding_enabled
      /\ local_ink' = local_ink /\ ink_paused' = ink_paused
      /\ pen_available' = pen_available
      /\ physical_pen_in_proximity' = physical_pen_in_proximity
      /\ producer' = producer
  BY DEF deviceVars, captureVars
<1>4. /\ ink_frozen' = ink_frozen /\ pen_needs_down' = pen_needs_down
      /\ ink_needs_down' = ink_needs_down /\ pen_point' = pen_point
      /\ last_pen' = last_pen /\ inked' = inked /\ bound' = bound
  BY DEF inkVars
<1>5. Device' = Device /\ DeviceTypes' /\ pen \in Pens(stroke') /\ QueueTypes'
      /\ Size' = Size /\ Way' = Way
  BY <1>1, <1>2, <1>3 DEF Device, DeviceTypes, QueueTypes, Size, Way
<1>6. SessionTypes' /\ InkTypes'
  BY <1>1, <1>3, <1>4 DEF SessionTypes, InkTypes
<1>7. /\ TraceOK(pen)' /\ StaleOK'
      /\ \A k \in 1..Size' : Way'[k].records = Fault => k = Size' /\ failed'
      /\ failed' /\ Size' # 0 => Way'[Size'].records = Fault
  BY <1>1, <1>2, <1>3, <1>4, <1>5, SameWay
<1>8. FaultOK'
  <2>1. failed' => IF Size' = 0 THEN ~pen_available' /\ ~physical_pen_in_proximity'
                                ELSE Way'[Size'].records = Fault
    BY <1>1, <1>3, <1>5, <1>7 DEF FaultOK
  <2> QED BY <1>1, <1>3, <1>7, <2>1 DEF FaultOK
<1>9. Scope'
  <2>1. Listening => Listening'
    BY <1>3 DEF Listening
  <2> QED BY <1>1, <1>3, <1>4, <2>1 DEF Scope
<1>10. SessionOK(pen)'
  <2>1. PenGood(pen, pen_forwarding_enabled, pen_needs_down, producer, last_pen)'
    BY <1>2, <1>3, <1>4 DEF SessionOK, PenGood
  <2>2. InkGood(pen, pen_needs_down, last_pen, InkState(drawn))'
    BY <1>2, <1>4 DEF SessionOK, InkGood, InkState
  <2> QED BY <1>2, <1>3, <2>1, <2>2 DEF SessionOK
<1> QED BY <1>5, <1>6, <1>7, <1>8, <1>9, <1>10 DEF PenInv, Types

LEMMA ClosePreserves ==
  ASSUME PenInv, CloseMenu
  PROVE  PenInv'
<1>1. presented \in BOOLEAN
  BY DEF PenInv, Types, SessionTypes
<1>2. /\ visible = TRUE /\ visible' = FALSE /\ drawn' = {} /\ presented' = presented
  <2>1. visible \in BOOLEAN
    BY DEF PenInv, Types, SessionTypes
  <2> QED BY <2>1 DEF CloseMenu
<1>3. UNCHANGED <<deviceVars, captureVars, inkVars, producer, surface, generation,
                  pen_forwarding_enabled, local_ink, ink_paused, pen_available,
                  physical_pen_in_proximity>>
  BY DEF CloseMenu
<1> QED BY <1>1, <1>2, <1>3, ShownPreserves

LEMMA PresentPreserves ==
  ASSUME PenInv, Present
  PROVE  PenInv'
<1>1. visible \in BOOLEAN
  BY DEF PenInv, Types, SessionTypes
<1>2. presented' = TRUE /\ visible' = visible /\ drawn' = {}
  BY DEF Present
<1>3. UNCHANGED <<deviceVars, captureVars, inkVars, producer, surface, generation,
                  pen_forwarding_enabled, local_ink, ink_paused, pen_available,
                  physical_pen_in_proximity>>
  BY DEF Present
<1> QED BY <1>1, <1>2, <1>3, ShownPreserves

--------------------------------------------------------------------------------
(* Surfaces and connections.                                                *)

\* A new surface follows nothing.
LEMMA NewAway ==
  ASSUME NEW next, NewSurface, physical_pen_in_proximity' => next.seen
  PROVE  /\ Away(next)' /\ ink_frozen' = FALSE /\ last_pen' = FALSE
         /\ visible' = FALSE /\ presented' = FALSE /\ local_ink' = FALSE
         /\ ink_paused' = FALSE
BY DEF NewSurface, Away, InkFresh

LEMMA OpenPreserves ==
  ASSUME PenInv, pen_open_surface
  PROVE  PenInv'
<1>1. Types /\ Scope /\ StaleOK /\ FaultOK /\ SessionTypes /\ DeviceTypes /\ QueueTypes
  BY DEF PenInv, Types
<1>2. PICK pen \in Pens(stroke) : TraceOK(pen) /\ SessionOK(pen)
  BY DEF PenInv
<1>3. /\ batch = <<>> /\ batch' = batch /\ failed' = failed
      /\ tool' = tool /\ tip' = tip /\ last' = last /\ stroke' = stroke
      /\ pen_available' = pen_available
      /\ physical_pen_in_proximity' = physical_pen_in_proximity
      /\ generation < MaxGeneration /\ generation' = generation + 1
      /\ surface' = TRUE /\ pen_forwarding_enabled' \in {FALSE, pen_available}
      /\ NewSurface
  BY DEF pen_open_surface, deviceVars
<1>4. PICK old \in 0..Len(queue) :
        queue' = [i \in DOMAIN queue |->
                    [queue[i] EXCEPT !.stale = queue[i].stale \/ i <= old]]
  BY DEF pen_open_surface
<1>5. Device' = Device /\ DeviceTypes' /\ pen \in Pens(stroke')
  BY <1>1, <1>2, <1>3 DEF Device, DeviceTypes
<1>6. /\ QueueTypes' /\ TraceOK(pen)' /\ Ordered' /\ Size' = Size
      /\ \A k \in 1..Size' : Way'[k].records = Fault => k = Size' /\ failed'
      /\ failed' /\ Size' # 0 => Way'[Size'].records = Fault
  BY <1>1, <1>2, <1>3, <1>4, <1>5, DividedKeeps
<1>7. /\ Away(pen)' /\ ink_frozen' = FALSE /\ last_pen' = FALSE
      /\ visible' = FALSE /\ presented' = FALSE /\ local_ink' = FALSE
      /\ ink_paused' = FALSE
  <2>1. physical_pen_in_proximity' => pen.seen
    BY <1>2, <1>3 DEF SessionOK
  <2> QED BY <1>3, <2>1, NewAway
<1>8. SessionTypes'
  <2>1. generation' \in 0..MaxGeneration
    BY <1>1, <1>3, PenAssumption DEF SessionTypes
  <2>2. pen_forwarding_enabled' \in BOOLEAN
    BY <1>1, <1>3 DEF SessionTypes
  <2> QED BY <1>1, <1>3, <1>7, <2>1, <2>2 DEF SessionTypes
<1>9. FaultOK'
  <2>1. failed' => IF Size' = 0 THEN ~pen_available' /\ ~physical_pen_in_proximity'
                                ELSE Way'[Size'].records = Fault
    BY <1>1, <1>3, <1>6 DEF FaultOK
  <2>2. ~pen_available' => ~pen_forwarding_enabled'
    BY <1>1, <1>3 DEF SessionTypes
  <2> QED BY <1>1, <1>3, <1>6, <2>1, <2>2 DEF FaultOK
<1>10. ink_frozen' \in BOOLEAN /\ last_pen' \in BOOLEAN
  BY <1>7
<1> QED BY <1>5, <1>6, <1>7, <1>8, <1>9, <1>10, AwayInvNext

LEMMA SurfaceClosePreserves ==
  ASSUME PenInv, pen_close_surface
  PROVE  PenInv'
<1>1. Types /\ Scope /\ StaleOK /\ FaultOK /\ SessionTypes /\ DeviceTypes /\ QueueTypes
  BY DEF PenInv, Types
<1>2. PICK pen \in Pens(stroke) : TraceOK(pen) /\ SessionOK(pen)
  BY DEF PenInv
<1>3. /\ batch' = batch /\ queue' = queue /\ failed' = failed
      /\ tool' = tool /\ tip' = tip /\ last' = last /\ stroke' = stroke
      /\ pen_available' = pen_available
      /\ physical_pen_in_proximity' = physical_pen_in_proximity
      /\ generation' = generation
      /\ surface' = FALSE /\ pen_forwarding_enabled' = FALSE
      /\ NewSurface
  BY DEF pen_close_surface, deviceVars, captureVars
<1>4. Device' = Device /\ DeviceTypes' /\ pen \in Pens(stroke') /\ QueueTypes'
      /\ Size' = Size /\ Way' = Way
  BY <1>1, <1>2, <1>3 DEF Device, DeviceTypes, QueueTypes, Size, Way
<1>5. /\ TraceOK(pen)' /\ Ordered'
      /\ \A k \in 1..Size' : Way'[k].records = Fault => k = Size' /\ failed'
      /\ failed' /\ Size' # 0 => Way'[Size'].records = Fault
  BY <1>1, <1>2, <1>3, <1>4, SameWay
<1>6. /\ Away(pen)' /\ ink_frozen' = FALSE /\ last_pen' = FALSE
      /\ visible' = FALSE /\ presented' = FALSE /\ local_ink' = FALSE
      /\ ink_paused' = FALSE
  <2>1. physical_pen_in_proximity' => pen.seen
    BY <1>2, <1>3 DEF SessionOK
  <2> QED BY <1>3, <2>1, NewAway
<1>7. SessionTypes'
  BY <1>1, <1>3, <1>6 DEF SessionTypes
<1>8. FaultOK'
  <2>1. failed' => IF Size' = 0 THEN ~pen_available' /\ ~physical_pen_in_proximity'
                                ELSE Way'[Size'].records = Fault
    BY <1>1, <1>3, <1>4, <1>5 DEF FaultOK
  <2> QED BY <1>1, <1>3, <1>5, <2>1 DEF FaultOK
<1>9. ink_frozen' \in BOOLEAN /\ last_pen' \in BOOLEAN
  BY <1>6
<1> QED BY <1>4, <1>5, <1>6, <1>7, <1>8, <1>9, AwayInvNext

\* The start of a session, of the first one and of those after it.
Fresh ==
  /\ DeviceTypes /\ last = NoPen
  /\ queue = <<>> /\ batch = <<>> /\ failed = FALSE
  /\ SessionTypes /\ pen_forwarding_enabled = FALSE
  /\ physical_pen_in_proximity = FALSE
  /\ ink_frozen = FALSE /\ last_pen = FALSE
  /\ pen_needs_down = TRUE /\ producer = "away" /\ ink_needs_down = TRUE
  /\ pen_point = 0 /\ drawn = {} /\ bound = {}

LEMMA FreshInv ==
  Fresh => PenInv
<1> SUFFICES ASSUME Fresh PROVE PenInv
  OBVIOUS
<1>1. QueueTypes
  <2>1. queue \in Seq(Entries) /\ batch \in Seq(Entries) /\ Len(queue) = 0
    BY DEF Fresh
  <2>2. 0 <= CAPACITY + 1 /\ 0 <= CAPACITY
    BY PenAssumption
  <2>3. failed \in BOOLEAN
    BY DEF Fresh
  <2> QED BY <2>1, <2>2, <2>3 DEF QueueTypes
<1>2. Size = 0
  BY DEF Size, Fresh
<1>3. Ordered
  BY <1>2 DEF Ordered
<1>4. FaultOK
  BY <1>2 DEF FaultOK, Fresh, NoPen
<1>5. PICK pen \in Pens(stroke) : pen = Device
  BY DevicePen DEF Fresh
<1>6. TraceOK(pen)
  <2>1. PICK way : way = Way
    OBVIOUS
  <2>2. PICK trace \in [0..0 -> Pens(stroke)] :
          Joins(trace, 0, way, pen, stroke) /\ trace[0] = pen
    BY JoinsNone
  <2> QED BY <1>2, <1>5, <2>1, <2>2 DEF TraceOK, Arrives
<1>7. Away(pen)
  BY DEF Away, InkFresh, Fresh
<1>8. DeviceTypes /\ SessionTypes /\ ink_frozen \in BOOLEAN /\ last_pen \in BOOLEAN
  BY DEF Fresh
<1> QED BY <1>1, <1>3, <1>4, <1>6, <1>7, <1>8, AwayInv

LEMMA ReconnectPreserves ==
  ASSUME PenInv, PenReconnect
  PROVE  PenInv'
<1>1. DeviceTypes /\ SessionTypes
  BY DEF PenInv, Types
<1>2. DeviceTypes' /\ last' = NoPen
  BY <1>1 DEF PenReconnect, DeviceTypes, NoPen
<1>3. generation' \in 0..MaxGeneration
  BY <1>1, PenAssumption DEF PenReconnect, SessionTypes
<1>4. SessionTypes'
  BY <1>3 DEF PenReconnect, NewSurface, SessionTypes
<1>5. Fresh'
  BY <1>2, <1>4 DEF PenReconnect, NewSurface, Fresh
<1>6. (Fresh => PenInv)'
  BY FreshInv, PTL
<1> QED BY <1>5, <1>6

LEMMA InitInv ==
  PenInit => PenInv
<1> SUFFICES ASSUME PenInit PROVE PenInv
  OBVIOUS
<1>1. DeviceTypes
  BY PenAssumption DEF PenInit, DeviceTypes, NoPen
<1>2. generation \in 0..MaxGeneration
  BY PenAssumption DEF PenInit
<1>3. SessionTypes
  BY <1>2 DEF PenInit, SessionTypes
<1>4. Fresh
  BY <1>1, <1>3 DEF PenInit, Fresh
<1> QED BY <1>4, FreshInv

LEMMA StutterPreserves ==
  ASSUME PenInv, UNCHANGED penVars
  PROVE  PenInv'
<1>1. /\ tool' = tool /\ tip' = tip /\ last' = last /\ stroke' = stroke
      /\ batch' = batch /\ queue' = queue /\ failed' = failed
  BY DEF penVars, deviceVars, captureVars
<1>2. /\ surface' = surface /\ generation' = generation
      /\ pen_forwarding_enabled' = pen_forwarding_enabled /\ visible' = visible
      /\ presented' = presented /\ local_ink' = local_ink
      /\ ink_paused' = ink_paused /\ pen_available' = pen_available
      /\ physical_pen_in_proximity' = physical_pen_in_proximity
  BY DEF penVars, surfaceVars
<1>3. /\ ink_frozen' = ink_frozen /\ pen_needs_down' = pen_needs_down
      /\ ink_needs_down' = ink_needs_down /\ pen_point' = pen_point
      /\ last_pen' = last_pen /\ inked' = inked /\ bound' = bound
      /\ drawn' = drawn /\ producer' = producer
  BY DEF penVars, inkVars
<1>4. Types' /\ Scope'
  BY <1>1, <1>2, <1>3 DEF PenInv, Types, DeviceTypes, QueueTypes, SessionTypes, InkTypes,
                          Scope, Listening
<1>5. Size' = Size /\ Way' = Way /\ Device' = Device
  BY <1>1 DEF Size, Way, Device
<1>6. StaleOK' /\ FaultOK'
  BY <1>1, <1>2, <1>3, <1>5 DEF PenInv, StaleOK, FaultOK
<1>7. PICK pen \in Pens(stroke) : TraceOK(pen) /\ SessionOK(pen)
  BY DEF PenInv
<1>8. TraceOK(pen)'
  BY <1>1, <1>5, <1>7, SameRecords DEF PenInv
<1>9. SessionOK(pen)'
  BY <1>2, <1>3, <1>7 DEF SessionOK, PenGood, InkGood, InkState
<1> QED BY <1>1, <1>4, <1>6, <1>7, <1>8, <1>9 DEF PenInv


--------------------------------------------------------------------------------
(* The theorems.                                                            *)

(* The traced pen explains the session's filters in every reachable state.  *)
THEOREM PenInvariant == PenSpec => []PenInv
<1>1. PenInit => PenInv
  BY InitInv
<1>2. PenInv /\ [PenNext]_penVars => PenInv'
  <2> SUFFICES ASSUME PenInv, [PenNext]_penVars
               PROVE  PenInv'
    OBVIOUS
  <2>1. CASE PenReport
    BY <2>1, ReportPreserves
  <2>2. CASE PenDropped
    BY <2>2, DroppedPreserves
  <2>3. CASE CaptureFails
    BY <2>3, FailsPreserves
  <2>4. CASE Drain
    BY <2>4, DrainPreserves
  <2>5. CASE pen_reports
    BY <2>5, ReportsPreserves
  <2>6. CASE pen_capture_failed
    BY <2>6, CaptureFailedPreserves
  <2>7. CASE pen_power_key
    BY <2>7, PowerKeyPreserves
  <2>8. ASSUME NEW on \in BOOLEAN,
               \/ set_local_ink(on)
               \/ set_ink_paused(on)
               \/ set_frame_frozen(on)
               \/ overlay_local_ink(on)
        PROVE  PenInv'
    <3>1. local_ink \in BOOLEAN /\ ink_paused \in BOOLEAN /\ ink_frozen \in BOOLEAN
      BY DEF PenInv, Types, SessionTypes, InkTypes
    <3>2. CASE set_local_ink(on)
      BY <3>1, <3>2, ControlPreserves DEF set_local_ink
    <3>3. CASE set_ink_paused(on)
      BY <3>1, <3>3, ControlPreserves DEF set_ink_paused
    <3>4. CASE set_frame_frozen(on)
      BY <3>1, <3>4, ControlPreserves DEF set_frame_frozen
    <3>5. CASE overlay_local_ink(on)
      <4>1. (ink_frozen /\ on) \in BOOLEAN
        OBVIOUS
      <4>2. Control /\ local_ink' = on /\ ink_frozen' = (ink_frozen /\ on)
              /\ ink_paused' = ink_paused
        BY <3>5 DEF overlay_local_ink
      <4> QED BY <3>1, <4>1, <4>2, ControlPreserves
    <3> QED BY <2>8, <3>2, <3>3, <3>4, <3>5
  <2>9. CASE clear_ink
    <3>1. local_ink \in BOOLEAN /\ ink_paused \in BOOLEAN /\ ink_frozen \in BOOLEAN
      BY DEF PenInv, Types, SessionTypes, InkTypes
    <3> QED BY <2>9, <3>1, ControlPreserves DEF clear_ink
  <2>10. CASE CloseMenu
    BY <2>10, ClosePreserves
  <2>11. CASE Present
    BY <2>11, PresentPreserves
  <2>12. CASE pen_open_surface
    BY <2>12, OpenPreserves
  <2>13. CASE pen_close_surface
    BY <2>13, SurfaceClosePreserves
  <2>14. CASE PenReconnect
    BY <2>14, ReconnectPreserves
  <2>15. CASE UNCHANGED penVars
    BY <2>15, StutterPreserves
  <2> QED BY <2>1, <2>2, <2>3, <2>4, <2>5, <2>6, <2>7, <2>8, <2>9, <2>10, <2>11,
             <2>12, <2>13, <2>14, <2>15 DEF PenNext
<1> QED BY <1>1, <1>2, PTL DEF PenSpec

LEMMA Typed == PenInv => PenTypeOK
<1> SUFFICES ASSUME PenInv PROVE PenTypeOK
  OBVIOUS
<1>1. Types /\ DeviceTypes /\ QueueTypes /\ SessionTypes /\ InkTypes
  BY DEF PenInv, Types
<1>2. PICK pen \in Pens(stroke) : SessionOK(pen)
  BY DEF PenInv
<1>3. pen_point \in 0..stroke
  <2>1. pen_point # 0 => pen_point = pen.stroke
    <3>1. InkState(drawn).point = pen_point
      BY DEF InkState
    <3>2. InkGood(pen, pen_needs_down, last_pen, InkState(drawn))
      BY <1>2 DEF SessionOK
    <3> QED BY <3>1, <3>2 DEF InkGood
  <2>2. pen.stroke \in 0..stroke /\ stroke \in Nat
    BY <1>1 DEF Pens, DeviceTypes
  <2> QED BY <2>1, <2>2
<1>4. \A i \in DOMAIN Underway : Len(Underway[i].records) <= 2
  <2>1. Underway \in Seq(Entries)
    BY <1>1, ConcatProperties DEF Underway, QueueTypes
  <2>2. ASSUME NEW i \in DOMAIN Underway
        PROVE  Len(Underway[i].records) <= 2
    <3>1. Underway[i] \in Entries
      BY <2>1, <2>2, ElementOfSeq
    <3> QED BY <3>1 DEF Entries, Short
  <2> QED BY <2>2
<1>5. stroke \in 0..MaxStroke
  BY <1>1, PenAssumption DEF DeviceTypes
<1> QED BY <1>1, <1>3, <1>4, <1>5 DEF PenTypeOK, DeviceTypes, QueueTypes, SessionTypes,
                                      InkTypes, Views

(* The pen's fields keep their types, and the queue its bound               *)
(* (InputCapture, ActiveSurface).                                           *)
THEOREM PenTypes == PenSpec => []PenTypeOK
BY PenInvariant, Typed, PTL

LEMMA Streams == PenInv => PenStream
BY DEF PenInv, Types, InkTypes, Views, PenStream

(* A subscribed producer sees the pen as a pen: one DOWN, MOVEs, one UP or  *)
(* CANCEL, HOVERs outside a contact (pen_reports_inner).                    *)
THEOREM StreamIsPen == PenSpec => []PenStream
BY PenInvariant, Streams, PTL

LEMMA Leaves == PenInv => PenLeaves
<1> SUFFICES ASSUME PenInv, tool = "none" \/ failed, Underway = <<>>
             PROVE  producer = "away" /\ ~physical_pen_in_proximity
  BY DEF PenLeaves
<1>1. Types /\ QueueTypes /\ Scope /\ FaultOK
  BY DEF PenInv, Types
<1>2. Size = 0
  <2>1. Len(Underway) = Len(batch) + Len(queue)
    BY <1>1, ConcatProperties DEF Underway, QueueTypes
  <2>2. Len(Underway) = 0
    OBVIOUS
  <2> QED BY <2>1, <2>2 DEF Size
<1>3. CASE failed
  <2>1. ~pen_available /\ ~physical_pen_in_proximity
    BY <1>1, <1>2, <1>3 DEF FaultOK
  <2>2. ~Listening
    BY <2>1 DEF Listening
  <2> QED BY <1>1, <2>1, <2>2 DEF Scope
<1>4. CASE ~failed
  <2>1. PICK pen \in Pens(stroke) : TraceOK(pen) /\ SessionOK(pen)
    BY DEF PenInv
  <2>2. PICK trace \in [0..Size -> Pens(stroke)] :
          Joins(trace, Size, Way, pen, stroke) /\ Arrives(trace)
    BY <2>1 DEF TraceOK
  <2>3. pen = Device
    BY <1>2, <1>4, <2>2 DEF Arrives, Joins
  <2>4. ~pen.seen
    BY <1>1, <1>4, <2>3 DEF FaultOK, Device
  <2> QED BY <2>1, <2>4 DEF SessionOK, PenGood
<1> QED BY <1>3, <1>4

(* When the pen has left or its device has failed, and its reports are      *)
(* handled, the producer holds no pen and nothing holds off idle cleanup    *)
(* (input_capture_failed, cancel).                                          *)
THEOREM PenIsLet == PenSpec => []PenLeaves
BY PenInvariant, Leaves, PTL

LEMMA Drawings == PenInv => InkFollowsDown /\ FreezeHolds
<1> SUFFICES ASSUME PenInv PROVE InkFollowsDown /\ FreezeHolds
  OBVIOUS
<1>1. PICK pen : InkGood(pen, pen_needs_down, last_pen, InkState(drawn))
  BY DEF PenInv, SessionOK
<1>2. /\ InkState(drawn).drawn = drawn /\ InkState(drawn).inked = inked
      /\ InkState(drawn).bound = bound /\ InkState(drawn).frozen = ink_frozen
  BY DEF InkState
<1>3. \A seg \in drawn : /\ seg[1] = seg[2] /\ seg[2] \in inked
                         /\ freeze_on_pen_down /\ seg[2] \in bound => ink_frozen
  BY <1>1, <1>2 DEF InkGood
<1> QED BY <1>3 DEF InkFollowsDown, FreezeHolds

(* Ink is drawn only inside one contact whose DOWN came after the last      *)
(* control that re-armed the ink (rearm_ink).                               *)
THEOREM InkIsFollowed == PenSpec => []InkFollowsDown
<1>1. PenInv => InkFollowsDown
  BY Drawings
<1> QED BY <1>1, PenInvariant, PTL

(* A contact that began on a presented frame is drawn on a frozen base to   *)
(* its end (freeze_on_pen_down).                                            *)
THEOREM FrozenToTheEnd == PenSpec => []FreezeHolds
<1>1. PenInv => FreezeHolds
  BY Drawings
<1> QED BY <1>1, PenInvariant, PTL
================================================================================
