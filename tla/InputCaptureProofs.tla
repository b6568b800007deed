-------------------------- MODULE InputCaptureProofs ---------------------------
(***************************************************************************)
(* Proofs about the reader thread and its queue, for any capacity, any     *)
(* clock and any number of reports.                                        *)
(***************************************************************************)
EXTENDS InputCapture, FiniteSetTheorems, SequenceTheorems, TLAPS

--------------------------------------------------------------------------------
(* The inductive invariant.                                                 *)

In(seq) == {seq[i] : i \in DOMAIN seq}

\* What was read or can be read and has not been cut off by a watermark.
Waiting == In(pending) \cup In(kernel["pen"]) \cup In(kernel["touch"])

\* Reports of one device stand in the order in which they happened.
InOrder(seq) ==
  \A i, j \in DOMAIN seq :
    i < j /\ seq[i].device = seq[j].device => seq[i].n < seq[j].n

\* All reports of A happened before those of B, device by device.
Precede(A, B) == \A x \in A, y \in B : x.device = y.device => x.n < y.n

Ascends(seq) == \A i, j \in DOMAIN seq : i < j => seq[i].time <= seq[j].time

Discarding == {"old pen", "old touch"}
Reading    == {"pass", "drain pen", "drain touch", "sort", "push"}

Clocks ==
  /\ clock \in 0..MaxTime /\ origin \in 0..clock /\ watermark \in 0..clock
  /\ happened \in 0..MaxReports

Held ==
  /\ kernel \in [Devices -> Seq(TimedReport)] /\ read \in [Devices -> Seq(TimedReport)]
  /\ pending \in Seq(TimedReport) /\ ready \in Seq(TimedReport)

Queued ==
  /\ queue \in Seq(Report) /\ handled \in Seq(Report)
  /\ Len(queue) <= CAPACITY + 1 /\ (~stop => Len(queue) <= CAPACITY)

Flags ==
  /\ reader \in Discarding \cup Reading \cup {"fault", "ended"}
  /\ wake \in BOOLEAN /\ stop \in BOOLEAN /\ failed \in BOOLEAN
  /\ server \in {"idle", "serving", "joining", "deaf"}

Types == Clocks /\ Held /\ Queued /\ Flags

\* The kernel numbers and stamps reports in the order of the clock.
Stamps ==
  /\ \A x \in Waiting : x.time <= clock /\ x.n <= happened
  /\ \A x, y \in Waiting : x.n < y.n => x.time <= y.time

\* The two devices are read to their ends, each in order.
Devoted ==
  /\ \A d \in Devices :
       /\ InOrder(kernel[d]) /\ InOrder(read[d]) /\ Precede(In(read[d]), In(kernel[d]))
       /\ \A x \in In(kernel[d]) \cup In(read[d]) : x.device = d
       /\ \A x \in In(read[d]) : x.n <= happened
  /\ InOrder(pending) /\ InOrder(ready) /\ Precede(In(ready), In(pending))

\* A device that was read in this pass holds nothing older than the watermark.
Marked ==
  /\ reader \in {"drain touch", "sort"} =>
       \A x \in In(kernel["pen"]) : watermark <= x.time
  /\ reader = "sort" => \A x \in In(kernel["touch"]) : watermark <= x.time
  /\ reader \in Reading \ {"push"} => ready = <<>>

\* What goes out is no later than anything that stays.
Cut ==
  /\ Ascends(ready)
  /\ \A x \in In(ready) : x.time <= clock /\ \A y \in Waiting : x.time <= y.time

\* Of the reports given to the session so far ...
Given == {i \in DOMAIN Delivered : Delivered[i].device # "fault"}

\* ... the times are no later than those of what follows them,
Timely ==
  /\ Ascends(Delivered)
  /\ \A i \in Given :
       /\ Delivered[i].time + origin <= clock
       /\ \A y \in In(ready) \cup Waiting : Delivered[i].time + origin <= y.time

\* ... and everything read before one of them precedes it.
Gapless ==
  /\ \A i \in Given :
       \E j \in DOMAIN read[Delivered[i].device] :
         /\ read[Delivered[i].device][j].n = Delivered[i].n
         /\ First(j - 1, Delivered[i].device, read[Delivered[i].device])
              = First(i - 1, Delivered[i].device, Delivered)
  /\ \A i \in Given : \A y \in In(ready) \cup In(pending) :
       Delivered[i].device = y.device => Delivered[i].n < y.n

\* What the reader holds or has given is what it read.
Covered ==
  /\ \A d \in Devices : Numbers(d, ready) \cup Numbers(d, pending) \subseteq Numbers(d, read[d])
  /\ reader \in Reading => \A d \in Devices :
       Numbers(d, read[d]) = Numbers(d, Delivered) \cup Numbers(d, ready) \cup Numbers(d, pending)

\* Nothing of an earlier connection is read.
Fresh ==
  /\ reader \in Reading => \A x \in In(ready) \cup Waiting : origin <= x.time
  /\ reader = "old touch" => \A x \in In(kernel["pen"]) : origin <= x.time
  /\ reader \in Discarding =>
       /\ handled = <<>> /\ queue = <<>> /\ ready = <<>> /\ pending = <<>>
       /\ \A d \in Devices : read[d] = <<>>

\* A fault is the last thing said.
Ends ==
  /\ \A i \in DOMAIN Delivered : i \notin Given => stop /\ i = Len(Delivered)
  /\ reader = "fault" => failed
  /\ server = "serving" /\ reader = "ended" => stop

CaptureInv ==
  /\ Types /\ Stamps /\ Devoted /\ Marked /\ Cut /\ Timely /\ Gapless /\ Covered
  /\ Fresh /\ Ends

--------------------------------------------------------------------------------
(* Sequences of reports.                                                    *)

LEMMA NoReports ==
  ASSUME NEW s, s = <<>>
  PROVE  /\ In(s) = {} /\ InOrder(s) /\ Ascends(s) /\ \A d : Numbers(d, s) = {}
         /\ DOMAIN s = {} /\ Len(s) = 0
<1>1. DOMAIN s = {} /\ Len(s) = 0 /\ 1..0 = {}
  OBVIOUS
<1>2. In(s) = {}
  BY <1>1 DEF In
<1>3. InOrder(s) /\ Ascends(s)
  BY <1>1 DEF InOrder, Ascends
<1>4. \A d : Numbers(d, s) = {}
  BY <1>1 DEF Numbers, First
<1> QED BY <1>1, <1>2, <1>3, <1>4

LEMMA NumbersIn ==
  ASSUME NEW S, NEW s \in Seq(S), NEW d
  PROVE  Numbers(d, s) = {x.n : x \in {y \in In(s) : y.device = d}}
<1>1. DOMAIN s = 1..Len(s)
  OBVIOUS
<1> QED BY <1>1 DEF Numbers, First, In

(* One report is added at the end.                                          *)
LEMMA AddFacts ==
  ASSUME NEW S, NEW s \in Seq(S), NEW x \in S, NEW t, t = Append(s, x)
  PROVE  /\ t \in Seq(S) /\ Len(s) \in Nat /\ DOMAIN s = 1..Len(s)
         /\ Len(t) = Len(s) + 1 /\ DOMAIN t = 1..Len(s) + 1
         /\ t[Len(s) + 1] = x /\ \A i \in 1..Len(s) : t[i] = s[i]
<1>1. /\ t \in Seq(S) /\ Len(s) \in Nat /\ DOMAIN s = 1..Len(s)
      /\ Len(t) = Len(s) + 1 /\ DOMAIN t = 1..Len(s) + 1
      /\ t[Len(s) + 1] = x /\ \A i \in 1..Len(s) : t[i] = s[i]
  OBVIOUS
<1> QED BY <1>1

LEMMA AddIn ==
  ASSUME NEW s \in Seq(TimedReport), NEW x \in TimedReport, NEW t, t = Append(s, x)
  PROVE  In(t) = In(s) \cup {x}
<1>1. /\ Len(s) \in Nat /\ DOMAIN s = 1..Len(s) /\ DOMAIN t = 1..Len(s) + 1
      /\ t[Len(s) + 1] = x /\ \A i \in 1..Len(s) : t[i] = s[i]
  BY AddFacts
<1> QED BY <1>1 DEF In

LEMMA NilFacts ==
  <<>> \in Seq(TimedReport) /\ <<>> \in Seq(Report) /\ <<>> \o <<>> = <<>> /\ Len(<<>>) = 0
OBVIOUS

(* One sequence is put behind another.                                      *)
LEMMA JoinFacts ==
  ASSUME NEW S, NEW s \in Seq(S), NEW r \in Seq(S), NEW t, t = s \o r
  PROVE  /\ t \in Seq(S) /\ Len(s) \in Nat /\ Len(r) \in Nat
         /\ DOMAIN s = 1..Len(s) /\ DOMAIN r = 1..Len(r)
         /\ Len(t) = Len(s) + Len(r) /\ DOMAIN t = 1..Len(s) + Len(r)
         /\ \A i \in 1..Len(s) : t[i] = s[i]
         /\ \A i \in 1..Len(r) : t[Len(s) + i] = r[i]
         /\ \A i \in DOMAIN t : i \in 1..Len(s) \/ i - Len(s) \in 1..Len(r)
<1>1. /\ t \in Seq(S) /\ Len(s) \in Nat /\ Len(r) \in Nat
      /\ DOMAIN s = 1..Len(s) /\ DOMAIN r = 1..Len(r)
      /\ Len(t) = Len(s) + Len(r) /\ DOMAIN t = 1..Len(s) + Len(r)
      /\ \A i \in 1..Len(s) : t[i] = s[i]
      /\ \A i \in 1..Len(r) : t[Len(s) + i] = r[i]
  OBVIOUS
<1>2. \A i \in DOMAIN t : i \in 1..Len(s) \/ i - Len(s) \in 1..Len(r)
  BY <1>1
<1> QED BY <1>1, <1>2

LEMMA JoinIn ==
  ASSUME NEW s \in Seq(TimedReport), NEW r \in Seq(TimedReport), NEW t, t = s \o r
  PROVE  In(t) = In(s) \cup In(r)
<1>1. /\ Len(s) \in Nat /\ Len(r) \in Nat /\ DOMAIN s = 1..Len(s) /\ DOMAIN r = 1..Len(r)
      /\ DOMAIN t = 1..Len(s) + Len(r)
      /\ \A i \in 1..Len(s) : t[i] = s[i]
      /\ \A i \in 1..Len(r) : t[Len(s) + i] = r[i]
  BY JoinFacts
<1>2. \A i \in DOMAIN t : i \in 1..Len(s) \/ i - Len(s) \in 1..Len(r)
  BY JoinFacts
<1>3. \A i \in DOMAIN t : t[i] \in In(s) \cup In(r)
  <2> TAKE i \in DOMAIN t
  <2>1. CASE i \in 1..Len(s)
    BY <1>1, <2>1 DEF In
  <2>2. CASE i - Len(s) \in 1..Len(r)
    <3>1. Len(s) + (i - Len(s)) = i
      BY <1>1
    <3>2. t[Len(s) + (i - Len(s))] = r[i - Len(s)]
      BY <1>1, <2>2
    <3> QED BY <1>1, <2>2, <3>1, <3>2 DEF In
  <2> QED BY <1>2, <2>1, <2>2
<1>4. \A i \in 1..Len(r) : Len(s) + i \in DOMAIN t
  BY <1>1
<1>5. \A i \in 1..Len(s) : i \in DOMAIN t
  BY <1>1
<1>6. In(s) \subseteq In(t)
  BY <1>1, <1>5 DEF In
<1>7. In(r) \subseteq In(t)
  BY <1>1, <1>4 DEF In
<1>8. In(t) \subseteq In(s) \cup In(r)
  BY <1>3 DEF In
<1> QED BY <1>6, <1>7, <1>8

LEMMA JoinOrder ==
  ASSUME NEW s \in Seq(TimedReport), NEW r \in Seq(TimedReport), NEW t, t = s \o r,
         InOrder(s), InOrder(r), Precede(In(s), In(r))
  PROVE  InOrder(t)
<1>1. /\ Len(s) \in Nat /\ Len(r) \in Nat /\ DOMAIN s = 1..Len(s) /\ DOMAIN r = 1..Len(r)
      /\ DOMAIN t = 1..Len(s) + Len(r)
      /\ \A i \in 1..Len(s) : t[i] = s[i]
      /\ \A i \in 1..Len(r) : t[Len(s) + i] = r[i]
      /\ \A i \in DOMAIN t : i \in 1..Len(s) \/ i - Len(s) \in 1..Len(r)
  BY JoinFacts
<1>2. \A i \in DOMAIN t : i - Len(s) \in 1..Len(r) => t[i] = r[i - Len(s)]
  BY <1>1
<1> SUFFICES ASSUME NEW i \in DOMAIN t, NEW j \in DOMAIN t, i < j,
                    t[i].device = t[j].device
             PROVE  t[i].n < t[j].n
  BY DEF InOrder
<1>3. CASE i \in 1..Len(s) /\ j \in 1..Len(s)
  BY <1>1, <1>3 DEF InOrder
<1>4. CASE i \in 1..Len(s) /\ j - Len(s) \in 1..Len(r)
  BY <1>1, <1>2, <1>4 DEF Precede, In
<1>5. CASE i - Len(s) \in 1..Len(r) /\ j - Len(s) \in 1..Len(r)
  <2>1. PICK a, b \in 1..Len(r) : a = i - Len(s) /\ b = j - Len(s)
    BY <1>5
  <2>2. a < b
    BY <1>1, <2>1
  <2>3. t[i] = r[a] /\ t[j] = r[b]
    BY <1>2, <1>5, <2>1
  <2>4. r[a].device = r[b].device /\ a \in DOMAIN r /\ b \in DOMAIN r
    BY <1>1, <2>3
  <2>5. r[a].n < r[b].n
    BY ONLY <2>2, <2>4, InOrder(r) DEF InOrder
  <2> QED BY ONLY <2>3, <2>5
<1>6. CASE i - Len(s) \in 1..Len(r) /\ j \in 1..Len(s)
  BY <1>1, <1>6
<1> QED BY <1>1, <1>3, <1>4, <1>5, <1>6

(* The first report is taken off.                                           *)
LEMMA TakeFacts ==
  ASSUME NEW S, NEW s \in Seq(S), s # <<>>, NEW t, t = Tail(s)
  PROVE  /\ t \in Seq(S) /\ Len(s) \in Nat \ {0} /\ DOMAIN s = 1..Len(s)
         /\ DOMAIN t = 1..Len(s) - 1 /\ Head(s) = s[1] /\ Head(s) \in S
         /\ \A i \in DOMAIN t : i + 1 \in DOMAIN s /\ t[i] = s[i + 1]
         /\ In(s) = {Head(s)} \cup In(t) /\ In(t) \subseteq In(s)
<1>1. /\ t \in Seq(S) /\ Len(s) \in Nat \ {0} /\ DOMAIN s = 1..Len(s)
      /\ DOMAIN t = 1..Len(s) - 1 /\ Head(s) = s[1] /\ Head(s) \in S
      /\ \A i \in DOMAIN t : i + 1 \in DOMAIN s /\ t[i] = s[i + 1]
  OBVIOUS
<1>2. \A i \in DOMAIN s : i = 1 \/ (i - 1 \in DOMAIN t /\ t[i - 1] = s[i])
  BY <1>1
<1>3. In(t) \subseteq In(s) /\ Head(s) \in In(s)
  BY <1>1 DEF In
<1>4. In(s) \subseteq {Head(s)} \cup In(t)
  <2>1. \A i \in DOMAIN s : s[i] = Head(s) \/ s[i] \in In(t)
    BY <1>1, <1>2 DEF In
  <2> QED BY <2>1 DEF In
<1> QED BY <1>1, <1>3, <1>4

LEMMA TakeOrder ==
  ASSUME NEW s \in Seq(TimedReport), s # <<>>, NEW t, t = Tail(s), InOrder(s), Ascends(s)
  PROVE  /\ InOrder(t) /\ Ascends(t) /\ Precede({Head(s)}, In(t))
         /\ \A y \in In(t) : Head(s).time <= y.time
<1>1. /\ Len(s) \in Nat \ {0} /\ DOMAIN s = 1..Len(s)
      /\ DOMAIN t = 1..Len(s) - 1 /\ Head(s) = s[1]
      /\ \A i \in DOMAIN t : i + 1 \in DOMAIN s /\ t[i] = s[i + 1]
  BY TakeFacts
<1>2. \A i, j \in DOMAIN t : i < j =>
        /\ t[i].time <= t[j].time
        /\ t[i].device = t[j].device => t[i].n < t[j].n
  <2> TAKE i, j \in DOMAIN t
  <2> HAVE i < j
  <2>1. PICK a, b \in DOMAIN s : a = i + 1 /\ b = j + 1
    BY <1>1
  <2>2. a < b /\ t[i] = s[a] /\ t[j] = s[b]
    BY <1>1, <2>1
  <2> QED BY <2>2 DEF InOrder, Ascends
<1>3. \A i \in DOMAIN t : 1 < i + 1 /\ 1 \in DOMAIN s
  BY <1>1
<1>4. Precede({Head(s)}, In(t)) /\ \A y \in In(t) : Head(s).time <= y.time
  BY <1>1, <1>3 DEF Precede, In, InOrder, Ascends
<1> QED BY <1>2, <1>4 DEF InOrder, Ascends

--------------------------------------------------------------------------------
(* Sorting.                                                                 *)

(* A stable sort rearranges reports that stood in order into ascending      *)
(* times and leaves those of one device in order (sort_by_key).             *)
LEMMA SortFacts ==
  ASSUME NEW w \in Seq(TimedReport), NEW p \in StableSorts(w), InOrder(w),
         \A x, y \in In(w) : x.n < y.n => x.time <= y.time,
         NEW t, t = [i \in DOMAIN w |-> w[p[i]]]
  PROVE  /\ t \in Seq(TimedReport) /\ DOMAIN t = 1..Len(w) /\ Len(t) = Len(w)
         /\ In(t) = In(w) /\ InOrder(t) /\ Ascends(t)
<1>1. Len(w) \in Nat /\ DOMAIN w = 1..Len(w) /\ \A i \in DOMAIN w : w[i] \in TimedReport
  OBVIOUS
<1>2. /\ p \in [DOMAIN w -> DOMAIN w]
      /\ \A i, j \in DOMAIN w : i < j => Before(w, p[i], p[j])
  BY DEF StableSorts
<1>3. \A i \in DOMAIN w : w[i].time \in Nat /\ w[i].n \in Nat
  BY <1>1 DEF TimedReport
<1>4. /\ t \in Seq(TimedReport) /\ DOMAIN t = 1..Len(w) /\ Len(t) = Len(w)
      /\ \A i \in DOMAIN w : t[i] = w[p[i]]
  BY <1>1, <1>2
<1>5. Ascends(t)
  BY <1>1, <1>2, <1>3, <1>4 DEF Ascends, Before
<1>6. \A i, j \in DOMAIN w : i < j => p[i] # p[j]
  BY <1>1, <1>2, <1>3 DEF Before
<1>7. \A j \in DOMAIN w : \E i \in DOMAIN w : p[i] = j
  <2>1. IsFiniteSet(DOMAIN w)
    BY <1>1, FS_Interval
  <2>2. p \in Injection(DOMAIN w, DOMAIN w)
    BY <1>1, <1>2, <1>6 DEF Injection, IsInjective
  <2>3. p \in Surjection(DOMAIN w, DOMAIN w)
    BY <2>1, <2>2, FS_Injection
  <2> QED BY <2>3 DEF Surjection
<1>8. In(t) = In(w)
  BY <1>1, <1>2, <1>4, <1>7 DEF In
<1>9. InOrder(t)
  <2> SUFFICES ASSUME NEW i \in DOMAIN w, NEW j \in DOMAIN w, i < j,
                      t[i].device = t[j].device
               PROVE  t[i].n < t[j].n
    BY <1>1, <1>4 DEF InOrder
  <2>1. PICK a, b \in DOMAIN w : a = p[i] /\ b = p[j]
    BY <1>2
  <2>2. t[i] = w[a] /\ t[j] = w[b] /\ Before(w, a, b)
    BY <1>2, <1>4, <2>1
  <2>3. a < b \/ b < a
    BY <1>1, <1>3, <2>2 DEF Before
  <2>4. CASE a < b
    BY <2>2, <2>4 DEF InOrder
  <2>5. CASE b < a
    <3>1. w[b].n < w[a].n
      BY <2>2, <2>5 DEF InOrder
    <3>2. w[b].time <= w[a].time
      BY <3>1 DEF In
    <3> QED BY <1>1, <1>3, <2>2, <2>5, <3>2 DEF Before
  <2> QED BY <2>3, <2>4, <2>5
<1> QED BY <1>4, <1>5, <1>8, <1>9

(* The sorted reports are divided at the watermark (partition_point,        *)
(* drain(..ready)).                                                         *)
LEMMA DivideIn ==
  ASSUME NEW t \in Seq(TimedReport), NEW k \in 0..Len(t),
         NEW a, a = SubSeq(t, 1, k), NEW b, b = Kept(t, k)
  PROVE  \A x : x \in In(t) <=> x \in In(a) \/ x \in In(b)
<1>1. Len(t) \in Nat /\ DOMAIN t = 1..Len(t) /\ k \in Nat /\ k <= Len(t)
  OBVIOUS
<1>2. /\ a \in Seq(TimedReport) /\ DOMAIN a = 1..k /\ \A i \in 1..k : a[i] = t[i]
  BY <1>1
<1>3. /\ b \in Seq(TimedReport) /\ DOMAIN b = 1..Len(t) - k
      /\ \A i \in 1..Len(t) - k : b[i] = t[k + i]
  BY <1>1 DEF Kept
<1>4. \A i \in 1..Len(t) - k : k + i \in DOMAIN t /\ ~(k + i <= k)
  BY <1>1
<1>5. \A i \in 1..k : i \in DOMAIN t /\ i <= k
  BY <1>1
<1>6. \A i \in DOMAIN t : i \in 1..k \/ (i - k \in 1..Len(t) - k /\ k + (i - k) = i)
  BY <1>1
<1>7. In(a) \subseteq In(t) /\ In(b) \subseteq In(t)
  BY <1>2, <1>3, <1>4, <1>5 DEF In
<1>8. \A i \in DOMAIN t : t[i] \in In(a) \cup In(b)
  <2> TAKE i \in DOMAIN t
  <2>1. CASE i \in 1..k
    BY <1>2, <2>1 DEF In
  <2>2. CASE i - k \in 1..Len(t) - k /\ k + (i - k) = i
    <3>1. b[i - k] = t[i] /\ i - k \in DOMAIN b
      BY <1>3, <2>2
    <3> QED BY <3>1 DEF In
  <2> QED BY <1>6, <2>1, <2>2
<1> QED BY <1>7, <1>8 DEF In

LEMMA DivideFacts ==
  ASSUME NEW t \in Seq(TimedReport), NEW k \in 0..Len(t), InOrder(t), Ascends(t),
         Settled(t, k), NEW a, a = SubSeq(t, 1, k), NEW b, b = Kept(t, k)
  PROVE  /\ a \in Seq(TimedReport) /\ b \in Seq(TimedReport)
         /\ InOrder(a) /\ InOrder(b) /\ Precede(In(a), In(b)) /\ Ascends(a)
         /\ \A x \in In(a) : x.time <= watermark
         /\ \A x \in In(b) : ~(x.time <= watermark)
<1>1. Len(t) \in Nat /\ DOMAIN t = 1..Len(t) /\ k \in Nat /\ k <= Len(t)
  OBVIOUS
<1>2. /\ a \in Seq(TimedReport) /\ DOMAIN a = 1..k /\ \A i \in 1..k : a[i] = t[i]
  BY <1>1
<1>3. /\ b \in Seq(TimedReport) /\ DOMAIN b = 1..Len(t) - k
      /\ \A i \in 1..Len(t) - k : b[i] = t[k + i]
  BY <1>1 DEF Kept
<1>4. \A i \in 1..Len(t) - k : k + i \in DOMAIN t /\ ~(k + i <= k)
  BY <1>1
<1>5. \A i \in 1..k : i \in DOMAIN t /\ i <= k
  BY <1>1
<1>6. InOrder(a) /\ Ascends(a)
  BY <1>1, <1>2, <1>5 DEF InOrder, Ascends
<1>7. InOrder(b)
  <2> SUFFICES ASSUME NEW i \in DOMAIN b, NEW j \in DOMAIN b, i < j,
                      b[i].device = b[j].device
               PROVE  b[i].n < b[j].n
    BY DEF InOrder
  <2>1. PICK g \in DOMAIN t, h \in DOMAIN t : g = k + i /\ h = k + j
    BY <1>3, <1>4
  <2>2. g < h
    BY <1>1, <1>3, <2>1
  <2>3. b[i] = t[g] /\ b[j] = t[h]
    BY <1>3, <2>1
  <2> QED BY <2>2, <2>3 DEF InOrder
<1>8. Precede(In(a), In(b))
  <2>1. \A i \in DOMAIN a : \A j \in DOMAIN b :
          a[i].device = b[j].device => a[i].n < b[j].n
    <3> TAKE i \in DOMAIN a
    <3> TAKE j \in DOMAIN b
    <3>1. PICK h \in DOMAIN t : h = k + j
      BY <1>3, <1>4
    <3>2. a[i] = t[i] /\ b[j] = t[h] /\ i \in DOMAIN t /\ i < h
      BY <1>1, <1>2, <1>3, <1>5, <3>1
    <3> QED BY <3>2 DEF InOrder
  <2> QED BY <2>1 DEF Precede, In
<1>9. \A x \in In(a) : x.time <= watermark
  BY <1>2, <1>5 DEF In, Settled
<1>10. \A x \in In(b) : ~(x.time <= watermark)
  BY <1>3, <1>4 DEF In, Settled
<1> QED BY <1>2, <1>3, <1>6, <1>7, <1>8, <1>9, <1>10

--------------------------------------------------------------------------------
(* Types.                                                                   *)

LEMMA TypeFacts ==
  ASSUME CaptureInv
  PROVE  /\ clock \in Nat /\ origin \in Nat /\ watermark \in Nat /\ happened \in Nat
         /\ origin <= clock /\ watermark <= clock
         /\ clock <= MaxTime /\ happened <= MaxReports
         /\ MaxTime \in Nat /\ MaxReports \in Nat /\ CAPACITY \in Nat
         /\ stop \in BOOLEAN
         /\ kernel \in [Devices -> Seq(TimedReport)] /\ read \in [Devices -> Seq(TimedReport)]
         /\ pending \in Seq(TimedReport) /\ ready \in Seq(TimedReport)
         /\ queue \in Seq(Report) /\ handled \in Seq(Report)
         /\ Delivered \in Seq(Report)
<1>1. MaxTime \in Nat /\ MaxReports \in Nat /\ CAPACITY \in Nat
  BY CaptureAssumption
<1>2. Clocks /\ Held /\ Queued /\ Flags
  BY DEF CaptureInv, Types
<1>3. /\ clock \in Nat /\ origin \in Nat /\ watermark \in Nat /\ happened \in Nat
      /\ origin <= clock /\ watermark <= clock
      /\ clock <= MaxTime /\ happened <= MaxReports
  BY <1>1, <1>2 DEF Clocks
<1>4. queue \in Seq(Report) /\ handled \in Seq(Report)
  BY <1>2 DEF Queued
<1>5. Delivered \in Seq(Report)
  BY <1>4 DEF Delivered
<1> QED BY <1>1, <1>2, <1>3, <1>4, <1>5 DEF Held, Flags

LEMMA NatFacts ==
  ASSUME CaptureInv
  PROVE  /\ clock \in Nat /\ origin \in Nat /\ watermark \in Nat /\ happened \in Nat
         /\ origin <= clock /\ watermark <= clock
         /\ clock <= MaxTime /\ happened <= MaxReports
         /\ MaxTime \in Nat /\ MaxReports \in Nat /\ CAPACITY \in Nat
BY TypeFacts

(* Times relative to the start of the connection.                           *)
LEMMA Shift ==
  ASSUME NEW a \in Nat, NEW b \in Nat, NEW o \in Nat, a + o <= b
  PROVE  a <= b - o
OBVIOUS

LEMMA ShiftRange ==
  ASSUME NEW b \in Nat, NEW o \in Nat, NEW c \in Nat, NEW m \in Nat, o <= b, b <= c, c <= m
  PROVE  b - o \in 0..m /\ (b - o) + o = b
OBVIOUS

LEMMA ReportFacts ==
  /\ \A x \in TimedReport : x.time \in Nat /\ x.n \in Nat /\ x.n >= 1 /\ x.device \in Devices
  /\ \A x \in Report : x.time \in Nat /\ x.n \in Nat
  /\ TimedReport \subseteq Report
  /\ \A x \in Report : x.device # "fault" => x \in TimedReport
<1>1. \A x \in TimedReport : x.time \in Nat /\ x.n \in Nat /\ x.n >= 1 /\ x.device \in Devices
  BY CaptureAssumption DEF TimedReport
<1>2. \A x \in Report : x.time \in Nat /\ x.n \in Nat
  BY <1>1, CaptureAssumption DEF Report
<1> QED BY <1>1, <1>2 DEF Report

LEMMA InFacts ==
  /\ \A S : \A s \in Seq(S) : \A x \in In(s) : x \in S
  /\ \A S : \A s \in Seq(S) : \A i \in DOMAIN s : s[i] \in S /\ s[i] \in In(s)
BY DEF In

(* What is held are reports with times and numbers.                         *)
LEMMA HeldFacts ==
  ASSUME CaptureInv
  PROVE  /\ \A x \in Waiting \cup In(ready) : x \in TimedReport /\ x.time \in Nat /\ x.n \in Nat
         /\ \A d \in Devices : \A x \in In(kernel[d]) \cup In(read[d]) :
               x \in TimedReport /\ x.time \in Nat /\ x.n \in Nat
         /\ \A i \in DOMAIN Delivered :
               /\ Delivered[i].time \in Nat /\ Delivered[i].n \in Nat
               /\ Delivered[i].time + origin \in Nat
<1>1. \A d \in Devices : kernel[d] \in Seq(TimedReport) /\ read[d] \in Seq(TimedReport)
  BY TypeFacts
<1>2. "pen" \in Devices /\ "touch" \in Devices
  BY DEF Devices
<1>3. \A x \in Waiting \cup In(ready) : x \in TimedReport
  BY <1>1, <1>2, TypeFacts, InFacts DEF Waiting
<1>4. \A d \in Devices : \A x \in In(kernel[d]) \cup In(read[d]) : x \in TimedReport
  BY <1>1, InFacts
<1>5. \A i \in DOMAIN Delivered : Delivered[i] \in Report
  BY TypeFacts, InFacts
<1>6. origin \in Nat
  BY TypeFacts
<1>7. \A i \in DOMAIN Delivered : Delivered[i].time \in Nat /\ Delivered[i].n \in Nat
  BY <1>5, ReportFacts
<1> QED BY <1>3, <1>4, <1>6, <1>7, ReportFacts

--------------------------------------------------------------------------------
(* Steps that move no report.                                               *)

(* Such a step keeps the invariant if the reader goes on to a place where   *)
(* what it holds is in order.                                               *)
LEMMA StillKeeps ==
  ASSUME CaptureInv, UNCHANGED <<kernel, happened, origin, pending, ready, read>>,
         Delivered' = Delivered, clock \in Nat, clock' \in Nat, clock <= clock',
         Types', Marked', Ends',
         reader' \in Reading => reader \in Reading,
         reader' \in Discarding =>
           reader' = reader /\ UNCHANGED <<handled, queue>>
  PROVE  CaptureInv'
<1>1. Waiting' = Waiting
  BY DEF Waiting
<1>2. \A x \in Waiting \cup In(ready) : x.time \in Nat
  BY HeldFacts
<1>3. Stamps'
  BY <1>1, <1>2 DEF CaptureInv, Stamps
<1>4. Devoted'
  BY DEF CaptureInv, Devoted
<1>5. Cut'
  BY <1>1, <1>2 DEF CaptureInv, Cut
<1>6. Given' = Given
  BY DEF Given
<1>7. \A i \in Given : Delivered[i].time + origin \in Nat
  BY HeldFacts DEF Given
<1>8. Timely'
  BY <1>1, <1>6, <1>7 DEF CaptureInv, Timely
<1>9. Gapless'
  BY <1>6 DEF CaptureInv, Gapless
<1>10. Covered'
  BY DEF CaptureInv, Covered
<1>11. Fresh'
  BY <1>1 DEF CaptureInv, Fresh, Discarding
<1> QED BY <1>3, <1>4, <1>5, <1>8, <1>9, <1>10, <1>11 DEF CaptureInv

(* Only the clock or the place of the reader changes (Tick, BeginPass,      *)
(* PollReturns).                                                            *)
LEMMA TickKeeps ==
  ASSUME CaptureInv, Tick
  PROVE  CaptureInv'
<1> USE DEF Tick, readerVars, queueVars, serverVars
<1>1. Types'
  <2>1. Clocks'
    BY TypeFacts DEF CaptureInv, Types, Clocks
  <2> QED BY <2>1 DEF CaptureInv, Types, Held, Queued, Flags
<1>2. Delivered' = Delivered
  BY DEF Delivered
<1>3. Marked' /\ Ends'
  BY <1>2 DEF CaptureInv, Marked, Ends, Given
<1>4. clock \in Nat /\ clock' \in Nat /\ clock <= clock'
  BY TypeFacts
<1> QED BY <1>1, <1>2, <1>3, <1>4, StillKeeps

\* The reader thread goes on and touches nothing but its place and watermark.
Moves == UNCHANGED <<clock, kernel, happened, origin, pending, ready, read, queue, handled>>

LEMMA MovesFacts ==
  ASSUME CaptureInv, Moves
  PROVE  Delivered' = Delivered /\ Given' = Given /\ clock \in Nat /\ clock' = clock
<1>1. clock \in Nat
  BY TypeFacts
<1> QED BY <1>1 DEF Moves, Delivered, Given

LEMMA BeginPassKeeps ==
  ASSUME CaptureInv, BeginPass
  PROVE  CaptureInv'
<1>1. /\ Moves /\ reader = "pass" /\ UNCHANGED <<wake, stop, failed, server>>
      /\ \/ stop /\ reader' = "ended" /\ watermark' = watermark
         \/ reader' = "drain pen" /\ watermark' = clock
  BY DEF BeginPass, Private, Moves, queueVars, serverVars, Stopped
<1>2. Delivered' = Delivered /\ Given' = Given /\ clock \in Nat /\ clock' = clock
  BY <1>1, MovesFacts
<1>3. Types'
  <2>1. Clocks'
    <3>1. watermark' = watermark \/ watermark' = clock
      BY <1>1
    <3>2. watermark \in 0..clock /\ clock \in 0..clock
      BY TypeFacts
    <3>3. watermark' \in 0..clock'
      BY <1>2, <3>1, <3>2
    <3> QED BY <1>1, <3>3 DEF CaptureInv, Types, Moves, Clocks
  <2>2. Held' /\ Queued'
    BY <1>1 DEF CaptureInv, Types, Moves, Held, Queued
  <2>3. Flags'
    BY <1>1 DEF CaptureInv, Types, Flags, Reading
  <2> QED BY <2>1, <2>2, <2>3 DEF Types
<1>4. Marked'
  BY <1>1 DEF CaptureInv, Marked, Reading, Moves
<1>5. Ends'
  BY <1>1, <1>2 DEF CaptureInv, Ends
<1>6. reader' \notin Discarding /\ reader \in Reading
  BY <1>1 DEF Reading, Discarding
<1>7. clock' \in Nat /\ clock <= clock'
  BY <1>2
<1> QED BY <1>1, <1>2, <1>3, <1>4, <1>5, <1>6, <1>7, StillKeeps DEF Moves

LEMMA PollReturnsKeeps ==
  ASSUME CaptureInv, PollReturns
  PROVE  CaptureInv'
<1>1. /\ Moves /\ reader = "push" /\ reader' = "pass" /\ ready = <<>>
      /\ UNCHANGED <<watermark, wake, stop, failed, server>>
  BY DEF PollReturns, Private, Moves, queueVars, serverVars
<1>2. Delivered' = Delivered /\ Given' = Given /\ clock \in Nat /\ clock' = clock
  BY <1>1, MovesFacts
<1>3. Types'
  <2>1. Clocks' /\ Held' /\ Queued'
    BY <1>1, <1>2, TypeFacts DEF CaptureInv, Types, Moves, Clocks, Held, Queued
  <2>2. Flags'
    BY <1>1 DEF CaptureInv, Types, Flags, Reading
  <2> QED BY <2>1, <2>2 DEF Types
<1>4. Marked'
  BY <1>1 DEF Marked, Moves
<1>5. Ends'
  BY <1>1, <1>2 DEF CaptureInv, Ends
<1> QED BY <1>1, <1>2, <1>3, <1>4, <1>5, StillKeeps DEF Moves, Reading, Discarding

(* run returns an error (DeviceFails, Overruns).                            *)
LEMMA FailsKeeps ==
  ASSUME CaptureInv, Fails
  PROVE  CaptureInv'
<1>1. /\ Moves /\ reader' = "fault" /\ failed' = TRUE
      /\ UNCHANGED <<watermark, wake, stop, server>>
  BY DEF Fails, Moves, worldVars, serverVars
<1>2. Delivered' = Delivered /\ Given' = Given /\ clock \in Nat /\ clock' = clock
  BY <1>1, MovesFacts
<1>3. Types'
  <2>1. Clocks' /\ Held' /\ Queued'
    BY <1>1, <1>2, TypeFacts DEF CaptureInv, Types, Moves, Clocks, Held, Queued
  <2>2. Flags'
    BY <1>1 DEF CaptureInv, Types, Flags, Reading
  <2> QED BY <2>1, <2>2 DEF Types
<1>4. Marked'
  BY <1>1 DEF Marked, Reading
<1>5. Ends'
  BY <1>1, <1>2 DEF CaptureInv, Ends
<1> QED BY <1>1, <1>2, <1>3, <1>4, <1>5, StillKeeps DEF Moves, Reading, Discarding

(* The serving thread ends its loop and joins the reader (EndLoop, Join).   *)
LEMMA ServerEndsKeeps ==
  ASSUME CaptureInv, EndLoop \/ Join
  PROVE  CaptureInv'
<1>1. /\ Moves /\ UNCHANGED <<reader, watermark, wake, failed>>
      /\ stop' \in {TRUE, FALSE} /\ (stop => stop') /\ server' # "serving"
      /\ server' \in {"idle", "joining", "deaf"}
  <2>1. stop \in {TRUE, FALSE}
    BY TypeFacts
  <2>2. CASE EndLoop
    BY <2>1, <2>2 DEF EndLoop, Moves, worldVars, readerVars
  <2>3. CASE Join
    <3>1. /\ Moves /\ UNCHANGED <<reader, watermark, wake, failed, stop>>
          /\ server' = "deaf" \/ server' = "idle"
      BY <2>3 DEF Join, Moves, worldVars, readerVars, queueVars
    <3> QED BY <2>1, <3>1
  <2> QED BY <2>2, <2>3
<1>2. Delivered' = Delivered /\ Given' = Given /\ clock \in Nat /\ clock' = clock
  BY <1>1, MovesFacts
<1>3. Types'
  <2>1. Clocks' /\ Held' /\ Queued'
    BY <1>1, <1>2, TypeFacts DEF CaptureInv, Types, Moves, Clocks, Held, Queued
  <2>2. Flags'
    BY <1>1 DEF CaptureInv, Types, Flags, Reading
  <2> QED BY <2>1, <2>2 DEF Types
<1>4. Marked'
  BY <1>1 DEF CaptureInv, Marked, Moves
<1>5. Ends'
  BY <1>1, <1>2 DEF CaptureInv, Ends
<1>6. clock' \in Nat /\ clock <= clock'
  BY <1>2
<1> QED BY <1>1, <1>2, <1>3, <1>4, <1>5, <1>6, StillKeeps DEF Moves

(* The session takes what the queue holds (drain).                          *)
LEMMA DrainKeeps ==
  ASSUME CaptureInv, Drain
  PROVE  CaptureInv'
<1>1. /\ UNCHANGED <<clock, kernel, happened, origin, pending, ready, read, reader,
                     watermark, stop, failed, server>>
      /\ handled' = handled \o queue /\ queue' = <<>> /\ wake' = FALSE
  BY DEF Drain, worldVars, readerVars
<1>2. handled \in Seq(Report) /\ queue \in Seq(Report) /\ clock \in Nat
  BY TypeFacts
<1>3. handled' \in Seq(Report) /\ queue' \in Seq(Report) /\ Len(queue') = 0
  BY <1>1, <1>2
<1>4. Delivered' = Delivered
  <2>1. Delivered' = (handled \o queue) \o <<>>
    BY <1>1 DEF Delivered
  <2> QED BY <1>2, <2>1 DEF Delivered
<1>5. Given' = Given
  BY <1>4 DEF Given
<1>6. Types'
  <2>1. Queued'
    BY <1>3, TypeFacts DEF Queued
  <2> QED BY <1>1, <2>1 DEF CaptureInv, Types, Clocks, Held, Flags
<1>7. Marked' /\ Ends'
  BY <1>1, <1>4, <1>5 DEF CaptureInv, Marked, Ends
<1>8. reader' \in Discarding => UNCHANGED <<handled, queue>>
  <2>1. reader \in Discarding => handled = <<>> /\ queue = <<>>
    BY DEF CaptureInv, Fresh
  <2> QED BY <1>1, <2>1, NilFacts
<1> QED BY <1>1, <1>2, <1>4, <1>6, <1>7, <1>8, StillKeeps

--------------------------------------------------------------------------------
(* Reports happen and are thrown away.                                      *)

LEMMA AddOrder ==
  ASSUME NEW s \in Seq(TimedReport), NEW x \in TimedReport, NEW t, t = Append(s, x),
         InOrder(s), \A y \in In(s) : y.device = x.device => y.n < x.n
  PROVE  InOrder(t)
<1>1. /\ Len(s) \in Nat /\ DOMAIN s = 1..Len(s) /\ DOMAIN t = 1..Len(s) + 1
      /\ t[Len(s) + 1] = x /\ \A i \in 1..Len(s) : t[i] = s[i]
  BY AddFacts
<1> SUFFICES ASSUME NEW i \in DOMAIN t, NEW j \in DOMAIN t, i < j,
                    t[i].device = t[j].device
             PROVE  t[i].n < t[j].n
  BY DEF InOrder
<1>2. i \in 1..Len(s) /\ (j \in 1..Len(s) \/ j = Len(s) + 1)
  BY <1>1
<1>3. CASE j \in 1..Len(s)
  BY <1>1, <1>2, <1>3 DEF InOrder
<1>4. CASE j = Len(s) + 1
  BY <1>1, <1>2, <1>4 DEF In
<1> QED BY <1>2, <1>3, <1>4

LEMMA HappensKeeps ==
  ASSUME CaptureInv, NEW d \in Devices, Happens(d)
  PROVE  CaptureInv'
<1>1. /\ UNCHANGED <<clock, origin, reader, watermark, pending, ready, read, queue,
                     wake, stop, failed, server, handled>>
      /\ happened < MaxReports /\ happened' = happened + 1
  BY DEF Happens, readerVars, queueVars, serverVars
<1>2. PICK x : x = [device |-> d, time |-> clock, n |-> happened + 1]
  OBVIOUS
<1>3. kernel' = [kernel EXCEPT ![d] = Append(kernel[d], x)]
  BY <1>2 DEF Happens
<1>4. x \in TimedReport /\ x.device = d /\ x.time = clock /\ x.n = happened + 1
  <2>1. clock \in 0..MaxTime /\ happened + 1 \in 1..MaxReports
    BY <1>1, NatFacts
  <2> QED BY <1>2, <2>1 DEF TimedReport
<1>5. /\ kernel' \in [Devices -> Seq(TimedReport)]
      /\ kernel'[d] = Append(kernel[d], x)
      /\ \A e \in Devices : e # d => kernel'[e] = kernel[e]
  <2>1. kernel \in [Devices -> Seq(TimedReport)]
    BY TypeFacts
  <2>2. Append(kernel[d], x) \in Seq(TimedReport)
    BY <1>4, <2>1
  <2> QED BY <1>3, <2>1, <2>2
<1>6. In(kernel'[d]) = In(kernel[d]) \cup {x}
  <2>0. PICK s \in Seq(TimedReport) : s = kernel[d]
    BY TypeFacts
  <2>1. PICK t : s = kernel[d] /\ t = kernel'[d]
    BY <2>0
  <2>2. t = Append(s, x)
    BY <1>5, <2>1
  <2>3. In(t) = In(s) \cup {x}
    <3>1. x \in TimedReport
      BY <1>4
    <3> QED BY <2>2, <3>1, AddIn
  <2> QED BY <2>1, <2>3
<1>7. \A e \in Devices : In(kernel'[e]) \subseteq In(kernel[e]) \cup {x}
  BY <1>5, <1>6
<1>8. Waiting' = Waiting \cup {x}
  BY <1>1, <1>5, <1>6 DEF Waiting, Devices
<1>9. Delivered' = Delivered /\ Given' = Given
  BY <1>1 DEF Delivered, Given
<1>10. \A y \in Waiting \cup In(ready) : y.time \in Nat /\ y.n \in Nat
  BY HeldFacts
<1>11. Types'
  <2>1. Clocks'
    BY <1>1, NatFacts DEF CaptureInv, Types, Clocks
  <2> QED BY <1>1, <1>5, <2>1 DEF CaptureInv, Types, Held, Queued, Flags
<1>12. \A y \in Waiting : y.time <= clock /\ y.n <= happened
  BY DEF CaptureInv, Stamps
<1>13. Stamps'
  <2>1. \A y \in Waiting' : y.time <= clock' /\ y.n <= happened'
    <3> TAKE y \in Waiting'
    <3>1. CASE y = x
      BY <1>1, <1>4, <3>1, NatFacts
    <3>2. CASE y \in Waiting
      <4>1. PICK m \in Nat : m = y.n
        BY <1>10, <3>2
      <4>2. y.time <= clock /\ m <= happened
        BY <1>12, <3>2, <4>1
      <4>3. m <= happened + 1
        BY <4>2, NatFacts
      <4> QED BY <1>1, <4>1, <4>2, <4>3
    <3> QED BY <1>8, <3>1, <3>2
  <2>2. ASSUME NEW y \in Waiting', NEW z \in Waiting', y.n < z.n
        PROVE  y.time <= z.time
    <3>1. CASE z = x
      BY <1>1, <1>4, <2>1, <3>1
    <3>2. CASE y = x /\ z \in Waiting
      BY <1>4, <1>10, <1>12, <2>2, <3>2, NatFacts
    <3>3. CASE y \in Waiting /\ z \in Waiting
      BY <2>2, <3>3 DEF CaptureInv, Stamps
    <3> QED BY <1>8, <3>1, <3>2, <3>3
  <2> QED BY <2>1, <2>2 DEF Stamps
<1>14. In(kernel[d]) \subseteq Waiting
  BY DEF Waiting, Devices
<1>15. Devoted'
  <2>1. \A y \in In(kernel[d]) : y.n < x.n
    BY <1>4, <1>10, <1>12, <1>14, NatFacts
  <2>2. InOrder(kernel'[d])
    <3>1. InOrder(kernel[d])
      BY DEF CaptureInv, Devoted
    <3> QED BY <1>4, <1>5, <2>1, <3>1, TypeFacts, AddOrder
  <2>3. \A y \in In(read[d]) : y.n <= happened /\ y.n \in Nat
    BY HeldFacts DEF CaptureInv, Devoted
  <2>4. \A y \in In(read[d]) : y.n < x.n
    BY <1>4, <2>3, NatFacts
  <2>5. Precede(In(read[d]), In(kernel'[d]))
    BY <1>6, <2>4 DEF CaptureInv, Devoted, Precede
  <2>6. \A e \in Devices : \A y \in In(read[e]) : y.n <= happened'
    <3>1. \A e \in Devices : \A y \in In(read[e]) : y.n <= happened /\ y.n \in Nat
      BY HeldFacts DEF CaptureInv, Devoted
    <3>2. \A k \in Nat : k <= happened => k <= happened + 1
      BY NatFacts
    <3> QED BY <1>1, <3>1, <3>2
  <2>7. \A e \in Devices : \A y \in In(kernel'[e]) \cup In(read[e]) : y.device = e
    BY <1>4, <1>5, <1>6 DEF CaptureInv, Devoted
  <2>8. \A e \in Devices : InOrder(kernel'[e]) /\ Precede(In(read[e]), In(kernel'[e]))
    BY <1>5, <2>2, <2>5 DEF CaptureInv, Devoted
  <2> QED BY <1>1, <2>6, <2>7, <2>8 DEF CaptureInv, Devoted
<1>16. Marked'
  <2>1. watermark <= x.time
    BY <1>4, NatFacts
  <2> QED BY <1>1, <1>7, <2>1 DEF CaptureInv, Marked, Devices
<1>17. Cut'
  BY <1>1, <1>4, <1>8 DEF CaptureInv, Cut
<1>18. Timely'
  BY <1>1, <1>4, <1>8, <1>9 DEF CaptureInv, Timely
<1>19. Gapless' /\ Covered'
  BY <1>1, <1>9 DEF CaptureInv, Gapless, Covered
<1>20. Fresh'
  <2>1. origin <= x.time
    BY <1>4, NatFacts
  <2> QED BY <1>1, <1>7, <1>8, <2>1 DEF CaptureInv, Fresh, Devices
<1>21. Ends'
  BY <1>1, <1>9 DEF CaptureInv, Ends
<1> QED BY <1>11, <1>13, <1>15, <1>16, <1>17, <1>18, <1>19, <1>20, <1>21 DEF CaptureInv

(* Nothing was read yet: only the unread reports are there to be in order.  *)
LEMMA EmptyKeeps ==
  ASSUME CaptureInv, Types', clock' = clock, happened' = happened,
         \A d \in Devices : kernel'[d] = kernel[d] \/ kernel'[d] = <<>>,
         \A d \in Devices : read'[d] = <<>>,
         pending' = <<>>, ready' = <<>>, queue' = <<>>, handled' = <<>>,
         reader' \in {"old pen", "old touch", "pass"},
         Fresh'
  PROVE  CaptureInv'
<1>1. \A d \in Devices : In(kernel'[d]) \subseteq In(kernel[d])
  BY NoReports
<1>2. Waiting' \subseteq Waiting
  BY <1>1, NoReports DEF Waiting, Devices
<1>3. Delivered' = <<>>
  BY NilFacts DEF Delivered
<1>4. DOMAIN Delivered' = {} /\ Given' = {} /\ Ascends(Delivered)'
  <2>1. DOMAIN Delivered' = {}
    BY <1>3, NoReports
  <2> QED BY <2>1 DEF Given, Ascends
<1>5. Stamps'
  BY <1>2 DEF CaptureInv, Stamps
<1>6. In(ready') = {} /\ In(pending') = {} /\ \A d \in Devices : In(read'[d]) = {}
  BY NoReports
<1>7. Devoted'
  <2>1. \A d \in Devices : InOrder(kernel'[d]) /\ InOrder(read'[d])
    BY NoReports DEF CaptureInv, Devoted
  <2>2. \A d \in Devices : \A x \in In(kernel'[d]) \cup In(read'[d]) : x.device = d
    BY <1>1, <1>6 DEF CaptureInv, Devoted
  <2> QED BY <1>6, <2>1, <2>2, NoReports DEF Devoted, Precede
<1>8. Marked'
  BY DEF Marked
<1>9. Cut' /\ Timely' /\ Gapless'
  BY <1>4, <1>6, NoReports DEF Cut, Timely, Gapless
<1>10. Covered'
  <2>1. \A d \in Devices :
          /\ Numbers(d, ready') = {} /\ Numbers(d, pending') = {}
          /\ Numbers(d, read'[d]) = {} /\ Numbers(d, Delivered') = {}
    BY <1>3, NoReports
  <2> QED BY <2>1 DEF Covered
<1>11. Ends'
  BY <1>4 DEF Ends
<1> QED BY <1>5, <1>7, <1>8, <1>9, <1>10, <1>11 DEF CaptureInv

LEMMA ConnectKeeps ==
  ASSUME CaptureInv, Connect
  PROVE  CaptureInv'
<1>1. /\ UNCHANGED <<clock, kernel, happened>> /\ origin' = clock /\ watermark' = 0
      /\ reader' = "old pen" /\ server' = "serving"
      /\ pending' = <<>> /\ ready' = <<>> /\ queue' = <<>> /\ handled' = <<>>
      /\ wake' = FALSE /\ stop' = FALSE /\ failed' = FALSE
      /\ read' = [d \in Devices |-> <<>>]
  BY DEF Connect, worldVars
<1>2. <<>> \in Seq(TimedReport) /\ <<>> \in Seq(Report) /\ Len(<<>>) = 0
  BY NilFacts
<1>3. Clocks'
  <2>1. clock \in 0..MaxTime /\ clock \in 0..clock /\ 0 \in 0..clock
        /\ happened \in 0..MaxReports
    BY TypeFacts
  <2> QED BY <1>1, <2>1 DEF Clocks
<1>4. Held'
  <2>1. kernel \in [Devices -> Seq(TimedReport)]
    BY TypeFacts
  <2>2. read' \in [Devices -> Seq(TimedReport)]
    BY <1>1, <1>2
  <2> QED BY <1>1, <1>2, <2>1, <2>2 DEF Held
<1>5. Queued'
  <2>1. 0 <= CAPACITY /\ 0 <= CAPACITY + 1
    BY TypeFacts
  <2> QED BY <1>1, <1>2, <2>1 DEF Queued
<1>6. Flags'
  BY <1>1 DEF Flags, Discarding
<1>7. \A d \in Devices : kernel'[d] = kernel[d] /\ read'[d] = <<>>
  BY <1>1
<1>8. Fresh'
  BY <1>1, <1>7 DEF Fresh, Reading
<1> QED BY <1>1, <1>3, <1>4, <1>5, <1>6, <1>7, <1>8, EmptyKeeps DEF Types

LEMMA DiscardOldKeeps ==
  ASSUME CaptureInv, NEW d \in Devices, DiscardOld(d)
  PROVE  CaptureInv'
<1>1. /\ UNCHANGED <<clock, happened, origin, watermark, pending, ready, read, queue,
                     wake, stop, failed, server, handled>>
      /\ kernel' = [kernel EXCEPT ![d] = <<>>]
      /\ reader \in Discarding
      /\ \/ d = "pen" /\ reader = "old pen" /\ reader' = "old touch"
         \/ d = "touch" /\ reader = "old touch" /\ reader' = "pass"
  <2>1. CASE d = "pen"
    BY <2>1 DEF DiscardOld, Private, queueVars, serverVars, OldStep, Devices, Discarding
  <2>2. CASE d = "touch"
    BY <2>2 DEF DiscardOld, Private, queueVars, serverVars, OldStep, Devices, Discarding
  <2> QED BY <2>1, <2>2 DEF Devices
<1>2. /\ handled = <<>> /\ queue = <<>> /\ ready = <<>> /\ pending = <<>>
      /\ \A e \in Devices : read[e] = <<>>
  BY <1>1 DEF CaptureInv, Fresh
<1>3. /\ kernel' \in [Devices -> Seq(TimedReport)] /\ kernel'[d] = <<>>
      /\ \A e \in Devices : e # d => kernel'[e] = kernel[e]
  <2>1. <<>> \in Seq(TimedReport) /\ kernel \in [Devices -> Seq(TimedReport)]
    BY TypeFacts
  <2> QED BY <1>1, <2>1
<1>4. Types'
  <2>1. Flags'
    BY <1>1 DEF CaptureInv, Types, Flags, Discarding, Reading
  <2> QED BY <1>1, <1>3, <2>1 DEF CaptureInv, Types, Clocks, Held, Queued
<1>5. Fresh'
  <2>1. CASE d = "pen"
    <3>1. In(kernel'["pen"]) = {}
      BY <1>3, <2>1, NoReports
    <3> QED BY <1>1, <1>2, <2>1, <3>1 DEF Fresh, Reading
  <2>2. CASE d = "touch"
    <3>1. In(kernel'["touch"]) = {} /\ In(kernel'["pen"]) = In(kernel["pen"])
      BY <1>3, <2>2, NoReports DEF Devices
    <3>2. In(ready') = {} /\ In(pending') = {}
      BY <1>1, <1>2, NoReports
    <3>3. Waiting' = In(kernel["pen"])
      BY <3>1, <3>2 DEF Waiting
    <3>4. \A x \in In(kernel["pen"]) : origin <= x.time
      BY <1>1, <2>2 DEF CaptureInv, Fresh
    <3> QED BY <1>1, <1>2, <2>2, <3>2, <3>3, <3>4 DEF Fresh, Discarding
  <2> QED BY <2>1, <2>2 DEF Devices
<1> QED BY <1>1, <1>2, <1>3, <1>4, <1>5, EmptyKeeps

--------------------------------------------------------------------------------
(* A device is read.                                                        *)

LEMMA FirstSame ==
  ASSUME NEW s, NEW t, NEW k, \A i \in 1..k : t[i] = s[i]
  PROVE  \A d : First(k, d, t) = First(k, d, s)
BY DEF First

LEMMA DevoutNumbers ==
  ASSUME CaptureInv, NEW d \in Devices
  PROVE  /\ Numbers(d, read[d]) = {x.n : x \in In(read[d])}
         /\ \A y \in In(ready) \cup In(pending) : y.device = d =>
              \E x \in In(read[d]) : x.n = y.n /\ x.device = d
<1>1. read[d] \in Seq(TimedReport) /\ pending \in Seq(TimedReport) /\ ready \in Seq(TimedReport)
  BY TypeFacts
<1>2. \A x \in In(read[d]) : x.device = d
  BY DEF CaptureInv, Devoted
<1>3. Numbers(d, read[d]) = {x.n : x \in In(read[d])}
  BY <1>1, <1>2, NumbersIn
<1>4. /\ Numbers(d, pending) = {x.n : x \in {y \in In(pending) : y.device = d}}
      /\ Numbers(d, ready) = {x.n : x \in {y \in In(ready) : y.device = d}}
  BY <1>1, NumbersIn
<1>5. Numbers(d, ready) \cup Numbers(d, pending) \subseteq Numbers(d, read[d])
  BY DEF CaptureInv, Covered
<1> QED BY <1>2, <1>3, <1>4, <1>5

LEMMA DrainDeviceKeeps ==
  ASSUME CaptureInv, NEW d \in Devices, DrainDevice(d)
  PROVE  CaptureInv'
<1>1. /\ UNCHANGED <<clock, happened, origin, watermark, ready, queue, wake, stop,
                     failed, server, handled>>
      /\ pending' = pending \o kernel[d]
      /\ read' = [read EXCEPT ![d] = read[d] \o kernel[d]]
      /\ kernel' = [kernel EXCEPT ![d] = <<>>]
      /\ reader \in Reading \ {"push"} /\ reader' \in Reading \ {"push"}
      /\ \/ d = "pen" /\ reader' = "drain touch"
         \/ d = "touch" /\ reader = "drain touch" /\ reader' = "sort"
  <2>1. CASE d = "pen"
    BY <2>1 DEF DrainDevice, Private, queueVars, serverVars, DrainStep, Reading
  <2>2. CASE d = "touch"
    BY <2>2 DEF DrainDevice, Private, queueVars, serverVars, DrainStep, Reading
  <2> QED BY <2>1, <2>2 DEF Devices
<1>2. PICK s \in Seq(TimedReport), r \in Seq(TimedReport), k \in Seq(TimedReport) :
        s = pending /\ r = read[d] /\ k = kernel[d]
  BY TypeFacts
<1>3. PICK u, v : u = s \o k /\ v = r \o k
  OBVIOUS
<1>4. /\ u \in Seq(TimedReport) /\ In(u) = In(s) \cup In(k)
      /\ v \in Seq(TimedReport) /\ In(v) = In(r) \cup In(k)
  <2>1. u \in Seq(TimedReport) /\ v \in Seq(TimedReport)
    BY <1>3
  <2>2. In(u) = In(s) \cup In(k) /\ In(v) = In(r) \cup In(k)
    BY <1>3, JoinIn
  <2> QED BY <2>1, <2>2
<1>5. /\ pending' = u /\ read'[d] = v /\ kernel'[d] = <<>>
      /\ read' \in [Devices -> Seq(TimedReport)] /\ kernel' \in [Devices -> Seq(TimedReport)]
      /\ \A e \in Devices : e # d => read'[e] = read[e] /\ kernel'[e] = kernel[e]
  <2>1. read' = [read EXCEPT ![d] = v] /\ pending' = u
    BY <1>1, <1>2, <1>3
  <2>2. /\ read \in [Devices -> Seq(TimedReport)] /\ kernel \in [Devices -> Seq(TimedReport)]
        /\ <<>> \in Seq(TimedReport)
    BY TypeFacts, NilFacts
  <2> QED BY <1>1, <1>4, <2>1, <2>2
<1>6. In(kernel'[d]) = {} /\ ready = <<>> /\ ready' = <<>> /\ In(ready') = {}
  <2>1. ready = <<>>
    BY <1>1 DEF CaptureInv, Marked
  <2> QED BY <1>1, <1>5, <2>1, NoReports
<1>7. Waiting' = Waiting
  <2>1. In(pending') = In(pending) \cup In(kernel[d])
    BY <1>2, <1>4, <1>5
  <2> QED BY <1>5, <1>6, <2>1 DEF Waiting, Devices
<1>8. Delivered' = Delivered /\ Given' = Given
  BY <1>1 DEF Delivered, Given
<1>9. Types'
  <2>1. Flags'
    BY <1>1 DEF CaptureInv, Types, Flags
  <2> QED BY <1>1, <1>4, <1>5, <2>1 DEF CaptureInv, Types, Clocks, Held, Queued
<1>10. Stamps'
  BY <1>1, <1>7 DEF CaptureInv, Stamps
<1>11. /\ InOrder(s) /\ InOrder(r) /\ InOrder(k) /\ Precede(In(r), In(k))
       /\ \A x \in In(r) \cup In(k) : x.device = d
       /\ \A x \in In(r) \cup In(k) : x.n <= happened
  BY <1>2 DEF CaptureInv, Devoted, Stamps, Waiting, Devices
<1>12. Precede(In(s), In(k))
  <2>1. \A y \in In(s) : y.device = d => \E x \in In(r) : x.n = y.n /\ x.device = d
    BY <1>2, DevoutNumbers
  <2> QED BY <1>11, <2>1 DEF Precede
<1>13. Devoted'
  <2>1. InOrder(u) /\ InOrder(v)
    BY <1>3, <1>11, <1>12, JoinOrder
  <2>2. InOrder(kernel'[d]) /\ Precede(In(read'[d]), In(kernel'[d]))
    BY <1>5, <1>6, NoReports DEF Precede
  <2>3. \A x \in In(kernel'[d]) \cup In(read'[d]) : x.device = d /\ x.n <= happened
    BY <1>4, <1>5, <1>6, <1>11
  <2>4. ASSUME NEW e \in Devices
        PROVE  /\ InOrder(kernel'[e]) /\ InOrder(read'[e])
               /\ Precede(In(read'[e]), In(kernel'[e]))
               /\ \A x \in In(kernel'[e]) \cup In(read'[e]) : x.device = e
               /\ \A x \in In(read'[e]) : x.n <= happened
    <3>1. CASE e = d
      BY <1>5, <2>1, <2>2, <2>3, <3>1
    <3>2. CASE e # d
      BY <1>5, <3>2 DEF CaptureInv, Devoted
    <3> QED BY <3>1, <3>2
  <2>5. InOrder(ready') /\ Precede(In(ready'), In(pending'))
    BY <1>6, NoReports DEF Precede
  <2> QED BY <1>1, <1>5, <2>1, <2>4, <2>5 DEF Devoted
<1>14. Marked'
  <2>1. CASE d = "pen"
    BY <1>1, <1>6, <2>1 DEF Marked
  <2>2. CASE d = "touch"
    <3>1. kernel'["pen"] = kernel["pen"] /\ reader = "drain touch"
      BY <1>1, <1>5, <2>2 DEF Devices
    <3>2. \A x \in In(kernel["pen"]) : watermark <= x.time
      BY <3>1 DEF CaptureInv, Marked
    <3> QED BY <1>1, <1>6, <2>2, <3>1, <3>2 DEF Marked
  <2> QED BY <2>1, <2>2 DEF Devices
<1>15. Cut'
  BY <1>6, NoReports DEF Cut
<1>16. Timely'
  BY <1>1, <1>7, <1>8 DEF CaptureInv, Timely
<1>17. Gapless'
  <2>1. ASSUME NEW i \in Given
        PROVE  \E j \in DOMAIN read'[Delivered[i].device] :
                 /\ read'[Delivered[i].device][j].n = Delivered[i].n
                 /\ First(j - 1, Delivered[i].device, read'[Delivered[i].device])
                      = First(i - 1, Delivered[i].device, Delivered)
    <3>1. PICK e : e = Delivered[i].device
      OBVIOUS
    <3>2. PICK j \in DOMAIN read[e] :
            read[e][j].n = Delivered[i].n /\ First(j - 1, e, read[e]) = First(i - 1, e, Delivered)
      BY <3>1 DEF CaptureInv, Gapless
    <3>3. CASE e = d
      <4>1. j \in DOMAIN r /\ r[j].n = Delivered[i].n /\ First(j - 1, d, r) = First(i - 1, d, Delivered)
        BY <1>2, <3>2, <3>3
      <4>2. /\ Len(r) \in Nat /\ DOMAIN r = 1..Len(r) /\ DOMAIN v = 1..Len(r) + Len(k)
            /\ Len(k) \in Nat /\ \A h \in 1..Len(r) : v[h] = r[h]
        BY <1>3, JoinFacts
      <4>3. j \in DOMAIN v /\ v[j] = r[j] /\ \A h \in 1..j - 1 : v[h] = r[h]
        BY <4>1, <4>2
      <4>4. First(j - 1, d, v) = First(j - 1, d, r)
        BY <4>3, FirstSame
      <4> QED BY <1>5, <3>1, <3>3, <4>1, <4>3, <4>4
    <3>4. CASE e # d
      <4>1. e \in Devices
        <5>1. Delivered[i] \in Report /\ Delivered[i].device # "fault"
          BY TypeFacts, InFacts DEF Given
        <5> QED BY <3>1, <5>1, ReportFacts
      <4> QED BY <1>5, <3>1, <3>2, <3>4, <4>1
    <3> QED BY <3>3, <3>4
  <2>2. ASSUME NEW i \in Given, NEW y \in In(ready') \cup In(pending'),
               Delivered[i].device = y.device
        PROVE  Delivered[i].n < y.n
    <3>1. CASE y \in In(pending)
      BY <2>2, <3>1 DEF CaptureInv, Gapless
    <3>2. CASE y \in In(k)
      <4>1. y.device = d
        BY <1>11, <3>2
      <4>2. PICK j \in DOMAIN read[d] : read[d][j].n = Delivered[i].n
        BY <2>2, <4>1 DEF CaptureInv, Gapless
      <4>3. r[j] \in In(r) /\ r[j].n = Delivered[i].n
        BY <1>2, <4>2 DEF In
      <4> QED BY <1>11, <3>2, <4>1, <4>3 DEF Precede
    <3> QED BY <1>2, <1>4, <1>5, <1>6, <3>1, <3>2
  <2> QED BY <1>8, <2>1, <2>2 DEF Gapless
<1>18. Covered'
  <2>1. \A e \in Devices :
          Numbers(e, read[e]) = Numbers(e, Delivered) \cup Numbers(e, ready) \cup Numbers(e, pending)
    BY <1>1 DEF CaptureInv, Covered
  <2>2. \A e : /\ Numbers(e, u) = {x.n : x \in {y \in In(u) : y.device = e}}
               /\ Numbers(e, v) = {x.n : x \in {y \in In(v) : y.device = e}}
               /\ Numbers(e, s) = {x.n : x \in {y \in In(s) : y.device = e}}
               /\ Numbers(e, r) = {x.n : x \in {y \in In(r) : y.device = e}}
               /\ Numbers(e, k) = {x.n : x \in {y \in In(k) : y.device = e}}
    BY <1>4, NumbersIn
  <2>3. \A e : Numbers(e, u) = Numbers(e, s) \cup Numbers(e, k)
    BY <1>4, <2>2
  <2>4. \A e : Numbers(e, v) = Numbers(e, r) \cup Numbers(e, k)
    BY <1>4, <2>2
  <2>5. \A e \in Devices : e # d => Numbers(e, k) = {}
    BY <1>11, <2>2
  <2>6. ASSUME NEW e \in Devices
        PROVE  Numbers(e, read'[e]) =
                 Numbers(e, Delivered) \cup Numbers(e, ready) \cup Numbers(e, pending')
    <3>1. CASE e = d
      BY <1>2, <1>5, <2>1, <2>3, <2>4, <3>1
    <3>2. CASE e # d
      BY <1>2, <1>5, <2>1, <2>3, <2>5, <3>2
    <3> QED BY <3>1, <3>2
  <2> QED BY <1>1, <1>8, <2>6 DEF Covered
<1>19. Fresh'
  <2>1. reader' \notin Discarding /\ reader' # "old touch"
    BY <1>1 DEF Reading, Discarding
  <2>2. \A x \in In(ready) \cup Waiting : origin <= x.time
    BY <1>1 DEF CaptureInv, Fresh
  <2> QED BY <1>1, <1>7, <2>1, <2>2 DEF Fresh
<1>20. Ends'
  BY <1>1, <1>8 DEF CaptureInv, Ends, Reading
<1> QED BY <1>9, <1>10, <1>13, <1>14, <1>15, <1>16, <1>17, <1>18, <1>19, <1>20 DEF CaptureInv

--------------------------------------------------------------------------------
(* The pass is sorted and cut at the watermark.                             *)

LEMMA SortKeeps ==
  ASSUME CaptureInv, Sort
  PROVE  CaptureInv'
<1>1. /\ UNCHANGED <<clock, kernel, happened, origin, watermark, read, queue, wake,
                     stop, failed, server, handled>>
      /\ reader = "sort" /\ reader' = "push"
  BY DEF Sort, Private, queueVars, serverVars
<1>2. PICK w \in Seq(TimedReport) : w = pending
  BY TypeFacts
<1>3. PICK p \in StableSorts(w), k \in 0..Len(w) :
        LET sorted == [i \in DOMAIN w |-> w[p[i]]]
        IN Settled(sorted, k) /\ ready' = SubSeq(sorted, 1, k) /\ pending' = Kept(sorted, k)
  BY <1>2 DEF Sort
<1>4. PICK t : t = [i \in DOMAIN w |-> w[p[i]]]
  OBVIOUS
<1>5. Settled(t, k) /\ ready' = SubSeq(t, 1, k) /\ pending' = Kept(t, k)
  BY <1>3, <1>4
<1>6. InOrder(w) /\ \A x, y \in In(w) : x.n < y.n => x.time <= y.time
  BY <1>2 DEF CaptureInv, Devoted, Stamps, Waiting
<1>7. /\ t \in Seq(TimedReport) /\ Len(t) = Len(w)
      /\ In(t) = In(w) /\ InOrder(t) /\ Ascends(t)
  BY <1>4, <1>6, SortFacts
<1>8. PICK a, b : a = SubSeq(t, 1, k) /\ b = Kept(t, k)
  OBVIOUS
<1>9. k \in 0..Len(t)
  BY <1>7
<1>10. /\ a \in Seq(TimedReport) /\ b \in Seq(TimedReport)
       /\ In(a) \cup In(b) = In(t)
       /\ InOrder(a) /\ InOrder(b) /\ Precede(In(a), In(b)) /\ Ascends(a)
       /\ \A x \in In(a) : x.time <= watermark
       /\ \A x \in In(b) : ~(x.time <= watermark)
  <2>1. t \in Seq(TimedReport) /\ InOrder(t) /\ Ascends(t)
    BY <1>7
  <2>2. In(a) \cup In(b) = In(t)
    <3>1. \A x : x \in In(t) <=> x \in In(a) \/ x \in In(b)
      BY ONLY <1>8, <1>9, <2>1, DivideIn, Zenon
    <3> QED BY <3>1
  <2>3. Settled(t, k)
    BY <1>5
  <2> QED BY ONLY <1>8, <1>9, <2>1, <2>2, <2>3, DivideFacts, Zenon
<1>11. ready' = a /\ pending' = b /\ ready = <<>> /\ In(ready) = {}
  <2>1. ready = <<>>
    BY <1>1 DEF CaptureInv, Marked, Reading
  <2> QED BY <1>5, <1>8, <2>1, NoReports
<1>12. In(ready') \cup In(pending') = In(pending)
  BY <1>2, <1>7, <1>10, <1>11
<1>13. Waiting' \subseteq Waiting /\ In(ready') \cup Waiting' = Waiting
  BY <1>1, <1>12 DEF Waiting
<1>14. Delivered' = Delivered /\ Given' = Given
  BY <1>1 DEF Delivered, Given
<1>15. Types'
  <2>1. Held'
    BY <1>1, <1>10, <1>11 DEF CaptureInv, Types, Held
  <2>2. Flags'
    BY <1>1 DEF CaptureInv, Types, Flags, Reading
  <2> QED BY <1>1, <2>1, <2>2 DEF CaptureInv, Types, Clocks, Queued
<1>16. Stamps'
  BY <1>1, <1>13 DEF CaptureInv, Stamps
<1>17. Devoted'
  BY <1>1, <1>10, <1>11 DEF CaptureInv, Devoted
<1>18. Marked'
  BY <1>1 DEF Marked
<1>19. Cut'
  <2>1. \A x \in Waiting \cup In(ready) : x.time \in Nat
    BY HeldFacts
  <2>2. \A y \in Waiting' : watermark <= y.time
    <3>1. \A y \in In(kernel["pen"]) \cup In(kernel["touch"]) : watermark <= y.time
      BY <1>1 DEF CaptureInv, Marked
    <3>2. \A y \in In(b) : y.time \in Nat /\ ~(y.time <= watermark)
      BY <1>10, <1>11, <1>12, <2>1 DEF Waiting
    <3>3. \A y \in In(b) : watermark <= y.time
      BY <3>2, TypeFacts
    <3> QED BY <1>1, <1>11, <3>1, <3>3 DEF Waiting
  <2>3. \A x \in In(ready') : x.time \in Nat /\ x.time <= watermark
    BY <1>10, <1>11, <1>13, <2>1
  <2>4. \A y \in Waiting' : y.time \in Nat
    BY <1>13, <2>1
  <2>5. \A x \in In(ready') : x.time <= clock /\ \A y \in Waiting' : x.time <= y.time
    <3>1. ASSUME NEW g \in Nat, NEW h \in Nat, g <= watermark, watermark <= h
          PROVE  g <= h
      BY <3>1, NatFacts
    <3>2. ASSUME NEW g \in Nat, g <= watermark
          PROVE  g <= clock
      BY <3>2, NatFacts
    <3> QED BY <2>2, <2>3, <2>4, <3>1, <3>2
  <2> QED BY <1>1, <1>10, <1>11, <2>5 DEF Cut
<1>20. Timely'
  BY <1>1, <1>13, <1>14 DEF CaptureInv, Timely
<1>21. Gapless'
  BY <1>1, <1>12, <1>14 DEF CaptureInv, Gapless
<1>22. Covered'
  <2>1. \A e : /\ Numbers(e, a) = {x.n : x \in {y \in In(a) : y.device = e}}
               /\ Numbers(e, b) = {x.n : x \in {y \in In(b) : y.device = e}}
               /\ Numbers(e, w) = {x.n : x \in {y \in In(w) : y.device = e}}
    BY <1>10, NumbersIn
  <2>2. \A e : Numbers(e, a) \cup Numbers(e, b) = Numbers(e, w)
    BY <1>7, <1>10, <2>1
  <2>3. \A e : Numbers(e, ready') \cup Numbers(e, pending') = Numbers(e, pending)
    BY <1>2, <1>11, <2>2
  <2>4. \A e : Numbers(e, ready) = {}
    BY <1>11, NoReports
  <2>5. \A e \in Devices : Numbers(e, read[e]) = Numbers(e, Delivered) \cup Numbers(e, pending)
    BY <1>1, <2>4 DEF CaptureInv, Covered, Reading
  <2> QED BY <1>1, <1>14, <2>3, <2>5 DEF Covered
<1>23. Fresh'
  BY <1>1, <1>13 DEF CaptureInv, Fresh, Reading, Discarding
<1>24. Ends'
  BY <1>1, <1>14 DEF CaptureInv, Ends
<1> QED BY <1>15, <1>16, <1>17, <1>18, <1>19, <1>20, <1>21, <1>22, <1>23, <1>24 DEF CaptureInv

--------------------------------------------------------------------------------
(* An entry is put into the queue.                                          *)

LEMMA DeliverFacts ==
  ASSUME CaptureInv, NEW f \in Report, queue' = Append(queue, f), handled' = handled
  PROVE  /\ queue' \in Seq(Report) /\ Len(queue') = Len(queue) + 1 /\ Len(queue) \in Nat
         /\ Delivered' \in Seq(Report) /\ Len(Delivered) \in Nat
         /\ DOMAIN Delivered = 1..Len(Delivered)
         /\ Len(Delivered') = Len(Delivered) + 1
         /\ DOMAIN Delivered' = 1..Len(Delivered) + 1
         /\ Delivered'[Len(Delivered) + 1] = f
         /\ \A i \in 1..Len(Delivered) : Delivered'[i] = Delivered[i]
<1>1. PICK h \in Seq(Report), q \in Seq(Report) : h = handled /\ q = queue
  BY TypeFacts
<1>2. h \o Append(q, f) = Append(h \o q, f)
  OBVIOUS
<1>3. Delivered' = Append(Delivered, f)
  BY <1>1, <1>2 DEF Delivered
<1>0. PICK s \in Seq(Report) : s = Delivered
  BY TypeFacts
<1>4. PICK t : s = Delivered /\ t = Append(s, f)
  BY <1>0
<1>5. /\ t \in Seq(Report) /\ Len(s) \in Nat /\ DOMAIN s = 1..Len(s)
      /\ Len(t) = Len(s) + 1 /\ DOMAIN t = 1..Len(s) + 1
      /\ t[Len(s) + 1] = f /\ \A i \in 1..Len(s) : t[i] = s[i]
  BY <1>4, AddFacts
<1>6. Delivered' = t
  BY <1>3, <1>4
<1>7. queue' \in Seq(Report) /\ Len(queue') = Len(queue) + 1 /\ Len(queue) \in Nat
  BY <1>1
<1> QED BY <1>4, <1>5, <1>6, <1>7

(* Nothing that was given is later than the entry.                          *)
LEMMA DeliverOrder ==
  ASSUME CaptureInv, NEW f \in Report, queue' = Append(queue, f), handled' = handled,
         ~stop, \A i \in Given : Delivered[i].time <= f.time
  PROVE  /\ Given = DOMAIN Delivered
         /\ Ascends(Delivered)'
         /\ \A i \in Given : i \in DOMAIN Delivered' /\ Delivered'[i] = Delivered[i]
         /\ \A i \in Given : \A d : First(i - 1, d, Delivered') = First(i - 1, d, Delivered)
         /\ Given' = IF f.device = "fault" THEN Given ELSE Given \cup {Len(Delivered) + 1}
<1>1. /\ Delivered' \in Seq(Report) /\ Len(Delivered) \in Nat
      /\ DOMAIN Delivered = 1..Len(Delivered)
      /\ DOMAIN Delivered' = 1..Len(Delivered) + 1
      /\ Delivered'[Len(Delivered) + 1] = f
      /\ \A i \in 1..Len(Delivered) : Delivered'[i] = Delivered[i]
  BY DeliverFacts
<1>2. Given = DOMAIN Delivered
  BY DEF CaptureInv, Ends, Given
<1>3. Ascends(Delivered)'
  <2>1. Ascends(Delivered)
    BY DEF CaptureInv, Timely
  <2>2. ASSUME NEW i \in DOMAIN Delivered', NEW j \in DOMAIN Delivered', i < j
        PROVE  Delivered'[i].time <= Delivered'[j].time
    <3>1. i \in 1..Len(Delivered) /\ (j \in 1..Len(Delivered) \/ j = Len(Delivered) + 1)
      BY <1>1, <2>2
    <3>2. CASE j \in 1..Len(Delivered)
      BY <1>1, <2>1, <2>2, <3>1, <3>2 DEF Ascends
    <3>3. CASE j = Len(Delivered) + 1
      BY <1>1, <1>2, <3>1, <3>3
    <3> QED BY <3>1, <3>2, <3>3
  <2> QED BY <2>2 DEF Ascends
<1>4. \A i \in Given : i \in DOMAIN Delivered' /\ Delivered'[i] = Delivered[i]
  BY <1>1, <1>2
<1>5. ASSUME NEW i \in Given
      PROVE  \A d : First(i - 1, d, Delivered') = First(i - 1, d, Delivered)
  <2>1. PICK k : k = i - 1
    OBVIOUS
  <2>2. \A h \in 1..k : Delivered'[h] = Delivered[h]
    BY <1>1, <1>2, <2>1
  <2>3. \A d : First(k, d, Delivered') = First(k, d, Delivered)
    BY <2>2 DEF First
  <2> QED BY <2>1, <2>3
<1>6. Given' = IF f.device = "fault" THEN Given ELSE Given \cup {Len(Delivered) + 1}
  <2>1. \A i : i \in DOMAIN Delivered' <=> i \in DOMAIN Delivered \/ i = Len(Delivered) + 1
    BY <1>1
  <2>2. Given' = {i \in DOMAIN Delivered' : Delivered'[i].device # "fault"}
    BY DEF Given
  <2>3. Given = {i \in DOMAIN Delivered : Delivered[i].device # "fault"}
    BY DEF Given
  <2> QED BY <1>1, <2>1, <2>2, <2>3
<1> QED BY <1>2, <1>3, <1>4, <1>5, <1>6

(* A fault ends the capture (the reserved entry of push, spawn).            *)
LEMMA FaultKeeps ==
  ASSUME CaptureInv, NEW f \in Report, f.device = "fault", ~stop,
         queue' = Append(queue, f), stop' = TRUE, reader' = "ended", Types',
         UNCHANGED <<clock, kernel, happened, origin, pending, read, handled>>,
         In(ready') \subseteq In(ready), InOrder(ready'), Ascends(ready'),
         \A i \in Given : Delivered[i].time <= f.time
  PROVE  CaptureInv'
<1>1. /\ Given = DOMAIN Delivered /\ Ascends(Delivered)' /\ Given' = Given
      /\ \A i \in Given : i \in DOMAIN Delivered' /\ Delivered'[i] = Delivered[i]
      /\ \A i \in Given : \A d : First(i - 1, d, Delivered') = First(i - 1, d, Delivered)
  BY DeliverOrder
<1>2. /\ Len(Delivered) \in Nat /\ DOMAIN Delivered = 1..Len(Delivered)
      /\ DOMAIN Delivered' = 1..Len(Delivered) + 1 /\ Len(Delivered') = Len(Delivered) + 1
  BY DeliverFacts
<1>3. Waiting' = Waiting
  BY DEF Waiting
<1>4. Stamps'
  BY <1>3 DEF CaptureInv, Stamps
<1>5. Devoted'
  BY DEF CaptureInv, Devoted, Precede
<1>6. Marked'
  BY DEF Marked, Reading
<1>7. Cut'
  BY <1>3 DEF CaptureInv, Cut
<1>8. Timely'
  BY <1>1, <1>3 DEF CaptureInv, Timely
<1>9. Gapless'
  BY <1>1 DEF CaptureInv, Gapless
<1>10. Covered'
  <2>1. \A d \in Devices : Numbers(d, ready') \subseteq Numbers(d, ready)
    <3>1. ready \in Seq(TimedReport) /\ ready' \in Seq(TimedReport)
      BY DEF CaptureInv, Types, Held
    <3>2. \A d : /\ Numbers(d, ready) = {x.n : x \in {y \in In(ready) : y.device = d}}
                 /\ Numbers(d, ready') = {x.n : x \in {y \in In(ready') : y.device = d}}
      BY <3>1, NumbersIn
    <3> QED BY <3>2
  <2> QED BY <2>1 DEF CaptureInv, Covered, Reading
<1>11. Fresh'
  BY DEF Fresh, Reading, Discarding
<1>12. Ends'
  BY <1>1, <1>2 DEF Ends
<1> QED BY <1>4, <1>5, <1>6, <1>7, <1>8, <1>9, <1>10, <1>11, <1>12 DEF CaptureInv

LEMMA PushFaultKeeps ==
  ASSUME CaptureInv, PushFault
  PROVE  CaptureInv'
<1>1. /\ UNCHANGED <<clock, kernel, happened, origin, watermark, pending, ready, read,
                     failed, server, handled>>
      /\ reader = "fault" /\ reader' = "ended" /\ stop' = TRUE
  BY DEF PushFault, worldVars, serverVars
<1>2. Clocks' /\ Held'
  BY <1>1 DEF CaptureInv, Types, Clocks, Held
<1>3. CASE stop
  <2>1. UNCHANGED <<queue, wake>>
    BY <1>3 DEF PushFault, ReportFault
  <2>2. Delivered' = Delivered /\ Given' = Given
    BY <1>1, <2>1 DEF Delivered, Given
  <2>3. Types'
    <3>1. Flags' /\ Queued'
      BY <1>1, <1>3, <2>1 DEF CaptureInv, Types, Flags, Queued
    <3> QED BY <1>2, <3>1 DEF Types
  <2>4. Marked'
    BY <1>1 DEF Marked, Reading
  <2>5. Ends'
    BY <1>1, <1>3, <2>2 DEF CaptureInv, Ends
  <2>6. clock \in Nat /\ clock' \in Nat /\ clock <= clock'
    BY <1>1, NatFacts
  <2> QED BY <1>1, <2>2, <2>3, <2>4, <2>5, <2>6, StillKeeps DEF Reading, Discarding
<1>4. CASE ~stop
  <2>1. PICK f : f = Fault(clock - origin)
    OBVIOUS
  <2>2. queue' = Append(queue, f) /\ wake' = TRUE
    BY <1>4, <2>1 DEF PushFault, ReportFault, signal
  <2>3. f \in Report /\ f.device = "fault" /\ f.time = clock - origin
    <3>1. clock - origin \in 0..MaxTime
      BY NatFacts, ShiftRange
    <3> QED BY <2>1, <3>1 DEF Fault, Report
  <2>4. Types'
    <3>1. queue' \in Seq(Report) /\ Len(queue') = Len(queue) + 1 /\ Len(queue) \in Nat
      BY <1>1, <2>2, <2>3, DeliverFacts
    <3>2. Len(queue) <= CAPACITY
      BY <1>4 DEF CaptureInv, Types, Queued
    <3>3. Queued'
      <4>1. Len(queue') <= CAPACITY + 1
        BY <3>1, <3>2, NatFacts
      <4> QED BY <1>1, <3>1, <4>1, TypeFacts DEF Queued
    <3>4. Flags'
      BY <1>1, <2>2 DEF CaptureInv, Types, Flags
    <3> QED BY <1>2, <3>3, <3>4 DEF Types
  <2>5. \A i \in Given : Delivered[i].time <= f.time
    <3> TAKE i \in Given
    <3>1. PICK time \in Nat : time = Delivered[i].time
      BY HeldFacts DEF Given
    <3>2. time + origin <= clock
      BY <3>1 DEF CaptureInv, Timely
    <3> QED BY <2>3, <3>1, <3>2, NatFacts
  <2>6. InOrder(ready) /\ Ascends(ready)
    BY DEF CaptureInv, Devoted, Cut
  <2> QED BY <1>1, <1>4, <2>2, <2>3, <2>4, <2>5, <2>6, FaultKeeps
<1> QED BY <1>3, <1>4

--------------------------------------------------------------------------------
(* A report is pushed.                                                      *)

(* What the next report of a device is preceded by in the session is what   *)
(* precedes it in what was read.                                            *)
LEMMA NextInLine ==
  ASSUME CaptureInv, reader \in Reading, ready # <<>>,
         NEW x, x = Head(ready), NEW d, d = x.device
  PROVE  \E j \in DOMAIN read[d] :
           read[d][j].n = x.n /\ First(j - 1, d, read[d]) = Numbers(d, Delivered)
<1>0. PICK r \in Seq(TimedReport) : r = ready
  BY TypeFacts
<1>1. PICK t : r = ready /\ t = Tail(r)
  BY <1>0
<1>2. /\ x \in TimedReport /\ In(r) = {x} \cup In(t)
  BY <1>1, TakeFacts
<1>3. d \in Devices
  BY <1>2, ReportFacts
<1>4. PICK w \in Seq(TimedReport) : w = read[d]
  BY <1>3, TypeFacts
<1>5. /\ InOrder(r) /\ Ascends(r) /\ InOrder(w) /\ Precede(In(r), In(pending))
  BY <1>1, <1>3, <1>4 DEF CaptureInv, Devoted, Cut
<1>6. Precede({x}, In(t))
  BY <1>1, <1>5, TakeOrder
<1>7. \A i \in DOMAIN w : w[i].device = d /\ w[i].n \in Nat /\ w[i] \in In(w)
  <2>1. \A y \in In(w) : y.device = d
    BY <1>3, <1>4 DEF CaptureInv, Devoted
  <2> QED BY <2>1, InFacts, ReportFacts
<1>8. Len(w) \in Nat /\ DOMAIN w = 1..Len(w)
  OBVIOUS
<1>9. PICK j \in DOMAIN w : w[j].n = x.n
  <2>1. x \in In(ready)
    BY <1>1, <1>2
  <2>2. \E y \in In(read[d]) : y.n = x.n
    BY <1>3, <2>1, DevoutNumbers
  <2> QED BY <1>4, <2>2 DEF In
<1>10. x.n \in Nat
  BY <1>2, ReportFacts
<1>11. \A m : m \in First(j - 1, d, w) <=> \E i \in DOMAIN w : i < j /\ w[i].n = m
  <2>1. \A i : i \in 1..j - 1 <=> i \in DOMAIN w /\ i < j
    BY <1>8
  <2> QED BY <1>7, <2>1 DEF First
<1>12. \A m : m \in First(j - 1, d, w) <=> m \in Numbers(d, w) /\ m \in Nat /\ m < x.n
  <2>1. Numbers(d, w) = {y.n : y \in In(w)}
    BY <1>3, <1>4, DevoutNumbers
  <2>2. \A m : m \in Numbers(d, w) <=> \E i \in DOMAIN w : w[i].n = m
    BY <2>1 DEF In
  <2>3. \A i \in DOMAIN w : i < j <=> w[i].n < x.n
    <3> TAKE i \in DOMAIN w
    <3>1. i < j => w[i].n < w[j].n
      BY <1>5, <1>7 DEF InOrder
    <3>2. j < i => w[j].n < w[i].n
      BY <1>5, <1>7 DEF InOrder
    <3>3. PICK a \in Nat, b \in Nat : a = w[i].n /\ b = x.n
      BY <1>7, <1>10
    <3>4. i < j \/ i = j \/ j < i
      BY <1>8
    <3>5. i < j => a < b
      BY <1>9, <3>1, <3>3
    <3>6. j < i => b < a
      BY <1>9, <3>2, <3>3
    <3>7. i = j => a = b
      BY <1>9, <3>3
    <3>8. i < j <=> a < b
      BY <1>8, <3>4, <3>5, <3>6, <3>7
    <3> QED BY <3>3, <3>8
  <2> QED BY <1>7, <1>11, <2>2, <2>3
<1>13. \A m : m \in Numbers(d, w) <=>
         \/ m \in Numbers(d, Delivered)
         \/ \E y \in In(r) \cup In(pending) : y.device = d /\ y.n = m
  <2>1. Numbers(d, w) = Numbers(d, Delivered) \cup Numbers(d, ready) \cup Numbers(d, pending)
    BY <1>3, <1>4 DEF CaptureInv, Covered
  <2>2. /\ Numbers(d, ready) = {y.n : y \in {z \in In(ready) : z.device = d}}
        /\ Numbers(d, pending) = {y.n : y \in {z \in In(pending) : z.device = d}}
    <3>1. ready \in Seq(TimedReport) /\ pending \in Seq(TimedReport)
      BY TypeFacts
    <3> QED BY ONLY <3>1, NumbersIn
  <2> QED BY <1>1, <2>1, <2>2
<1>14. \A y \in In(r) \cup In(pending) : y.device = d => y.n \in Nat /\ ~(y.n < x.n)
  <2>1. \A y \in In(r) \cup In(pending) : y.n \in Nat
    BY <1>1, HeldFacts DEF Waiting
  <2>2. \A y \in In(t) \cup In(pending) : y.device = d => x.n < y.n
    BY <1>2, <1>5, <1>6 DEF Precede
  <2>3. \A y \in In(t) \cup In(pending) : y.device = d => ~(y.n < x.n)
    BY <1>2, <1>10, <2>1, <2>2
  <2>4. ~(x.n < x.n)
    BY <1>10
  <2> QED BY <1>2, <2>1, <2>3, <2>4
<1>15. \A m \in Numbers(d, Delivered) : m \in Nat /\ m < x.n
  <2>1. \A m \in Numbers(d, Delivered) :
          \E i \in DOMAIN Delivered : Delivered[i].device = d /\ Delivered[i].n = m
    <3>1. DOMAIN Delivered = 1..Len(Delivered)
      BY TypeFacts
    <3> QED BY ONLY <3>1 DEF Numbers, First
  <2>2. d # "fault" /\ x \in In(ready) /\ x.device = d
    BY <1>1, <1>2, <1>3 DEF Devices
  <2>3. \A i \in Given : Delivered[i].device = d => Delivered[i].n < x.n
    BY <2>2 DEF CaptureInv, Gapless
  <2> QED BY <2>1, <2>2, <2>3, HeldFacts DEF Given
<1>16. First(j - 1, d, w) = Numbers(d, Delivered)
  <2>1. \A m : m \in First(j - 1, d, w) => m \in Numbers(d, Delivered)
    BY <1>12, <1>13, <1>14
  <2>2. \A m : m \in Numbers(d, Delivered) => m \in First(j - 1, d, w)
    BY <1>12, <1>13, <1>15
  <2>3. \A m : m \in First(j - 1, d, w) <=> m \in Numbers(d, Delivered)
    BY <2>1, <2>2
  <2> QED BY <2>3
<1> QED BY <1>4, <1>9, <1>16

(* The report becomes the last one that was given.                          *)
LEMMA GiveKeeps ==
  ASSUME CaptureInv, reader = "push", reader' = "push", ready # <<>>, ~stop, ~stop',
         origin <= Head(ready).time, ready' = Tail(ready),
         queue' = Append(queue, [Head(ready) EXCEPT !.time = @ - origin]), Types',
         UNCHANGED <<clock, kernel, happened, origin, pending, read, handled>>
  PROVE  CaptureInv'
<1>0. PICK r \in Seq(TimedReport) : r = ready
  BY TypeFacts
<1>1. PICK t, x : r = ready /\ t = Tail(r) /\ x = Head(r)
  BY <1>0
<1>2. PICK f : f = [x EXCEPT !.time = @ - origin]
  OBVIOUS
<1>3. /\ t \in Seq(TimedReport) /\ x \in TimedReport
      /\ In(r) = {x} \cup In(t) /\ In(t) \subseteq In(r)
  BY <1>1, TakeFacts
<1>4. /\ x.time \in Nat /\ x.time <= clock /\ \A y \in Waiting : x.time <= y.time
      /\ origin <= x.time
  BY <1>1, <1>3, ReportFacts DEF CaptureInv, Cut
<1>5. /\ f.device = x.device /\ f.n = x.n /\ f.time = x.time - origin
      /\ f.device # "fault" /\ x.device \in Devices
  BY <1>2, <1>3 DEF TimedReport, Devices
<1>6. f \in Report
  <2>1. x.time - origin \in 0..MaxTime
    BY <1>4, NatFacts, ShiftRange
  <2> QED BY <1>2, <1>3, <2>1 DEF TimedReport, Report
<1>7. queue' = Append(queue, f) /\ ready' = t
  BY <1>1, <1>2
<1>8. \A i \in Given : Delivered[i].time \in Nat /\ Delivered[i].time + origin <= x.time
  <2>1. x \in In(ready)
    BY <1>1, <1>3
  <2> QED BY <2>1, HeldFacts DEF CaptureInv, Timely, Given
<1>9. \A i \in Given : Delivered[i].time <= f.time
  <2> TAKE i \in Given
  <2>1. PICK a \in Nat, b \in Nat : a = Delivered[i].time /\ b = x.time
    BY <1>4, <1>8
  <2>2. a + origin <= b
    BY <1>8, <2>1
  <2>3. a <= b - origin
    BY <2>2, NatFacts, Shift
  <2> QED BY <1>5, <2>1, <2>3
<1>10. PICK m \in Nat : m = Len(Delivered) + 1
  BY <1>6, <1>7, DeliverFacts
<1>11. /\ Given = DOMAIN Delivered /\ Ascends(Delivered)' /\ Given' = Given \cup {m}
       /\ \A i \in Given : i \in DOMAIN Delivered' /\ Delivered'[i] = Delivered[i]
       /\ \A i \in Given : \A e : First(i - 1, e, Delivered') = First(i - 1, e, Delivered)
  BY <1>5, <1>6, <1>7, <1>9, <1>10, DeliverOrder
<1>12. /\ Len(Delivered) \in Nat /\ DOMAIN Delivered = 1..Len(Delivered)
       /\ DOMAIN Delivered' = 1..m /\ Len(Delivered') = m /\ Delivered'[m] = f
       /\ \A i \in 1..m - 1 : Delivered'[i] = Delivered[i]
  <2>1. /\ Len(Delivered) \in Nat /\ DOMAIN Delivered = 1..Len(Delivered)
        /\ DOMAIN Delivered' = 1..Len(Delivered) + 1 /\ Len(Delivered') = Len(Delivered) + 1
        /\ Delivered'[Len(Delivered) + 1] = f
        /\ \A i \in 1..Len(Delivered) : Delivered'[i] = Delivered[i]
    BY <1>6, <1>7, DeliverFacts
  <2> QED BY <1>10, <2>1
<1>13. Waiting' = Waiting /\ In(ready') \subseteq In(ready)
  BY <1>1, <1>3, <1>7 DEF Waiting
<1>14. /\ InOrder(t) /\ Ascends(t) /\ Precede({x}, In(t))
       /\ \A y \in In(t) : x.time <= y.time
  <2>1. InOrder(r) /\ Ascends(r)
    BY <1>1 DEF CaptureInv, Devoted, Cut
  <2> QED BY <1>1, <2>1, TakeOrder
<1>15. Stamps'
  BY <1>13 DEF CaptureInv, Stamps
<1>16. Devoted'
  BY <1>7, <1>13, <1>14 DEF CaptureInv, Devoted, Precede
<1>17. Marked'
  BY DEF Marked
<1>18. Cut'
  BY <1>7, <1>13, <1>14 DEF CaptureInv, Cut
<1>19. Timely'
  <2>1. ASSUME NEW i \in Given
        PROVE  /\ Delivered'[i].time + origin <= clock
               /\ \A y \in In(ready') \cup Waiting : Delivered'[i].time + origin <= y.time
    <3>1. /\ Delivered[i].time + origin <= clock
          /\ \A y \in In(ready) \cup Waiting : Delivered[i].time + origin <= y.time
      BY DEF CaptureInv, Timely
    <3>2. Delivered'[i] = Delivered[i]
      BY <1>11
    <3> QED BY ONLY <1>13, <3>1, <3>2
  <2>2. f.time + origin = x.time
    BY <1>4, <1>5, NatFacts
  <2>3. /\ Delivered'[m].time + origin <= clock
        /\ \A y \in In(ready') \cup Waiting : Delivered'[m].time + origin <= y.time
    BY <1>4, <1>7, <1>12, <1>14, <2>2
  <2> QED BY <1>11, <1>13, <2>1, <2>3 DEF Timely
<1>20. First(m - 1, x.device, Delivered') = Numbers(x.device, Delivered)
  <2>1. PICK k : k = m - 1
    OBVIOUS
  <2>2. \A i \in 1..k : Delivered'[i] = Delivered[i]
    BY <1>12, <2>1
  <2>3. First(k, x.device, Delivered') = First(k, x.device, Delivered)
    BY <2>2 DEF First
  <2>4. k = Len(Delivered)
    BY <1>10, <1>12, <2>1
  <2> QED BY <2>1, <2>3, <2>4 DEF Numbers
<1>21. Gapless'
  <2>1. \E j \in DOMAIN read[x.device] :
          /\ read[x.device][j].n = x.n
          /\ First(j - 1, x.device, read[x.device]) = Numbers(x.device, Delivered)
    BY <1>1, NextInLine DEF Reading
  <2>2. \E j \in DOMAIN read[Delivered'[m].device] :
          /\ read[Delivered'[m].device][j].n = Delivered'[m].n
          /\ First(j - 1, Delivered'[m].device, read[Delivered'[m].device])
               = First(m - 1, Delivered'[m].device, Delivered')
    BY <1>5, <1>12, <1>20, <2>1
  <2>3. ASSUME NEW i \in Given
        PROVE  \E j \in DOMAIN read[Delivered'[i].device] :
                 /\ read[Delivered'[i].device][j].n = Delivered'[i].n
                 /\ First(j - 1, Delivered'[i].device, read[Delivered'[i].device])
                      = First(i - 1, Delivered'[i].device, Delivered')
    BY <1>11 DEF CaptureInv, Gapless
  <2>4. ASSUME NEW y \in In(ready') \cup In(pending), Delivered'[m].device = y.device
        PROVE  Delivered'[m].n < y.n
    <3>1. x.device = y.device /\ Delivered'[m].n = x.n
      BY <1>5, <1>12, <2>4
    <3>2. CASE y \in In(t)
      BY <1>14, <3>1, <3>2 DEF Precede
    <3>3. CASE y \in In(pending)
      BY <1>1, <1>3, <3>1, <3>3 DEF CaptureInv, Devoted, Precede
    <3> QED BY <1>7, <3>2, <3>3
  <2>5. ASSUME NEW i \in Given, NEW y \in In(ready') \cup In(pending),
               Delivered'[i].device = y.device
        PROVE  Delivered'[i].n < y.n
    <3>1. \A h \in Given : \A z \in In(ready) \cup In(pending) :
            Delivered[h].device = z.device => Delivered[h].n < z.n
      BY DEF CaptureInv, Gapless
    <3>2. Delivered'[i] = Delivered[i] /\ y \in In(ready) \cup In(pending)
      <4>1. Delivered'[i] = Delivered[i]
        BY <1>11
      <4>2. y \in In(ready) \cup In(pending)
        BY ONLY <1>13, y \in In(ready') \cup In(pending)
      <4> QED BY ONLY <4>1, <4>2
    <3>3. Delivered[i].device = y.device
      BY <2>5, <3>2
    <3>4. Delivered[i].n < y.n
      BY <3>1, <3>2, <3>3
    <3> QED BY <3>2, <3>4
  <2>6. Given' = Given \cup {m} /\ read' = read /\ pending' = pending
    BY <1>11
  <2> QED BY ONLY <2>2, <2>3, <2>4, <2>5, <2>6 DEF Gapless
<1>22. \A d : /\ Numbers(d, r) = {y.n : y \in {z \in In(r) : z.device = d}}
              /\ Numbers(d, t) = {y.n : y \in {z \in In(t) : z.device = d}}
  BY <1>3, NumbersIn
<1>23. \A d : Numbers(d, Delivered') =
                Numbers(d, Delivered) \cup {n \in {x.n} : x.device = d}
  <2> TAKE d
  <2>1. \A i : i \in 1..m <=> i \in 1..Len(Delivered) \/ i = m
    BY <1>10, <1>12
  <2>2. \A i \in 1..Len(Delivered) : Delivered'[i] = Delivered[i]
    BY <1>11, <1>12
  <2>3. \A h : h \in Numbers(d, Delivered') <=>
           \E i \in 1..m : Delivered'[i].device = d /\ Delivered'[i].n = h
    BY <1>12 DEF Numbers, First
  <2>4. \A h : h \in Numbers(d, Delivered) <=>
           \E i \in 1..Len(Delivered) : Delivered[i].device = d /\ Delivered[i].n = h
    BY DEF Numbers, First
  <2>5. Delivered'[m].device = x.device /\ Delivered'[m].n = x.n
    BY <1>5, <1>12
  <2>6. \A h : h \in Numbers(d, Delivered') <=>
           h \in Numbers(d, Delivered) \/ (x.device = d /\ h = x.n)
    <3> TAKE h
    <3>1. ASSUME h \in Numbers(d, Delivered')
          PROVE  h \in Numbers(d, Delivered) \/ (x.device = d /\ h = x.n)
      <4>1. PICK i \in 1..m : Delivered'[i].device = d /\ Delivered'[i].n = h
        BY <2>3, <3>1
      <4>2. CASE i = m
        BY <2>5, <4>1, <4>2
      <4>3. CASE i \in 1..Len(Delivered)
        BY <2>2, <2>4, <4>1, <4>3
      <4> QED BY <2>1, <4>2, <4>3
    <3>2. ASSUME h \in Numbers(d, Delivered)
          PROVE  h \in Numbers(d, Delivered')
      BY <2>1, <2>2, <2>3, <2>4, <3>2
    <3>3. ASSUME x.device = d /\ h = x.n
          PROVE  h \in Numbers(d, Delivered')
      BY <2>1, <2>3, <2>5, <3>3
    <3> QED BY <3>1, <3>2, <3>3
  <2> QED BY <2>6
<1>24. Covered'
  <2>1. \A d : Numbers(d, Delivered') \cup Numbers(d, t) = Numbers(d, Delivered) \cup Numbers(d, r)
    BY <1>3, <1>22, <1>23
  <2>2. \A d \in Devices :
          Numbers(d, read[d]) = Numbers(d, Delivered) \cup Numbers(d, r) \cup Numbers(d, pending)
    BY <1>1 DEF CaptureInv, Covered, Reading
  <2>3. \A d \in Devices :
          Numbers(d, read[d]) = Numbers(d, Delivered') \cup Numbers(d, t) \cup Numbers(d, pending)
    BY <2>1, <2>2
  <2> QED BY <1>7, <2>3 DEF Covered
<1>25. Fresh'
  <2>1. \A y \in In(ready) \cup Waiting : origin <= y.time
    BY DEF CaptureInv, Fresh, Reading
  <2> QED BY <1>13, <2>1 DEF Fresh, Discarding
<1>26. Ends'
  <2>1. \A i \in DOMAIN Delivered' : i \in Given'
    BY <1>10, <1>11, <1>12
  <2> QED BY <2>1 DEF Ends
<1> QED BY <1>15, <1>16, <1>17, <1>18, <1>19, <1>21, <1>24, <1>25, <1>26 DEF CaptureInv

LEMMA PushNextKeeps ==
  ASSUME CaptureInv, PushNext
  PROVE  CaptureInv'
<1>1. /\ UNCHANGED <<clock, kernel, happened, origin, watermark, pending, read, server,
                     handled>>
      /\ reader = "push" /\ ready # <<>> /\ ready' = Tail(ready)
  BY DEF PushNext, worldVars, serverVars
<1>0. PICK r \in Seq(TimedReport) : r = ready
  BY TypeFacts
<1>2. PICK x, t : r = ready /\ x = Head(r) /\ t = Tail(r)
  BY <1>0
<1>3. /\ t \in Seq(TimedReport) /\ x \in TimedReport
      /\ In(r) = {x} \cup In(t) /\ In(t) \subseteq In(r)
  BY <1>1, <1>2, TakeFacts
<1>4. /\ x.time \in Nat /\ origin <= x.time /\ x.time <= clock
      /\ x \in In(ready)
  <2>1. x \in In(ready) /\ x.time \in Nat
    BY <1>2, <1>3, ReportFacts
  <2> QED BY <1>1, <2>1 DEF CaptureInv, Fresh, Cut, Reading
<1>5. /\ push([x EXCEPT !.time = @ - origin])
      /\ reader' = IF Pushed THEN reader ELSE "ended"
  <2>1. ~(Head(ready).time < origin)
    BY <1>2, <1>4, NatFacts
  <2> QED BY <1>2, <2>1 DEF PushNext
<1>6. Clocks' /\ Held'
  BY <1>1, <1>2, <1>3 DEF CaptureInv, Types, Clocks, Held
<1>7. InOrder(t) /\ Ascends(t)
  <2>1. InOrder(r) /\ Ascends(r)
    BY <1>2 DEF CaptureInv, Devoted, Cut
  <2> QED BY <1>1, <1>2, <2>1, TakeOrder
<1>8. Len(queue) \in Nat /\ wake \in BOOLEAN
  <2>1. queue \in Seq(Report)
    BY TypeFacts
  <2> QED BY <2>1 DEF CaptureInv, Types, Flags
<1>9. CASE stop
  <2>1. UNCHANGED <<queue, wake, stop, failed>> /\ reader' = "ended"
    BY <1>5, <1>9 DEF push, Pushed, queueVars
  <2>2. Delivered' = Delivered /\ Given' = Given
    BY <1>1, <2>1 DEF Delivered, Given
  <2>3. ready' = t /\ In(ready') \subseteq In(ready) /\ Waiting' = Waiting
    BY <1>1, <1>2, <1>3 DEF Waiting
  <2>4. Types'
    <3>1. Flags' /\ Queued'
      BY <1>1, <2>1 DEF CaptureInv, Types, Flags, Queued
    <3> QED BY <1>6, <3>1 DEF Types
  <2>5. Stamps' /\ Devoted' /\ Cut'
    <3>1. Stamps'
      BY <1>1, <2>3 DEF CaptureInv, Stamps
    <3>2. Devoted'
      BY <1>1, <1>7, <2>3 DEF CaptureInv, Devoted, Precede
    <3>3. Cut'
      BY <1>1, <1>7, <2>3 DEF CaptureInv, Cut
    <3> QED BY <3>1, <3>2, <3>3
  <2>6. Marked' /\ Fresh'
    BY <2>1 DEF Marked, Fresh, Reading, Discarding
  <2>7. Timely'
    BY <1>1, <2>2, <2>3 DEF CaptureInv, Timely
  <2>8. Gapless'
    BY <1>1, <2>2, <2>3 DEF CaptureInv, Gapless
  <2>9. Covered'
    <3>1. \A d : /\ Numbers(d, r) = {y.n : y \in {z \in In(r) : z.device = d}}
                 /\ Numbers(d, t) = {y.n : y \in {z \in In(t) : z.device = d}}
      BY <1>3, NumbersIn
    <3>2. \A d : Numbers(d, t) \subseteq Numbers(d, r)
      BY <1>3, <3>1
    <3>3. \A d \in Devices : Numbers(d, r) \cup Numbers(d, pending) \subseteq Numbers(d, read[d])
      BY <1>2 DEF CaptureInv, Covered
    <3>4. \A d \in Devices : Numbers(d, t) \cup Numbers(d, pending) \subseteq Numbers(d, read[d])
      BY <3>2, <3>3
    <3>5. reader' \notin Reading
      BY <2>1 DEF Reading
    <3> QED BY <1>1, <2>3, <3>4, <3>5 DEF Covered
  <2>10. Ends'
    BY <1>1, <1>9, <2>1, <2>2 DEF CaptureInv, Ends
  <2> QED BY <2>4, <2>5, <2>6, <2>7, <2>8, <2>9, <2>10 DEF CaptureInv
<1>10. PICK f : f = [x EXCEPT !.time = @ - origin]
  OBVIOUS
<1>11. f.time = x.time - origin /\ f.time \in 0..MaxTime
  <2>1. x.time - origin \in 0..MaxTime
    BY <1>4, NatFacts, ShiftRange
  <2> QED BY <1>3, <1>10, <2>1 DEF TimedReport
<1>12. CASE ~stop /\ Full
  <2>1. /\ queue' = Append(queue, Fault(f.time)) /\ failed' = TRUE /\ stop' = TRUE
        /\ wake' = TRUE /\ reader' = "ended"
    BY <1>5, <1>10, <1>12 DEF push, Pushed, Exhausted, signal
  <2>2. PICK g : g = Fault(f.time)
    OBVIOUS
  <2>3. g \in Report /\ g.device = "fault" /\ g.time = x.time - origin
    BY <1>11, <2>2 DEF Fault, Report
  <2>4. queue' = Append(queue, g)
    BY <2>1, <2>2
  <2>5. Types'
    <3>1. queue' \in Seq(Report) /\ Len(queue') = Len(queue) + 1
      BY <1>1, <2>3, <2>4, DeliverFacts
    <3>2. Queued'
      <4>1. Len(queue') <= CAPACITY + 1
        BY <1>8, <1>12, <3>1, NatFacts DEF Full
      <4> QED BY <1>1, <2>1, <3>1, <4>1, TypeFacts DEF Queued
    <3>3. Flags'
      BY <1>1, <2>1 DEF CaptureInv, Types, Flags
    <3> QED BY <1>6, <3>2, <3>3 DEF Types
  <2>6. \A i \in Given : Delivered[i].time <= g.time
    <3> TAKE i \in Given
    <3>1. PICK a \in Nat, b \in Nat : a = Delivered[i].time /\ b = x.time
      BY <1>4, HeldFacts DEF Given
    <3>2. a + origin <= b
      BY <1>4, <3>1 DEF CaptureInv, Timely
    <3>3. a <= b - origin
      BY <3>2, NatFacts, Shift
    <3> QED BY <2>3, <3>1, <3>3
  <2>7. In(ready') \subseteq In(ready) /\ InOrder(ready') /\ Ascends(ready')
    BY <1>1, <1>2, <1>3, <1>7
  <2> QED BY <1>1, <1>12, <2>1, <2>3, <2>4, <2>5, <2>6, <2>7, FaultKeeps
<1>13. CASE ~stop /\ ~Full
  <2>1. /\ queue' = Append(queue, f) /\ UNCHANGED <<stop, failed>>
        /\ wake' = TRUE /\ reader' = "push"
    BY <1>1, <1>5, <1>10, <1>13 DEF push, Pushed, signal
  <2>2. Types'
    <3>1. f \in Report
      BY <1>3, <1>10, <1>11 DEF TimedReport, Report
    <3>2. queue' \in Seq(Report) /\ Len(queue') = Len(queue) + 1
      BY <1>1, <2>1, <3>1, DeliverFacts
    <3>3. Queued'
      <4>1. Len(queue) <= CAPACITY /\ Len(queue) # CAPACITY
        BY <1>13 DEF CaptureInv, Types, Queued, Full
      <4>2. PICK m \in Nat : m = Len(queue)
        BY <1>8
      <4>3. m + 1 <= CAPACITY /\ m + 1 <= CAPACITY + 1
        BY <4>1, <4>2, NatFacts
      <4>4. Len(queue') <= CAPACITY /\ Len(queue') <= CAPACITY + 1
        BY <3>2, <4>2, <4>3
      <4> QED BY <1>1, <3>2, <4>4, TypeFacts DEF Queued
    <3>4. Flags'
      BY <1>1, <2>1 DEF CaptureInv, Types, Flags, Reading
    <3> QED BY <1>6, <3>3, <3>4 DEF Types
  <2>3. origin <= Head(ready).time /\ ~stop'
    BY <1>2, <1>4, <1>13, <2>1
  <2>4. queue' = Append(queue, [Head(ready) EXCEPT !.time = @ - origin])
    BY <1>2, <1>10, <2>1
  <2> QED BY <1>1, <1>13, <2>1, <2>2, <2>3, <2>4, GiveKeeps
<1> QED BY <1>9, <1>12, <1>13

--------------------------------------------------------------------------------
(* The theorems.                                                            *)

LEMMA InitHolds ==
  ASSUME CaptureInit
  PROVE  CaptureInv
<1>1. /\ clock = 0 /\ happened = 0 /\ origin = 0 /\ watermark = 0 /\ reader = "ended"
      /\ pending = <<>> /\ ready = <<>> /\ queue = <<>> /\ handled = <<>>
      /\ wake = FALSE /\ stop = FALSE /\ failed = FALSE /\ server = "idle"
      /\ kernel = [d \in Devices |-> <<>>] /\ read = [d \in Devices |-> <<>>]
  BY DEF CaptureInit
<1>2. \A d \in Devices : kernel[d] = <<>> /\ read[d] = <<>>
  BY <1>1
<1>3. Delivered = <<>>
  BY <1>1, NilFacts DEF Delivered
<1>4. /\ In(pending) = {} /\ In(ready) = {}
      /\ \A d \in Devices : In(kernel[d]) = {} /\ In(read[d]) = {}
  BY <1>1, <1>2, NoReports
<1>5. Waiting = {}
  BY <1>4 DEF Waiting, Devices
<1>6. DOMAIN Delivered = {} /\ Given = {} /\ Ascends(Delivered)
  <2>1. DOMAIN Delivered = {}
    BY <1>3, NoReports
  <2> QED BY <2>1 DEF Given, Ascends
<1>7. Types
  <2>1. Clocks
    <3>1. 0 \in 0..MaxTime /\ 0 \in 0..0 /\ 0 \in 0..MaxReports
      BY CaptureAssumption
    <3> QED BY <1>1, <3>1 DEF Clocks
  <2>2. Held
    BY <1>1, NilFacts DEF Held
  <2>3. Queued
    <3>1. 0 <= CAPACITY /\ 0 <= CAPACITY + 1
      BY CaptureAssumption
    <3> QED BY <1>1, <3>1, NilFacts DEF Queued
  <2>4. Flags
    BY <1>1 DEF Flags
  <2> QED BY <2>1, <2>2, <2>3, <2>4 DEF Types
<1>8. Stamps
  BY <1>5 DEF Stamps
<1>9. Devoted
  BY <1>1, <1>2, <1>4, NoReports DEF Devoted, Precede
<1>10. Marked
  BY <1>1 DEF Marked
<1>11. Cut /\ Timely /\ Gapless
  BY <1>1, <1>4, <1>6, NoReports DEF Cut, Timely, Gapless
<1>12. Covered
  <2>1. \A d \in Devices :
          /\ Numbers(d, ready) = {} /\ Numbers(d, pending) = {}
          /\ Numbers(d, read[d]) = {} /\ Numbers(d, Delivered) = {}
    BY <1>1, <1>2, <1>3, NoReports
  <2> QED BY <2>1 DEF Covered
<1>13. Fresh
  BY <1>1 DEF Fresh, Reading, Discarding
<1>14. Ends
  BY <1>1, <1>6 DEF Ends
<1> QED BY <1>7, <1>8, <1>9, <1>10, <1>11, <1>12, <1>13, <1>14 DEF CaptureInv

LEMMA IdleKeeps ==
  ASSUME CaptureInv, UNCHANGED captureVars
  PROVE  CaptureInv'
<1>1. Moves /\ UNCHANGED <<reader, watermark, wake, stop, failed, server>>
  BY DEF captureVars, Moves
<1>2. Delivered' = Delivered /\ Given' = Given /\ clock \in Nat /\ clock' = clock
  BY <1>1, MovesFacts
<1>3. Types'
  BY <1>1 DEF CaptureInv, Types, Moves, Clocks, Held, Queued, Flags
<1>4. Marked'
  BY <1>1 DEF CaptureInv, Marked, Moves
<1>5. Ends'
  BY <1>1, <1>2 DEF CaptureInv, Ends
<1>6. clock' \in Nat /\ clock <= clock'
  BY <1>2
<1> QED BY <1>1, <1>2, <1>3, <1>4, <1>5, <1>6, StillKeeps DEF Moves

LEMMA StepKeeps ==
  ASSUME CaptureInv, CaptureNext
  PROVE  CaptureInv'
<1>1. CASE Tick
  BY <1>1, TickKeeps
<1>2. CASE \E d \in Devices : Happens(d)
  BY <1>2, HappensKeeps
<1>3. CASE ReaderSteps
  <2>1. CASE \E d \in Devices : DiscardOld(d) \/ DrainDevice(d)
    BY <2>1, DiscardOldKeeps, DrainDeviceKeeps
  <2>2. CASE BeginPass
    BY <2>2, BeginPassKeeps
  <2>3. CASE Sort
    BY <2>3, SortKeeps
  <2>4. CASE Overruns
    BY <2>4, FailsKeeps DEF Overruns
  <2>5. CASE PushNext
    BY <2>5, PushNextKeeps
  <2>6. CASE PollReturns
    BY <2>6, PollReturnsKeeps
  <2>7. CASE PushFault
    BY <2>7, PushFaultKeeps
  <2> QED BY <1>3, <2>1, <2>2, <2>3, <2>4, <2>5, <2>6, <2>7 DEF ReaderSteps
<1>4. CASE DeviceFails
  BY <1>4, FailsKeeps DEF DeviceFails
<1>5. CASE Connect
  BY <1>5, ConnectKeeps
<1>6. CASE Drain
  BY <1>6, DrainKeeps
<1>7. CASE EndLoop \/ Join
  BY <1>7, ServerEndsKeeps
<1> QED BY <1>1, <1>2, <1>3, <1>4, <1>5, <1>6, <1>7 DEF CaptureNext

(* The invariant holds in every state of the capture, whatever the devices, *)
(* the reader and the session do (run, push, drain, drive_connection).      *)
THEOREM CaptureInvariant == CaptureSpec => []CaptureInv
<1>1. CaptureInit => CaptureInv
  BY InitHolds
<1>2. CaptureInv /\ [CaptureNext]_captureVars => CaptureInv'
  BY StepKeeps, IdleKeeps
<1> QED BY <1>1, <1>2, PTL DEF CaptureSpec

(* Reports and flags are in range, and the queue never holds more than its  *)
(* capacity and the one fault past it (push).                               *)
THEOREM CaptureTyped == CaptureSpec => []CaptureTypeOK
<1>1. CaptureInv => CaptureTypeOK
  <2> SUFFICES ASSUME CaptureInv PROVE CaptureTypeOK
    OBVIOUS
  <2>1. Clocks /\ Held /\ Queued /\ Flags
    BY DEF CaptureInv, Types
  <2>2. \A S : \A s \in Seq(S) : Over(S, s)
    BY DEF Over
  <2>3. \A d \in Devices : Over(TimedReport, kernel[d]) /\ Over(TimedReport, read[d])
    <3>1. \A d \in Devices : kernel[d] \in Seq(TimedReport) /\ read[d] \in Seq(TimedReport)
      BY <2>1 DEF Held
    <3> QED BY <2>2, <3>1
  <2>4. Over(TimedReport, pending) /\ Over(TimedReport, ready)
    BY <2>1, <2>2 DEF Held
  <2>5. Over(Report, queue) /\ Over(Report, handled) /\ Len(queue) <= CAPACITY + 1
    BY <2>1, <2>2 DEF Queued
  <2>6. /\ clock \in 0..MaxTime /\ origin \in 0..clock /\ watermark \in 0..clock
        /\ happened \in 0..MaxReports
    BY <2>1 DEF Clocks
  <2>7. /\ {wake, stop, failed} \subseteq BOOLEAN
        /\ server \in {"idle", "serving", "joining", "deaf"}
    BY <2>1 DEF Flags
  <2>8. reader \in {"old pen", "old touch", "pass", "drain pen", "drain touch",
                    "sort", "push", "fault", "ended"}
    BY <2>1 DEF Flags, Discarding, Reading
  <2> QED BY <2>3, <2>4, <2>5, <2>6, <2>7, <2>8 DEF CaptureTypeOK
<1> QED BY <1>1, CaptureInvariant, PTL

(* However the two devices are read while reports keep coming, the session  *)
(* is given them in the order of their time stamps (watermark, sort_by_key, *)
(* partition_point).                                                        *)
THEOREM OrderedByTime == CaptureSpec => []TimeOrdered
<1>1. CaptureInv => TimeOrdered
  <2> SUFFICES ASSUME CaptureInv, NEW i \in DOMAIN Delivered, i > 1
               PROVE  Delivered[i - 1].time <= Delivered[i].time
    BY DEF TimeOrdered
  <2>1. Len(Delivered) \in Nat /\ DOMAIN Delivered = 1..Len(Delivered)
    BY TypeFacts
  <2>2. PICK h \in DOMAIN Delivered : h = i - 1 /\ h < i
    BY <2>1
  <2>3. Ascends(Delivered)
    BY DEF CaptureInv, Timely
  <2> QED BY <2>2, <2>3 DEF Ascends
<1> QED BY <1>1, CaptureInvariant, PTL

(* The session is given what was read of each device, once, in order and    *)
(* without a gap, and all of it unless the capture ended; what ended it is  *)
(* the last entry (pending, drain(..ready), the reserved entry of push).    *)
THEOREM LosesNothing == CaptureSpec => []NothingLost
<1>1. CaptureInv => NothingLost
  <2> SUFFICES ASSUME CaptureInv PROVE NothingLost
    OBVIOUS
  <2>1. ASSUME NEW i \in DOMAIN Delivered
        PROVE  IF Delivered[i].device = "fault" THEN i = Len(Delivered)
               ELSE \E j \in DOMAIN read[Delivered[i].device] :
                      /\ read[Delivered[i].device][j].n = Delivered[i].n
                      /\ First(j - 1, Delivered[i].device, read[Delivered[i].device])
                           = First(i - 1, Delivered[i].device, Delivered)
    <3>1. CASE i \in Given
      BY <3>1 DEF CaptureInv, Gapless, Given
    <3>2. CASE i \notin Given
      BY <3>2 DEF CaptureInv, Ends, Given
    <3> QED BY <3>1, <3>2
  <2>2. ASSUME server = "serving", ~stop, ~failed, NEW d \in Devices
        PROVE  Numbers(d, Delivered) \cup Numbers(d, ready) \cup Numbers(d, pending)
                 = Numbers(d, read[d])
    <3>1. reader \in Reading \cup Discarding
      <4>1. reader \in Discarding \cup Reading \cup {"fault", "ended"}
        BY DEF CaptureInv, Types, Flags
      <4> QED BY <2>2, <4>1 DEF CaptureInv, Ends
    <3>2. CASE reader \in Reading
      BY <3>2 DEF CaptureInv, Covered
    <3>3. CASE reader \in Discarding
      <4>1. /\ handled = <<>> /\ queue = <<>> /\ ready = <<>> /\ pending = <<>>
            /\ read[d] = <<>>
        BY <3>3 DEF CaptureInv, Fresh
      <4>2. Delivered = <<>>
        BY <4>1, NilFacts DEF Delivered
      <4>3. Numbers(d, Delivered) = {} /\ Numbers(d, ready) = {} /\ Numbers(d, pending) = {}
        BY <4>1, <4>2, NoReports
      <4>4. Numbers(d, read[d]) = {}
        BY <4>1, NoReports
      <4> QED BY <4>3, <4>4
    <3> QED BY <3>1, <3>2, <3>3
  <2> QED BY <2>1, <2>2 DEF NothingLost
<1> QED BY <1>1, CaptureInvariant, PTL
================================================================================
