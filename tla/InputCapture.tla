------------------------------ MODULE InputCapture -----------------------------
(***************************************************************************)
(* The thread that reads the pen and the touch device while a producer is  *)
(* connected, and the queue between it and the session                     *)
(* (rm-display-receiver/src/input_capture.rs, drive_connection in          *)
(* server.rs).  The two devices are read one after the other, yet the      *)
(* session must see their reports in the order in which they happened.     *)
(*                                                                         *)
(* A report is its device, the kernel's time stamp and a number that tells *)
(* it apart; what is in it is TouchInput's and PenInput's business.  The   *)
(* kernel makes a report readable at the time it stamps on it.             *)
(***************************************************************************)
EXTENDS Integers, Sequences

CONSTANTS
  CAPACITY,    \* of the queue and of the ordering buffer
  MaxTime,     \* bound: the clock
  MaxReports   \* bound: reports of both devices together

ASSUME CaptureAssumption ==
  {CAPACITY, MaxTime, MaxReports} \subseteq Nat \ {0}

Devices == {"pen", "touch"}

VARIABLES
  clock,      \* CLOCK_MONOTONIC
  kernel,     \* unread reports of each device
  happened,   \* number of reports so far
  origin,     \* start of the connection
  reader,     \* the step the reader thread is at
  watermark,  \* clock when the pass began
  pending,    \* the ordering buffer
  ready,      \* reports of this pass still to be pushed
  queue, wake, stop, failed,   \* InputCapture
  server,     \* "idle", "serving" or "joining"
  handled,    \* what the session was given
  read        \* what the reader took from each device in this connection

captureVars == <<clock, kernel, happened, origin, reader, watermark, pending,
                 ready, queue, wake, stop, failed, server, handled, read>>

readerVars == <<reader, watermark, pending, ready, read>>
queueVars  == <<queue, wake, stop, failed>>
serverVars == <<server, handled, origin>>
worldVars  == <<clock, kernel, happened>>

Fault(time) == [device |-> "fault", time |-> time, n |-> 0]

--------------------------------------------------------------------------------
(* The world: time passes and somebody touches the panel.                   *)

Tick ==
  /\ clock < MaxTime
  /\ clock' = clock + 1
  /\ UNCHANGED <<kernel, happened, readerVars, queueVars, serverVars>>

Happens(d) ==
  /\ happened < MaxReports
  /\ happened' = happened + 1
  /\ kernel' = [kernel EXCEPT ![d] =
       Append(@, [device |-> d, time |-> clock, n |-> happened + 1])]
  /\ UNCHANGED <<clock, readerVars, queueVars, serverVars>>

--------------------------------------------------------------------------------
(* InputCapture: the queue, each operation under its lock.                  *)

\* Mutant: the fault takes the place of the oldest report.
Exhausted_Replaces(report) == Append(Tail(queue), Fault(report.time))

\* The entry past the capacity that makes an overflow explicit.
Exhausted(report) == Append(queue, Fault(report.time))

signal == TRUE

Full == Len(queue) = CAPACITY

push(report) ==
  IF stop THEN UNCHANGED queueVars
  ELSE IF Full
    THEN /\ queue' = Exhausted(report)
         /\ failed' = TRUE /\ stop' = TRUE /\ wake' = signal
    ELSE /\ queue' = Append(queue, report)
         /\ wake' = signal
         /\ UNCHANGED <<stop, failed>>

Pushed == ~stop /\ ~Full

--------------------------------------------------------------------------------
(* run: the reader thread.                                                  *)

\* A step of the reader that leaves the queue alone.
Private == UNCHANGED <<clock, happened, queueVars, serverVars>>

OldStep == [pen |-> "old pen", touch |-> "old touch"]
DrainStep == [pen |-> "drain pen", touch |-> "drain touch"]

\* What earlier connections left unread is thrown away, pen first.
DiscardOld(d) ==
  /\ reader = OldStep[d]
  /\ kernel' = [kernel EXCEPT ![d] = <<>>]
  /\ reader' = IF d = "pen" THEN "old touch" ELSE "pass"
  /\ Private
  /\ UNCHANGED <<watermark, pending, ready, read>>

\* Mutant: only a failure ends the loop.
Stopped_Failed == failed

\* The loop condition.
Stopped == stop

\* The loop condition, then the watermark.
BeginPass ==
  /\ reader = "pass"
  /\ \/ Stopped /\ reader' = "ended" /\ UNCHANGED watermark
     \/ ~Stopped /\ reader' = "drain pen" /\ watermark' = clock
  /\ Private
  /\ UNCHANGED <<kernel, pending, ready, read>>

\* drain_timed_reports of one device.
DrainDevice(d) ==
  /\ reader = DrainStep[d]
  /\ pending' = pending \o kernel[d]
  /\ read' = [read EXCEPT ![d] = @ \o kernel[d]]
  /\ kernel' = [kernel EXCEPT ![d] = <<>>]
  /\ reader' = IF d = "pen" THEN "drain touch" ELSE "sort"
  /\ Private
  /\ UNCHANGED <<watermark, ready>>

\* sort_by_key: the place each report is taken from, by time and stable.
Before(seq, i, j) ==
  \/ seq[i].time < seq[j].time
  \/ seq[i].time = seq[j].time /\ i < j

StableSorts(seq) ==
  {p \in [DOMAIN seq -> DOMAIN seq] :
     \A i, j \in DOMAIN seq : i < j => Before(seq, p[i], p[j])}

\* Mutant: everything that was read goes out at once.
Settled_All(seq, k) == k = Len(seq)

\* partition_point: the first k reports are no later than the watermark.
Settled(seq, k) == \A i \in DOMAIN seq : i <= k <=> seq[i].time <= watermark

Kept(seq, k) == SubSeq(seq, k + 1, Len(seq))

Sort ==
  /\ reader = "sort"
  /\ Len(pending) <= CAPACITY
  /\ \E p \in StableSorts(pending), k \in 0..Len(pending) :
       LET sorted == [i \in DOMAIN pending |-> pending[p[i]]]
       IN /\ Settled(sorted, k)
          /\ ready' = SubSeq(sorted, 1, k)
          /\ pending' = Kept(sorted, k)
  /\ reader' = "push"
  /\ Private
  /\ UNCHANGED <<kernel, watermark, read>>

\* Reports older than the connection are skipped, the times of the others become
\* relative to it; a push that is refused ends run.
PushNext ==
  /\ reader = "push" /\ ready # <<>>
  /\ ready' = Tail(ready)
  /\ IF Head(ready).time < origin THEN UNCHANGED <<reader, queueVars>>
     ELSE /\ push([Head(ready) EXCEPT !.time = @ - origin])
          /\ reader' = IF Pushed THEN reader ELSE "ended"
  /\ UNCHANGED <<worldVars, serverVars, watermark, pending, read>>

\* poll on the devices returns after at most 5 ms.
PollReturns ==
  /\ reader = "push" /\ ready = <<>>
  /\ reader' = "pass"
  /\ Private
  /\ UNCHANGED <<kernel, watermark, pending, ready, read>>

\* run returns an error: failed is stored first, then the fault is pushed and
\* the capture stopped.
Fails ==
  /\ failed' = TRUE /\ reader' = "fault"
  /\ UNCHANGED <<worldVars, serverVars, watermark, pending, ready, read, queue,
                 wake, stop>>

\* An error of a device, or of poll.
DeviceFails ==
  /\ \/ reader \in {OldStep[d] : d \in Devices} \cup {DrainStep[d] : d \in Devices}
     \/ reader = "push" /\ ready = <<>>
  /\ Fails

\* Too many reports for the ordering buffer.
Overruns == reader = "sort" /\ Len(pending) > CAPACITY /\ Fails

\* Mutant: the capture stops before it reports why.
ReportFault_Stopped == UNCHANGED <<queue, wake>>

ReportFault ==
  IF stop THEN UNCHANGED <<queue, wake>>
  ELSE queue' = Append(queue, Fault(clock - origin)) /\ wake' = signal

PushFault ==
  /\ reader = "fault" /\ reader' = "ended"
  /\ ReportFault
  /\ stop' = TRUE
  /\ UNCHANGED <<worldVars, serverVars, watermark, pending, ready, read, failed>>

ReaderSteps ==
  \/ \E d \in Devices : DiscardOld(d) \/ DrainDevice(d)
  \/ BeginPass \/ Sort \/ Overruns \/ PushNext \/ PollReturns \/ PushFault

--------------------------------------------------------------------------------
(* drive_connection: the serving thread.                                    *)

Connect ==
  /\ server = "idle" /\ server' = "serving"
  /\ origin' = clock
  /\ reader' = "old pen" /\ watermark' = 0
  /\ pending' = <<>> /\ ready' = <<>>
  /\ queue' = <<>> /\ wake' = FALSE /\ stop' = FALSE /\ failed' = FALSE
  /\ handled' = <<>> /\ read' = [d \in Devices |-> <<>>]
  /\ UNCHANGED worldVars

\* drain, then the session handles every report; a fault among them is
\* input_capture_failed.
Drain ==
  /\ server = "serving" /\ wake
  /\ handled' = handled \o queue
  /\ queue' = <<>> /\ wake' = FALSE
  /\ UNCHANGED <<worldVars, readerVars, stop, failed, server, origin>>

\* The connection loop returns, with or without an error.
EndLoop ==
  /\ server = "serving" /\ server' = "joining"
  /\ stop' = TRUE
  /\ UNCHANGED <<worldVars, readerVars, queue, wake, failed, handled, origin>>

\* A reader that failed takes its devices with it: nothing is captured for the
\* connections that follow.
Join ==
  /\ server = "joining" /\ reader = "ended"
  /\ server' = IF failed THEN "deaf" ELSE "idle"
  /\ UNCHANGED <<worldVars, readerVars, queueVars, handled, origin>>

CaptureInit ==
  /\ clock = 0 /\ kernel = [d \in Devices |-> <<>>] /\ happened = 0
  /\ origin = 0 /\ reader = "ended" /\ watermark = 0
  /\ pending = <<>> /\ ready = <<>>
  /\ queue = <<>> /\ wake = FALSE /\ stop = FALSE /\ failed = FALSE
  /\ server = "idle" /\ handled = <<>> /\ read = [d \in Devices |-> <<>>]

CaptureNext ==
  \/ Tick
  \/ \E d \in Devices : Happens(d)
  \/ ReaderSteps
  \/ DeviceFails
  \/ Connect \/ Drain \/ EndLoop \/ Join

CaptureSpec == CaptureInit /\ [][CaptureNext]_captureVars

(* The reader never waits for more than its poll timeout, the serving       *)
(* thread wakes up for the queue.                                           *)
FairCapture ==
  /\ CaptureSpec
  /\ WF_captureVars(ReaderSteps) /\ WF_captureVars(Drain) /\ WF_captureVars(Join)

--------------------------------------------------------------------------------
(* Properties.                                                              *)

TimedReport == [device : Devices, time : 0..MaxTime, n : 1..MaxReports]

Report ==
  TimedReport
    \cup [device : {"fault"}, time : 0..MaxTime, n : {0}]

Over(set, seq) == \A i \in DOMAIN seq : seq[i] \in set

(* Reports and flags are in range; the queue holds at most its capacity and *)
(* the one fault entry past it (push).                                      *)
CaptureTypeOK ==
  /\ clock \in 0..MaxTime /\ origin \in 0..clock /\ watermark \in 0..clock
  /\ happened \in 0..MaxReports
  /\ \A d \in Devices : Over(TimedReport, kernel[d]) /\ Over(TimedReport, read[d])
  /\ Over(TimedReport, pending) /\ Over(TimedReport, ready)
  /\ Over(Report, queue) /\ Over(Report, handled)
  /\ Len(queue) <= CAPACITY + 1
  /\ reader \in {"old pen", "old touch", "pass", "drain pen", "drain touch",
                 "sort", "push", "fault", "ended"}
  /\ {wake, stop, failed} \subseteq BOOLEAN
  /\ server \in {"idle", "serving", "joining", "deaf"}

Delivered == handled \o queue

(* The session is given the reports of the two devices in the order of      *)
(* their time stamps, although they are read one device after the other     *)
(* while both go on (watermark, sort_by_key, partition_point).              *)
TimeOrdered ==
  \A i \in DOMAIN Delivered : i > 1 =>
    Delivered[i - 1].time <= Delivered[i].time

\* The numbers of the reports of device d among the first k of seq, and in all of it.
First(k, d, seq) == {seq[i].n : i \in {j \in 1..k : seq[j].device = d}}

Numbers(d, seq) == First(Len(seq), d, seq)

(* Of each device the session is given what was read, once, in order and    *)
(* without a gap, and all of it while the capture is neither stopped nor    *)
(* failed; an overflow or an error pushes nothing out and is the last entry *)
(* (pending, drain(..ready), the reserved entry of push).                   *)
NothingLost ==
  /\ \A i \in DOMAIN Delivered :
       IF Delivered[i].device = "fault" THEN i = Len(Delivered)
       ELSE \E j \in DOMAIN read[Delivered[i].device] :
              /\ read[Delivered[i].device][j].n = Delivered[i].n
              /\ First(j - 1, Delivered[i].device, read[Delivered[i].device])
                   = First(i - 1, Delivered[i].device, Delivered)
  /\ server = "serving" /\ ~stop /\ ~failed =>
       \A d \in Devices :
         Numbers(d, Delivered) \cup Numbers(d, ready) \cup Numbers(d, pending)
           = Numbers(d, read[d])

(* When the capture fails the session is told, or has ended: the fault is   *)
(* queued and its wake-up is not lost to a drain (failed, push, drain).     *)
FaultDelivered ==
  failed ~> \/ server # "serving"
            \/ \E i \in DOMAIN handled : handled[i].device = "fault"

(* The connection ends although the reader is in the middle of a pass       *)
(* (capture.stop, reader.join).                                             *)
JoinReturns == server = "joining" ~> server # "joining"
================================================================================
