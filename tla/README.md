# TLA+ models of rm-display

This directory specifies, model-checks and partly proves
`rm-display`: the remote-display receiver for e-paper tablets and the Rust
producer that talks to it. The reference is the code; every definition names the
lines it models in `PROJECT.json` ("map"). Paths below are relative to `crates/`.

## 1. The system

A *producer* renders pixels and sends frames over one TCP (optionally TLS-PSK)
connection. The *receiver* owns the panel: it keeps the logical picture, composes
local planes over it (menu, pen ink, a peer overlay), decides when and with which
waveform the slow e-paper panel is driven, and forwards touch and pen input.

| component | source | state | operations | correct when |
|---|---|---|---|---|
| presentation scheduler | `rm-display-core/src/scheduler.rs` | base, presented base, double-buffered composite, one pending frame, damage hints, settle region, uncertainty and cleanup flags | commit a frame, tick, present a plane, freeze, cancel, request cleanup, replace the policy | the panel ends up showing the newest accepted frame under the planes; one terminal per frame; a requested cleanup happens |
| refresh policy | `rm-display-core/src/refresh.rs` | configuration, submission counters (debt) | decide, record submissions, switch profile | counters saturate; the decision is complete when forced |
| surfaces and planes | `rm-display-core/src/surface.rs` | pixels, dirty rectangles | apply regions, compose, rasterise, diff into tiles | composition order; damage covers what changed |
| panel backend | `rm-display-core/src/panel.rs`, `rm-display-receiver/src/quill.rs` | the physical panel | submit, pump | may fail at any submission |
| receiver session | `rm-display-receiver/src/session.rs` | surface and generation, credits, negotiated features, policy, carried cleanup and debt, freeze and pause flags, pen and touch streams | frames, surface open and close, overlay, profile and refresh messages, input reports, power key, local controls | results and credits agree with the pending frame; one answer per request and a true one; input streams are well formed |
| server loop | `rm-display-receiver/src/server.rs`, `main.rs` | listener, connection, pairing key, QR on the panel | start up, accept, idle menu, drain input, hook, poll, decode up to 8 envelopes, pairing rotation | every part gets its turn on every pass; a pairing survives restarts and a replaced key serves nobody |
| input capture | `rm-display-receiver/src/input_capture.rs` | bounded queue shared by two threads | push, drain, run, fault | reports arrive whole and in time order; overflow is explicit |
| touch, pen, power key | `rm-display-receiver/src/evdev.rs` | slots, contact ids, chord gesture, pen state | parse packets, SYN_DROPPED, gesture, cancel | contacts have DOWN..UP/CANCEL |
| local menu, pairing screen | `local_menu.rs`, `pairing.rs` | menu open, layout | toggle, hit test, render | geometry |
| protocol | `rm-display-protocol/src/wire.rs`, `semantic.rs` | none | frame an envelope, validate one message | bounds |
| transport | `rm-display-transport/src/lib.rs` | key file | handshake, generate, store, load | never half a key |
| producer client | `rm-display-cli/src/client.rs` | surface, credits, frames in flight, speculative base | open, queue a delta, send a frame, flush, receive | never exceeds its credits, recovers from rejection, shows its latest picture |
| command line, pixels, statistics | `rm-display-cli/src/*.rs` | counters | convert, print | glue |

How they interact. The server loop is one thread: per pass it drains the capture
queue into the session, handles power key presses, runs the application's hook,
polls the session (which ticks the core) and decodes at most eight envelopes. The
capture thread shares only the queue with it. Session and core are called
synchronously; results go back on the same stream. The producer is a different
process: it pipelines up to two deltas and blocks in calls that read the stream.

What is hard here: superseded frames whose damage must survive; a panel that can
fail in the middle of any update; planes presented between a commit and its
presentation; a freeze that invalidates a base for which deltas are already on
the wire; credits sent as absolute values and read late; input reports that are
older than the surface, the pause or the freeze they meet; a queue that
overflows; a chord that outlives surfaces and menus; idle maintenance that must
eventually run; a promised cleanup, a debt and a policy that outlive the surface they
belong to; two devices read in turn that must come out in time order; a process
killed between two writes; rectangles cut along three unrelated grids. `PROJECT.json` lists these hazards at their lines.

## 2. Modules

| module | models | notes |
|---|---|---|
| `RefreshPolicy` | `refresh.rs` | operators only: presets, validation, decision, debt |
| `DisplayCore` | `scheduler.rs`, the composing part of `surface.rs`, the calls `session.rs` makes into it | one action per call; extends `RefreshPolicy` |
| `FrameContract` | what the scheduler promises a producer | abstract specification; `DisplayCore` refines it |
| `DisplayCoreProofs` | | theorems about `DisplayCore` |
| `Connection` | the established stream | two FIFO channels |
| `SessionFrames` | frame admission, credits, terminals and surfaces in `session.rs` | |
| `ProducerClient` | frames, credits and calls of `client.rs` | |
| `FrameFlow` | the composition of the last two over `Connection` | |
| `FrameFlowProofs` | | theorems about `FrameFlow` |
| `TouchInput` | `TypeBParser`, `FiveFingerCleanupGesture` (`evdev.rs`), `InputCapture`, `input_reports` | capture thread and session thread |
| `TouchInputProofs` | | theorems about `TouchInput` |
| `PenInput` | `EvdevPenDevice`, `InputCapture`, `pen_reports_inner` and the ink controls | |
| `PenInputProofs` | | theorems about `PenInput` |
| `Negotiation` | both hellos and both checks of them (`session.rs`, `client.rs`) | operators only |
| `SessionControl` | profile and refresh control, cleanups, surfaces and the menu in `session.rs` | extends `RefreshPolicy`, `Negotiation` |
| `ControlFlow` | `SessionControl` with producers of every version and the serve loop | composition |
| `ControlFlowProofs` | | theorems about `SessionControl` and `ControlFlow` |
| `InputCapture` | the reader thread, the queue and the serving thread of one connection | two threads |
| `InputCaptureProofs` | | theorems about `InputCapture` |
| `PairingLife` | start-up, persistent files, QR, NEW PAIR, handshake (`main.rs`, `server.rs`, `pairing.rs`, `rm-display-transport`) | several processes, killed at any step |
| `PairingLifeProofs` | | theorems about `PairingLife` |
| `PixelDamage` | delta encoder, validator, damage grid, ink rasteriser, settle region, pixel by pixel | joins client, protocol and core |
| `PixelDamageProofs` | | theorems about `PixelDamage` |
| `MC*` | constant values for TLC | |

### DisplayCore
Tiles are the damage tiles of `tile_damage_regions`; a surface maps tiles to
shades, a plane or damage list is a set of tiles. `panel` is the physical panel
and may hold "Unknown" after a failed submission; `presented`, `working`, `base`,
`presented_base`, `pending`, `settle_damage`, `force_cleanup_next` and the others
keep the field names. Durations are ticks left or elapsed. `present_plane` is the
only operation in two steps: it completes the pending frame and then composes,
and `call` lets nothing come in between. `fast_seen`, `residue`, `suspect`,
`drive` and `terminal` are history variables: what was driven with a motion
waveform, ink removed from its plane without a redraw, a failure not yet followed
by a complete refresh, what the last step did to the panel and reported.

### FrameFlow
A picture is a pair (surface, frame); a delta applied to any picture but the one
it was encoded against gives `Mixed`. `SessionFrames` keeps the order of the
checks in `accept_frame`; `ProducerClient` has one step per send and one per
envelope read, and its `op` is the call the application is blocked in. Fields the
two sides share a name for are told apart as `sent_frame_id` (the producer's
`logical_frame_id`) and `logical_frame_id` (the receiver's).

### TouchInput and PenInput
One packet up to SYN_REPORT is a step of the capture thread, drained reports are
handled one at a time, and everything the server loop does besides happens between
batches, as in the loop. A report carries whether it was captured before the
surface was opened (`stale`) or before the ink was last re-armed (`ink_stale`),
instead of a time. In `PenInput` a record names the contact it belongs to instead
of coordinates, so a drawn segment is a pair of contacts. What the Linux kernel
may deliver is external and stated in `AllPackets` and `Deliverable`.

### SessionControl and ControlFlow
Of the core only the configuration, whether a frame waits or was presented, the
armed cleanup and the debt are kept; each call into it yields a set of outcomes
(the panel fails, nothing changed, a partial or a complete submission). A
presentation may always turn out complete: recovery and the fast-update counter,
which `DisplayCore` has, are not repeated here. Drawings of the fallback picture
without a surface count neither as debt nor as cleanup, as in the code. A request is
its operation and its optional parameters as sets of at most one value. The
reference producer makes one blocking call at a time and only what the receiver's
hello allows, with values its command line accepts; any other producer sends any
request, also with a used id. `ledger` is a history variable: what was promised to
the producer and what the panel really did since. `unanswered` counts what was
sent, `override` is the cleanup interval an UPDATE chose.

### InputCapture
A report is a device, a time stamp and a number. Each read of a device, the
sorting, each push and each drain is a step of its own, so that reports and the
clock move between them; queue operations are atomic because they hold its lock.
The kernel makes a report readable at the time it stamps on it: external, and what
the watermark relies on. The stable sort is stated by what it returns, the places
its reports are taken from (`StableSorts`). Contents and the meaning of a fault are in `TouchInput`
and `PenInput`.

### PairingLife
A process is a program counter with its key and identity. Creating a file and
writing it are two steps, a rename is one. `Stop` ends a process anywhere: a kill,
EXIT or an error. Power loss, which may undo a rename that was not synced, is not
modelled. `generate` takes a definite unused value; keys are interchangeable, so
nothing is lost. `overtaken` marks a process that already holds a key when another
one rotates it: the code does not watch the file, and the properties say so.

### PixelDamage
Pictures are functions on a small grid of black and white pixels. The producer's
tile, the receiver's damage tile and the dirty rectangle of the ink are chosen
independently. The panel does not fail here and every update is Fastest, the
waveform that leaves settle debt; failures and waveforms are in `DisplayCore`. The
encoder's loop over tile rows, which lets a run of changed tiles continue a rectangle
of the row above, is stated by what it ends with: a rectangle for every block of tiles
that is the same maximal run in all its rows and in neither neighbouring row
(`Stacked`).

## 3. What TLC checks

Every run has a mutant for every property: a plausible bug in a mapped definition
under which the same configuration reports a violation.

| run | question | properties |
|---|---|---|
| `core_frames` | frames, supersession, failures, cleanups and profile changes on the bare base | `TypeOK`, `PanelConverges`, `KeepsFrameContract`, `SettledRepaintsFast`, `RecoveryCleans` |
| `core_ink` | the pen, freezes and clearing over a stream of frames | `BuffersAgree` |
| `core_live` | menu and peer overlay between commits and presentations; an endless stream of superseding LATEST frames with a frame interval; idle maintenance with a failing panel | `CleanupHonoured`, `PendingResolves`, `EarnedCleanupRuns` |
| `flow_frames` | pipelining over two surfaces with a byte limit below two keyframes, and blocking calls | `BaseNeverMixed`, `FramesAccounted`, `InflightBounded`, `PictureArrives`, `CallsReturn` |
| `touch_surfaces` | contacts and chords across surfaces, menus, drops, overflow and failures | `QuietMeansReleased`, `ChordCleansOnce`, `PointerStream` |
| `pen_stream` | the pen the producer sees, and strokes cut by controls | `PenStream`, `PenLeaves`, `InkFollowsDown`, `FreezeHolds` |
| `control_flow` | producers of all versions and the menu steer the policy across surfaces and failures | `PolicyAgrees`, `CleanupCarried`, `DebtCarried`, `ReportsTrue`, `OneAnswerEach`, `ReferenceServed`, `HelloAgreed` |
| `capture_order` | two devices, one reader thread, one queue | `TimeOrdered`, `NothingLost`, `FaultDelivered`, `JoinReturns` |
| `pairing_life` | starts, kills, restarts and NEW PAIR of two processes | `ServesWhatIsStored`, `PairingSurvives`, `RevokedNeverServed`, `QrIsCurrent`, `NewPairCompletes` |
| `pixel_damage` | every delta between pictures of a small grid, and ink over it | `DeltaReproduces`, `PixelsShown`, `SettleRegionExact` |

What each property says stands above its definition. In short: the panel ends up
right (`PanelConverges`, `BuffersAgree`), promises about frames and cleanups are
kept (`KeepsFrameContract`, `CleanupHonoured`, `SettledRepaintsFast`,
`RecoveryCleans`), the two ends agree (`BaseNeverMixed`, `FramesAccounted`,
`InflightBounded`, `PictureArrives`), input streams are whole
and end (`PointerStream`, `QuietMeansReleased`, `PenStream`,
`PenLeaves`), local effects happen once and in their place (`ChordCleansOnce`,
`InkFollowsDown`, `FreezeHolds`), things that must happen do (`PendingResolves`, `EarnedCleanupRuns`, `CallsReturn`,
`FaultDelivered`, `JoinReturns`, `NewPairCompletes`), what outlives a surface or a
process is carried over (`CleanupCarried`, `DebtCarried`, `PolicyAgrees`,
`ServesWhatIsStored`, `PairingSurvives`, `RevokedNeverServed`,
`QrIsCurrent`), answers are single and true (`OneAnswerEach`, `ReportsTrue`,
`ReferenceServed`, `HelloAgreed`), and no report, region or pixel gets lost
(`TimeOrdered`, `NothingLost`, `DeltaReproduces`, `PixelsShown`,
`SettleRegionExact`).

The core's properties are divided over its three runs: each is checked where its
bug would show first, and all but the liveness properties are proved for every
instance (section 4; `SettledRepaintsFast` and `RecoveryCleans` for every instance
without local planes), as are the safety properties of `FrameFlow`, `ControlFlow`, `PairingLife`, `InputCapture`, `TouchInput`,
`PenInput` and `PixelDamage`. The type invariants `FlowTypeOK`, `ControlTypeOK`, `LifeTypeOK`,
`CaptureTypeOK`, `TouchTypeOK` and `PenTypeOK` are proved instead of checked.

### Bounds and why they are enough
* Core: two tiles (a tile inside and one outside a damage list), two shades,
  two or three frame ids. A stale tile needs a delta, a delta that supersedes it
  and the presentation: three. `CountMax` and `DamageMax` stand for the integer
  maxima at which the counters saturate; the policies in `MCDisplayCore` have
  thresholds of two so that every reason for a complete refresh occurs.
  `core_live` uses one tick per timer, as fairness only needs a timer that is not yet
  due, and one tile, as temporal checks forbid symmetry; its safety properties are
  proved for every set of tiles (section 4).
  A bound on frame ids would also bound how often a waiting frame is superseded, and
  starvation needs a stream without end. `core_live` therefore lets ids go round:
  `Rebase` in `MCDisplayCore` moves the newest logical id down to 1 when the last id
  is used. The core compares a new id with `logical_frame_id` and ids with 0 and
  nothing else (`scheduler.rs` 485-498), so the state before and after behave alike;
  the properties of this run mention no id. A `commit_timed` that restarted the
  interval on every arrival (`DeadlineKept_Restarts`) starves the panel in this run.
* Flow: at most two frames are ever in flight (the client's own limit), so four
  frame ids give a rejected speculative pair, its recovery and a frame after it;
  two generations give a reopened surface. The byte limit admits a keyframe and a
  small delta but not a keyframe and a large one. With two credits and one frame
  at most waiting in the core, the receiver always has a credit left, so the second
  conjunct of `InflightBounded` bites with a limit of one only; the theorem
  `CreditsRespected` covers every limit.
* Touch: three slots and a chord of two; the code's five enters only as a count.
  Three contacts let a finger land during a chord, or a lifted one be replaced. Capacity
  one reaches overflow at once, and with the drained batch there are still up to
  three reports under way.
  A packet changes the contact of a slot once: that one report both starts and ends a
  contact in a slot is excluded, as an assumption about the kernel, which reports the
  state at each SYN.
* Pen: two contacts, a queue of one report and its fault, two surfaces or
  connections.
* Control: two requests per connection, one message and one answer under way
  (answers of one step may be more), counters that saturate at one. Two requests
  are what an interaction needs: one that promises or overrides, one that switches
  or reports. Hellos are all version ranges up to one past the newest minor with
  all sets of the features minors depend on.
* Capture: capacity two, three reports, three instants: a report of each device
  before, between and after the two reads, one more than the queue holds.
* Pairing: two processes, three keys (a first one and two rotations), two
  identities, and the three kinds of command line.
* Pixels: a 3x3 grid with tiles of one and two pixels against a damage tile of two,
  so that tiles are clipped at both edges and grids disagree; all changes of up to
  three or at least eight pixels; a nib of one pixel and an eraser of radius one; two
  frames, a frame and two ink records, or four ink records.
* `CHECK_DEADLOCK FALSE` appears only where the system really may stop: in
  `flow_frames` once the connection has ended and the call has returned, and in
  `capture_order` and `pixel_damage` when the bounded world has nothing more to
  offer.
* Tiles and slots are symmetric; the liveness runs use no symmetry.

### Fairness
* `Fairness` of `DisplayCore`: the server loop polls the core on every pass, passes are bounded
  (eight envelopes, a 10 ms `poll(2)`, `server.rs` 583-751), so time advances, a
  due frame is presented (or fails), and the second half of `present_plane`
  follows the first.
* `IdleFairness` adds that the idle cleanup is attempted when due: the same poll,
  while nobody touches the screen (`tick_interactive`). `StreamSpec` assumes both, and
  nothing of the producer, which may send without end or not at all.
* `FairCapture`: the reader thread never waits longer than its 5 ms poll, and the
  serving thread wakes up for a signalled queue and joins when the reader has ended.
  Nothing is assumed of devices, clock or the end of connections.
* `FairLife`: `run` is straight-line code between its waits. Nothing is assumed of
  producers, owners or kills.
* `FairFlow`: the same loop decodes and polls; a producer that is inside a call
  keeps reading and its own computation goes on. Nothing is assumed of an
  application that is not in a call, of the panel's success, of freezes or of the
  connection.

## 4. What is proved

`DisplayCoreProofs` proves for every finite non-empty set of tiles, every set of
shades, planes and valid configurations, and every value of the bounds
(`CoreAssumption`, `CountMaxAssumption`):

* `TypeCorrect`: `Spec => []TypeOK`;
* `BuffersNeverDrift`: `Spec => []BuffersAgree`;
* `PanelAlwaysConverges`: `Spec => []PanelConverges`;
* `CleanupNeverLost`: `Spec => CleanupHonoured`;
* `ImplementsFrameContract`: `Spec => KeepsFrameContract`, the refinement;
* `FailureIsCleaned`: `Spec => RecoveryCleans`, if `Planes = {}`;
* `SettlingIsComplete`: `Spec => SettledRepaintsFast`, if `Planes = {}`.

`PanelConverges` says nothing while a frame waits or the base is invalid, so it is
not inductive. The invariant is `CoreInv`:
`TypeOK /\ BuffersAgree /\ PanelTracks /\ HintCovers /\ PendingNewest`.
`PanelTracks`: unless the next presentation is bound to redraw everything, the
physical panel equals the presented composite. This is where a failed submission
is accounted for: it makes the base invalid, and the keyframe that revalidates it
carries `force_full_damage`. `HintCovers`: then the presented composite is out of
date only inside the damage hint of the waiting frame and the dirty ink, which is
what makes superseding sound. `PendingNewest`: a waiting frame is the newest
logical frame and its base is valid. Each lemma treats one operation
(`TickConverges`, `PlaneConverges`, `CommitConverges`, ...), and `CoreInvStep`
collects them, one case per action. `CleanupNeverLost` needs only the type
invariant and the fact that a forced decision is complete (`DecideComplete`).
The refinement maps `pending` to `waiting`, `terminal` to `report`,
`presented_frame_id` to `shown` and the end of a connection to `ended`.

The last two theorems need a panel that no local plane shares, the instance
`core_frames` checks: `present_plane` drops the doubt about the panel and the settle
region without repainting every tile, and with a plane in use both properties are
false (section 5). Their invariant `BareInv` adds to `CoreInv`, besides `AtRest`
(no plane is being presented), `DoubtRemembered`: a panel that failed is remembered
as uncertain, and either the base is invalid, so that only a keyframe can be
accepted, or the waiting frame already forces the cleanup; and `FastRecorded`: a
tile last driven fast is in the settle region unless the next presentation redraws
the whole panel. The second fact is why a failure may clear the settle region: it
invalidates the base in the same step. `TickRecovers` is the main lemma.

### Producer and session: `FrameFlowProofs`
For every limit on frames and bytes, every keyframe size and set of delta sizes and
any number of frames and surfaces (`LimitsAssumption`, `ClientAssumption`):
`FlowTypesHold`, `BaseStaysWhole`, `FramesInOnePlace`, `CreditsRespected` and
`LatestShown`, that is `FlowSpec =>` always `FlowTypeOK`, `BaseNeverMixed`,
`FramesAccounted`, `InflightBounded` and `PictureArrives`.

None of them is inductive: they speak of two ends that know different things, and a
step of one end is sound because of what is still on the wire. `FlowInv` says what
that is.
* `Places`: every frame in flight is on the wire, waiting, or in one result, and
  frames are read in the order of their ids, after the one that waits. Counting
  then gives `FramesAccounted`.
* `Results`: a good result follows the results of all older frames. This is what
  lets `apply_frame_result` keep its speculative tail; with `Newest` the tail is the
  newest frame in flight whenever no keyframe is owed.
* `Chain`: a delta on the wire was encoded against the picture of the frame it
  names as its base, wherever that frame is now: on the wire before it, or in the
  receiver's base. `Waits` says that a waiting frame is in that base. With them
  `BaseNeverMixed` is inductive.
* `Tip` and `Shown`: the newest frame carries the caller's picture, on the wire, in
  the base, and on the panel once it no longer waits and was not refused.
* `Lone` and `Surfaces`: a surface or overlay request is the last message of a
  producer that waits for its answer, so the two ends disagree about the surface
  only while that answer is under way.
* `CallStates` and `Granted`: what blocked calls rely on, and that a receiver that
  grants one frame is never sent two, although credits are absolute and read late.

One lemma per action (`QueueSendsKeeps`, `ReceiveResultKeeps`, `CommitKeeps`,
`TerminalKeeps`, `OpenKeeps`, ...). A poll, a freeze and an overlay
update all write a terminal for the frame that waited, which is one lemma
(`TerminalKeeps`). The byte credits have no such
theorem: the producer may exceed them (section 5).

### Control: `ControlFlowProofs`
For every set of policies, hellos, requests and profiles and every bound on what is
under way (`ControlAssumption`, `CountMaxAssumption`): `ControlTypeCorrect`,
`PolicyAlwaysAgrees`, `CleanupAlwaysCarried`, `DebtAlwaysCarried`,
`AlwaysOneAnswerEach`, `ReferenceAlwaysServed`, `HelloAlwaysAgreed` and the action
property `ReportsAlwaysTrue`. `ControlAssumption` also says that an optional
parameter of a request holds at most one value, which is how the messages are
declared.

The first part treats the operations of the session one at a time: whatever the
panel does, an outcome keeps the configuration, agrees with the ledger of the panel
(`Agrees`) and has a terminal for every frame that no longer waits (`Kept`). The
second adds the channels. In `FlowInv`, `Balance` counts requests and answers of
each kind on both channels; `Overridden` says that an interval an UPDATE chose is
the policy's and, under CUSTOM, differs from that profile's preset, without which
`PolicyAgrees` is not kept by the next switch; `Negotiated`, `Calls` and `Requests`
say that what the reference producer has on its way was allowed by the hello and
carries a fresh id, which gives `ReferenceServed`.

### Pairing: `PairingLifeProofs`
For any number of processes, keys and identities and any command lines
(`PairingAssumption`): `LifeTypeCorrect`, `ServesStored`, `PairingsSurvive`,
`RevokedServesNobody` and `QrAlwaysCurrent`. `LifeInv` follows a process through
`run`: what it has in memory at each step (`ShapeOf`), and that a key in memory is
the one on file or a replaced one, and the one on file unless another process
replaced it (`KeyOf`, `IdOf`). `OneWriter` is what `create_new` gives: a partial file
belongs to one writer, so nobody takes another's half-written key. `KeyOnFile` says
that a generated key is new and the stored one not revoked, `OffersStand` that a
QR, shown or scanned, names what is on file or what was revoked.

### Input: `InputCaptureProofs`
For any capacity, clock and number of reports (`CaptureAssumption`, the three are
positive): `CaptureTyped`, `OrderedByTime` and `LosesNothing`, that is `CaptureSpec =>`
always `CaptureTypeOK`, `TimeOrdered` and `NothingLost`.

The session gets the right order although no step of the reader looks at more than
one pass, so `CaptureInv` says how the passes fit together.
* `Stamps` and `Devoted`: the reports of a device are numbered and stamped in the
  order of the clock, and are taken from its end of the kernel in that order.
* `Marked`: a device that was read in this pass holds nothing older than the
  watermark. It is why the watermark is taken before the two reads.
* `Cut`: what goes out is no later than anything that stays, in the ordering buffer
  or unread. It follows from `Marked` and the division at the watermark.
* `Timely`: what was given is no later than what follows it, which carries
  `TimeOrdered` from one pass to the next, and to the time of a fault.
* `Gapless` and `Covered`: the reports of a device before one that was given are the
  ones given before it, and what was read is given, about to be given or held back.
  A push keeps them because the next report of a device is the first that is not yet
  given (`NextInLine`).
* `Fresh`: nothing of an earlier connection is read, so the reader never meets a
  report older than its connection; the test in the push loop is never true here.
* `Ends`: after a fault nothing is pushed.

`SortFacts` is the stable sort: it rearranges (an injection of a finite set into
itself is onto), ascends in time and keeps the order of each device. `DivideFacts`
is the division of the result at the watermark.

### Touch: `TouchInputProofs`
For any slots, capacity, packets and bounds and any chord of at least one finger
(`TouchAssumption`): `TouchTypes`, `ChordCleans` and `ProducerStream`, that is
`TouchSpec =>` always `TouchTypeOK`, always `ChordCleansOnce`, and `PointerStream`.
`QuietReleases`, always `QuietMeansReleased`, assumes that `Packets` lacks "replace":
with that packet the code loses a contact (section 5, `evdev.rs` 482), and TLC shows it.

A report is judged twice, by the parser that makes it from its slots and by the gesture
several steps later, and nothing that either keeps tells what the other knows.
`TouchInv` joins them by a *view*: the contacts that are down after each report on its
way, whether queued or drained.
* `ViewOK`: the view starts with the gesture's contacts, each report fits it (DOWN for a
  contact that is up, anything else for one that is down), and it ends with the contacts
  of the located slots (`Matches`), unless the device failed.
* `SlotsOK`: an id belongs to one slot. With `Known`, a new id was never used before.
* `FaultOK`: a fault is the last report there will be, and it empties the view.
* `GestureOK`: the producer has the contacts the gesture has, or none while a chord, a
  menu or a pause is in the way; and a chord that cleaned waits for the last finger.

`JoinsPush` and `JoinsPop` move a report into and out of the view; `TouchSteps` has one
case per action. `ProducerStream` needs the invariant before the step only.

### Pen: `PenInputProofs`
For any capacity, either setting of `freeze_on_pen_down` and any bounds
(`PenAssumption`): `PenTypes`, `StreamIsPen`, `PenIsLet`, `InkIsFollowed` and
`FrozenToTheEnd`, that is `PenSpec =>` always `PenTypeOK`, `PenStream`, `PenLeaves`,
`InkFollowsDown` and `FreezeHolds`.

The same division, with three filters instead of one gesture: what the producer sees,
what is drawn, and what counts as proximity. `PenInv` says that there is a pen, as the
session has heard of it, such that
* `TraceOK`: a trace of pens, one after each report on its way, leads from it to the pen
  the device saw last, and every record follows the one before (`Follows`);
* `SessionOK`: the filters are right about it. `PenGood` says when the producer's pen is
  away, hovering or down, `InkGood` that what is drawn and frozen belongs to the contact
  the ink follows;
* `StaleOK`: reports from before the surface or before the ink was re-armed come first,
  and until they are through no contact is followed. This is why a stroke that a control
  cut does not go on, although its MOVEs are still queued;
* `FaultOK` and `Scope`: a fault is the last report, and nothing is followed without a
  surface.

A report is handled record by record (`TogetherGood`), and everything that makes the
session stop following, from a menu to a lost connection, is one lemma about a pen
nobody follows (`AwayInv`).

### Pixels: `PixelDamageProofs`
For a surface, tile sizes, region limits, pictures and pen radii of any size
(`DamageAssumption`: sizes and limits are positive, the pen is on the surface):
`DeltasReproduce`, `PixelsAreShown` and `SettleIsExact`, that is `DamageSpec =>` always
`DeltaReproduces`, `PixelsShown` and `SettleRegionExact`.

`PixelsShown` is silent while a frame waits or ink is dirty. `DamageInv` says how far the
panel may be behind then: only inside the hint of the waiting frame and the dirty
rectangle (`BehindInside`), while panel and composites are one picture all the time
(`OnePicture`); the settle region is made of damage tiles (`SettleOK`).
* `Encoding` is about the client alone. A changed tile is in a maximal run (`Widest`)
  and that in a block (`Tallest`), by the least number in a set; blocks that overlap
  have a tile in common and are one (`BlocksApart`, which is `RunsApart` in a row and
  then in the other direction); clipped at the edges they stay on the surface
  (`BlockLegal`), and so does the rectangle around them (`BoundingHolds`).
* `DamageFound` and `Merges` are about the receiver's own grid: a pixel outside the
  damage tiles did not change, and no pixel leaves the settle region. Both rest on
  `Touched`: a rectangle touches the tile of each of its pixels.
* `SegmentInside`: the pixels of a stroke, rounded towards zero and widened by the nib,
  are in the rectangle that is declared dirty, also when it is clipped.
* `SubmittedFine`: a composite that is submitted where it is new is everywhere.

### Only model-checked
* Liveness under fairness, which is out of reach of the proof system, as is ENABLED:
  `PendingResolves`, `EarnedCleanupRuns`, `CallsReturn`, `FaultDelivered`, `JoinReturns`,
  `NewPairCompletes`.

## 5. Where code and documents disagree

| run | what TLC shows |
|---|---|
| `find_unack` | `present_plane` composes from `base`, which keeps the pixels of a frame whose presentation failed, so opening the menu shows pixels no result acknowledged |
| `find_ink` | `clear_ink` resets the dirty rectangle it needs to redraw the cleared strokes; they stay on the panel |

Observations of the same models without a run of their own:

* With the menu in use `SettledRepaintsFast` fails: a plane update that is not
  Fastest clears the whole settle region although it repainted its own tiles only
  (`scheduler.rs` 452), so the next SETTLED leaves motion-waveform tiles, against
  `docs/refresh-strategy.md` 60. It is checked and proved on the bare base.
* A slot that goes from one tracking id to another without a release, which the
  kernel's protocol B calls a replacement, leaves the first contact pressed for ever
  (`evdev.rs` 482): with the packet "replace" in `Packets`, `QuietMeansReleased`
  fails. `docs/protocol-v2.md` 291-293 promises an UP or CANCEL. `DriverPackets`
  leaves that packet out.
* A first start that is killed between creating `server-id` or `pairing.psk` and
  writing it leaves an empty file, and every later start refuses to run until it is
  removed (`main.rs` 378, `lib.rs` 159). `store_atomic` would avoid it.
* What the idle menu chooses becomes the baseline of all later connections
  (`server.rs` 347), whereas `docs/epaper-refresh-control.md` 56-57 and
  `docs/protocol-v2.md` 417-419 speak of the command line's.
* A profile chosen in the menu while no surface is open arms no cleanup, the same
  choice of a producer does (`session.rs` 893-916 and 1428).
* A hello that offers custom profiles without profile control is given minor 2 or 3
  and no custom profile, which the reference producer's own check would refuse
  (`session.rs` 1093, `client.rs` 1284). `HelloAgreed` excepts it.
* `overlay_update` presents without the bookkeeping of `poll`, so
  `cleanup_pending_without_surface` may stay set after the cleanup was done; a
  surface opened before the next poll cleans once more.
* The panel's uncertainty after a failure is not carried to a new surface
  (`session.rs` 1195). Its pixels are repainted by the first keyframe
  (`PanelConverges`); the cleanup of ghosts is not owed any more unless it was
  requested (`CleanupCarried`).
* With the menu in use `RecoveryCleans` fails: a partial plane update after a panel
  failure resets `panel_state_uncertain` (`scheduler.rs` 445) and the recovery
  keyframe is presented without its cleanup. The property is checked and proved on
  the bare base.
* The producer takes an absolute `byte_credits` that is older than its newest frame
  (`client.rs` 918) and can then claim more bytes than `max_inflight_bytes`; the
  receiver refuses the frame and the producer recovers. The default limits hide it.
* A new tracking id forgets the slot's coordinates (`evdev.rs` 482), which the
  kernel does not repeat when they are unchanged, so DOWN is delayed until both
  axes have moved.
* A stroke whose DOWN precedes the first presentation freezes nothing, and its
  MOVEs after the presentation are drawn on a live base; `FreezeHolds` therefore
  speaks of contacts that began on a presented frame, as
  `docs/overlay-and-pen.md` does.

## 6. Not modelled

Blending of shades, pixel formats, Quill and compression; the rasterising of a peer
overlay; menu and QR layout; the framing, checksums and encoding of one envelope;
the TLS handshake; device discovery, ioctls and coordinate scaling; options of the
two command lines that only set a value; image and stream sources, statistics,
metrics. They keep no protocol state, or are I/O or arithmetic on one value.
`SessionControl` repeats the part of the core it needs instead of instantiating
`DisplayCore`: the product of the two is out of TLC's reach, and the theorems about
`DisplayCore` hold for every sequence of calls. Loss of power is not modelled, nor
are more than one producer at a time, which the receiver does not serve.

## 7. Plan

Done: all modules of section 2 and the theorems of section 4. Every safety property of a
run is proved for every instance, `SettledRepaintsFast`, `RecoveryCleans` and
`QuietMeansReleased` under the hypothesis their theorem states.
