------------------------------- MODULE PixelDamage -----------------------------
(***************************************************************************)
(* The rectangles between a producer's picture and the panel: the regions  *)
(* of a delta (encode_delta_regions in rm-display-cli/src/client.rs), what *)
(* the receiver accepts of them (rm-display-protocol/src/semantic.rs), the *)
(* base they are applied to, the damage the scheduler finds on its own,    *)
(* different tile grid, the dirty rectangle of local ink                   *)
(* (rm-display-core/src/surface.rs) and the settle region                  *)
(* (rm-display-core/src/scheduler.rs).                                     *)
(*                                                                         *)
(* DisplayCore takes whole tiles for granted; here every pixel counts.     *)
(* Black and white pixels are enough, because only their being equal       *)
(* matters.  The panel never fails here and all updates use Fastest.       *)
(***************************************************************************)
EXTENDS Integers, FiniteSets, FiniteSetsExt

CONSTANTS
  Width, Height,   \* of the surface
  DamageTile,      \* damage_tile of the receiver
  Tiles,           \* tile sizes a producer may ask for
  RegionLimits,    \* max_regions a receiver may offer
  Changes,         \* sets of pixels in which two pictures may differ
  PenPoints,       \* pixels at which the pen reports itself
  PenRadius, EraserRadius,
  MaxWork          \* bound: two for each frame, one for each ink record

ASSUME DamageAssumption ==
  /\ {Width, Height, DamageTile} \cup RegionLimits \subseteq Nat \ {0}
  /\ {PenRadius, EraserRadius, MaxWork} \cup Tiles \subseteq Nat
  /\ PenPoints \subseteq (0..Width - 1) \X (0..Height - 1)

Grid == (0..Width - 1) \X (0..Height - 1)
Black == 0
White == 1

VARIABLES
  tile, max_regions,   \* of this connection
  picture,             \* the producer's latest
  rejected,            \* whether the receiver refused a delta
  base, pending, hint, \* the base, whether a frame waits, its damage_hint
  working, presented,  \* the composites
  ink, dirty,          \* pixels with ink, the dirty rectangle
  pen_point,           \* last point of the stroke
  settle_damage,
  panel,               \* what the physical panel shows
  fast,                \* pixels the panel shows with the fast waveform
  work                 \* bounded

vars == <<tile, max_regions, picture, rejected, base, pending, hint, working,
          presented, ink, dirty, pen_point, settle_damage, panel, fast, work>>

producerVars == <<tile, max_regions, picture, rejected>>
inkVars      == <<ink, pen_point>>

None == <<>>

Rect(x, y, w, h) == [x |-> x, y |-> y, width |-> w, height |-> h]

Within(rect) ==
  (rect.x..rect.x + rect.width - 1) \X (rect.y..rect.y + rect.height - 1)

Covered(rects) == UNION {Within(rect) : rect \in rects}

Smaller(a, b) == IF a < b THEN a ELSE b
Larger(a, b) == IF a < b THEN b ELSE a

\* to[p] on the given rectangles, from[p] elsewhere: copy_from_slice by rows.
Copied(from, to, rects) ==
  LET pixels == Covered(rects)
  IN [p \in Grid |-> IF p \in pixels THEN to[p] ELSE from[p]]

--------------------------------------------------------------------------------
(* Tile grids.                                                              *)

TileRect(n, i, j) ==
  Rect(i * n, j * n, Smaller(n, Width - i * n), Smaller(n, Height - j * n))

Columns(n) == 0..(Width - 1) \div n
Rows(n) == 0..(Height - 1) \div n

Changed(a, b, rect) == \E p \in Within(rect) : a[p] # b[p]

\* Mutant: only the tile of a rectangle's first pixel.
TilesOf_First(n, rect) == {<<rect.x \div n, rect.y \div n>>}

\* The tiles a rectangle touches.
TilesOf(n, rect) ==
  (rect.x \div n..(rect.x + rect.width - 1) \div n)
    \X (rect.y \div n..(rect.y + rect.height - 1) \div n)

\* The touched tiles with a changed pixel.
tile_damage_regions(previous, current, n, rects) ==
  {r \in {TileRect(n, t[1], t[2]) : t \in UNION {TilesOf(n, q) : q \in rects}} :
     Changed(previous, current, r)}

\* Mutant: the rectangles are put next to each other.
merge_tiled_damage_Appended(n, existing, damage) == existing \cup damage

merge_tiled_damage(n, existing, damage) ==
  {TileRect(n, t[1], t[2]) :
     t \in UNION {TilesOf(n, q) : q \in existing \cup damage}}

--------------------------------------------------------------------------------
(* The producer: encode_delta_regions.                                      *)

\* Tiles a to b of tile row j are a run: they changed, their neighbours did not.
Run(hit, j, a, b) ==
  /\ a..b # {} /\ (a..b) \X {j} \subseteq hit
  /\ <<a - 1, j>> \notin hit /\ <<b + 1, j>> \notin hit

\* Mutant: a run of another width is stacked too.
Stacked_AnyWidth(hit, first, last) ==
  /\ first[2] <= last[2] /\ Run(hit, first[2], first[1], last[1])
  /\ LET Continues(j) == \E b \in first[1]..Width : Run(hit, j, first[1], b)
     IN /\ \A j \in first[2]..last[2] : Continues(j)
        /\ ~Continues(first[2] - 1) /\ ~Continues(last[2] + 1)

\* The loop lets a run continue the rectangle of the same run in the row above, or
\* begin one.  So a block from tile first to tile last ends up as a rectangle when
\* it is the same run in all its rows and in neither the row above nor below.
Stacked(hit, first, last) ==
  /\ first[2] <= last[2]
  /\ \A j \in first[2]..last[2] : Run(hit, j, first[1], last[1])
  /\ ~Run(hit, first[2] - 1, first[1], last[1])
  /\ ~Run(hit, last[2] + 1, first[1], last[1])

Block(n, first, last) ==
  Rect(first[1] * n, first[2] * n,
       Smaller((last[1] + 1) * n, Width) - first[1] * n,
       Smaller((last[2] + 1) * n, Height) - first[2] * n)

Blocks(n, hit) ==
  {Block(n, q[1], q[2]) : q \in {t \in hit \X hit : Stacked(hit, t[1], t[2])}}

Bounding(rects) ==
  LET left   == Min({r.x : r \in rects})
      top    == Min({r.y : r \in rects})
      right  == Max({r.x + r.width : r \in rects})
      bottom == Max({r.y + r.height : r \in rects})
  IN Rect(left, top, right - left, bottom - top)

TooMany(rects, limit) == Cardinality(rects) > Larger(limit, 1)

\* The rectangles of a delta; an unchanged picture is sent as one pixel.
encode_delta_regions(previous, current, size, limit) ==
  LET n == Larger(size, 1)
      rects == Blocks(n, {t \in Columns(n) \X Rows(n) :
                            Changed(previous, current, TileRect(n, t[1], t[2]))})
  IN IF rects = {} THEN {Rect(0, 0, 1, 1)}
     ELSE IF TooMany(rects, limit) THEN {Bounding(rects)} ELSE rects

--------------------------------------------------------------------------------
(* The receiver: validate_and_decode_frame and validate_regions.            *)

validate_rect(rect) ==
  /\ rect.width > 0 /\ rect.x + rect.width <= Width
  /\ rect.height > 0 /\ rect.y + rect.height <= Height

overlaps(a, b) ==
  /\ a.x < b.x + b.width /\ b.x < a.x + a.width
  /\ a.y < b.y + b.height /\ b.y < a.y + a.height

Accepted(rects) ==
  /\ Cardinality(rects) \in 1..max_regions
  /\ \A a \in rects : validate_rect(a)
  /\ \A a, b \in rects : a # b => ~overlaps(a, b)

\* A delta arrives: apply_regions_atomic and the hint of the frame it
\* supersedes (commit_timed).
SendDelta(change) ==
  LET next  == [p \in Grid |-> IF p \in change THEN 1 - picture[p] ELSE picture[p]]
      rects == encode_delta_regions(picture, next, tile, max_regions)
  IN /\ dirty = None /\ work + 2 <= MaxWork
     /\ work' = work + 2
     /\ picture' = next
     /\ rejected' = (rejected \/ ~Accepted(rects))
     /\ base' = IF Accepted(rects) THEN Copied(base, next, rects) ELSE base
     /\ hint' = IF Accepted(rects) THEN rects \cup hint ELSE hint
     /\ pending' = (pending \/ Accepted(rects))
     /\ UNCHANGED <<tile, max_regions, working, presented, inkVars, dirty,
                    settle_damage, panel, fast>>

--------------------------------------------------------------------------------
(* The scheduler.                                                           *)

Composed(b, i) == [p \in Grid |-> IF p \in i THEN Black ELSE b[p]]

\* What a step leaves behind when the panel was given damage of composite; an
\* empty damage is not submitted.
Submitted(state, composite, damage) ==
  [working   |-> Copied(state.presented, composite, damage),
   presented |-> composite,
   panel     |-> Copied(state.panel, composite, damage),
   settle    |-> IF damage = {} THEN state.settle
                 ELSE merge_tiled_damage(DamageTile, state.settle, damage),
   fast      |-> state.fast \cup Covered(damage)]

Now == [working |-> working, presented |-> presented, panel |-> panel,
        settle |-> settle_damage, fast |-> fast]

\* tick_inner of a LATEST frame: mem::swap, then the copy back.
Ticked(state) ==
  IF ~pending THEN state
  ELSE LET composite == Copied(state.working, Composed(base, ink), hint)
           damage == tile_damage_regions(state.presented, composite, DamageTile,
                                         hint)
       IN IF damage = {} THEN [state EXCEPT !.working = composite]
          ELSE Submitted(state, composite, damage)

\* present_plane for ink: the dirty rectangle as it is, without the tile grid.
InkPresented(state) ==
  LET composite == Copied(state.working, Composed(base, ink), {dirty})
      damage == {r \in {dirty} : Changed(composite, state.presented, r)}
  IN IF damage = {} THEN [state EXCEPT !.working = composite]
     ELSE [Submitted(state, composite, damage) EXCEPT
             !.working = composite,
             !.presented = Copied(state.presented, composite, damage)]

Install(state) ==
  /\ working' = state.working /\ presented' = state.presented
  /\ panel' = state.panel /\ settle_damage' = state.settle /\ fast' = state.fast

Tick ==
  /\ pending /\ dirty = None
  /\ Install(Ticked(Now))
  /\ pending' = FALSE /\ hint' = {}
  /\ UNCHANGED <<producerVars, base, inkVars, dirty, work>>

--------------------------------------------------------------------------------
(* Local ink: the records of one report, then present_ink.                  *)

Truncated(a, b) == IF a < 0 THEN -((-a) \div b) ELSE a \div b

Abs(a) == IF a < 0 THEN -a ELSE a

Disc(c, radius) ==
  {p \in Grid : (p[1] - c[1]) * (p[1] - c[1]) + (p[2] - c[2]) * (p[2] - c[2])
                  <= radius * radius}

\* The pixels of a segment.
Segment(from, to, radius) ==
  LET dx == to[1] - from[1]
      dy == to[2] - from[2]
      steps == Larger(Larger(Abs(dx), Abs(dy)), 1)
  IN UNION {Disc(<<from[1] + Truncated(dx * k, steps),
                   from[2] + Truncated(dy * k, steps)>>, radius) : k \in 0..steps}

\* One past the last pixel a nib at a can touch.
Edge(a, radius, limit) == Smaller(a + radius + 1, limit)

Bounds(from, to, radius) ==
  LET left == Larger(Smaller(from[1], to[1]) - radius, 0)
      top  == Larger(Smaller(from[2], to[2]) - radius, 0)
  IN Rect(left, top, Edge(Larger(from[1], to[1]), radius, Width) - left,
          Edge(Larger(from[2], to[2]), radius, Height) - top)

MoreDirty(rect) == IF dirty = None THEN rect ELSE Bounding({rect, dirty})

\* A DOWN or MOVE of the pen or the eraser: ink_line from the last point.
InkRecord(point, erase) ==
  LET from == IF pen_point = None THEN point ELSE pen_point
      radius == IF erase THEN EraserRadius ELSE PenRadius
      pixels == Segment(from, point, radius)
  IN /\ work < MaxWork /\ work' = work + 1
     /\ ink' = IF erase THEN ink \ pixels ELSE ink \cup pixels
     /\ dirty' = MoreDirty(Bounds(from, point, radius))
     /\ pen_point' = point
     /\ UNCHANGED <<producerVars, base, pending, hint, working, presented,
                    settle_damage, panel, fast>>

\* The end of the report: a waiting frame is presented first.
PresentInk ==
  /\ dirty # None /\ dirty' = None
  /\ Install(InkPresented(Ticked(Now)))
  /\ pending' = FALSE /\ hint' = {}
  /\ UNCHANGED <<producerVars, base, inkVars, work>>

\* UP or CANCEL.
LiftPen ==
  /\ pen_point # None /\ pen_point' = None
  /\ UNCHANGED <<producerVars, base, pending, hint, working, presented, ink,
                 dirty, settle_damage, panel, fast, work>>

--------------------------------------------------------------------------------
Blank == [p \in Grid |-> White]

\* After the first keyframe of a surface was presented.
DamageInit ==
  /\ tile \in Tiles /\ max_regions \in RegionLimits
  /\ picture = Blank /\ rejected = FALSE
  /\ base = Blank /\ pending = FALSE /\ hint = {}
  /\ working = Blank /\ presented = Blank
  /\ ink = {} /\ dirty = None /\ pen_point = None
  /\ settle_damage = {} /\ panel = Blank /\ fast = {} /\ work = 0

DamageNext ==
  \/ \E change \in Changes : SendDelta(change)
  \/ Tick
  \/ \E point \in PenPoints, erase \in BOOLEAN : InkRecord(point, erase)
  \/ PresentInk
  \/ LiftPen

DamageSpec == DamageInit /\ [][DamageNext]_vars

--------------------------------------------------------------------------------
(* Properties.                                                              *)

(* The receiver accepts every delta the client encodes, and it carries      *)
(* every changed pixel: the regions lie on the surface, do not overlap, are *)
(* no more than were offered, and the receiver's base is the producer's     *)
(* picture although unchanged tiles are never sent (encode_delta_regions    *)
(* against validate_and_decode_frame).                                      *)
DeltaReproduces == ~rejected /\ base = picture

(* With no frame waiting and no report half handled, each pixel of the      *)
(* panel shows the picture under the ink, and the two composites agree,     *)
(* although the damage grid, the producer's grid and the dirty rectangle    *)
(* have nothing in common (tile_damage_regions, damage_hint, take_dirty).   *)
PixelsShown ==
  ~pending /\ dirty = None =>
    /\ panel = Composed(base, ink)
    /\ working = panel /\ presented = panel

(* The settle region holds every pixel that still shows a fast waveform, in *)
(* disjoint tiles, so that the damage it is charged for is never counted    *)
(* twice (merge_tiled_damage, damage_pixels).                               *)
SettleRegionExact ==
  /\ fast \subseteq Covered(settle_damage)
  /\ \A a, b \in settle_damage : a # b => ~overlaps(a, b)
================================================================================
