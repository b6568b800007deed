--------------------------- MODULE PixelDamageProofs ---------------------------
(***************************************************************************)
(* Proofs about PixelDamage, for a surface, tile sizes, region limits and  *)
(* pen radii of any size.                                                  *)
(*                                                                         *)
(* Between a frame and its presentation the panel is behind the picture.   *)
(* The invariant says where: only inside the hint of the waiting frame and *)
(* the dirty rectangle of the ink.                                         *)
(***************************************************************************)
EXTENDS PixelDamage, FiniteSetTheorems, NaturalsInduction, TLAPS

--------------------------------------------------------------------------------
(* The inductive invariant.                                                 *)

Pictures == [Grid -> {Black, White}]

\* A rectangle of at least one pixel that lies on the surface.
Legal(r) ==
  /\ r \in [x : Nat, y : Nat, width : Nat, height : Nat]
  /\ validate_rect(r)

\* The damage tiles of the receiver.
DamageTiles ==
  {TileRect(DamageTile, t[1], t[2]) :
     t \in Columns(DamageTile) \X Rows(DamageTile)}

DirtyRects == IF dirty = None THEN {} ELSE {dirty}

Types ==
  /\ tile \in Nat /\ max_regions \in Nat \ {0}
  /\ picture \in Pictures /\ base \in Pictures
  /\ working \in Pictures /\ presented \in Pictures /\ panel \in Pictures
  /\ pending \in BOOLEAN /\ rejected \in BOOLEAN
  /\ ink \subseteq Grid /\ fast \subseteq Grid
  /\ pen_point # None => pen_point \in Grid
  /\ \A r \in hint \cup DirtyRects : Legal(r)

\* The panel and both composites are the same picture, also while one waits.
OnePicture == working = presented /\ panel = presented

\* It is the new one outside the hint and the dirty rectangle.
BehindInside ==
  /\ \A p \in Grid : p \notin Covered(hint \cup DirtyRects) =>
                       presented[p] = Composed(base, ink)[p]
  /\ ~pending => hint = {}

SettleOK ==
  /\ settle_damage \subseteq DamageTiles
  /\ fast \subseteq Covered(settle_damage)

DamageInv ==
  Types /\ DeltaReproduces /\ OnePicture /\ BehindInside /\ SettleOK

--------------------------------------------------------------------------------
(* Arithmetic.                                                              *)

(* Every surface and damage tile has at least one pixel.                    *)
LEMMA Sizes ==
  /\ Width \in Nat \ {0} /\ Height \in Nat \ {0} /\ DamageTile \in Nat \ {0}
  /\ RegionLimits \subseteq Nat \ {0} /\ Tiles \subseteq Nat
  /\ PenRadius \in Nat /\ EraserRadius \in Nat /\ PenPoints \subseteq Grid
  BY DamageAssumption DEF Grid

(* What integer division returns.                                           *)
LEMMA Division ==
  ASSUME NEW x \in Nat, NEW n \in Nat \ {0}
  PROVE  /\ x \div n \in Nat
         /\ (x \div n) * n <= x /\ x < (x \div n) * n + n
  BY SMTT(30)

(* Tiles begin in the order of their numbers, and do not touch.             *)
LEMMA Times ==
  ASSUME NEW a \in Int, NEW b \in Int, NEW n \in Nat \ {0}
  PROVE  /\ a * n \in Int /\ (a + 1) * n = a * n + n
         /\ a <= b => a * n <= b * n
         /\ a * n < b * n => a < b
  BY SMTT(30)

(* The tile of a later pixel is not an earlier one.                         *)
LEMMA DivisionGrows ==
  ASSUME NEW x \in Nat, NEW y \in Nat, x <= y, NEW n \in Nat \ {0}
  PROVE  x \div n <= y \div n
<1>1. PICK a \in Nat : a = x \div n
  BY Division
<1>2. PICK b \in Nat : b = y \div n
  BY Division
<1>3. a * n <= x /\ y < b * n + n
  BY <1>1, <1>2, Division
<1>4. a * n \in Int /\ b * n \in Int /\ (b + 1) * n = b * n + n
  BY Times
<1>5. a * n < (b + 1) * n
  BY <1>3, <1>4
<1>6. b + 1 \in Int
  OBVIOUS
<1>7. a < b + 1
  BY <1>5, <1>6, Times
<1> QED BY <1>1, <1>2, <1>7

(* The only multiple within reach is the quotient.                          *)
LEMMA DivisionIs ==
  ASSUME NEW x \in Nat, NEW n \in Nat \ {0}, NEW q \in Nat,
         q * n <= x, x < q * n + n
  PROVE  x \div n = q
<1>1. PICK a \in Nat : a = x \div n
  BY Division
<1>2. a * n <= x /\ x < a * n + n
  BY <1>1, Division
<1>3. a * n < (q + 1) * n /\ q * n < (a + 1) * n
  BY <1>2, Times
<1>4. q + 1 \in Int /\ a + 1 \in Int
  OBVIOUS
<1>5. a < q + 1 /\ q < a + 1
  BY <1>3, <1>4, Times
<1> QED BY <1>1, <1>5

--------------------------------------------------------------------------------
(* Rectangles and tiles.                                                    *)

\* Pixel x lies in the tile that begins at column i of n.
Inside(r, p) ==
  /\ r.x <= p[1] /\ p[1] < r.x + r.width
  /\ r.y <= p[2] /\ p[2] < r.y + r.height

(* The pixels of a rectangle on the surface.                                *)
LEMMA Pixels ==
  ASSUME NEW r, Legal(r)
  PROVE  /\ Within(r) \subseteq Grid
         /\ \A p \in Grid : p \in Within(r) <=> Inside(r, p)
BY Sizes DEF Legal, validate_rect, Within, Grid, Inside

(* A tile lies on the surface, and holds the pixels with its number.        *)
LEMMA TileBounds ==
  ASSUME NEW n \in Nat \ {0}, NEW i \in Columns(n), NEW j \in Rows(n)
  PROVE  /\ i \in Nat /\ j \in Nat /\ i * n \in Nat /\ j * n \in Nat
         /\ i * n < Width /\ j * n < Height
<1>1. PICK w \in Nat : w = (Width - 1) \div n
  BY Sizes, Division
<1>2. PICK h \in Nat : h = (Height - 1) \div n
  BY Sizes, Division
<1>3. i \in 0..w /\ j \in 0..h
  BY <1>1, <1>2 DEF Columns, Rows
<1>4. w * n <= Width - 1 /\ h * n <= Height - 1
  BY <1>1, <1>2, Sizes, Division
<1>5. i * n \in Int /\ j * n \in Int /\ w * n \in Int /\ h * n \in Int
  BY <1>3, Times
<1>6. i * n <= w * n /\ j * n <= h * n
  BY <1>3, Times
<1>7. 0 * n <= i * n /\ 0 * n <= j * n /\ 0 * n = 0
  BY <1>3, Times
<1> QED BY <1>3, <1>4, <1>5, <1>6, <1>7, Sizes

LEMMA TileLegal ==
  ASSUME NEW n \in Nat \ {0}, NEW i \in Columns(n), NEW j \in Rows(n)
  PROVE  Legal(TileRect(n, i, j))
<1>1. PICK a \in Nat : a = i * n
  BY TileBounds
<1>2. PICK b \in Nat : b = j * n
  BY TileBounds
<1>3. a < Width /\ b < Height
  BY <1>1, <1>2, TileBounds
<1> QED BY <1>1, <1>2, <1>3, Sizes DEF Legal, validate_rect, TileRect, Rect, Smaller

(* The tile of a pixel.                                                     *)
TileOf(n, p) == <<p[1] \div n, p[2] \div n>>

LEMMA TileHolds ==
  ASSUME NEW n \in Nat \ {0}, NEW p \in Grid
  PROVE  /\ TileOf(n, p)[1] \in Columns(n) /\ TileOf(n, p)[2] \in Rows(n)
         /\ p \in Within(TileRect(n, TileOf(n, p)[1], TileOf(n, p)[2]))
<1>1. PICK x \in Nat : x = p[1]
  BY DEF Grid
<1>2. PICK y \in Nat : y = p[2]
  BY DEF Grid
<1>3. x <= Width - 1 /\ y <= Height - 1
  BY <1>1, <1>2, Sizes DEF Grid
<1>4. PICK i \in Nat : i = x \div n
  BY Division
<1>5. PICK j \in Nat : j = y \div n
  BY Division
<1>6. i \in Columns(n) /\ j \in Rows(n)
  <2>1. i <= (Width - 1) \div n /\ (Width - 1) \div n \in Nat
    BY <1>3, <1>4, Sizes, DivisionGrows, Division
  <2>2. j <= (Height - 1) \div n /\ (Height - 1) \div n \in Nat
    BY <1>3, <1>5, Sizes, DivisionGrows, Division
  <2> QED BY <2>1, <2>2 DEF Columns, Rows
<1>7. PICK a \in Nat : a = i * n
  BY <1>6, TileBounds
<1>8. PICK b \in Nat : b = j * n
  BY <1>6, TileBounds
<1>9. a <= x /\ x < a + n /\ b <= y /\ y < b + n
  BY <1>4, <1>5, <1>7, <1>8, Division
<1>10. Inside(TileRect(n, i, j), p)
  BY <1>1, <1>2, <1>3, <1>7, <1>8, <1>9, Sizes DEF Inside, TileRect, Rect, Smaller
<1>11. p \in Within(TileRect(n, i, j))
  BY <1>6, <1>10, TileLegal, Pixels
<1> QED BY <1>1, <1>2, <1>4, <1>5, <1>6, <1>11 DEF TileOf

(* A rectangle touches the tiles of its pixels, which are on the surface.   *)
LEMMA Touched ==
  ASSUME NEW n \in Nat \ {0}, NEW r, Legal(r)
  PROVE  /\ TilesOf(n, r) \subseteq Columns(n) \X Rows(n)
         /\ \A p \in Within(r) : TileOf(n, p) \in TilesOf(n, r)
<1>1. PICK x \in Nat : x = r.x
  BY DEF Legal
<1>2. PICK y \in Nat : y = r.y
  BY DEF Legal
<1>3. PICK u \in Nat : u = r.x + r.width - 1
  BY Sizes DEF Legal, validate_rect
<1>4. PICK v \in Nat : v = r.y + r.height - 1
  BY Sizes DEF Legal, validate_rect
<1>5. u <= Width - 1 /\ v <= Height - 1
  BY <1>3, <1>4, Sizes DEF Legal, validate_rect
<1>6. /\ x \div n \in Nat /\ y \div n \in Nat
      /\ u \div n \in Nat /\ v \div n \in Nat
      /\ (Width - 1) \div n \in Nat /\ (Height - 1) \div n \in Nat
      /\ u \div n <= (Width - 1) \div n /\ v \div n <= (Height - 1) \div n
  BY <1>5, Sizes, Division, DivisionGrows
<1>7. TilesOf(n, r) = (x \div n..u \div n) \X (y \div n..v \div n)
  BY <1>1, <1>2, <1>3, <1>4 DEF TilesOf
<1>8. TilesOf(n, r) \subseteq Columns(n) \X Rows(n)
  BY <1>6, <1>7 DEF Columns, Rows
<1>9. ASSUME NEW p \in Within(r)
      PROVE  TileOf(n, p) \in TilesOf(n, r)
  <2>1. PICK a \in Nat : a = p[1]
    BY <1>1, <1>3 DEF Within, Legal
  <2>2. PICK b \in Nat : b = p[2]
    BY <1>2, <1>4 DEF Within, Legal
  <2>3. x <= a /\ a <= u /\ y <= b /\ b <= v
    BY <1>1, <1>2, <1>3, <1>4, <2>1, <2>2 DEF Within
  <2>4. /\ a \div n \in Nat /\ b \div n \in Nat
        /\ x \div n <= a \div n /\ a \div n <= u \div n
        /\ y \div n <= b \div n /\ b \div n <= v \div n
    BY <2>3, Division, DivisionGrows
  <2> QED BY <1>6, <1>7, <2>1, <2>2, <2>4 DEF TileOf
<1> QED BY <1>8, <1>9

(* Two tiles of a grid do not overlap.                                      *)
LEMMA TilesApart ==
  ASSUME NEW n \in Nat \ {0}, NEW i \in Columns(n), NEW j \in Rows(n),
         NEW k \in Columns(n), NEW l \in Rows(n),
         overlaps(TileRect(n, i, j), TileRect(n, k, l))
  PROVE  i = k /\ j = l
<1>1. /\ i \in Nat /\ j \in Nat /\ i * n \in Nat /\ j * n \in Nat
      /\ k \in Nat /\ l \in Nat /\ k * n \in Nat /\ l * n \in Nat
  BY TileBounds
<1>2. /\ i * n < k * n + n /\ k * n < i * n + n
      /\ j * n < l * n + n /\ l * n < j * n + n
  BY <1>1, Sizes DEF overlaps, TileRect, Rect, Smaller
<1>3. /\ i * n < (k + 1) * n /\ k * n < (i + 1) * n
      /\ j * n < (l + 1) * n /\ l * n < (j + 1) * n
  BY <1>1, <1>2, Times
<1>4. i + 1 \in Int /\ j + 1 \in Int /\ k + 1 \in Int /\ l + 1 \in Int
  BY <1>1
<1>5. i < k + 1 /\ k < i + 1 /\ j < l + 1 /\ l < j + 1
  BY <1>1, <1>3, <1>4, Times
<1> QED BY <1>1, <1>5

--------------------------------------------------------------------------------
(* The encoder.                                                             *)

(* A set of numbers has a least one.                                        *)
LEMMA Least ==
  ASSUME NEW S, S \subseteq Nat, S # {}
  PROVE  \E k \in S : \A m \in S : k <= m
<1>1. PICK less : less = {s \in Nat \X Nat : s[1] < s[2]}
  OBVIOUS
<1>2. OpToRel(<, Nat) = {s \in Nat \X Nat : s[1] < s[2]}
  BY Zenon DEF OpToRel
<1>3. IsWellFoundedOn(less, Nat)
  BY <1>1, <1>2, NatLessThanWellFounded, Zenon
<1>4. PICK k \in S : \A m \in S : ~(<<m, k>> \in less)
  BY <1>3, WFMin, Zenon
<1>5. ASSUME NEW m \in S PROVE k <= m
  <2>1. m \in Nat /\ k \in Nat /\ ~(<<m, k>> \in less)
    BY <1>4
  <2> QED BY <1>1, <2>1
<1> QED BY <1>5

(* What Min and Max of bounded numbers are.                                 *)
LEMMA Extremes ==
  ASSUME NEW S, S \subseteq Nat, S # {}, NEW limit \in Nat, \A x \in S : x <= limit
  PROVE  /\ Min(S) \in S /\ \A x \in S : Min(S) <= x
         /\ Max(S) \in S /\ \A x \in S : x <= Max(S)
<1>1. \E k \in S : \A m \in S : k <= m
  BY Least
<1>2. Min(S) \in S /\ \A x \in S : Min(S) <= x
  BY <1>1 DEF Min
<1> DEFINE T == {k \in Nat : limit - k \in S}
<1>3. T # {}
  <2>1. PICK x : x \in S
    OBVIOUS
  <2>2. limit - x \in T
    BY <2>1
  <2> QED BY <2>2
<1>4. PICK k \in T : \A m \in T : k <= m
  BY <1>3, Least
<1>5. ASSUME NEW x \in S PROVE limit - k >= x
  <2>1. x \in Nat /\ x <= limit /\ limit - (limit - x) = x
    OBVIOUS
  <2>2. limit - x \in T
    BY <2>1
  <2>3. k \in Nat /\ k <= limit - x
    BY <1>4, <2>2
  <2> QED BY <2>1, <2>3
<1>6. \E y \in S : \A x \in S : y >= x
  BY <1>5
<1>7. Max(S) \in S /\ \A x \in S : Max(S) >= x
  BY <1>6 DEF Max
<1> QED BY <1>2, <1>7

\* Tile i of row j is in the run from a to b.
RunAround(hit, j, i, a, b) == Run(hit, j, a, b) /\ a <= i /\ i <= b

(* A tile that changed is in a run.                                         *)
LEMMA Widest ==
  ASSUME NEW c \in Nat, NEW d \in Nat, NEW hit, hit \subseteq (0..c) \X (0..d),
         NEW i, NEW j, <<i, j>> \in hit
  PROVE  \E a, b \in 0..c : RunAround(hit, j, i, a, b)
<1>0. i \in 0..c /\ j \in 0..d
  OBVIOUS
<1> DEFINE L == {k \in Nat : <<i - 1 - k, j>> \notin hit}
           R == {k \in Nat : <<i + 1 + k, j>> \notin hit}
<1>1. <<i - 1 - i, j>> \notin hit /\ <<i + 1 + c, j>> \notin hit
  BY <1>0
<1>2. i \in L /\ c \in R
  BY <1>0, <1>1
<1>3. PICK l \in L : \A m \in L : l <= m
  BY <1>2, Least
<1>4. PICK r \in R : \A m \in R : r <= m
  BY <1>2, Least
<1>5. PICK a \in Int : a = i - l
  BY <1>0
<1>6. PICK b \in Int : b = i + r
  BY <1>0
<1>7. ASSUME NEW k \in a..b PROVE <<k, j>> \in hit
  <2>1. CASE k < i
    <3>1. i - 1 - k \in Nat /\ ~(l <= i - 1 - k) /\ i - 1 - (i - 1 - k) = k
      BY <1>0, <1>5, <2>1
    <3>2. i - 1 - k \notin L
      BY <1>3, <3>1
    <3> QED BY <3>1, <3>2
  <2>2. CASE k = i
    BY <2>2
  <2>3. CASE k > i
    <3>1. k - i - 1 \in Nat /\ ~(r <= k - i - 1) /\ i + 1 + (k - i - 1) = k
      BY <1>0, <1>6, <2>3
    <3>2. k - i - 1 \notin R
      BY <1>4, <3>1
    <3> QED BY <3>1, <3>2
  <2> QED BY <1>0, <2>1, <2>2, <2>3
<1>8. a - 1 = i - 1 - l /\ b + 1 = i + 1 + r
  BY <1>0, <1>5, <1>6
<1>9. <<a - 1, j>> \notin hit /\ <<b + 1, j>> \notin hit
  BY <1>3, <1>4, <1>8
<1>10. a <= i /\ i <= b
  BY <1>0, <1>5, <1>6
<1>11. a \in a..b /\ b \in a..b /\ a..b # {}
  BY <1>0, <1>10
<1>12. a \in 0..c /\ b \in 0..c
  BY <1>7, <1>11
<1>13. (a..b) \X {j} \subseteq hit
  BY <1>7
<1>14. RunAround(hit, j, i, a, b)
  BY <1>9, <1>10, <1>11, <1>13 DEF Run, RunAround
<1> QED BY <1>12, <1>14

(* The ends of a run changed.                                               *)
LEMMA RunEnds ==
  ASSUME NEW hit, NEW a \in Int, NEW b \in Int, NEW j, Run(hit, j, a, b)
  PROVE  a <= b /\ <<a, j>> \in hit /\ <<b, j>> \in hit
BY DEF Run

\* Row j is in the block from first to last.
BlockAround(hit, first, last, i, j) ==
  /\ first \in hit /\ last \in hit /\ Stacked(hit, first, last)
  /\ first[1] <= i /\ i <= last[1] /\ first[2] <= j /\ j <= last[2]

(* A run is in a block.                                                     *)
LEMMA Tallest ==
  ASSUME NEW c \in Nat, NEW d \in Nat, NEW hit, hit \subseteq (0..c) \X (0..d),
         NEW a \in 0..c, NEW b \in 0..c, NEW i, NEW j \in 0..d,
         RunAround(hit, j, i, a, b)
  PROVE  \E first, last \in hit : BlockAround(hit, first, last, i, j)
<1>0. Run(hit, j, a, b)
  BY DEF RunAround
<1>1. ASSUME NEW k \in Int, Run(hit, k, a, b) PROVE k \in 0..d
  <2>1. a \in Int /\ b \in Int
    OBVIOUS
  <2>2. <<a, k>> \in hit
    BY <1>1, <2>1, RunEnds, Zenon
  <2> QED BY <2>2
<1> DEFINE U == {k \in Nat : ~Run(hit, j - 1 - k, a, b)}
           D == {k \in Nat : ~Run(hit, j + 1 + k, a, b)}
<1>2. j - 1 - j \notin 0..d /\ j + 1 + d \notin 0..d /\ j - 1 - j \in Int /\ j + 1 + d \in Int
  OBVIOUS
<1>3. j \in U /\ d \in D
  BY <1>1, <1>2
<1>4. PICK u \in U : \A m \in U : u <= m
  BY <1>3, Least
<1>5. PICK v \in D : \A m \in D : v <= m
  BY <1>3, Least
<1>6. PICK top \in Int : top = j - u
  OBVIOUS
<1>7. PICK bottom \in Int : bottom = j + v
  OBVIOUS
<1>8. ASSUME NEW k \in top..bottom PROVE Run(hit, k, a, b)
  <2>1. CASE k < j
    <3>1. j - 1 - k \in Nat /\ ~(u <= j - 1 - k) /\ j - 1 - (j - 1 - k) = k
      BY <1>6, <2>1
    <3>2. j - 1 - k \notin U
      BY <1>4, <3>1
    <3> QED BY <3>1, <3>2
  <2>2. CASE k = j
    BY <1>0, <2>2
  <2>3. CASE k > j
    <3>1. k - j - 1 \in Nat /\ ~(v <= k - j - 1) /\ j + 1 + (k - j - 1) = k
      BY <1>7, <2>3
    <3>2. k - j - 1 \notin D
      BY <1>5, <3>1
    <3> QED BY <3>1, <3>2
  <2> QED BY <2>1, <2>2, <2>3
<1>9. top - 1 = j - 1 - u /\ bottom + 1 = j + 1 + v
  BY <1>6, <1>7
<1>10. ~Run(hit, top - 1, a, b) /\ ~Run(hit, bottom + 1, a, b)
  BY <1>4, <1>5, <1>9
<1>11. top <= j /\ j <= bottom /\ top \in top..bottom /\ bottom \in top..bottom
  BY <1>6, <1>7
<1>12. <<a, top>> \in hit /\ <<b, bottom>> \in hit
  <2>1. Run(hit, top, a, b) /\ Run(hit, bottom, a, b) /\ a \in Int /\ b \in Int
    BY <1>8, <1>11
  <2> HIDE DEF U, D
  <2> QED BY <2>1, RunEnds
<1>13. top <= bottom
  BY <1>11
<1>14. Stacked(hit, <<a, top>>, <<b, bottom>>)
  BY <1>8, <1>10, <1>13 DEF Stacked
<1>15. BlockAround(hit, <<a, top>>, <<b, bottom>>, i, j)
  BY <1>11, <1>12, <1>14 DEF BlockAround, RunAround
<1> QED BY <1>12, <1>15

(* Two runs of a row that meet are one.                                     *)
LEMMA RunsApart ==
  ASSUME NEW hit, NEW j, NEW a \in Int, NEW b \in Int, NEW e \in Int, NEW f \in Int,
         Run(hit, j, a, b), Run(hit, j, e, f), a <= f, e <= b
  PROVE  a = e /\ b = f
<1>1. \A k \in a..b : <<k, j>> \in hit
  BY DEF Run
<1>2. \A k \in e..f : <<k, j>> \in hit
  BY DEF Run
<1>3. /\ <<a - 1, j>> \notin hit /\ <<b + 1, j>> \notin hit
      /\ <<e - 1, j>> \notin hit /\ <<f + 1, j>> \notin hit
  BY DEF Run
<1>4. a <= b /\ e <= f
  BY RunEnds
<1>5. ~(e - 1 \in a..b) /\ ~(a - 1 \in e..f) /\ ~(f + 1 \in a..b) /\ ~(b + 1 \in e..f)
  BY <1>1, <1>2, <1>3
<1> QED BY <1>4, <1>5

(* Two blocks that meet are one.                                            *)
LEMMA BlocksMeet ==
  ASSUME NEW hit, NEW first, NEW last, NEW from, NEW to,
         first \in Int \X Int, last \in Int \X Int, from \in Int \X Int, to \in Int \X Int,
         Stacked(hit, first, last), Stacked(hit, from, to),
         first[1] <= to[1], from[1] <= last[1], first[2] <= to[2], from[2] <= last[2]
  PROVE  first = from /\ last = to
<1>1. PICK a \in Int, t \in Int : first = <<a, t>>
  OBVIOUS
<1>2. PICK b \in Int, u \in Int : last = <<b, u>>
  OBVIOUS
<1>3. PICK e \in Int, v \in Int : from = <<e, v>>
  OBVIOUS
<1>4. PICK f \in Int, w \in Int : to = <<f, w>>
  OBVIOUS
<1>5. /\ t <= u /\ \A j \in t..u : Run(hit, j, a, b)
      /\ ~Run(hit, t - 1, a, b) /\ ~Run(hit, u + 1, a, b)
  BY <1>1, <1>2 DEF Stacked
<1>6. /\ v <= w /\ \A j \in v..w : Run(hit, j, e, f)
      /\ ~Run(hit, v - 1, e, f) /\ ~Run(hit, w + 1, e, f)
  BY <1>3, <1>4 DEF Stacked
<1>7. a <= f /\ e <= b /\ t <= w /\ v <= u
  BY <1>1, <1>2, <1>3, <1>4
<1>8. PICK j \in Int : j \in t..u /\ j \in v..w
  <2>1. CASE t <= v
    BY <1>5, <1>6, <1>7, <2>1
  <2>2. CASE v <= t
    BY <1>5, <1>6, <1>7, <2>2
  <2> QED BY <2>1, <2>2
<1>9. Run(hit, j, a, b) /\ Run(hit, j, e, f)
  BY <1>5, <1>6, <1>8
<1>10. a = e /\ b = f
  BY <1>7, <1>9, RunsApart
<1>11. ~(v - 1 \in t..u) /\ ~(t - 1 \in v..w) /\ ~(w + 1 \in t..u) /\ ~(u + 1 \in v..w)
  BY <1>5, <1>6, <1>10
<1>12. t = v /\ u = w
  BY <1>5, <1>6, <1>7, <1>11
<1> QED BY <1>1, <1>2, <1>3, <1>4, <1>10, <1>12

\* A block of tiles as the encoder finds it.
Spans(n, first, last) ==
  /\ first \in Columns(n) \X Rows(n) /\ last \in Columns(n) \X Rows(n)
  /\ first[1] <= last[1] /\ first[2] <= last[2]

(* The edges of a block, clipped at the end of the surface.                 *)
LEMMA Edges ==
  ASSUME NEW n \in Nat \ {0}, NEW a \in Nat, NEW b \in Nat, a <= b,
         NEW limit \in Nat, b * n < limit
  PROVE  /\ a * n \in Nat /\ a * n < Smaller((b + 1) * n, limit)
         /\ Smaller((b + 1) * n, limit) \in Nat
         /\ Smaller((b + 1) * n, limit) <= limit
<1>1. /\ a * n \in Int /\ b * n \in Int /\ (b + 1) * n = b * n + n
      /\ a * n <= b * n /\ 0 * n <= a * n /\ 0 * n = 0
  BY Times
<1> QED BY <1>1 DEF Smaller

LEMMA BlockLegal ==
  ASSUME NEW n \in Nat \ {0}, NEW first, NEW last, Spans(n, first, last)
  PROVE  Legal(Block(n, first, last))
<1>1. PICK a \in Nat : a = first[1]
  BY TileBounds DEF Spans
<1>2. PICK b \in Nat : b = last[1]
  BY TileBounds DEF Spans
<1>3. PICK t \in Nat : t = first[2]
  BY TileBounds DEF Spans
<1>4. PICK u \in Nat : u = last[2]
  BY TileBounds DEF Spans
<1>5. a <= b /\ t <= u /\ b * n < Width /\ u * n < Height
  BY <1>1, <1>2, <1>3, <1>4, TileBounds DEF Spans
<1>6. PICK x : x = a * n
  OBVIOUS
<1>7. PICK y : y = t * n
  OBVIOUS
<1>8. PICK right : right = Smaller((b + 1) * n, Width)
  OBVIOUS
<1>9. PICK bottom : bottom = Smaller((u + 1) * n, Height)
  OBVIOUS
<1>10. x \in Nat /\ right \in Nat /\ x < right /\ right <= Width
  BY <1>5, <1>6, <1>8, Sizes, Edges
<1>11. y \in Nat /\ bottom \in Nat /\ y < bottom /\ bottom <= Height
  BY <1>5, <1>7, <1>9, Sizes, Edges
<1>12. Block(n, first, last) = Rect(x, y, right - x, bottom - y)
  BY <1>1, <1>2, <1>3, <1>4, <1>6, <1>7, <1>8, <1>9 DEF Block
<1> QED BY <1>10, <1>11, <1>12, Sizes DEF Legal, validate_rect, Rect

(* A block holds the pixels of its tiles.                                   *)
LEMMA BlockHolds ==
  ASSUME NEW n \in Nat \ {0}, NEW first, NEW last, Spans(n, first, last),
         NEW p \in Grid,
         first[1] <= TileOf(n, p)[1], TileOf(n, p)[1] <= last[1],
         first[2] <= TileOf(n, p)[2], TileOf(n, p)[2] <= last[2]
  PROVE  p \in Within(Block(n, first, last))
<1>1. PICK a \in Nat : a = first[1]
  BY TileBounds DEF Spans
<1>2. PICK b \in Nat : b = last[1]
  BY TileBounds DEF Spans
<1>3. PICK t \in Nat : t = first[2]
  BY TileBounds DEF Spans
<1>4. PICK u \in Nat : u = last[2]
  BY TileBounds DEF Spans
<1>5. PICK x \in Nat : x = p[1] /\ x < Width
  BY Sizes DEF Grid
<1>6. PICK y \in Nat : y = p[2] /\ y < Height
  BY Sizes DEF Grid
<1>7. PICK i \in Nat : i = x \div n
  BY Division
<1>8. PICK j \in Nat : j = y \div n
  BY Division
<1>9. a <= i /\ i <= b /\ t <= j /\ j <= u
  BY <1>1, <1>2, <1>3, <1>4, <1>5, <1>6, <1>7, <1>8 DEF TileOf
<1>10. i * n <= x /\ x < i * n + n /\ j * n <= y /\ y < j * n + n
  BY <1>7, <1>8, Division
<1>11. /\ a * n \in Int /\ i * n \in Int /\ b * n \in Int
       /\ a * n <= i * n /\ i * n <= b * n /\ (b + 1) * n = b * n + n
  BY <1>9, Times
<1>12. /\ t * n \in Int /\ j * n \in Int /\ u * n \in Int
       /\ t * n <= j * n /\ j * n <= u * n /\ (u + 1) * n = u * n + n
  BY <1>9, Times
<1>13. a * n <= x /\ x < (b + 1) * n /\ t * n <= y /\ y < (u + 1) * n
  BY <1>10, <1>11, <1>12
<1>14. PICK left \in Int : left = a * n
  BY <1>11
<1>15. PICK top \in Int : top = t * n
  BY <1>12
<1>16. PICK right \in Int : right = (b + 1) * n
  BY <1>11
<1>17. PICK bottom \in Int : bottom = (u + 1) * n
  BY <1>12
<1>18. Block(n, first, last) =
         Rect(left, top, Smaller(right, Width) - left, Smaller(bottom, Height) - top)
  BY <1>1, <1>2, <1>3, <1>4, <1>14, <1>15, <1>16, <1>17 DEF Block
<1>19. Inside(Block(n, first, last), p)
  BY <1>5, <1>6, <1>13, <1>14, <1>15, <1>16, <1>17, <1>18, Sizes
     DEF Inside, Rect, Smaller
<1> QED BY <1>19, BlockLegal, Pixels

(* Blocks that overlap have tiles in common.                                *)
LEMMA BlocksOverlap ==
  ASSUME NEW n \in Nat \ {0}, NEW first, NEW last, Spans(n, first, last),
         NEW from, NEW to, Spans(n, from, to),
         overlaps(Block(n, first, last), Block(n, from, to))
  PROVE  /\ first[1] <= to[1] /\ from[1] <= last[1]
         /\ first[2] <= to[2] /\ from[2] <= last[2]
<1>1. /\ first[1] \in Nat /\ last[1] \in Nat /\ from[1] \in Nat /\ to[1] \in Nat
      /\ first[2] \in Nat /\ last[2] \in Nat /\ from[2] \in Nat /\ to[2] \in Nat
  BY TileBounds DEF Spans
<1>2. /\ first[1] * n \in Int /\ (last[1] + 1) * n \in Int
      /\ from[1] * n \in Int /\ (to[1] + 1) * n \in Int
      /\ first[2] * n \in Int /\ (last[2] + 1) * n \in Int
      /\ from[2] * n \in Int /\ (to[2] + 1) * n \in Int
  BY <1>1, Times
<1>3. /\ first[1] * n < (to[1] + 1) * n /\ from[1] * n < (last[1] + 1) * n
      /\ first[2] * n < (to[2] + 1) * n /\ from[2] * n < (last[2] + 1) * n
  BY <1>2, Sizes DEF overlaps, Block, Rect, Smaller
<1>4. /\ to[1] + 1 \in Int /\ last[1] + 1 \in Int
      /\ to[2] + 1 \in Int /\ last[2] + 1 \in Int
  BY <1>1
<1>5. /\ first[1] < to[1] + 1 /\ from[1] < last[1] + 1
      /\ first[2] < to[2] + 1 /\ from[2] < last[2] + 1
  BY <1>1, <1>3, <1>4, Times
<1> QED BY <1>1, <1>5

\* A rectangle of the encoder and the block it stands for.
IsBlock(n, hit, r, first, last) ==
  /\ first \in hit /\ last \in hit /\ Stacked(hit, first, last)
  /\ Spans(n, first, last) /\ r = Block(n, first, last)

LEMMA BlockOf ==
  ASSUME NEW n \in Nat \ {0}, NEW hit, hit \subseteq Columns(n) \X Rows(n),
         NEW r \in Blocks(n, hit)
  PROVE  \E first, last \in hit : IsBlock(n, hit, r, first, last)
<1>1. PICK q \in hit \X hit : Stacked(hit, q[1], q[2]) /\ r = Block(n, q[1], q[2])
  BY DEF Blocks
<1>2. PICK first \in hit : first = q[1]
  OBVIOUS
<1>3. PICK last \in hit : last = q[2]
  OBVIOUS
<1>4. first \in Columns(n) \X Rows(n) /\ last \in Columns(n) \X Rows(n)
  OBVIOUS
<1>5. /\ first[1] \in Nat /\ first[2] \in Nat /\ last[1] \in Nat /\ last[2] \in Nat
  BY <1>4, TileBounds
<1>6. Stacked(hit, first, last) /\ r = Block(n, first, last)
  BY <1>1, <1>2, <1>3
<1>7. first[2] <= last[2] /\ Run(hit, first[2], first[1], last[1])
  BY <1>5, <1>6 DEF Stacked
<1>8. first[1] <= last[1]
  <2>1. first[1] \in Int /\ last[1] \in Int
    BY <1>5
  <2> QED BY <1>7, <2>1, RunEnds, Zenon
<1>9. IsBlock(n, hit, r, first, last)
  BY <1>4, <1>6, <1>7, <1>8 DEF IsBlock, Spans
<1> QED BY <1>9

(* The rectangles lie on the surface.                                       *)
LEMMA BlocksLegal ==
  ASSUME NEW n \in Nat \ {0}, NEW hit, hit \subseteq Columns(n) \X Rows(n),
         NEW r \in Blocks(n, hit)
  PROVE  Legal(r)
<1>1. PICK first, last \in hit : IsBlock(n, hit, r, first, last)
  BY BlockOf
<1> QED BY <1>1, BlockLegal DEF IsBlock

(* They do not overlap.                                                     *)
LEMMA BlocksApart ==
  ASSUME NEW n \in Nat \ {0}, NEW hit, hit \subseteq Columns(n) \X Rows(n),
         NEW r \in Blocks(n, hit), NEW q \in Blocks(n, hit), overlaps(r, q)
  PROVE  r = q
<1>1. PICK first, last \in hit : IsBlock(n, hit, r, first, last)
  BY BlockOf
<1>2. PICK from, to \in hit : IsBlock(n, hit, q, from, to)
  BY BlockOf
<1>3. /\ Spans(n, first, last) /\ r = Block(n, first, last) /\ Stacked(hit, first, last)
      /\ Spans(n, from, to) /\ q = Block(n, from, to) /\ Stacked(hit, from, to)
  BY <1>1, <1>2 DEF IsBlock
<1>4. /\ first[1] <= to[1] /\ from[1] <= last[1]
      /\ first[2] <= to[2] /\ from[2] <= last[2]
  BY <1>3, BlocksOverlap
<1>5. /\ first \in Int \X Int /\ last \in Int \X Int
      /\ from \in Int \X Int /\ to \in Int \X Int
  <2>1. \A t \in Columns(n) \X Rows(n) : t \in Int \X Int
    BY TileBounds
  <2> QED BY <1>3, <2>1 DEF Spans
<1>6. first = from /\ last = to
  BY <1>3, <1>4, <1>5, BlocksMeet
<1> QED BY <1>3, <1>6

(* Every pixel of a tile that changed is in one.                            *)
LEMMA BlocksCover ==
  ASSUME NEW n \in Nat \ {0}, NEW hit, hit \subseteq Columns(n) \X Rows(n),
         NEW p \in Grid, TileOf(n, p) \in hit
  PROVE  p \in Covered(Blocks(n, hit))
<1>1. PICK c \in Nat : c = (Width - 1) \div n
  BY Sizes, Division
<1>2. PICK d \in Nat : d = (Height - 1) \div n
  BY Sizes, Division
<1>3. hit \subseteq (0..c) \X (0..d)
  BY <1>1, <1>2 DEF Columns, Rows
<1>4. PICK i : i = TileOf(n, p)[1]
  OBVIOUS
<1>5. PICK j : j = TileOf(n, p)[2]
  OBVIOUS
<1>6. TileOf(n, p) = <<i, j>> /\ <<i, j>> \in hit
  BY <1>4, <1>5 DEF TileOf
<1>7. j \in 0..d
  BY <1>3, <1>6
<1>8. PICK a \in 0..c, b \in 0..c : RunAround(hit, j, i, a, b)
  BY <1>3, <1>6, Widest
<1>9. PICK first, last \in hit : BlockAround(hit, first, last, i, j)
  BY <1>3, <1>7, <1>8, Tallest
<1>10. /\ first[1] <= i /\ i <= last[1] /\ first[2] <= j /\ j <= last[2]
       /\ Stacked(hit, first, last)
  BY <1>9 DEF BlockAround
<1>11. first \in Columns(n) \X Rows(n) /\ last \in Columns(n) \X Rows(n)
  BY <1>9
<1>12. /\ first[1] \in Nat /\ last[1] \in Nat /\ first[2] \in Nat /\ last[2] \in Nat
       /\ i \in Int /\ j \in Int
  BY <1>3, <1>6, <1>11, TileBounds
<1>13. Spans(n, first, last)
  BY <1>10, <1>11, <1>12 DEF Spans
<1>14. p \in Within(Block(n, first, last))
  BY <1>4, <1>5, <1>10, <1>13, BlockHolds
<1>15. <<first, last>> \in {t \in hit \X hit : Stacked(hit, t[1], t[2])}
  BY <1>9, <1>10
<1>16. Block(n, first, last) \in Blocks(n, hit)
  BY <1>15 DEF Blocks
<1> QED BY <1>14, <1>16 DEF Covered

(* There are finitely many of them.                                         *)
LEMMA BlocksFinite ==
  ASSUME NEW n \in Nat \ {0}, NEW hit, hit \subseteq Columns(n) \X Rows(n)
  PROVE  IsFiniteSet(Blocks(n, hit))
<1>1. IsFiniteSet(Columns(n)) /\ IsFiniteSet(Rows(n))
  <2>1. (Width - 1) \div n \in Int /\ (Height - 1) \div n \in Int
    BY Sizes, Division
  <2> QED BY <2>1, FS_Interval DEF Columns, Rows
<1>2. IsFiniteSet(Columns(n) \X Rows(n))
  BY <1>1, FS_Product
<1>3. IsFiniteSet(hit)
  BY <1>2, FS_Subset
<1>4. IsFiniteSet(hit \X hit)
  BY <1>3, FS_Product
<1> DEFINE S == {t \in hit \X hit : Stacked(hit, t[1], t[2])}
           f == [q \in S |-> Block(n, q[1], q[2])]
<1>5. IsFiniteSet(S)
  BY <1>4, FS_Subset
<1>6. f \in Surjection(S, Blocks(n, hit))
  BY DEF Surjection, Blocks
<1> QED BY <1>5, <1>6, FS_Surjection

(* The rectangle around rectangles holds them, and lies on the surface.     *)
LEMMA BoundingHolds ==
  ASSUME NEW rects, rects # {}, \A r \in rects : Legal(r)
  PROVE  /\ Legal(Bounding(rects))
         /\ \A r \in rects : Within(r) \subseteq Within(Bounding(rects))
<1> DEFINE X == {r.x : r \in rects}
           Y == {r.y : r \in rects}
           U == {r.x + r.width : r \in rects}
           V == {r.y + r.height : r \in rects}
<1>1. ASSUME NEW r \in rects
      PROVE  /\ r.x \in Nat /\ r.y \in Nat /\ r.width \in Nat /\ r.height \in Nat
             /\ r.x < r.x + r.width /\ r.x + r.width <= Width
             /\ r.y < r.y + r.height /\ r.y + r.height <= Height
             /\ r.x \in X /\ r.y \in Y /\ r.x + r.width \in U /\ r.y + r.height \in V
  <2>1. Legal(r)
    OBVIOUS
  <2> QED BY <2>1, Sizes DEF Legal, validate_rect
<1>2. /\ X \subseteq Nat /\ Y \subseteq Nat /\ U \subseteq Nat /\ V \subseteq Nat
      /\ X # {} /\ Y # {} /\ U # {} /\ V # {}
      /\ \A x \in X : x <= Width
      /\ \A y \in Y : y <= Height
      /\ \A u \in U : u <= Width
      /\ \A v \in V : v <= Height
  <2>1. ASSUME NEW x \in X PROVE x \in Nat /\ x <= Width
    <3>1. PICK r \in rects : x = r.x
      OBVIOUS
    <3> HIDE DEF X, Y, U, V
    <3> QED BY <1>1, <3>1, Sizes
  <2>2. ASSUME NEW y \in Y PROVE y \in Nat /\ y <= Height
    <3>1. PICK r \in rects : y = r.y
      OBVIOUS
    <3> HIDE DEF X, Y, U, V
    <3> QED BY <1>1, <3>1, Sizes
  <2>3. ASSUME NEW u \in U PROVE u \in Nat /\ u <= Width
    <3>1. PICK r \in rects : u = r.x + r.width
      OBVIOUS
    <3> HIDE DEF X, Y, U, V
    <3> QED BY <1>1, <3>1, Sizes
  <2>4. ASSUME NEW v \in V PROVE v \in Nat /\ v <= Height
    <3>1. PICK r \in rects : v = r.y + r.height
      OBVIOUS
    <3> HIDE DEF X, Y, U, V
    <3> QED BY <1>1, <3>1, Sizes
  <2>5. PICK r : r \in rects
    OBVIOUS
  <2>6. X # {} /\ Y # {} /\ U # {} /\ V # {}
    BY <1>1, <2>5
  <2> QED BY <2>1, <2>2, <2>3, <2>4, <2>6
<1>3. Bounding(rects) = Rect(Min(X), Min(Y), Max(U) - Min(X), Max(V) - Min(Y))
  BY DEF Bounding
<1> HIDE DEF X, Y, U, V
<1>4. PICK left : left = Min(X)
  OBVIOUS
<1>5. PICK top : top = Min(Y)
  OBVIOUS
<1>6. PICK right : right = Max(U)
  OBVIOUS
<1>7. PICK bottom : bottom = Max(V)
  OBVIOUS
<1>8. left \in Nat /\ \A x \in X : left <= x
  BY <1>2, <1>4, Sizes, Extremes
<1>9. top \in Nat /\ \A y \in Y : top <= y
  BY <1>2, <1>5, Sizes, Extremes
<1>10. right \in Nat /\ right <= Width /\ \A u \in U : u <= right
  BY <1>2, <1>6, Sizes, Extremes
<1>11. bottom \in Nat /\ bottom <= Height /\ \A v \in V : v <= bottom
  BY <1>2, <1>7, Sizes, Extremes
<1>12. PICK b : b = Bounding(rects)
  OBVIOUS
<1>13. b = Rect(left, top, right - left, bottom - top)
  BY <1>3, <1>4, <1>5, <1>6, <1>7, <1>12
<1>14. ASSUME NEW r \in rects
       PROVE  /\ left <= r.x /\ r.x + r.width <= right /\ left < right
              /\ top <= r.y /\ r.y + r.height <= bottom /\ top < bottom
  <2>1. left <= r.x /\ top <= r.y /\ r.x + r.width <= right /\ r.y + r.height <= bottom
    BY <1>1, <1>8, <1>9, <1>10, <1>11
  <2> QED BY <1>1, <1>8, <1>9, <1>10, <1>11, <2>1
<1>15. left < right /\ top < bottom
  BY <1>14
<1>16. Legal(b)
  BY <1>8, <1>9, <1>10, <1>11, <1>13, <1>15, Sizes DEF Legal, validate_rect, Rect
<1>17. ASSUME NEW r \in rects, NEW p \in Within(r)
       PROVE  p \in Within(b)
  <2>1. Legal(r)
    OBVIOUS
  <2>2. p \in Grid /\ Inside(r, p)
    BY <2>1, Pixels
  <2>3. p[1] \in Nat /\ p[2] \in Nat
    BY <2>2, Sizes DEF Grid
  <2>4. Inside(b, p)
    BY <1>1, <1>8, <1>9, <1>10, <1>11, <1>13, <1>14, <2>2, <2>3 DEF Inside, Rect
  <2> QED BY <1>16, <2>2, <2>4, Pixels
<1> QED BY <1>12, <1>16, <1>17

\* What the receiver asks of the regions of a delta.
Orderly(rects, limit) ==
  /\ Cardinality(rects) \in 1..limit
  /\ \A r \in rects : Legal(r)
  /\ \A r, q \in rects : r # q => ~overlaps(r, q)

\* Regions with one rectangle.
LEMMA OneRegion ==
  ASSUME NEW r, Legal(r), NEW limit \in Nat \ {0}
  PROVE  Orderly({r}, limit)
<1>1. Cardinality({r}) = 1
  BY FS_Singleton
<1> QED BY <1>1 DEF Orderly

(* The regions of a delta are orderly and hold every pixel that changed.    *)
LEMMA Encoding ==
  ASSUME NEW previous, NEW current, NEW size \in Nat, NEW limit \in Nat \ {0},
         NEW rects, rects = encode_delta_regions(previous, current, size, limit)
  PROVE  /\ Orderly(rects, limit)
         /\ \A p \in Grid : previous[p] # current[p] => p \in Covered(rects)
<1>1. PICK n \in Nat \ {0} : n = Larger(size, 1)
  BY DEF Larger
<1>2. Larger(limit, 1) = limit
  BY DEF Larger
<1>3. PICK hit : hit = {t \in Columns(n) \X Rows(n) :
                          Changed(previous, current, TileRect(n, t[1], t[2]))}
  OBVIOUS
<1>4. hit \subseteq Columns(n) \X Rows(n)
  BY <1>3
<1>5. PICK blocks : blocks = Blocks(n, hit)
  OBVIOUS
<1>6. rects = IF blocks = {} THEN {Rect(0, 0, 1, 1)}
              ELSE IF TooMany(blocks, limit) THEN {Bounding(blocks)} ELSE blocks
  BY <1>1, <1>3, <1>5 DEF encode_delta_regions
<1>7. /\ IsFiniteSet(blocks) /\ \A r \in blocks : Legal(r)
      /\ \A r, q \in blocks : r # q => ~overlaps(r, q)
  BY <1>4, <1>5, BlocksFinite, BlocksLegal, BlocksApart
<1>8. ASSUME NEW p \in Grid, previous[p] # current[p]
      PROVE  p \in Covered(blocks)
  <2>1. /\ TileOf(n, p) \in Columns(n) \X Rows(n)
        /\ p \in Within(TileRect(n, TileOf(n, p)[1], TileOf(n, p)[2]))
    BY TileHolds DEF TileOf
  <2>2. Changed(previous, current, TileRect(n, TileOf(n, p)[1], TileOf(n, p)[2]))
    BY <1>8, <2>1 DEF Changed
  <2>3. TileOf(n, p) \in hit
    BY <1>3, <2>1, <2>2
  <2> QED BY <1>4, <1>5, <2>3, BlocksCover
<1>9. CASE blocks = {}
  <2>1. Legal(Rect(0, 0, 1, 1))
    BY Sizes DEF Legal, validate_rect, Rect
  <2>2. rects = {Rect(0, 0, 1, 1)}
    BY <1>6, <1>9
  <2>3. \A p \in Grid : previous[p] = current[p]
    BY <1>8, <1>9 DEF Covered
  <2> QED BY <2>1, <2>2, <2>3, OneRegion
<1>10. CASE blocks # {} /\ TooMany(blocks, limit)
  <2>1. rects = {Bounding(blocks)}
    BY <1>6, <1>10
  <2>2. /\ Legal(Bounding(blocks))
        /\ \A r \in blocks : Within(r) \subseteq Within(Bounding(blocks))
    BY <1>7, <1>10, BoundingHolds
  <2>3. Covered(blocks) \subseteq Covered(rects)
    BY <2>1, <2>2 DEF Covered
  <2>4. Orderly(rects, limit)
    BY <2>1, <2>2, OneRegion
  <2> QED BY <1>8, <2>3, <2>4
<1>11. CASE blocks # {} /\ ~TooMany(blocks, limit)
  <2>1. rects = blocks
    BY <1>6, <1>11
  <2>2. Cardinality(blocks) \in Nat /\ Cardinality(blocks) # 0
    BY <1>7, <1>11, FS_CardinalityType, FS_EmptySet
  <2>3. ~(Cardinality(blocks) > limit)
    BY <1>2, <1>11 DEF TooMany
  <2>4. Cardinality(blocks) \in 1..limit
    BY <2>2, <2>3
  <2>5. Orderly(rects, limit)
    BY <1>7, <2>1, <2>4 DEF Orderly
  <2> QED BY <1>8, <2>1, <2>5
<1> QED BY <1>9, <1>10, <1>11

--------------------------------------------------------------------------------
(* Presentations.                                                           *)

\* A picture with to inside the rectangles and from outside.
Mix(copied, from, to, rects) ==
  /\ copied \in Pictures
  /\ \A p \in Grid : copied[p] = IF p \in Covered(rects) THEN to[p] ELSE from[p]

(* That is what a copy leaves.                                              *)
LEMMA Copies ==
  ASSUME NEW from \in Pictures, NEW to \in Pictures, NEW rects,
         NEW copied, copied = Copied(from, to, rects)
  PROVE  Mix(copied, from, to, rects)
BY DEF Copied, Pictures, Mix

LEMMA Compositions ==
  ASSUME NEW b \in Pictures, NEW i
  PROVE  /\ Composed(b, i) \in Pictures
         /\ \A p \in Grid : Composed(b, i)[p] = IF p \in i THEN Black ELSE b[p]
BY DEF Composed, Pictures

(* Pictures with the same pixels are equal.                                 *)
LEMMA SamePicture ==
  ASSUME NEW a \in Pictures, NEW b \in Pictures, \A p \in Grid : a[p] = b[p]
  PROVE  a = b
BY DEF Pictures

(* The touched tiles cover a rectangle.                                     *)
LEMMA TilesCover ==
  ASSUME NEW n \in Nat \ {0}, NEW rects, \A r \in rects : Legal(r),
         NEW p \in Covered(rects)
  PROVE  /\ p \in Grid
         /\ TileOf(n, p) \in UNION {TilesOf(n, r) : r \in rects}
         /\ TileOf(n, p) \in Columns(n) \X Rows(n)
         /\ p \in Within(TileRect(n, TileOf(n, p)[1], TileOf(n, p)[2]))
<1>1. PICK r \in rects : p \in Within(r)
  BY DEF Covered
<1>2. Legal(r)
  OBVIOUS
<1>3. p \in Grid
  BY <1>1, <1>2, Pixels
<1>4. TileOf(n, p) \in TilesOf(n, r) /\ TilesOf(n, r) \subseteq Columns(n) \X Rows(n)
  BY <1>1, <1>2, Touched
<1>5. p \in Within(TileRect(n, TileOf(n, p)[1], TileOf(n, p)[2]))
  BY <1>3, TileHolds
<1> QED BY <1>3, <1>4, <1>5

(* Damage tiles hold every pixel that changed, and lie on the surface.      *)
LEMMA DamageFound ==
  ASSUME NEW n \in Nat \ {0}, NEW rects, \A r \in rects : Legal(r),
         NEW previous, NEW current, NEW damage,
         damage = tile_damage_regions(previous, current, n, rects)
  PROVE  /\ \A r \in damage : Legal(r)
         /\ \A p \in Covered(rects) :
              p \notin Covered(damage) => previous[p] = current[p]
<1> DEFINE touched == UNION {TilesOf(n, r) : r \in rects}
<1>1. touched \subseteq Columns(n) \X Rows(n)
  BY Touched
<1>2. damage = {r \in {TileRect(n, t[1], t[2]) : t \in touched} :
                  Changed(previous, current, r)}
  BY DEF tile_damage_regions
<1>3. ASSUME NEW r \in damage PROVE Legal(r)
  <2>1. PICK t \in touched : r = TileRect(n, t[1], t[2])
    BY <1>2
  <2>2. t[1] \in Columns(n) /\ t[2] \in Rows(n)
    BY <1>1
  <2> QED BY <2>1, <2>2, TileLegal
<1>4. ASSUME NEW p \in Covered(rects), p \notin Covered(damage)
      PROVE  previous[p] = current[p]
  <2>1. PICK t : t = TileOf(n, p)
    OBVIOUS
  <2>2. t \in touched /\ p \in Within(TileRect(n, t[1], t[2]))
    BY <2>1, TilesCover
  <2>3. TileRect(n, t[1], t[2]) \notin damage
    BY <1>4, <2>2 DEF Covered
  <2>4. ~Changed(previous, current, TileRect(n, t[1], t[2]))
    BY <1>2, <2>2, <2>3
  <2> QED BY <2>2, <2>4 DEF Changed
<1> QED BY <1>3, <1>4

(* The settle region is made of damage tiles and loses no pixel.            *)
LEMMA Merges ==
  ASSUME NEW existing, existing \subseteq DamageTiles, NEW damage,
         \A r \in damage : Legal(r), NEW merged,
         merged = merge_tiled_damage(DamageTile, existing, damage)
  PROVE  /\ merged \subseteq DamageTiles
         /\ Covered(existing) \subseteq Covered(merged)
         /\ Covered(damage) \subseteq Covered(merged)
<1> DEFINE all == existing \cup damage
           touched == UNION {TilesOf(DamageTile, q) : q \in all}
<1>0. DamageTile \in Nat \ {0}
  BY Sizes
<1>1. ASSUME NEW r \in all PROVE Legal(r)
  <2>1. CASE r \in existing
    <3>1. PICK t \in Columns(DamageTile) \X Rows(DamageTile) :
                 r = TileRect(DamageTile, t[1], t[2])
      BY <2>1 DEF DamageTiles
    <3> QED BY <1>0, <3>1, TileLegal
  <2> QED BY <2>1
<1>2. merged = {TileRect(DamageTile, t[1], t[2]) : t \in touched}
  BY DEF merge_tiled_damage
<1>3. touched \subseteq Columns(DamageTile) \X Rows(DamageTile)
  BY <1>0, <1>1, Touched
<1>4. merged \subseteq DamageTiles
  BY <1>2, <1>3 DEF DamageTiles
<1>5. ASSUME NEW p \in Covered(all) PROVE p \in Covered(merged)
  <2>1. PICK t : t = TileOf(DamageTile, p)
    OBVIOUS
  <2>2. t \in touched /\ p \in Within(TileRect(DamageTile, t[1], t[2]))
    BY <1>0, <1>1, <2>1, TilesCover
  <2>3. TileRect(DamageTile, t[1], t[2]) \in merged
    BY <1>2, <2>2
  <2> QED BY <2>2, <2>3 DEF Covered
<1>6. Covered(existing) \subseteq Covered(all) /\ Covered(damage) \subseteq Covered(all)
  BY DEF Covered
<1> QED BY <1>4, <1>5, <1>6

\* A state of the composites, the panel and the settle region is in order: one
\* picture everywhere, the wanted one outside the rectangles.
States ==
  [working : Pictures, presented : Pictures, panel : Pictures,
   settle : SUBSET DamageTiles, fast : SUBSET Grid]

Fine(s, rects, wanted) ==
  /\ s \in States
  /\ s.working = s.presented /\ s.panel = s.presented
  /\ s.fast \subseteq Covered(s.settle)
  /\ \A p \in Grid : p \notin Covered(rects) => s.presented[p] = wanted[p]

(* A composite that is submitted where it is new is everywhere afterwards.  *)
LEMMA SubmittedFine ==
  ASSUME NEW s, NEW rects, NEW wanted, Fine(s, rects, wanted),
         NEW composite \in Pictures, NEW damage, \A r \in damage : Legal(r),
         \A p \in Grid : p \notin Covered(damage) => s.presented[p] = composite[p],
         NEW t, t = Submitted(s, composite, damage)
  PROVE  /\ t \in States
         /\ t.working = composite /\ t.presented = composite /\ t.panel = composite
         /\ t.fast \subseteq Covered(t.settle)
<1>1. /\ s.presented \in Pictures /\ s.panel = s.presented
      /\ s.settle \subseteq DamageTiles /\ s.fast \subseteq Grid
      /\ s.fast \subseteq Covered(s.settle)
  BY DEF Fine, States
<1>2. Copied(s.presented, composite, damage) = composite
  <2>1. PICK c : c = Copied(s.presented, composite, damage)
    OBVIOUS
  <2>2. Mix(c, s.presented, composite, damage)
    BY <1>1, <2>1, Copies
  <2>3. c \in Pictures /\ \A p \in Grid : c[p] = composite[p]
    BY <2>2 DEF Mix
  <2> QED BY <2>1, <2>3, SamePicture
<1>3. PICK settle : settle = IF damage = {} THEN s.settle
                             ELSE merge_tiled_damage(DamageTile, s.settle, damage)
  OBVIOUS
<1>4. PICK fast_after : fast_after = s.fast \cup Covered(damage)
  OBVIOUS
<1>5. t = [working |-> composite, presented |-> composite, panel |-> composite,
           settle |-> settle, fast |-> fast_after]
  BY <1>1, <1>2, <1>3, <1>4 DEF Submitted
<1>6. Covered(damage) \subseteq Grid
  BY Pixels DEF Covered
<1>7. settle \subseteq DamageTiles /\ fast_after \subseteq Covered(settle)
  <2>1. CASE damage = {}
    BY <1>1, <1>3, <1>4, <2>1 DEF Covered
  <2>2. CASE damage # {}
    <3>1. /\ settle \subseteq DamageTiles
          /\ Covered(s.settle) \subseteq Covered(settle)
          /\ Covered(damage) \subseteq Covered(settle)
      BY <1>1, <1>3, <2>2, Merges
    <3> QED BY <1>1, <1>4, <3>1
  <2> QED BY <2>1, <2>2
<1> QED BY <1>1, <1>4, <1>5, <1>6, <1>7 DEF States

(* A presentation, whatever is damaged: nothing, or where it is new.        *)
LEMMA WorkingOnly ==
  ASSUME NEW s, NEW rects, NEW wanted, Fine(s, rects, wanted),
         NEW composite \in Pictures, composite = s.presented
  PROVE  [s EXCEPT !.working = composite] = s
BY DEF Fine, States

(* tick_inner of a waiting frame brings what is in its hint.                *)
LEMMA TickedFine ==
  ASSUME DamageInv, NEW s, NEW rects,
         Fine(s, hint \cup rects, Composed(base, ink))
  PROVE  Fine(Ticked(s), rects, Composed(base, ink))
<1>1. PICK wanted \in Pictures : wanted = Composed(base, ink)
  BY Compositions DEF DamageInv, Types
<1>2. /\ \A r \in hint : Legal(r)
      /\ ~pending => hint = {}
  BY DEF DamageInv, Types, BehindInside
<1>3. Fine(s, hint \cup rects, wanted)
  BY <1>1
<1>4. CASE ~pending
  <2>1. hint \cup rects = rects /\ Ticked(s) = s
    BY <1>2, <1>4 DEF Ticked
  <2> QED BY <1>1, <1>3, <2>1
<1>5. CASE pending
  <2>1. s.working \in Pictures /\ s.presented = s.working
    BY <1>3 DEF Fine, States
  <2>2. PICK composite : composite = Copied(s.working, wanted, hint)
    OBVIOUS
  <2>3. /\ composite \in Pictures
        /\ \A p \in Grid : composite[p] = IF p \in Covered(hint) THEN wanted[p]
                                                                ELSE s.presented[p]
    <3>1. Mix(composite, s.working, wanted, hint)
      BY <2>1, <2>2, Copies
    <3> QED BY <2>1, <3>1 DEF Mix
  <2>4. PICK damage : damage = tile_damage_regions(s.presented, composite, DamageTile, hint)
    OBVIOUS
  <2>5. /\ \A r \in damage : Legal(r)
        /\ \A p \in Covered(hint) :
             p \notin Covered(damage) => s.presented[p] = composite[p]
    BY <1>2, <2>4, Sizes, DamageFound
  <2>6. \A p \in Grid : p \notin Covered(damage) => s.presented[p] = composite[p]
    BY <2>3, <2>5
  <2>7. Ticked(s) = IF damage = {} THEN [s EXCEPT !.working = composite]
                    ELSE Submitted(s, composite, damage)
    BY <1>1, <1>5, <2>2, <2>4 DEF Ticked
  <2>8. \A p \in Grid : p \notin Covered(rects) => composite[p] = wanted[p]
    <3>1. Covered(hint \cup rects) = Covered(hint) \cup Covered(rects)
      BY DEF Covered
    <3> QED BY <1>3, <2>3, <3>1 DEF Fine
  <2>9. CASE damage = {}
    <3>1. \A p \in Grid : s.presented[p] = composite[p]
      BY <2>6, <2>9 DEF Covered
    <3>2. composite = s.presented
      BY <2>1, <2>3, <3>1, SamePicture
    <3>3. Ticked(s) = s
      BY <1>3, <2>3, <2>7, <2>9, <3>2, WorkingOnly
    <3>4. Fine(s, rects, wanted)
      BY <1>3, <2>8, <3>2 DEF Fine
    <3> QED BY <1>1, <3>3, <3>4
  <2>10. CASE damage # {}
    <3>1. PICK t : t = Submitted(s, composite, damage)
      OBVIOUS
    <3>2. /\ t \in States
          /\ t.working = composite /\ t.presented = composite /\ t.panel = composite
          /\ t.fast \subseteq Covered(t.settle)
      BY <1>3, <2>3, <2>5, <2>6, <3>1, SubmittedFine
    <3>3. Fine(t, rects, wanted)
      BY <2>8, <3>2 DEF Fine
    <3> QED BY <1>1, <2>7, <2>10, <3>1, <3>3
  <2> QED BY <2>9, <2>10
<1> QED BY <1>4, <1>5 DEF DamageInv, Types

(* present_plane brings what is in the dirty rectangle.                     *)
LEMMA InkPresentedFine ==
  ASSUME DamageInv, dirty # None, NEW s, Fine(s, {dirty}, Composed(base, ink))
  PROVE  Fine(InkPresented(s), {}, Composed(base, ink))
<1>1. PICK wanted \in Pictures : wanted = Composed(base, ink)
  BY Compositions DEF DamageInv, Types
<1>2. Legal(dirty)
  BY DEF DamageInv, Types, DirtyRects
<1>3. Fine(s, {dirty}, wanted)
  BY <1>1
<1>4. s \in States /\ s.working \in Pictures /\ s.presented = s.working
  BY <1>3 DEF Fine, States
<1>5. PICK composite : composite = Copied(s.working, wanted, {dirty})
  OBVIOUS
<1>6. /\ composite \in Pictures
      /\ \A p \in Grid : composite[p] = IF p \in Covered({dirty}) THEN wanted[p]
                                                                 ELSE s.presented[p]
  <2>1. Mix(composite, s.working, wanted, {dirty})
    BY <1>4, <1>5, Copies
  <2> QED BY <1>4, <2>1 DEF Mix
<1>7. PICK damage : damage = {r \in {dirty} : Changed(composite, s.presented, r)}
  OBVIOUS
<1>8. \A p \in Grid : composite[p] = wanted[p]
  BY <1>3, <1>6 DEF Fine
<1>9. composite = wanted
  BY <1>6, <1>8, SamePicture
<1>10. Covered({dirty}) = Within(dirty)
  BY DEF Covered
<1>11. PICK after : after = InkPresented(s)
  OBVIOUS
<1>12. CASE damage = {}
  <2>1. ~Changed(composite, s.presented, dirty)
    BY <1>7, <1>12
  <2>2. \A p \in Grid : composite[p] = s.presented[p]
    BY <1>6, <1>10, <2>1 DEF Changed
  <2>3. composite = s.presented
    BY <1>4, <1>6, <2>2, SamePicture
  <2>4. after = [s EXCEPT !.working = composite]
    BY <1>1, <1>5, <1>7, <1>11, <1>12 DEF InkPresented
  <2>5. after = s
    BY <1>3, <1>6, <2>3, <2>4, WorkingOnly
  <2>6. Fine(s, {}, wanted)
    BY <1>3, <1>8, <2>3 DEF Fine
  <2> QED BY <1>1, <1>11, <2>5, <2>6
<1>13. CASE damage # {}
  <2>1. damage = {dirty}
    BY <1>7, <1>13
  <2>2. PICK t : t = Submitted(s, composite, damage)
    OBVIOUS
  <2>3. \A p \in Grid : p \notin Covered(damage) => s.presented[p] = composite[p]
    BY <1>6, <2>1
  <2>4. /\ t \in States
        /\ t.working = composite /\ t.presented = composite /\ t.panel = composite
        /\ t.fast \subseteq Covered(t.settle)
    <3>1. \A r \in damage : Legal(r)
      BY <1>2, <2>1
    <3> QED BY <1>3, <1>6, <2>2, <2>3, <3>1, SubmittedFine
  <2>5. Copied(s.presented, composite, {dirty}) = composite
    BY <1>4, <1>5, <1>9
  <2>6. after = [t EXCEPT !.working = composite, !.presented = composite]
    BY <1>1, <1>5, <1>7, <1>11, <1>13, <2>1, <2>2, <2>5 DEF InkPresented
  <2>7. after = t
    BY <2>4, <2>6 DEF States
  <2>8. Fine(t, {}, wanted)
    BY <1>9, <2>4 DEF Fine
  <2> QED BY <1>1, <1>11, <2>7, <2>8
<1> QED BY <1>12, <1>13

--------------------------------------------------------------------------------
(* The pen.                                                                 *)

(* A point on the way to d is not past it.                                  *)
LEMMA Fraction ==
  ASSUME NEW d \in Nat, NEW n \in Nat \ {0}, NEW k \in 0..n
  PROVE  d * k \in Nat /\ (d * k) \div n \in 0..d
<1>1. 0 * d = 0 /\ k * d = d * k /\ n * d = d * n
  OBVIOUS
<1>2. d # 0 => 0 * d <= k * d /\ k * d <= n * d /\ k * d \in Int /\ n * d \in Int
  BY Times
<1>3. d = 0 => d * k = 0 /\ d * n = 0
  OBVIOUS
<1>4. d * k \in Nat /\ d * n \in Nat /\ d * k <= d * n
  BY <1>1, <1>2, <1>3
<1>5. PICK a \in Nat : a = d * k
  BY <1>4
<1>6. PICK q \in Nat : q = a \div n
  BY Division
<1>7. q * n <= a
  BY <1>6, Division
<1>8. q * n \in Int /\ d * n \in Int /\ (d + 1) * n = d * n + n /\ d + 1 \in Int
  BY Times
<1>9. q * n < (d + 1) * n
  BY <1>4, <1>5, <1>7, <1>8
<1>10. q < d + 1
  BY <1>8, <1>9, Times
<1> QED BY <1>5, <1>6, <1>10

LEMMA Between ==
  ASSUME NEW a \in Int, NEW b \in Int, NEW n \in Nat \ {0}, NEW k \in 0..n,
         NEW m, m = a + Truncated((b - a) * k, n)
  PROVE  m \in Int /\ Smaller(a, b) <= m /\ m <= Larger(a, b)
<1>1. CASE a <= b
  <2>1. PICK d \in Nat : d = b - a
    BY <1>1
  <2>2. d * k \in Nat /\ (d * k) \div n \in 0..d
    BY <2>1, Fraction
  <2>3. PICK c \in Nat : c = d * k
    BY <2>2
  <2>4. Truncated(c, n) = c \div n
    BY <2>3 DEF Truncated
  <2>5. PICK q \in 0..d : q = c \div n
    BY <2>2, <2>3
  <2>6. m = a + q
    BY <2>1, <2>3, <2>4, <2>5
  <2> QED BY <1>1, <2>1, <2>6 DEF Smaller, Larger
<1>2. CASE b < a
  <2>1. PICK d \in Nat : d = a - b
    BY <1>2
  <2>2. d * k \in Nat /\ (d * k) \div n \in 0..d
    BY <2>1, Fraction
  <2>3. PICK c \in Nat : c = d * k
    BY <2>2
  <2>4. (b - a) * k = -c
    BY <2>1, <2>3
  <2>5. PICK q \in 0..d : q = c \div n
    BY <2>2, <2>3
  <2>6. Truncated(-c, n) = -q
    <3>1. CASE c <= 0
      <4>1. -c = c
        BY <3>1
      <4>2. Truncated(-c, n) = q
        BY <2>4, <2>5, <3>1, <4>1 DEF Truncated
      <4>3. q * n <= 0
        BY <2>5, <3>1, Division
      <4>4. q * n < 1 * n /\ 1 \in Int /\ q \in Int
        BY <2>1, <4>3, Times
      <4>5. q < 1
        BY <4>4, Times
      <4> QED BY <2>1, <4>2, <4>5
    <3>2. CASE c > 0
      <4>1. -c < 0 /\ -(-c) = c
        BY <3>2
      <4> QED BY <2>5, <4>1 DEF Truncated
    <3> QED BY <3>1, <3>2
  <2>7. m = a - q
    BY <2>1, <2>4, <2>5, <2>6
  <2> QED BY <1>2, <2>1, <2>7 DEF Smaller, Larger
<1> QED BY <1>1, <1>2

(* A square is not negative, and the sides of a larger one are longer.      *)
LEMMA Squares ==
  ASSUME NEW x \in Int, NEW y \in Int, NEW r \in Nat, x * x + y * y <= r * r
  PROVE  -r <= x /\ x <= r /\ -r <= y /\ y <= r
<1>1. ASSUME NEW z \in Int PROVE z * z \in Int /\ z * z >= 0
  OBVIOUS
<1>2. x * x <= r * r /\ y * y <= r * r
  BY <1>1
<1>3. ASSUME NEW z \in Int, z * z <= r * r PROVE -r <= z /\ z <= r
  BY <1>3, SMTT(30)
<1> QED BY <1>2, <1>3

(* A nib reaches no further than its radius.                                *)
LEMMA DiscNear ==
  ASSUME NEW c \in Int \X Int, NEW radius \in Nat, NEW p \in Disc(c, radius)
  PROVE  /\ p \in Grid
         /\ c[1] - radius <= p[1] /\ p[1] <= c[1] + radius
         /\ c[2] - radius <= p[2] /\ p[2] <= c[2] + radius
<1>1. p \in Grid
  BY DEF Disc
<1>2. PICK x \in Int : x = p[1] - c[1]
  BY <1>1, Sizes DEF Grid
<1>3. PICK y \in Int : y = p[2] - c[2]
  BY <1>1, Sizes DEF Grid
<1>4. x * x + y * y <= radius * radius
  BY <1>2, <1>3 DEF Disc
<1>5. -radius <= x /\ x <= radius /\ -radius <= y /\ y <= radius
  BY <1>4, Squares
<1>6. p[1] \in Int /\ p[2] \in Int /\ c[1] \in Int /\ c[2] \in Int
  BY <1>1, Sizes DEF Grid
<1> QED BY <1>1, <1>2, <1>3, <1>5, <1>6

\* The first pixel of a segment in one dimension, and one past the last.
First(a, b, radius) == Larger(Smaller(a, b) - radius, 0)
Past(a, b, radius, limit) == Edge(Larger(a, b), radius, limit)

\* u and v enclose what a nib touches on its way from a to b.
Reaches(u, v, a, b, radius, limit) ==
  /\ u \in Nat /\ v \in Nat /\ u < v /\ v <= limit
  /\ \A m \in Int, x \in 0..limit - 1 :
       /\ Smaller(a, b) <= m /\ m <= Larger(a, b)
       /\ m - radius <= x /\ x <= m + radius
       => u <= x /\ x < v

LEMMA Extent ==
  ASSUME NEW limit \in Nat \ {0}, NEW a \in 0..limit - 1, NEW b \in 0..limit - 1,
         NEW radius \in Nat, NEW u, u = First(a, b, radius),
         NEW v, v = Past(a, b, radius, limit)
  PROVE  Reaches(u, v, a, b, radius, limit)
BY DEF First, Past, Edge, Larger, Smaller, Reaches

(* The dirty rectangle of a segment holds its pixels.                       *)
LEMMA SegmentInside ==
  ASSUME NEW from \in Grid, NEW to \in Grid, NEW radius \in Nat,
         NEW r, r = Bounds(from, to, radius)
  PROVE  /\ Legal(r)
         /\ Segment(from, to, radius) \subseteq Within(r)
         /\ Segment(from, to, radius) \subseteq Grid
<1>1. PICK a \in 0..Width - 1 : a = from[1]
  BY DEF Grid
<1>2. PICK b \in 0..Width - 1 : b = to[1]
  BY DEF Grid
<1>3. PICK c \in 0..Height - 1 : c = from[2]
  BY DEF Grid
<1>4. PICK d \in 0..Height - 1 : d = to[2]
  BY DEF Grid
<1>5. PICK u : u = First(a, b, radius)
  OBVIOUS
<1>6. PICK v : v = Past(a, b, radius, Width)
  OBVIOUS
<1>7. PICK w : w = First(c, d, radius)
  OBVIOUS
<1>8. PICK z : z = Past(c, d, radius, Height)
  OBVIOUS
<1>9. /\ u \in Nat /\ v \in Nat /\ u < v /\ v <= Width
      /\ \A m \in Int, x \in 0..Width - 1 :
           /\ Smaller(a, b) <= m /\ m <= Larger(a, b)
           /\ m - radius <= x /\ x <= m + radius
           => u <= x /\ x < v
  <2>1. Reaches(u, v, a, b, radius, Width)
    BY <1>5, <1>6, Sizes, Extent
  <2> QED BY <2>1 DEF Reaches
<1>10. /\ w \in Nat /\ z \in Nat /\ w < z /\ z <= Height
       /\ \A m \in Int, x \in 0..Height - 1 :
            /\ Smaller(c, d) <= m /\ m <= Larger(c, d)
            /\ m - radius <= x /\ x <= m + radius
            => w <= x /\ x < z
  <2>1. Reaches(w, z, c, d, radius, Height)
    BY <1>7, <1>8, Sizes, Extent
  <2> QED BY <2>1 DEF Reaches
<1>11. r = Rect(u, w, v - u, z - w)
  BY <1>1, <1>2, <1>3, <1>4, <1>5, <1>6, <1>7, <1>8 DEF Bounds, First, Past
<1>12. Legal(r)
  BY <1>9, <1>10, <1>11, Sizes DEF Legal, validate_rect, Rect
<1>13. PICK steps : steps = Larger(Larger(Abs(b - a), Abs(d - c)), 1)
  OBVIOUS
<1>14. steps \in Nat \ {0}
  <2>1. b - a \in Int /\ d - c \in Int
    BY Sizes
  <2>2. Abs(b - a) \in Nat /\ Abs(d - c) \in Nat
    BY <2>1 DEF Abs
  <2> QED BY <1>13, <2>2 DEF Larger
<1>15. ASSUME NEW p \in Segment(from, to, radius)
       PROVE  p \in Grid /\ p \in Within(r)
  <2>1. PICK k \in 0..steps :
               p \in Disc(<<a + Truncated((b - a) * k, steps),
                            c + Truncated((d - c) * k, steps)>>, radius)
    BY <1>1, <1>2, <1>3, <1>4, <1>13 DEF Segment
  <2>2. PICK m : m = a + Truncated((b - a) * k, steps)
    OBVIOUS
  <2>3. PICK l : l = c + Truncated((d - c) * k, steps)
    OBVIOUS
  <2>4. a \in Int /\ b \in Int /\ c \in Int /\ d \in Int
    BY Sizes
  <2>5. m \in Int /\ Smaller(a, b) <= m /\ m <= Larger(a, b)
    BY <1>14, <2>2, <2>4, Between
  <2>6. l \in Int /\ Smaller(c, d) <= l /\ l <= Larger(c, d)
    BY <1>14, <2>3, <2>4, Between
  <2>7. p \in Disc(<<m, l>>, radius)
    BY <2>1, <2>2, <2>3
  <2>8. /\ p \in Grid
        /\ m - radius <= p[1] /\ p[1] <= m + radius
        /\ l - radius <= p[2] /\ p[2] <= l + radius
    <3>1. PICK q \in Int \X Int : q = <<m, l>>
      BY <2>5, <2>6
    <3>2. p \in Disc(q, radius) /\ q[1] = m /\ q[2] = l
      BY <2>7, <3>1
    <3>3. /\ p \in Grid
          /\ q[1] - radius <= p[1] /\ p[1] <= q[1] + radius
          /\ q[2] - radius <= p[2] /\ p[2] <= q[2] + radius
      BY <3>2, DiscNear
    <3> QED BY <3>2, <3>3
  <2>9. p[1] \in 0..Width - 1 /\ p[2] \in 0..Height - 1
    BY <2>8 DEF Grid
  <2>10. u <= p[1] /\ p[1] < v /\ w <= p[2] /\ p[2] < z
    BY <1>9, <1>10, <2>5, <2>6, <2>8, <2>9
  <2>11. Inside(r, p)
    BY <1>9, <1>10, <1>11, <2>9, <2>10 DEF Inside, Rect
  <2> QED BY <1>12, <2>8, <2>11, Pixels
<1> QED BY <1>12, <1>15

--------------------------------------------------------------------------------
(* The steps.                                                               *)

LEMMA DamageInitially == DamageInit => DamageInv
<1> SUFFICES ASSUME DamageInit PROVE DamageInv
  OBVIOUS
<1>1. Blank \in Pictures
  BY DEF Blank, Pictures
<1>2. DirtyRects = {}
  BY DEF DamageInit, DirtyRects
<1>3. Types
  BY <1>1, <1>2, Sizes DEF DamageInit, Types
<1>4. \A p \in Grid : presented[p] = Composed(base, ink)[p]
  BY DEF DamageInit, Composed, Blank
<1>5. BehindInside
  BY <1>4 DEF DamageInit, BehindInside
<1>6. SettleOK
  BY DEF DamageInit, SettleOK, Covered
<1> QED BY <1>3, <1>5, <1>6 DEF DamageInit, DamageInv, DeltaReproduces, OnePicture

(* An accepted delta: the panel is behind in its regions too.               *)
LEMMA SendDeltaKeeps ==
  ASSUME DamageInv, NEW change, SendDelta(change)
  PROVE  DamageInv'
<1>1. PICK next : next = [p \in Grid |-> IF p \in change THEN 1 - picture[p]
                                                        ELSE picture[p]]
  OBVIOUS
<1>2. PICK rects : rects = encode_delta_regions(picture, next, tile, max_regions)
  OBVIOUS
<1>3. /\ dirty = None /\ picture' = next
      /\ rejected' = (rejected \/ ~Accepted(rects))
      /\ base' = IF Accepted(rects) THEN Copied(base, next, rects) ELSE base
      /\ hint' = IF Accepted(rects) THEN rects \cup hint ELSE hint
      /\ pending' = (pending \/ Accepted(rects))
  BY <1>1, <1>2 DEF SendDelta
<1>4. UNCHANGED <<tile, max_regions, working, presented, ink, pen_point, dirty,
                  settle_damage, panel, fast>>
  BY DEF SendDelta, inkVars
<1>5. Types /\ ~rejected /\ base = picture /\ OnePicture /\ BehindInside /\ SettleOK
  BY DEF DamageInv, DeltaReproduces
<1>6. picture \in Pictures /\ tile \in Nat /\ max_regions \in Nat \ {0}
  BY <1>5 DEF Types
<1>7. next \in Pictures
  BY <1>1, <1>6 DEF Pictures, Black, White
<1>8. /\ Orderly(rects, max_regions)
      /\ \A p \in Grid : picture[p] # next[p] => p \in Covered(rects)
  BY <1>2, <1>6, Encoding
<1>9. Accepted(rects)
  BY <1>8 DEF Accepted, Orderly, Legal
<1>10. PICK copied : copied = Copied(picture, next, rects)
  OBVIOUS
<1>11. Mix(copied, picture, next, rects)
  BY <1>6, <1>7, <1>10, Copies
<1>12. copied \in Pictures /\ \A p \in Grid : copied[p] = next[p]
  BY <1>8, <1>11 DEF Mix
<1>13. copied = next
  BY <1>7, <1>12, SamePicture
<1>14. base' = next /\ picture' = next /\ ~rejected' /\ pending' /\ hint' = rects \cup hint
  BY <1>3, <1>5, <1>9, <1>10, <1>13
<1>15. DirtyRects = {} /\ DirtyRects' = {}
  BY <1>3, <1>4 DEF DirtyRects
<1>16. Types'
  <2>1. \A r \in (hint \cup DirtyRects)' : Legal(r)
    BY <1>5, <1>8, <1>14, <1>15 DEF Types, Orderly
  <2>2. pending' \in BOOLEAN /\ rejected' \in BOOLEAN
    BY <1>3, <1>14
  <2> QED BY <1>4, <1>5, <1>7, <1>14, <2>1, <2>2 DEF Types
<1>17. BehindInside'
  <2>1. ASSUME NEW p \in Grid, p \notin Covered(hint' \cup {})
        PROVE  presented'[p] = Composed(base', ink')[p]
    <3>1. p \notin Covered(rects) /\ p \notin Covered(hint \cup {})
      BY <1>14, <2>1 DEF Covered
    <3>2. next[p] = picture[p]
      BY <1>8, <3>1
    <3>3. presented[p] = Composed(picture, ink)[p]
      BY <1>5, <1>15, <3>1 DEF BehindInside
    <3>4. Composed(next, ink)[p] = Composed(picture, ink)[p]
      BY <3>2 DEF Composed
    <3> QED BY <1>4, <1>14, <3>3, <3>4
  <2> QED BY <1>14, <1>15, <2>1 DEF BehindInside
<1>18. DeltaReproduces' /\ OnePicture' /\ SettleOK'
  BY <1>4, <1>5, <1>14 DEF DeltaReproduces, OnePicture, SettleOK
<1> QED BY <1>16, <1>17, <1>18 DEF DamageInv

\* The state that the next presentation starts from.
LEMMA FineNow ==
  ASSUME DamageInv
  PROVE  Fine(Now, hint \cup DirtyRects, Composed(base, ink))
BY DEF DamageInv, Types, OnePicture, BehindInside, SettleOK, Fine, States, Now

(* After a presentation nothing waits and the panel is up to date.          *)
LEMMA PresentedKeeps ==
  ASSUME DamageInv, NEW s, Fine(s, {}, Composed(base, ink)), Install(s),
         ~pending', pending' \in BOOLEAN, hint' = {}, dirty' = None,
         UNCHANGED <<producerVars, base, inkVars>>
  PROVE  DamageInv'
<1>1. DirtyRects' = {}
  BY DEF DirtyRects
<1>2. UNCHANGED <<tile, max_regions, picture, rejected, base, ink, pen_point>>
  BY DEF producerVars, inkVars
<1>3. /\ s \in States /\ s.working = s.presented /\ s.panel = s.presented
      /\ s.fast \subseteq Covered(s.settle)
      /\ \A p \in Grid : s.presented[p] = Composed(base, ink)[p]
  BY DEF Fine, Covered
<1>4. /\ working' = s.working /\ presented' = s.presented /\ panel' = s.panel
      /\ settle_damage' = s.settle /\ fast' = s.fast
  BY DEF Install
<1>5. Types'
  BY <1>1, <1>2, <1>3, <1>4 DEF DamageInv, Types, States
<1>6. DeltaReproduces' /\ OnePicture'
  BY <1>2, <1>3, <1>4 DEF DamageInv, DeltaReproduces, OnePicture
<1>7. BehindInside'
  BY <1>2, <1>3, <1>4 DEF BehindInside
<1>8. SettleOK'
  BY <1>3, <1>4 DEF SettleOK, States
<1> QED BY <1>5, <1>6, <1>7, <1>8 DEF DamageInv

LEMMA TickKeeps ==
  ASSUME DamageInv, Tick
  PROVE  DamageInv'
<1>1. /\ pending' = FALSE /\ hint' = {} /\ dirty = None /\ dirty' = None
      /\ Install(Ticked(Now)) /\ UNCHANGED <<producerVars, base, inkVars>>
  BY DEF Tick
<1>2. Fine(Now, hint \cup {}, Composed(base, ink))
  BY <1>1, FineNow DEF DirtyRects
<1>3. PICK s : s = Ticked(Now)
  OBVIOUS
<1>4. Fine(s, {}, Composed(base, ink))
  BY <1>2, <1>3, TickedFine
<1> QED BY <1>1, <1>3, <1>4, PresentedKeeps

LEMMA PresentInkKeeps ==
  ASSUME DamageInv, PresentInk
  PROVE  DamageInv'
<1>1. /\ pending' = FALSE /\ hint' = {} /\ dirty # None /\ dirty' = None
      /\ Install(InkPresented(Ticked(Now))) /\ UNCHANGED <<producerVars, base, inkVars>>
  BY DEF PresentInk
<1>2. Fine(Now, hint \cup {dirty}, Composed(base, ink))
  BY <1>1, FineNow DEF DirtyRects
<1>3. PICK s : s = Ticked(Now)
  OBVIOUS
<1>4. Fine(s, {dirty}, Composed(base, ink))
  BY <1>2, <1>3, TickedFine
<1>5. PICK t : t = InkPresented(s)
  OBVIOUS
<1>6. Fine(t, {}, Composed(base, ink))
  BY <1>1, <1>4, <1>5, InkPresentedFine
<1> QED BY <1>1, <1>3, <1>5, <1>6, PresentedKeeps

(* A rectangle is not mistaken for a missing one.                           *)
LEMMA LegalIsNotNone ==
  ASSUME NEW r, Legal(r)
  PROVE  r # None
BY DEF Legal, None

(* The dirty rectangle grows by the pixels of a record.                     *)
LEMMA InkRecordKeeps ==
  ASSUME DamageInv, NEW point \in PenPoints, NEW erase \in BOOLEAN,
         InkRecord(point, erase)
  PROVE  DamageInv'
<1>1. PICK from : from = IF pen_point = None THEN point ELSE pen_point
  OBVIOUS
<1>2. PICK radius : radius = IF erase THEN EraserRadius ELSE PenRadius
  OBVIOUS
<1>3. PICK pixels : pixels = Segment(from, point, radius)
  OBVIOUS
<1>4. PICK r : r = Bounds(from, point, radius)
  OBVIOUS
<1>5. /\ ink' = IF erase THEN ink \ pixels ELSE ink \cup pixels
      /\ dirty' = MoreDirty(r) /\ pen_point' = point
  BY <1>1, <1>2, <1>3, <1>4 DEF InkRecord
<1>6. UNCHANGED <<tile, max_regions, picture, rejected, base, pending, hint, working,
                  presented, settle_damage, panel, fast>>
  BY DEF InkRecord, producerVars
<1>7. Types /\ DeltaReproduces /\ OnePicture /\ BehindInside /\ SettleOK
  BY DEF DamageInv
<1>8. from \in Grid /\ point \in Grid /\ radius \in Nat
  BY <1>1, <1>2, <1>7, Sizes DEF Types
<1>9. Legal(r) /\ pixels \subseteq Within(r) /\ pixels \subseteq Grid
  BY <1>3, <1>4, <1>8, SegmentInside
<1>10. PICK d : d = dirty'
  OBVIOUS
<1>11. /\ Legal(d) /\ Within(r) \subseteq Within(d)
       /\ dirty # None => Within(dirty) \subseteq Within(d)
  <2>1. CASE dirty = None
    BY <1>5, <1>9, <1>10, <2>1 DEF MoreDirty
  <2>2. CASE dirty # None
    <3>1. Legal(dirty)
      BY <1>7, <2>2 DEF Types, DirtyRects
    <3>2. d = Bounding({r, dirty})
      BY <1>5, <1>10, <2>2 DEF MoreDirty
    <3>3. {r, dirty} # {} /\ \A q \in {r, dirty} : Legal(q)
      BY <1>9, <3>1
    <3>4. Legal(d) /\ \A q \in {r, dirty} : Within(q) \subseteq Within(d)
      BY <3>2, <3>3, BoundingHolds
    <3> QED BY <3>4
  <2> QED BY <2>1, <2>2
<1>12. DirtyRects' = {d}
  BY <1>10, <1>11, LegalIsNotNone DEF DirtyRects
<1>13. Types'
  <2>1. \A q \in (hint \cup DirtyRects)' : Legal(q)
    BY <1>6, <1>7, <1>11, <1>12 DEF Types
  <2>2. ink' \subseteq Grid
    BY <1>5, <1>7, <1>9 DEF Types
  <2> QED BY <1>5, <1>6, <1>7, <1>8, <2>1, <2>2 DEF Types
<1>14. BehindInside'
  <2>1. ASSUME NEW p \in Grid, p \notin Covered(hint \cup {d})
        PROVE  presented[p] = Composed(base, ink')[p]
    <3>1. p \notin Covered(hint \cup DirtyRects)
      BY <1>11, <2>1 DEF Covered, DirtyRects
    <3>2. p \notin Within(d)
      BY <2>1 DEF Covered
    <3>3. p \notin pixels
      BY <1>9, <1>11, <3>2
    <3>4. presented[p] = Composed(base, ink)[p]
      BY <1>7, <3>1 DEF BehindInside
    <3>5. p \in ink' <=> p \in ink
      BY <1>5, <3>3
    <3>6. Composed(base, ink')[p] = Composed(base, ink)[p]
      BY <3>5 DEF Composed
    <3> QED BY <3>4, <3>6
  <2> QED BY <1>6, <1>7, <1>12, <2>1 DEF BehindInside
<1>15. DeltaReproduces' /\ OnePicture' /\ SettleOK'
  BY <1>6, <1>7 DEF DeltaReproduces, OnePicture, SettleOK
<1> QED BY <1>13, <1>14, <1>15 DEF DamageInv

\* What neither the end of a stroke nor a stutter changes.
kept == <<tile, max_regions, picture, rejected, base, pending, hint, working,
          presented, ink, dirty, settle_damage, panel, fast>>

LEMMA PenPointOnly ==
  ASSUME DamageInv, UNCHANGED kept, pen_point' \in {pen_point, None}
  PROVE  DamageInv'
<1>1. DirtyRects' = DirtyRects
  BY DEF kept, DirtyRects
<1>2. Types'
  BY <1>1 DEF DamageInv, Types, kept
<1>3. BehindInside'
  BY <1>1 DEF DamageInv, BehindInside, kept
<1>4. DeltaReproduces' /\ OnePicture' /\ SettleOK'
  BY DEF DamageInv, DeltaReproduces, OnePicture, SettleOK, kept
<1> QED BY <1>2, <1>3, <1>4 DEF DamageInv

LEMMA DamageSteps == DamageInv /\ [DamageNext]_vars => DamageInv'
<1> SUFFICES ASSUME DamageInv, [DamageNext]_vars PROVE DamageInv'
  OBVIOUS
<1>1. ASSUME NEW change \in Changes, SendDelta(change) PROVE DamageInv'
  BY <1>1, SendDeltaKeeps
<1>2. CASE Tick
  BY <1>2, TickKeeps
<1>3. ASSUME NEW point \in PenPoints, NEW erase \in BOOLEAN, InkRecord(point, erase)
      PROVE  DamageInv'
  BY <1>3, InkRecordKeeps
<1>4. CASE PresentInk
  BY <1>4, PresentInkKeeps
<1>5. CASE LiftPen
  BY <1>5, PenPointOnly DEF LiftPen, kept, producerVars
<1>6. CASE UNCHANGED vars
  BY <1>6, PenPointOnly DEF vars, kept
<1> QED BY <1>1, <1>2, <1>3, <1>4, <1>5, <1>6 DEF DamageNext

(* The inductive invariant: the panel is behind the picture at most inside  *)
(* the waiting hint and the dirty rectangle (damage_hint, take_dirty).      *)
THEOREM DamageInvariant == DamageSpec => []DamageInv
BY DamageInitially, DamageSteps, PTL DEF DamageSpec

(* The receiver accepts every delta and then has the producer's picture,    *)
(* for every tile size, region limit and pair of pictures                   *)
(* (encode_delta_regions, validate_and_decode_frame).                       *)
THEOREM DeltasReproduce == DamageSpec => []DeltaReproduces
<1>1. DamageInv => DeltaReproduces
  BY DEF DamageInv
<1> QED BY <1>1, DamageInvariant, PTL

(* With nothing waiting every pixel of the panel shows the picture under    *)
(* the ink (tile_damage_regions, present_plane).                            *)
THEOREM PixelsAreShown == DamageSpec => []PixelsShown
<1>1. DamageInv => PixelsShown
  <2> SUFFICES ASSUME DamageInv, ~pending, dirty = None
               PROVE  /\ panel = Composed(base, ink)
                      /\ working = panel /\ presented = panel
    BY DEF PixelsShown
  <2>1. hint \cup DirtyRects = {}
    BY DEF DamageInv, BehindInside, DirtyRects
  <2>2. \A p \in Grid : presented[p] = Composed(base, ink)[p]
    BY <2>1 DEF DamageInv, BehindInside, Covered
  <2>3. presented \in Pictures /\ Composed(base, ink) \in Pictures
    BY Compositions DEF DamageInv, Types
  <2>4. presented = Composed(base, ink)
    BY <2>2, <2>3, SamePicture
  <2> QED BY <2>4 DEF DamageInv, OnePicture
<1> QED BY <1>1, DamageInvariant, PTL

(* The settle region holds every fast pixel, in disjoint tiles              *)
(* (merge_tiled_damage, damage_pixels).                                     *)
THEOREM SettleIsExact == DamageSpec => []SettleRegionExact
<1>1. DamageInv => SettleRegionExact
  <2> SUFFICES ASSUME DamageInv PROVE SettleRegionExact
    OBVIOUS
  <2>1. ASSUME NEW a \in settle_damage, NEW b \in settle_damage, overlaps(a, b)
        PROVE  a = b
    <3>1. PICK t \in Columns(DamageTile) \X Rows(DamageTile) :
                 a = TileRect(DamageTile, t[1], t[2])
      BY DEF DamageInv, SettleOK, DamageTiles
    <3>2. PICK q \in Columns(DamageTile) \X Rows(DamageTile) :
                 b = TileRect(DamageTile, q[1], q[2])
      BY DEF DamageInv, SettleOK, DamageTiles
    <3>3. t[1] = q[1] /\ t[2] = q[2]
      BY <2>1, <3>1, <3>2, Sizes, TilesApart
    <3> QED BY <3>1, <3>2, <3>3
  <2> QED BY <2>1 DEF DamageInv, SettleOK, SettleRegionExact
<1> QED BY <1>1, DamageInvariant, PTL
================================================================================
