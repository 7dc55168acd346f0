---------------------------- MODULE TilingProofs ----------------------------
(***************************************************************************)
(* Tiled processing: for every size of image and tile, every overlap up to *)
(* a half and every scale, no tile reads or writes outside the images,     *)
(* every pixel is written with weights that add up to one, and progress    *)
(* does not run past its end.                                              *)
(*                                                                         *)
(* The copies check no bounds, so the first rests on where a tile is put.  *)
(* The running position itself may be anywhere: the invariant says where   *)
(* the current row is and what the tile merged last was given.  The sums   *)
(* of the weights rest on how far the tiles before it reached: what one    *)
(* tile leaves to be blended, the next one adds.                           *)
(***************************************************************************)
EXTENDS Tiling, TLAPS

Positive == Nat \ {0}

Integral == Pairs(Int)

InputsOK == small \in Pairs(Positive) /\ tile \in Pairs(Positive) /\ scale \in Positive

PositionsOK == pos \in Integral /\ at \in Integral /\ skip \in Integral /\ overlap \in Integral

\* The row that is being tiled lies inside and writes something.
RowInside ==
  tilingPc = "tiles" => pos.y + TileSize.y <= small.y /\ skip.y < TileSize.y * scale

Inside(a) == at[a] + TileSize[a] <= small[a] /\ skip[a] < TileSize[a] * scale

TileInside == count > 0 => \A a \in Axes : Inside(a)

\* The inductive invariant: of the counts it says nothing but that they count.
TilingInv ==
  /\ InputsOK
  /\ PositionsOK
  /\ count \in Nat
  /\ RowInside
  /\ TileInside

-----------------------------------------------------------------------------
(* The overlaps are whole numbers *)

\* A factor of at most one half leaves a tile more than its overlap
\* (sd_tiling_calc_tiles divides by the difference).
LEMMA OverlapLess ==
  ASSUME NEW t \in Positive, NEW o1 \in Nat, NEW o2 \in Positive, 2 * o1 <= o2
  PROVE  (t * o1) \div o2 \in Nat /\ (t * o1) \div o2 < t
PROOF
<1> DEFINE p == t * o1
           q == p \div o2
<1>1. p \in Nat
  BY DEF Positive
<1>2. q \in Int /\ q * o2 <= p /\ q >= 0
  <2> HIDE DEF p
  <2> QED
    BY <1>1 DEF Positive
<1>3. 2 * p <= t * o2
  BY DEF Positive
<1>4. t * o2 < 2 * (t * o2)
  BY DEF Positive
<1>5. ASSUME q >= t PROVE FALSE
  <2>1. q * o2 >= t * o2
    BY <1>2, <1>5 DEF Positive
  <2> HIDE DEF p, q
  <2>2. t * o2 \in Int /\ q * o2 \in Int
    BY <1>2 DEF Positive
  <2> QED
    BY <1>1, <1>2, <1>3, <1>4, <2>1, <2>2
<1> HIDE DEF q
<1>6. q \in Nat /\ q < t
  BY <1>2, <1>5 DEF Positive
<1> QED
  BY <1>6 DEF q

\* A quotient of integers is an integer (C's division in sd_tiling_calc_tiles).
LEMMA QuotientInt ==
  ASSUME NEW a \in Int, NEW b \in Positive
  PROVE  Quotient(a, b) \in Int
PROOF
<1>1. a \div b \in Int /\ (-a) \div b \in Int
  BY DEF Positive
<1> QED
  BY <1>1 DEF Quotient

\* However the tiles are counted, there is at least one of them.
LEMMA TilesPositive ==
  ASSUME NEW size \in Positive, NEW t \in Positive, NEW target,
         target[1] \in Nat, target[2] \in Positive, 2 * target[1] <= target[2]
  PROVE  TilesOf(size, t, target) \in Positive
PROOF
<1> DEFINE o == (t * target[1]) \div target[2]
           n == Quotient(size - o, t - o)
<1>1. o \in Nat /\ o < t
  BY OverlapLess
<1>2. size - o \in Int /\ t - o \in Positive
  <2> HIDE DEF o
  <2> QED
    BY <1>1 DEF Positive
<1>3. n \in Int
  BY <1>2, QuotientInt
<1>4. NumTiles(size, t, target) \in {n, n + 1}
  BY DEF NumTiles
<1> HIDE DEF n
<1> QED
  BY <1>3, <1>4 DEF TilesOf, Positive

\* The overlap that is spread over the tiles is a whole number of pixels.
LEMMA OverlapsInt ==
  ASSUME NEW size \in Positive, NEW t \in Positive, NEW n \in Positive
  PROVE  OverlapsOf(size, t, n) \subseteq Int
PROOF
<1> DEFINE whole == Quotient(t * n - size, n - 1)
<1>1. CASE n = 1
  BY <1>1 DEF OverlapsOf
<1>2. CASE n # 1
  <2>1. t * n - size \in Int /\ n - 1 \in Positive
    BY <1>2 DEF Positive
  <2>2. whole \in Int
    BY <2>1, QuotientInt
  <2>3. OverlapsOf(size, t, n) \subseteq {whole, whole - 1}
    <3> DEFINE again == whole > 0 /\ (t * n - size) % (n - 1) = 0
    <3>1. OverlapsOf(size, t, n) = {whole} \cup (IF again THEN {whole - 1} ELSE {})
      BY <1>2 DEF OverlapsOf
    <3> HIDE DEF whole, again
    <3> QED
      BY <3>1
  <2> HIDE DEF whole
  <2> QED
    BY <2>2, <2>3
<1> QED
  BY <1>1, <1>2

-----------------------------------------------------------------------------
(* Where a tile is put *)

LEMMA TileSizePositive ==
  ASSUME InputsOK
  PROVE  TileSize \in Pairs(Positive)
PROOF
  BY DEF InputsOK, TileSize, Pairs, Axes

LEMMA ScaledLess ==
  ASSUME NEW a \in Int, NEW b \in Int, a < b, NEW s \in Positive
  PROVE  a * s \in Int /\ a * s < b * s
PROOF
  BY DEF Positive

\* A tile is put inside the image, and unless the running position is past the
\* end, what it leaves to its neighbour is less than the tile.
LEMMA PlaceInside ==
  ASSUME InputsOK, pos \in Integral, NEW a \in Axes, pos[a] < small[a]
  PROVE  /\ Place(a) \in Int /\ (pos[a] - Place(a)) * scale \in Int
         /\ Place(a) + TileSize[a] <= small[a]
         /\ (pos[a] - Place(a)) * scale < TileSize[a] * scale
PROOF
<1>1. pos[a] \in Int /\ small[a] \in Positive /\ scale \in Positive
  BY DEF InputsOK, Integral, Pairs, Axes
<1>2. TileSize[a] \in Positive
  BY TileSizePositive DEF Pairs, Axes
<1>3. Place(a) \in Int /\ Place(a) + TileSize[a] <= small[a]
  BY <1>1, <1>2 DEF Place, Ends, Positive
<1>4. pos[a] - Place(a) \in Int /\ pos[a] - Place(a) < TileSize[a]
  BY <1>1, <1>2 DEF Place, Ends, Positive
<1> HIDE DEF Place
<1> QED
  BY <1>1, <1>2, <1>3, <1>4, ScaledLess DEF Positive

-----------------------------------------------------------------------------
(* The invariant is inductive *)

\* Before the first tile nothing is claimed.
LEMMA TilingInitially == TilingInit => TilingInv
PROOF
<1> SUFFICES ASSUME TilingInit PROVE TilingInv
  OBVIOUS
<1>1. InputsOK
  BY TilingAssumption DEF TilingInit, InputsOK, Pairs, Positive
<1>2. PositionsOK
  BY DEF TilingInit, PositionsOK, Integral, Pairs, Origin
<1> QED
  BY <1>1, <1>2 DEF TilingInit, TilingInv, RowInside, TileInside

\* Counting the tiles yields whole overlaps, whatever the target.
LEMMA CountPreserves == ASSUME TilingInv, CountTiles PROVE TilingInv'
PROOF
<1>1. UNCHANGED <<inputs, pos, at, skip, count>> /\ tilingPc' = "rows"
  BY DEF CountTiles
<1>2. InputsOK' /\ TileSize' = TileSize
  BY <1>1 DEF TilingInv, InputsOK, inputs, TileSize
<1>3. PICK target \in Overlaps : num' = [a \in Axes |-> TilesOf(small[a], tile[a], target)]
  BY DEF CountTiles
<1>4. target[1] \in Nat /\ target[2] \in Positive /\ 2 * target[1] <= target[2]
  BY TilingAssumption DEF Positive
<1>5. small.x \in Positive /\ small.y \in Positive /\ tile.x \in Positive /\ tile.y \in Positive
  BY DEF TilingInv, InputsOK, Pairs
<1>6. num'.x = TilesOf(small.x, tile.x, target) /\ num'.y = TilesOf(small.y, tile.y, target)
  BY <1>3 DEF Axes
<1>7. num'.x \in Positive /\ num'.y \in Positive
  BY <1>4, <1>5, <1>6, TilesPositive
<1>8. PICK ox \in OverlapsOf(small.x, tile.x, num'.x), oy \in OverlapsOf(small.y, tile.y, num'.y) :
        overlap' = [x |-> ox, y |-> oy]
  BY DEF CountTiles
<1>9. ox \in Int /\ oy \in Int
  BY <1>5, <1>7, <1>8, OverlapsInt
<1>10. PositionsOK'
  BY <1>1, <1>8, <1>9 DEF TilingInv, PositionsOK, Integral, Pairs
<1>11. RowInside' /\ TileInside'
  BY <1>1, <1>2 DEF TilingInv, RowInside, TileInside, Inside, inputs
<1> QED
  BY <1>1, <1>2, <1>10, <1>11 DEF TilingInv

\* A row that ends with the image is moved back into it.
LEMMA RowPreserves == ASSUME TilingInv, NextRow PROVE TilingInv'
PROOF
<1>1. /\ UNCHANGED <<inputs, geometry, at, count>> /\ pos' = [x |-> 0, y |-> Place("y")]
      /\ skip' = [skip EXCEPT !.y = (pos.y - Place("y")) * scale] /\ pos.y < small.y
  BY DEF NextRow
<1>2. InputsOK' /\ TileSize' = TileSize
  BY <1>1 DEF TilingInv, InputsOK, inputs, TileSize
<1>3. /\ Place("y") \in Int /\ (pos.y - Place("y")) * scale \in Int
      /\ Place("y") + TileSize.y <= small.y
      /\ (pos.y - Place("y")) * scale < TileSize.y * scale
  BY <1>1, PlaceInside DEF TilingInv, PositionsOK, Axes
<1> HIDE DEF Place
<1>4. skip \in Integral /\ skip'.x = skip.x /\ skip'.y = (pos.y - Place("y")) * scale
  BY <1>1 DEF TilingInv, PositionsOK, Integral, Pairs
<1>5. skip' \in Integral /\ pos' \in Integral
  BY <1>1, <1>3, <1>4 DEF Integral, Pairs
<1>6. PositionsOK'
  BY <1>1, <1>5 DEF TilingInv, PositionsOK, geometry
<1>7. RowInside'
  BY <1>1, <1>2, <1>3, <1>4 DEF RowInside, inputs
<1>8. TileInside'
  BY <1>1, <1>2, <1>3, <1>4 DEF TilingInv, TileInside, Inside, Axes, inputs
<1> QED
  BY <1>1, <1>2, <1>6, <1>7, <1>8 DEF TilingInv

\* A tile that ends with the image is moved back into it.
LEMMA TilePreserves == ASSUME TilingInv, NextTile PROVE TilingInv'
PROOF
<1>1. /\ UNCHANGED <<tilingPc, inputs, geometry>> /\ at' = [x |-> Place("x"), y |-> pos.y]
      /\ skip' = [skip EXCEPT !.x = (pos.x - Place("x")) * scale] /\ pos.x < small.x
      /\ pos' = [pos EXCEPT !.x = Place("x") + Stride.x] /\ tilingPc = "tiles"
      /\ count' = count + 1
  BY DEF NextTile
<1>2. InputsOK' /\ TileSize' = TileSize
  BY <1>1 DEF TilingInv, InputsOK, inputs, TileSize
<1>3. /\ Place("x") \in Int /\ (pos.x - Place("x")) * scale \in Int
      /\ Place("x") + TileSize.x <= small.x
      /\ (pos.x - Place("x")) * scale < TileSize.x * scale
  BY <1>1, PlaceInside DEF TilingInv, PositionsOK, Axes
<1>4. Stride.x \in Int
  BY DEF TilingInv, InputsOK, PositionsOK, Integral, Pairs, Stride, Axes, Positive
<1> HIDE DEF Place, Stride
<1>5. /\ skip \in Integral /\ skip'.y = skip.y /\ skip'.x = (pos.x - Place("x")) * scale
      /\ pos \in Integral /\ pos'.y = pos.y /\ pos'.x = Place("x") + Stride.x
  BY <1>1 DEF TilingInv, PositionsOK, Integral, Pairs
<1>6. skip' \in Integral /\ pos' \in Integral /\ at' \in Integral
  BY <1>1, <1>3, <1>4, <1>5 DEF Integral, Pairs
<1>7. PositionsOK'
  BY <1>1, <1>6 DEF TilingInv, PositionsOK, geometry
<1>8. RowInside' /\ pos.y + TileSize.y <= small.y /\ skip.y < TileSize.y * scale
  BY <1>1, <1>2, <1>5 DEF TilingInv, RowInside, inputs
<1>9. TileInside'
  <2>1. small' = small /\ scale' = scale
    BY <1>1 DEF inputs
  <2>2. at'["x"] + TileSize'["x"] <= small'["x"] /\ skip'["x"] < TileSize'["x"] * scale'
    BY <1>1, <1>2, <1>3, <1>5, <2>1
  <2>3. at'["y"] + TileSize'["y"] <= small'["y"] /\ skip'["y"] < TileSize'["y"] * scale'
    BY <1>1, <1>2, <1>5, <1>8, <2>1
  <2> QED
    BY <2>2, <2>3 DEF TileInside, Inside, Axes
<1> QED
  BY <1>1, <1>2, <1>7, <1>8, <1>9 DEF TilingInv

\* After a row the position moves on by a whole number, and nothing is tiled.
LEMMA RowDonePreserves == ASSUME TilingInv, RowDone PROVE TilingInv'
PROOF
<1>1. /\ UNCHANGED <<inputs, geometry, at, skip, count>> /\ tilingPc' = "rows"
      /\ pos' = [pos EXCEPT !.y = pos.y + Stride.y]
  BY DEF RowDone
<1>2. InputsOK' /\ TileSize' = TileSize
  BY <1>1 DEF TilingInv, InputsOK, inputs, TileSize
<1>3. Stride.y \in Int
  BY DEF TilingInv, InputsOK, PositionsOK, Integral, Pairs, Stride, Axes, Positive
<1>4. pos' \in Integral
  BY <1>1, <1>3 DEF TilingInv, PositionsOK, Integral, Pairs
<1>5. PositionsOK'
  BY <1>1, <1>4 DEF TilingInv, PositionsOK, geometry
<1>6. RowInside' /\ TileInside'
  BY <1>1, <1>2 DEF TilingInv, RowInside, TileInside, Inside, inputs
<1> QED
  BY <1>1, <1>2, <1>5, <1>6 DEF TilingInv

\* The end, and a stutter, change nothing the invariant is about.
LEMMA RestPreserves ==
  ASSUME TilingInv, TilesDone \/ UNCHANGED tilingVars
  PROVE  TilingInv'
PROOF
<1>1. /\ UNCHANGED <<inputs, geometry, pos, at, skip, count>>
      /\ tilingPc' = tilingPc \/ tilingPc' = "done"
  BY DEF TilesDone, tilingVars
<1>2. InputsOK' /\ TileSize' = TileSize
  BY <1>1 DEF TilingInv, InputsOK, inputs, TileSize
<1>3. PositionsOK'
  BY <1>1 DEF TilingInv, PositionsOK, geometry
<1>4. RowInside' /\ TileInside'
  BY <1>1, <1>2 DEF TilingInv, RowInside, TileInside, Inside, inputs
<1> QED
  BY <1>1, <1>2, <1>3, <1>4 DEF TilingInv

\* What the invariant says of the tile merged last is what the run checks.
LEMMA TilingImplied == TilingInv => TilesInside
PROOF
  BY DEF TilingInv, TileInside, Inside, TilesInside

\* The invariant of tiled processing (sd_tiling_non_square) holds in every state.
THEOREM TilingInvariance == TilingSpec => []TilingInv
PROOF
<1>1. TilingInv /\ [TilingNext]_tilingVars => TilingInv'
  BY CountPreserves, RowPreserves, TilePreserves, RowDonePreserves, RestPreserves
     DEF TilingNext, TilingEnded
<1> QED
  BY TilingInitially, <1>1, PTL DEF TilingSpec

\* For every size, tile, overlap and scale, no tile reaches outside the images,
\* and none is empty (ggml_ext_tensor_split_2d and merge_2d check no bounds).
THEOREM NoTileOutside == TilingSpec => []TilesInside
PROOF
  BY TilingInvariance, TilingImplied, PTL

-----------------------------------------------------------------------------
(* How far the tiles are spread *)

\* n tiles of size t reach over a size of s with an overlap of o: they are more
\* than one only if they have to be, and three of them do not meet.
Spread(s, t, n, o) ==
  /\ o \in Nat /\ o < t
  /\ n = 1 => s <= t /\ o = 0
  /\ n # 1 => t < s
  /\ n > 2 => 2 * o <= t
  /\ s <= n * t - (n - 1) * o

\* Division by a positive number, as sd_tiling_calc_tiles counts tiles with it.
LEMMA DivBounds ==
  ASSUME NEW a \in Nat, NEW b \in Positive
  PROVE  /\ a \div b \in Nat /\ (a \div b) * b \in Nat
         /\ (a \div b) * b <= a /\ a < (a \div b) * b + b
PROOF
  BY DEF Positive

LEMMA ProductMonotone ==
  ASSUME NEW a \in Int, NEW b \in Int, a <= b, NEW c \in Nat
  PROVE  a * c <= b * c
PROOF
  OBVIOUS

\* An extra tile is counted only where the tiles then overlap by no more than a
\* half, and left out only where they reach the end without it.
LEMMA ExtraTileBounds ==
  ASSUME NEW s \in Positive, NEW t \in Positive, NEW o \in Nat, 2 * o <= t,
         NEW n \in Nat, n >= 2, n * (t - o) <= s - o, s - o < n * (t - o) + (t - o)
  PROVE  LET over == (n + 1) * (t - o) + o - s IN
         ExtraTile(n, s, t, o) <=> over # t - o /\ over <= n * (t \div 2 - o)
PROOF
<1> DEFINE d == t - o
           over == (n + 1) * d + o - s
<1>1. d \in Positive /\ n * d \in Nat /\ 2 * d <= n * d
  BY ProductMonotone DEF Positive
<1>2. (n + 1) * d = n * d + d
  BY <1>1 DEF Positive
<1>3. over \in Nat /\ over > 0 /\ over <= d /\ d < s
  BY <1>1, <1>2 DEF Positive
<1>4. ((n + 1) * d + o) % s = over
  <2>1. (n + 1) * d + o = over + s /\ over < s
    BY <1>2, <1>3 DEF Positive
  <2> HIDE DEF over, d
  <2> QED
    BY <2>1, <1>3 DEF Positive
<1> QED
  BY <1>4 DEF ExtraTile

\* The tiles are as many as it takes, and what they have too much over n - 1
\* overlaps is no more than half a tile for each, when there are three or more.
LEMMA CountedTiles ==
  ASSUME NEW s \in Positive, NEW t \in Positive, NEW target,
         target[1] \in Nat, target[2] \in Positive, 2 * target[1] <= target[2]
  PROVE  LET n == TilesOf(s, t, target) IN
         /\ n \in Positive
         /\ n = 1 => s <= t
         /\ n # 1 => t < s /\ s <= t * n
         /\ n > 2 => 2 * (t * n - s) <= (n - 1) * t
PROOF
<1> DEFINE o == (t * target[1]) \div target[2]
           d == t - o
           n == Quotient(s - o, d)
           over == (n + 1) * d + o - s
           N == NumTiles(s, t, target)
<1>1. o \in Nat /\ 2 * o <= t
  <2>1. t * target[1] \in Nat
    BY DEF Positive
  <2>2. o \in Nat /\ o * target[2] <= t * target[1]
    BY <2>1, DivBounds
  <2>3. 2 * (t * target[1]) <= t * target[2]
    BY DEF Positive
  <2> HIDE DEF o
  <2>4. 2 * (o * target[2]) <= t * target[2]
    BY <2>1, <2>2, <2>3 DEF Positive
  <2>5. ASSUME 2 * o > t PROVE FALSE
    <3>1. (2 * o) * target[2] > t * target[2]
      BY <2>2, <2>5 DEF Positive
    <3> QED
      BY <2>2, <2>4, <3>1 DEF Positive
  <2> QED
    BY <2>2, <2>5 DEF Positive
<1>2. N = IF ExtraTile(n, s, t, o) THEN n + 1 ELSE n
  BY DEF NumTiles
<1>3. TilesOf(s, t, target) = IF N > 2 THEN N ELSE IF s <= t THEN 1 ELSE 2
  BY DEF TilesOf
<1> HIDE DEF o, N
<1>4. d \in Positive /\ s - o \in Int
  BY <1>1 DEF Positive
<1>5. CASE s < o
  <2>1. n = -((o - s) \div d) /\ (o - s) \div d \in Nat
    BY <1>1, <1>4, <1>5, DivBounds DEF Quotient, Positive
  <2>2. n \in Int /\ n <= 0
    BY <2>1
  <2> HIDE DEF n
  <2>3. N \in Int /\ N <= 1
    BY <1>2, <2>2
  <2> QED
    BY <1>1, <1>3, <1>5, <2>3 DEF Positive
<1>6. CASE s >= o
  <2>1. n \in Nat /\ n * d \in Nat /\ n * d <= s - o /\ s - o < n * d + d
    <3> HIDE DEF d
    <3>1. s - o \in Nat
      BY <1>1, <1>6 DEF Positive
    <3>2. n = (s - o) \div d
      BY <3>1 DEF Quotient
    <3> QED
      BY <1>4, <3>1, <3>2, DivBounds
  <2> HIDE DEF n
  <2>2. CASE n <= 1
    <3>1. n * d <= d
      BY <1>4, <2>1, <2>2 DEF Positive
    <3>2. s <= 2 * t
      BY <1>1, <2>1, <3>1 DEF Positive
    <3>3. N \in Nat /\ N <= 2
      BY <1>2, <2>1, <2>2
    <3> QED
      BY <1>3, <3>2, <3>3 DEF Positive
  <2>3. CASE n >= 2
    <3> DEFINE h == t \div 2
               A == n * t
               B == n * o
               H == n * h
    <3>1. h \in Nat /\ 2 * h <= t /\ t <= 2 * h + 1
      BY DEF Positive
    <3> HIDE DEF h
    <3>2. A \in Nat /\ B \in Nat /\ H \in Nat /\ n * d = A - B /\ n * (h - o) = H - B
      BY <1>1, <2>1, <3>1 DEF Positive
    <3>3. 2 * h <= H /\ 2 * B <= A /\ 2 * H <= A /\ 2 * o <= B
      <4>1. 2 * h <= H /\ 2 * o <= B
        BY <1>1, <2>1, <2>3, <3>1, ProductMonotone
      <4>2. (2 * o) * n <= t * n /\ (2 * h) * n <= t * n
        BY <1>1, <2>1, <3>1, ProductMonotone DEF Positive
      <4> QED
        BY <4>1, <4>2, <1>1, <2>1, <3>1 DEF Positive
    <3>4. (n + 1) * d = A - B + d /\ t * (n + 1) = A + t /\ t * n = A /\ (n - 1) * t = A - t
      BY <1>4, <2>1, <3>2 DEF Positive
    <3>5. over = A - B + d + o - s
      BY <3>4
    <3>6. ExtraTile(n, s, t, o) <=> over # d /\ over <= H - B
      BY <1>1, <2>1, <2>3, <3>2, ExtraTileBounds DEF h
    <3> HIDE DEF A, B, H, over
    <3>7. t < s
      <4>1. 2 * d <= n * d
        BY <1>4, <2>1, <2>3, ProductMonotone DEF Positive
      <4> QED
        BY <1>1, <1>4, <2>1, <4>1 DEF Positive
    <3>8. CASE ExtraTile(n, s, t, o)
      <4>1. N = n + 1
        BY <1>2, <3>8
      <4>2. TilesOf(s, t, target) = n + 1
        BY <1>3, <2>1, <2>3, <4>1
      <4>3. s <= A + t /\ 2 * (A + t - s) <= A
        BY <1>1, <2>1, <3>1, <3>2, <3>3, <3>5, <3>6, <3>8 DEF Positive
      <4> QED
        BY <2>1, <2>3, <3>2, <3>4, <3>7, <4>2, <4>3 DEF Positive, A
    <3>9. CASE ~ExtraTile(n, s, t, o)
      <4>1. N = n
        BY <1>2, <3>9
      <4>2. TilesOf(s, t, target) = n
        BY <1>3, <2>1, <2>3, <3>7, <4>1 DEF Positive
      <4>3. s <= A
        <5>1. CASE over = d
          BY <5>1, <1>1, <2>1, <3>1, <3>2, <3>3, <3>5 DEF Positive
        <5>2. CASE over # d
          <6>1. over > H - B
            BY <1>1, <2>1, <3>2, <3>5, <3>6, <3>9, <5>2 DEF Positive
          <6> QED
            BY <6>1, <1>1, <2>1, <3>1, <3>2, <3>3, <3>5 DEF Positive
        <5> QED
          BY <5>1, <5>2
      <4>4. 2 * (A - s) <= A - t
        <5>1. 2 * (B - o) <= A - t
          <6>1. (n - 1) * (2 * o) <= (n - 1) * t
            BY <1>1, <2>1, <2>3 DEF Positive
          <6>2. (n - 1) * (2 * o) = 2 * (B - o)
            BY <1>1, <2>1 DEF B
          <6> QED
            BY <3>4, <6>1, <6>2
        <5> QED
          BY <5>1, <1>1, <2>1, <3>2 DEF Positive
      <4> QED
        BY <2>1, <2>3, <3>2, <3>4, <3>7, <4>2, <4>3, <4>4 DEF Positive
    <3> QED
      BY <3>8, <3>9
  <2> QED
    BY <2>1, <2>2, <2>3
<1> QED
  BY <1>1, <1>5, <1>6 DEF Positive

\* Whatever the rounding of the overlap, the tiles reach the end and are spread
\* as they should (sd_tiling_calc_tiles).
LEMMA WellSpread ==
  ASSUME NEW s \in Positive, NEW t \in Positive, NEW target,
         target[1] \in Nat, target[2] \in Positive, 2 * target[1] <= target[2],
         NEW n, n = TilesOf(s, t, target), NEW o \in OverlapsOf(s, t, n)
  PROVE  n \in Positive /\ Spread(s, t, n, o)
PROOF
<1>1. /\ n \in Positive
      /\ n = 1 => s <= t
      /\ n # 1 => t < s /\ s <= t * n
      /\ n > 2 => 2 * (t * n - s) <= (n - 1) * t
  BY CountedTiles
<1>2. CASE n = 1
  BY <1>1, <1>2 DEF OverlapsOf, Spread, Positive
<1>3. CASE n # 1
  <2> DEFINE e == t * n - s
             m == n - 1
             whole == e \div m
  <2>1. e \in Nat /\ m \in Positive /\ s = t * n - e /\ n = m + 1
    BY <1>1, <1>3 DEF Positive
  <2>2. Quotient(e, m) = whole
    BY <2>1 DEF Quotient
  <2>3. o = whole \/ (whole > 0 /\ o = whole - 1)
    <3> DEFINE again == whole > 0 /\ e % m = 0
    <3>1. OverlapsOf(s, t, n) = {whole} \cup (IF again THEN {whole - 1} ELSE {})
      BY <1>3, <2>2 DEF OverlapsOf
    <3> HIDE DEF whole, again
    <3>2. o = whole \/ (again /\ o = whole - 1)
      <4>1. CASE again
        BY <3>1, <4>1
      <4>2. CASE ~again
        BY <3>1, <4>2
      <4> QED
        BY <4>1, <4>2
    <3> QED
      BY <3>2 DEF again
  <2>4. whole \in Nat /\ whole * m \in Nat /\ whole * m <= e
    BY <2>1, DivBounds
  <2>5. m * t \in Nat /\ t * n = m * t + t
    BY <2>1 DEF Positive
  <2> HIDE DEF whole, e, m
  <2>6. o \in Nat /\ o <= whole
    BY <2>3, <2>4
  <2>7. m * o \in Nat /\ m * o <= e
    BY <2>1, <2>4, <2>6, ProductMonotone DEF Positive
  <2>8. o < t
    <3>1. e < m * t
      BY <1>1, <1>3, <2>1, <2>5 DEF Positive
    <3>2. ASSUME o >= t PROVE FALSE
      <4>1. m * o >= m * t
        BY <2>1, <2>6, <3>2 DEF Positive
      <4> QED
        BY <2>1, <2>5, <2>7, <3>1, <4>1
    <3> QED
      BY <2>6, <3>2 DEF Positive
  <2>9. n > 2 => 2 * o <= t
    <3>1. ASSUME n > 2, 2 * o > t PROVE FALSE
      <4>1. m * (2 * o) > m * t
        BY <2>1, <2>6, <3>1 DEF Positive
      <4>2. m * (2 * o) = 2 * (m * o)
        BY <2>1, <2>6 DEF Positive
      <4>3. 2 * e <= m * t
        BY <1>1, <3>1 DEF e, m
      <4> QED
        BY <2>1, <2>5, <2>7, <4>1, <4>2, <4>3
    <3> QED
      BY <2>6, <3>1 DEF Positive
  <2>10. s <= n * t - (n - 1) * o
    BY <2>1, <2>5, <2>7, <1>1 DEF Positive, m
  <2> QED
    BY <1>1, <1>3, <2>6, <2>8, <2>9, <2>10 DEF Spread
<1> QED
  BY <1>2, <1>3

-----------------------------------------------------------------------------
(* The sum of the weights, tile by tile *)

\* How the tiles are spread is settled once they are counted.
GeometryOK ==
  \A a \in Axes : num[a] \in Positive /\ Spread(small[a], tile[a], num[a], overlap[a])

\* Where tile k along an axis begins, from 0, whether it ends with the image,
\* where it is put and what it skips
Begin(a, k) == k * Stride[a]

Reaches(a, k) == Begin(a, k) + TileSize[a] >= small[a]

Put(a, k) == IF Reaches(a, k) THEN small[a] - TileSize[a] ELSE Begin(a, k)

Moved(a, k) == (Begin(a, k) - Put(a, k)) * scale

\* There is no tile k: the one before it is the last.
Ended(a, k) == k > 0 /\ Reaches(a, k - 1)

\* The weight that tile k gives to pixel i
TileWeight(a, k, i) ==
  LET p == Put(a, k) * scale
  IN  IF InTile(i, a, p, Moved(a, k)) THEN AxisWeight(a, i - p, p, Moved(a, k)) ELSE 0

FullAlong(a) == Smootherstep(Ramp[a], Ramp[a])

\* How far pixel i is from the end of the last of k tiles
Rest(a, k, i) == (Begin(a, k) + overlap[a]) * scale - i

\* The weight that k tiles give to pixel i: all of it, but where the last of
\* them fades out, and none after it.
Cover(a, k, i) ==
  IF k = 0 THEN 0
  ELSE IF Ended(a, k) THEN FullAlong(a)
  ELSE IF Rest(a, k, i) <= 0 THEN 0
  ELSE Smootherstep(Lesser(Rest(a, k, i), Ramp[a]), Ramp[a])

\* k tiles were passed along an axis.
Walked(a, k) ==
  /\ k \in 0 .. num[a]
  /\ last[a] = Ended(a, k)
  /\ ~last[a] => pos[a] = Begin(a, k)

\* What r whole rows give to a pixel
RowsSum(r, q) == FullAlong("x") * Cover("y", r, q[2])

\* r rows are done.
RowsBehind(r) ==
  /\ Walked("y", r)
  /\ count <= r * num.x
  /\ \A q \in Pixels : written[q] = RowsSum(r, q)

\* r rows are done, and c tiles of the next one.
WithinRow(r, c) ==
  /\ r < num.y /\ ~Ended("y", r)
  /\ pos.y = Put("y", r) /\ skip.y = Moved("y", r) /\ last.y = Reaches("y", r)
  /\ Walked("x", c)
  /\ count <= r * num.x + c
  /\ \A q \in Pixels :
       written[q] = RowsSum(r, q) + Cover("x", c, q[1]) * TileWeight("y", r, q[2])

\* The invariant behind the blending and the progress: the rows and tiles that
\* are done explain every weight, and every tile that was counted.
BlendInv ==
  /\ tilingPc \in {"start", "rows", "tiles", "done"}
  /\ last \in Pairs(BOOLEAN)
  /\ tilingPc = "start" =>
       /\ count = 0 /\ shown = 0 /\ pos = Origin /\ last = [x |-> FALSE, y |-> FALSE]
       /\ \A q \in Pixels : written[q] = 0
  /\ tilingPc # "start" =>
       GeometryOK /\ count <= num.x * num.y /\ shown <= num.x * num.y
  /\ tilingPc = "rows" => \E r \in 0 .. num.y : RowsBehind(r)
  /\ tilingPc = "tiles" => \E r \in 0 .. num.y, c \in 0 .. num.x : WithinRow(r, c)
  /\ WrittenOnce

\* Where one ramp falls, the other rises by as much (smootherstep_f32).
LEMMA RampsAddUp ==
  ASSUME NEW n \in Int, NEW d \in Int
  PROVE  /\ Smootherstep(n, d) \in Int
         /\ Smootherstep(0, d) = 0
         /\ Smootherstep(1, 1) = 1
         /\ Smootherstep(n, d) + Smootherstep(d - n, d) = Smootherstep(d, d)
PROOF
<1>1. Smootherstep(n, d) + Smootherstep(d - n, d) = Smootherstep(d, d)
  BY DEF Smootherstep
<1> QED
  BY <1>1 DEF Smootherstep

\* The tiles that were counted reach the end of the image.
LEMMA LastReaches ==
  ASSUME InputsOK, GeometryOK, NEW a \in Axes
  PROVE  num[a] \in Positive /\ Reaches(a, num[a] - 1)
PROOF
<1> DEFINE s == small[a]
           t == tile[a]
           n == num[a]
           o == overlap[a]
<1>1. /\ s \in Nat /\ s > 0 /\ t \in Nat /\ t > 0 /\ n \in Nat /\ n > 0
      /\ Spread(s, t, n, o)
  BY DEF InputsOK, Pairs, Axes, GeometryOK, Positive
<1> DEFINE reaches == Reaches(a, n - 1)
<1>2. reaches <=> (n - 1) * (t - o) + (IF t < s THEN t ELSE s) >= s
  BY DEF Reaches, Begin, TileSize, Stride
<1> HIDE DEF s, t, n, o, reaches
<1>3. n = 1 => reaches
  BY <1>1, <1>2 DEF Spread
<1>4. n # 1 => reaches
  <2>1. (n - 1) * (t - o) + t = n * t - (n - 1) * o
    BY <1>1 DEF Spread
  <2> QED
    BY <1>1, <1>2, <2>1 DEF Spread
<1> QED
  BY <1>1, <1>3, <1>4 DEF reaches, n, Positive

\* What the spread of the tiles says of tile k, when it is reached.
LEMMA TileFacts ==
  ASSUME InputsOK, GeometryOK, NEW a \in Axes, NEW k \in Nat, k < num[a], ~Ended(a, k)
  PROVE  /\ TileSize[a] \in Positive /\ TileSize[a] <= small[a] /\ overlap[a] \in Nat
         /\ Stride[a] \in Positive /\ overlap[a] < TileSize[a]
         /\ Begin(a, k) \in Nat /\ Begin(a, k) < small[a]
         /\ Begin(a, k + 1) = Begin(a, k) + Stride[a]
         /\ overlap[a] > 0 => TileSize[a] < small[a]
         /\ ~Reaches(a, k) => overlap[a] + Stride[a] = TileSize[a]
         /\ k = 0 => Begin(a, k) = 0
         /\ k > 0 => /\ TileSize[a] < small[a] /\ Begin(a, k) > 0
                     /\ Begin(a, k) + overlap[a] < small[a]
                     /\ ~Reaches(a, k) => 2 * overlap[a] <= TileSize[a]
         /\ k + 1 = num[a] => Reaches(a, k)
PROOF
<1> DEFINE s == small[a]
           t == tile[a]
           n == num[a]
           o == overlap[a]
           d == Stride[a]
           T == TileSize[a]
           b == Begin(a, k)
<1>1. /\ s \in Nat /\ s > 0 /\ t \in Nat /\ t > 0 /\ n \in Nat /\ n > 0
      /\ Spread(s, t, n, o)
  BY DEF InputsOK, Pairs, Axes, GeometryOK, Positive
<1>2. T = (IF t < s THEN t ELSE s) /\ d = t - o
  BY DEF TileSize, Stride
<1>3. b = k * d /\ Begin(a, k + 1) = (k + 1) * d /\ (Reaches(a, k) <=> b + T >= s)
  BY DEF Begin, Reaches
<1>4. k > 0 => (k - 1) * d + T < s
  <2>1. T \in Nat /\ d \in Nat
    BY <1>1, <1>2 DEF Spread
  <2> HIDE DEF T, d, s
  <2> QED
    BY <2>1, <1>1 DEF Ended, Reaches, Begin, T, d, s
<1> DEFINE reaches == Reaches(a, k)
           next == Begin(a, k + 1)
<1> HIDE DEF s, t, n, o, d, T, b, reaches, next
<1>5. /\ T \in Nat /\ T > 0 /\ T <= s /\ o \in Nat /\ o < T /\ d \in Nat /\ d > 0 /\ d + o = t
      /\ o > 0 => T < s
      /\ n > 1 => T < s /\ T = t
  BY <1>1, <1>2 DEF Spread
<1>6. b \in Nat /\ next = b + d /\ (k > 0 => b > 0) /\ (k = 0 => b = 0)
  <2>1. (k + 1) * d = k * d + d /\ k * d \in Nat /\ (k > 0 => k * d > 0) /\ (k = 0 => k * d = 0)
    BY <1>5
  <2> QED
    BY <1>3, <2>1 DEF next
<1>7. k > 0 => b + o < s /\ T = t /\ T < s
  <2> SUFFICES ASSUME k > 0 PROVE b + o < s /\ T = t /\ T < s
    OBVIOUS
  <2>1. T < s /\ T = t
    BY <1>1, <1>5 DEF n
  <2>2. (k - 1) * d = b - d
    BY <1>3, <1>5
  <2> QED
    BY <1>1, <1>4, <1>5, <1>6, <2>1, <2>2
<1>8. k + 1 = n => reaches
  BY LastReaches DEF n, reaches
<1>9. ~reaches => n > 1
  BY <1>1, <1>8 DEF n
<1>10. k > 0 /\ ~reaches => 2 * o <= T
  <2> SUFFICES ASSUME k > 0, ~reaches PROVE 2 * o <= T
    OBVIOUS
  <2>1. n > 2
    BY <1>1, <1>8 DEF n
  <2>2. n > 2 => 2 * o <= t
    BY <1>1 DEF Spread
  <2> QED
    BY <1>7, <2>1, <2>2
<1>11. b < s
  BY <1>1, <1>5, <1>6, <1>7
<1>12. ~reaches => o + d = T
  BY <1>1, <1>5, <1>9
<1> QED
  BY <1>5, <1>6, <1>7, <1>8, <1>10, <1>11, <1>12 DEF s, n, o, d, T, b, reaches, next, Positive

\* The weight of a tile in terms of where it begins and ends, in output pixels
LEMMA WeightShape ==
  ASSUME InputsOK, NEW a \in Axes, NEW k \in Nat, NEW i \in Int,
         Begin(a, k) \in Int, TileSize[a] \in Int, overlap[a] \in Nat
  PROVE  LET b == Begin(a, k) * scale
             s == small[a] * scale
             t == TileSize[a] * scale
             p == IF Reaches(a, k) THEN s - t ELSE b
             rise == IF overlap[a] > 0 /\ p > 0 THEN i - b ELSE Ramp[a]
             fall == IF overlap[a] > 0 /\ p < s - t THEN p + t - i ELSE Ramp[a]
         IN  TileWeight(a, k, i) =
               IF b <= i /\ i < p + t
                 THEN Smootherstep(Lesser(Lesser(rise, fall), Ramp[a]), Ramp[a]) ELSE 0
PROOF
<1> DEFINE b == Begin(a, k) * scale
           s == small[a] * scale
           t == TileSize[a] * scale
           p == Put(a, k) * scale
           m == Moved(a, k)
<1>1. scale \in Int /\ small[a] \in Int
  BY DEF InputsOK, Pairs, Axes, Positive
<1>2. (small[a] - TileSize[a]) * scale = s - t
  BY <1>1
<1>3. p = IF Reaches(a, k) THEN s - t ELSE b
  BY <1>2 DEF Put
<1>4. m = b - p /\ b \in Int /\ p \in Int /\ s \in Int /\ t \in Int
  <2>1. Put(a, k) \in Int
    BY <1>1 DEF Put
  <2>2. (Begin(a, k) - Put(a, k)) * scale = b - p
    BY <1>1, <2>1
  <2> QED
    BY <1>1, <2>1, <2>2 DEF Moved
<1>5. TileWeight(a, k, i) = IF InTile(i, a, p, m) THEN AxisWeight(a, i - p, p, m) ELSE 0
  BY DEF TileWeight
<1>6. InTile(i, a, p, m) <=> b <= i /\ i < p + t
  <2>1. p + m = b
    BY <1>4
  <2> HIDE DEF b, p, m
  <2> QED
    BY <2>1 DEF InTile, FirstWritten
<1> DEFINE rise == IF overlap[a] > 0 /\ p > 0 THEN i - b ELSE Ramp[a]
           fall == IF overlap[a] > 0 /\ p < s - t THEN p + t - i ELSE Ramp[a]
<1>7. AxisWeight(a, i - p, p, m) = Smootherstep(Lesser(Lesser(rise, fall), Ramp[a]), Ramp[a])
  <2>1. (i - p) - m = i - b /\ t - (i - p) = p + t - i
    BY <1>4
  <2> HIDE DEF b, p, m
  <2> QED
    BY <1>2, <2>1 DEF AxisWeight
<1> HIDE DEF p, m
<1> QED
  BY <1>3, <1>5, <1>6, <1>7

\* One more tile adds exactly the weight that was missing where the one before
\* it fades out, and is whole up to where it fades out itself.
LEMMA CoverGrows ==
  ASSUME InputsOK, GeometryOK, NEW a \in Axes, NEW k \in Nat, k < num[a], ~Ended(a, k),
         NEW i \in Nat, i < small[a] * scale
  PROVE  /\ Cover(a, k, i) + TileWeight(a, k, i) = Cover(a, k + 1, i)
         /\ {Cover(a, k, i), TileWeight(a, k, i), Cover(a, k + 1, i)} \subseteq Int
         /\ overlap[a] = 0 /\ TileWeight(a, k, i) # 0 => Cover(a, k, i) = 0
PROOF
<1> DEFINE b == Begin(a, k) * scale
           s == small[a] * scale
           t == TileSize[a] * scale
           o == overlap[a] * scale
           d == Stride[a] * scale
           R == Ramp[a]
           reaches == Reaches(a, k)
           p == IF reaches THEN s - t ELSE b
           rise == IF overlap[a] > 0 /\ p > 0 THEN i - b ELSE R
           fall == IF overlap[a] > 0 /\ p < s - t THEN p + t - i ELSE R
           W == TileWeight(a, k, i)
           S(n) == Smootherstep(n, R)
<1>1. /\ scale \in Nat /\ scale > 0 /\ small[a] \in Nat
      /\ TileSize[a] \in Nat /\ TileSize[a] > 0 /\ TileSize[a] <= small[a] /\ overlap[a] \in Nat
      /\ Stride[a] \in Nat /\ Stride[a] > 0 /\ overlap[a] < TileSize[a]
      /\ Begin(a, k) \in Nat /\ Begin(a, k) < small[a]
      /\ Begin(a, k + 1) = Begin(a, k) + Stride[a]
      /\ overlap[a] > 0 => TileSize[a] < small[a]
      /\ ~Reaches(a, k) => overlap[a] + Stride[a] = TileSize[a]
      /\ k = 0 => Begin(a, k) = 0
      /\ k > 0 => /\ TileSize[a] < small[a] /\ Begin(a, k) > 0
                  /\ Begin(a, k) + overlap[a] < small[a]
                  /\ ~Reaches(a, k) => 2 * overlap[a] <= TileSize[a]
  BY TileFacts DEF InputsOK, Pairs, Axes, Positive
<1>2. W = IF b <= i /\ i < p + t THEN S(Lesser(Lesser(rise, fall), R)) ELSE 0
  BY <1>1, WeightShape
<1>3. /\ b \in Nat /\ s \in Nat /\ t \in Nat /\ o \in Nat /\ d \in Nat
      /\ t <= s /\ o < t /\ b < s /\ d > 0
      /\ overlap[a] = 0 => o = 0
      /\ overlap[a] > 0 => t < s /\ o > 0
      /\ ~reaches => o + d = t /\ b + t < s
      /\ reaches => b + t >= s
      /\ k = 0 => b = 0
      /\ k > 0 => t < s /\ b > 0 /\ b + o < s /\ (~reaches => 2 * o <= t)
  <2>1. /\ (Begin(a, k) + overlap[a]) * scale = b + o
        /\ (Begin(a, k) + TileSize[a]) * scale = b + t
        /\ (overlap[a] + Stride[a]) * scale = o + d
        /\ (2 * overlap[a]) * scale = 2 * o
    BY <1>1
  <2>2. \A x, y \in Nat : x < y => x * scale \in Nat /\ x * scale < y * scale
    BY <1>1
  <2>3. \A x, y \in Nat : x <= y => x * scale <= y * scale
    BY <1>1
  <2>4. /\ b \in Nat /\ s \in Nat /\ t \in Nat /\ o \in Nat /\ d \in Nat
        /\ t <= s /\ o < t /\ b < s /\ d > 0
    BY <1>1, <2>2, <2>3
  <2>5. /\ overlap[a] = 0 => o = 0
        /\ overlap[a] > 0 => t < s /\ o > 0
        /\ k = 0 => b = 0
    <3>1. 0 * scale = 0
      BY <1>1
    <3>2. overlap[a] > 0 => 0 * scale < o /\ t < s
      BY <1>1, <2>2
    <3> QED
      BY <1>1, <3>1, <3>2
  <2>6. /\ ~reaches => o + d = t /\ b + t < s
        /\ reaches => b + t >= s
    <3>1. CASE reaches
      <4>1. small[a] <= Begin(a, k) + TileSize[a] /\ Begin(a, k) + TileSize[a] \in Nat
        BY <1>1, <3>1 DEF Reaches
      <4>2. s <= b + t
        BY <1>1, <2>1, <2>3, <4>1
      <4> QED
        BY <2>4, <3>1, <4>2
    <3>2. CASE ~reaches
      <4>1. /\ Begin(a, k) + TileSize[a] < small[a] /\ overlap[a] + Stride[a] = TileSize[a]
            /\ Begin(a, k) + TileSize[a] \in Nat /\ small[a] \in Nat
        BY <1>1, <3>2 DEF Reaches
      <4>2. (Begin(a, k) + TileSize[a]) * scale < small[a] * scale
        BY <2>2, <4>1
      <4>3. b + t < s
        BY <2>1, <4>2
      <4>4. o + d = t
        BY <2>1, <4>1
      <4> QED
        BY <3>2, <4>3, <4>4
    <3> QED
      BY <3>1, <3>2
  <2>7. k > 0 => t < s /\ b > 0 /\ b + o < s
    BY <1>1, <2>1, <2>2
  <2>8. k > 0 => (~reaches => 2 * o <= t)
    BY <1>1, <2>1, <2>3
  <2> QED
    BY <2>4, <2>5, <2>6, <2>7, <2>8
<1>4. R = (IF overlap[a] > 0 THEN o ELSE 1)
  BY DEF Ramp
<1>5. R \in Nat /\ R > 0
  BY <1>1, <1>3, <1>4
<1>6. /\ \A n \in Int : S(n) \in Int /\ S(n) + S(R - n) = S(R)
      /\ S(0) = 0 /\ S(R) \in Int
  <2> HIDE DEF R
  <2>1. R \in Int
    BY <1>5
  <2>2. ASSUME NEW n \in Int PROVE S(n) \in Int /\ S(n) + S(R - n) = S(R) /\ S(0) = 0
    BY <2>1, RampsAddUp
  <2> QED
    BY <2>1, <2>2
<1>7. Cover(a, k, i) = IF k = 0 \/ b + o - i <= 0 THEN 0 ELSE S(Lesser(b + o - i, R))
  <2>1. Rest(a, k, i) = b + o - i
    BY <1>1 DEF Rest
  <2> QED
    BY <2>1 DEF Cover
<1>8. Cover(a, k + 1, i) = IF reaches THEN S(R) ELSE IF b + t - i <= 0 THEN 0 ELSE S(Lesser(b + t - i, R))
  <2>1. Ended(a, k + 1) <=> reaches
    BY DEF Ended
  <2>2. ~reaches => Rest(a, k + 1, i) = b + t - i
    <3> SUFFICES ASSUME ~reaches PROVE Rest(a, k + 1, i) = b + t - i
      OBVIOUS
    <3>1. Begin(a, k + 1) + overlap[a] = Begin(a, k) + TileSize[a]
      BY <1>1
    <3>2. (Begin(a, k) + TileSize[a]) * scale = b + t
      BY <1>1
    <3>3. Rest(a, k + 1, i) = (Begin(a, k + 1) + overlap[a]) * scale - i
      BY DEF Rest
    <3> HIDE DEF b, t
    <3> QED
      BY <1>1, <1>3, <3>1, <3>2, <3>3
  <2> QED
    BY <2>1, <2>2 DEF Cover, FullAlong
<1> DEFINE C0 == Cover(a, k, i)
           C1 == Cover(a, k + 1, i)
           ov == overlap[a]
<1> SUFFICES /\ C0 + W = C1 /\ C0 \in Int /\ W \in Int /\ C1 \in Int
             /\ ov = 0 /\ W # 0 => C0 = 0
  OBVIOUS
<1>9. ov \in Nat
  BY <1>1
<1>10. i < s
  OBVIOUS
<1> HIDE DEF b, s, t, o, d, R, reaches, W, S, C0, C1, ov
<1>11. CASE ov = 0
  BY <1>2, <1>3, <1>4, <1>6, <1>7, <1>8, <1>10, <1>11 DEF C0, C1, ov, Lesser
<1>12. CASE ov > 0 /\ k = 0
  BY <1>2, <1>3, <1>4, <1>6, <1>7, <1>8, <1>10, <1>12 DEF C0, C1, ov, Lesser
<1>13. CASE ov > 0 /\ k > 0 /\ reaches
  BY <1>2, <1>3, <1>4, <1>6, <1>7, <1>8, <1>10, <1>13 DEF C0, C1, ov, Lesser
<1>14. CASE ov > 0 /\ k > 0 /\ ~reaches
  BY <1>2, <1>3, <1>4, <1>6, <1>7, <1>8, <1>10, <1>14 DEF C0, C1, ov, Lesser
<1> QED
  BY <1>9, <1>11, <1>12, <1>13, <1>14

-----------------------------------------------------------------------------
(* The sums are inductive *)

\* Nothing about a tile depends on how far the work is.
LEMMA GeometryFrame ==
  ASSUME UNCHANGED <<inputs, geometry>>
  PROVE  /\ small' = small /\ tile' = tile /\ scale' = scale /\ num' = num /\ overlap' = overlap
         /\ GeometryOK' = GeometryOK /\ Pixels' = Pixels /\ TileSize' = TileSize
         /\ Stride' = Stride /\ Ramp' = Ramp
         /\ \A a, k : Begin(a, k)' = Begin(a, k) /\ Ended(a, k)' = Ended(a, k)
         /\ \A a, k : Reaches(a, k)' = Reaches(a, k) /\ Put(a, k)' = Put(a, k)
         /\ \A a, k : Moved(a, k)' = Moved(a, k)
         /\ \A a, k, i : Cover(a, k, i)' = Cover(a, k, i) /\ TileWeight(a, k, i)' = TileWeight(a, k, i)
         /\ \A r, q : RowsSum(r, q)' = RowsSum(r, q)
PROOF
<1>1. small' = small /\ tile' = tile /\ scale' = scale /\ num' = num /\ overlap' = overlap
  BY DEF inputs, geometry
<1>2. /\ GeometryOK' = GeometryOK /\ Pixels' = Pixels /\ TileSize' = TileSize
      /\ Stride' = Stride /\ Ramp' = Ramp
  BY <1>1 DEF GeometryOK, Pixels, TileSize, Stride, Ramp
<1>3. \A a, k : Begin(a, k)' = Begin(a, k) /\ Ended(a, k)' = Ended(a, k)
                /\ Reaches(a, k)' = Reaches(a, k)
  BY <1>1, <1>2 DEF Begin, Ended, Reaches
<1>4. \A a, k : Put(a, k)' = Put(a, k) /\ Moved(a, k)' = Moved(a, k)
  BY <1>1, <1>2, <1>3 DEF Put, Moved
<1>5. \A a, k, i : TileWeight(a, k, i)' = TileWeight(a, k, i)
  BY <1>1, <1>2, <1>4 DEF TileWeight, InTile, AxisWeight
<1>6. \A a, k, i : Cover(a, k, i)' = Cover(a, k, i)
  BY <1>1, <1>2, <1>3 DEF Cover, Rest, FullAlong
<1>7. \A r, q : RowsSum(r, q)' = RowsSum(r, q)
  BY <1>2, <1>6 DEF RowsSum, FullAlong
<1> QED
  BY <1>1, <1>2, <1>3, <1>4, <1>5, <1>6, <1>7

\* As long as the last tile along an axis was not passed, there is another one,
\* which begins inside the image.
LEMMA AnotherTile ==
  ASSUME InputsOK, GeometryOK, NEW a \in Axes, NEW k, Walked(a, k)
  PROVE  /\ num[a] \in Nat /\ k \in Nat /\ k <= num[a]
         /\ last[a] = Ended(a, k)
         /\ ~last[a] => k < num[a] /\ pos[a] = Begin(a, k) /\ pos[a] < small[a]
PROOF
<1>1. num[a] \in Positive /\ k \in Nat /\ k <= num[a]
  BY LastReaches DEF Walked, Positive
<1>2. ASSUME ~last[a] PROVE k < num[a]
  <2>1. CASE k = num[a]
    <3>1. num[a] > 0 /\ Reaches(a, k - 1)
      BY <2>1, LastReaches DEF Positive
    <3> QED
      BY <1>1, <1>2, <2>1, <3>1 DEF Walked, Ended
  <2> QED
    BY <1>1, <2>1 DEF Positive
<1>3. ASSUME ~last[a] PROVE pos[a] = Begin(a, k) /\ pos[a] < small[a]
  BY <1>1, <1>2, <1>3, TileFacts DEF Walked
<1> QED
  BY <1>1, <1>2, <1>3 DEF Walked, Positive

\* A tile is put where its place among the others says.
LEMMA PlaceOfTile ==
  ASSUME NEW a \in Axes, NEW k, pos[a] = Begin(a, k)
  PROVE  Place(a) = Put(a, k) /\ Ends(a) = Reaches(a, k)
         /\ (pos[a] - Place(a)) * scale = Moved(a, k)
PROOF
  BY DEF Place, Put, Ends, Reaches, Moved

LEMMA PixelInside ==
  ASSUME InputsOK, NEW q \in Pixels
  PROVE  /\ q[1] \in Nat /\ q[1] < small["x"] * scale
         /\ q[2] \in Nat /\ q[2] < small["y"] * scale
PROOF
<1>1. small.x \in Nat /\ small.y \in Nat /\ scale \in Nat
  BY DEF InputsOK, Pairs, Positive
<1>2. small.x * scale \in Nat /\ small.y * scale \in Nat
  BY <1>1
<1>3. q[1] \in 0 .. small.x * scale - 1 /\ q[2] \in 0 .. small.y * scale - 1
  BY DEF Pixels
<1> DEFINE m == small.x * scale
           n == small.y * scale
<1> HIDE DEF m, n
<1>4. q[1] \in Nat /\ q[1] < m /\ q[2] \in Nat /\ q[2] < n
  BY <1>2, <1>3 DEF m, n
<1> QED
  BY <1>4 DEF m, n

LEMMA FullInt ==
  ASSUME InputsOK, GeometryOK
  PROVE  FullAlong("x") \in Int /\ FullAlong("y") \in Int /\ Full = FullAlong("x") * FullAlong("y")
PROOF
<1>1. overlap.x \in Nat /\ overlap.y \in Nat /\ scale \in Nat
  BY DEF GeometryOK, Spread, Axes, InputsOK, Positive
<1>2. Ramp["x"] \in Int /\ Ramp["y"] \in Int
  BY <1>1 DEF Ramp, Axes
<1> QED
  BY <1>2, RampsAddUp DEF FullAlong, Full

\* Rows and tiles that were counted are no more than their product.
LEMMA CountBound ==
  ASSUME NEW m \in Nat, NEW n \in Nat, NEW r \in Nat, NEW c \in Nat
  PROVE  /\ r * m \in Nat /\ n * m \in Nat /\ (r + 1) * m = r * m + m
         /\ r <= n => r * m <= n * m
         /\ r < n /\ c <= m => r * m + c <= n * m
PROOF
<1>1. r * m \in Nat /\ n * m \in Nat /\ (r + 1) * m = r * m + m
  OBVIOUS
<1>2. r <= n => r * m <= n * m
  BY ProductMonotone
<1>3. r + 1 <= n => (r + 1) * m <= n * m
  BY ProductMonotone
<1> QED
  BY <1>1, <1>2, <1>3

\* Before the first tile no pixel has a weight.
LEMMA BlendInitially == TilingInit => BlendInv
PROOF
  BY DEF TilingInit, BlendInv, Origin, WrittenOnce, Pairs

\* However the tiles are counted and the overlaps rounded, they are spread well.
LEMMA CountBlends == ASSUME TilingInv, BlendInv, CountTiles PROVE BlendInv'
PROOF
<1>1. /\ tilingPc = "start" /\ tilingPc' = "rows"
      /\ UNCHANGED <<inputs, pos, last, count, shown, written>>
  BY DEF CountTiles
<1>2. /\ count = 0 /\ shown = 0 /\ pos = Origin /\ last = [x |-> FALSE, y |-> FALSE]
      /\ \A q \in Pixels : written[q] = 0
  BY <1>1 DEF BlendInv
<1>3. small' = small /\ tile' = tile /\ scale' = scale /\ InputsOK /\ InputsOK'
  BY <1>1 DEF inputs, TilingInv, InputsOK
<1>4. GeometryOK'
  <2>1. PICK target \in Overlaps : num' = [a \in Axes |-> TilesOf(small[a], tile[a], target)]
    BY DEF CountTiles
  <2>2. target[1] \in Nat /\ target[2] \in Positive /\ 2 * target[1] <= target[2]
    BY TilingAssumption DEF Positive
  <2>3. small.x \in Positive /\ small.y \in Positive /\ tile.x \in Positive /\ tile.y \in Positive
    BY <1>3 DEF InputsOK, Pairs
  <2>4. num'.x = TilesOf(small.x, tile.x, target) /\ num'.y = TilesOf(small.y, tile.y, target)
    BY <2>1 DEF Axes
  <2>5. PICK ox \in OverlapsOf(small.x, tile.x, num'.x), oy \in OverlapsOf(small.y, tile.y, num'.y) :
          overlap' = [x |-> ox, y |-> oy]
    BY DEF CountTiles
  <2>6. num'.x \in Positive /\ Spread(small.x, tile.x, num'.x, ox)
    BY <2>2, <2>3, <2>4, WellSpread
  <2>7. num'.y \in Positive /\ Spread(small.y, tile.y, num'.y, oy)
    BY <2>2, <2>3, <2>4, WellSpread
  <2>8. overlap'["x"] = ox /\ overlap'["y"] = oy
    BY <2>5
  <2>9. Spread(small'["x"], tile'["x"], num'["x"], overlap'["x"])
    BY <1>3, <2>6, <2>8
  <2>10. Spread(small'["y"], tile'["y"], num'["y"], overlap'["y"])
    BY <1>3, <2>7, <2>8
  <2> QED
    BY <2>6, <2>7, <2>9, <2>10 DEF GeometryOK, Axes
<1>5. num'.x \in Nat /\ num'.y \in Nat /\ num'.x * num'.y \in Nat
  <2>1. num'.x \in Positive /\ num'.y \in Positive
    BY <1>4 DEF GeometryOK, Axes
  <2> QED
    BY <2>1 DEF Positive
<1>6. RowsBehind(0)'
  <2>1. Walked("y", 0)'
    <3>1. Stride["y"]' \in Int
      BY <1>3, <1>4 DEF GeometryOK, Spread, InputsOK, Pairs, Axes, Positive, Stride
    <3>2. Begin("y", 0)' = 0
      BY <3>1 DEF Begin
    <3>3. Ended("y", 0)' = FALSE
      BY DEF Ended
    <3> QED
      <4>1. last'.y = FALSE /\ pos'.y = 0
        BY <1>1, <1>2 DEF Origin
      <4>2. 0 \in 0 .. num'.y
        BY <1>5
      <4> QED
        BY <4>2, <3>2, <3>3, <4>1, Zenon DEF Walked
  <2>2. FullAlong("x")' \in Int
    <3>1. overlap'["x"] \in Nat /\ scale' \in Nat
      BY <1>3, <1>4 DEF GeometryOK, Spread, Axes, InputsOK, Positive
    <3>2. Ramp'["x"] \in Int
      BY <3>1 DEF Ramp, Axes
    <3> QED
      BY <3>2, RampsAddUp DEF FullAlong
  <2>3. \A q : RowsSum(0, q)' = 0
    BY <2>2 DEF RowsSum, Cover
  <2>4. Pixels' = Pixels
    BY <1>3 DEF Pixels
  <2> QED
    BY <1>1, <1>2, <1>5, <2>1, <2>3, <2>4 DEF RowsBehind
<1>7. \E r \in 0 .. num'.y : RowsBehind(r)'
  BY <1>5, <1>6
<1> QED
  BY <1>1, <1>2, <1>4, <1>5, <1>7 DEF BlendInv, WrittenOnce

\* A row is begun where the rows behind it end.
LEMMA RowBlends == ASSUME TilingInv, BlendInv, NextRow PROVE BlendInv'
PROOF
<1>1. /\ tilingPc = "rows" /\ tilingPc' = "tiles" /\ ~last.y
      /\ UNCHANGED <<inputs, geometry, at, count, shown, written>>
      /\ pos' = [x |-> 0, y |-> Place("y")] /\ last' = [x |-> FALSE, y |-> Ends("y")]
      /\ skip' = [skip EXCEPT !.y = (pos.y - Place("y")) * scale]
  BY DEF NextRow
<1>2. InputsOK /\ GeometryOK
  BY <1>1 DEF TilingInv, BlendInv
<1>3. PICK r \in 0 .. num.y : RowsBehind(r)
  BY <1>1 DEF BlendInv
<1>4. num.y \in Nat /\ r \in Nat /\ r < num.y /\ pos.y = Begin("y", r) /\ Ended("y", r) = last.y
  BY <1>1, <1>2, <1>3, AnotherTile DEF RowsBehind, Axes
<1>5. Place("y") = Put("y", r) /\ Ends("y") = Reaches("y", r)
      /\ (pos.y - Place("y")) * scale = Moved("y", r)
  BY <1>4, PlaceOfTile DEF Axes
<1>6. num.x \in Nat /\ num' = num
  BY <1>1, <1>2, LastReaches DEF Axes, Positive, geometry
<1>7. pos'.x = 0 /\ pos'.y = Put("y", r) /\ last'.x = FALSE /\ last'.y = Reaches("y", r)
  BY <1>1, <1>5
<1>8. skip'.y = Moved("y", r)
  BY <1>1, <1>5 DEF TilingInv, PositionsOK, Integral, Pairs
<1>9. Walked("x", 0)'
  <2>1. Stride["x"] \in Int
    BY <1>2 DEF GeometryOK, Spread, InputsOK, Pairs, Axes, Positive, Stride
  <2>2. Begin("x", 0)' = 0
    BY <1>1, <2>1, GeometryFrame DEF Begin
  <2>3. Ended("x", 0)' = FALSE
    BY DEF Ended
  <2>4. 0 \in 0 .. num'.x
    BY <1>6
  <2> QED
    BY <1>7, <2>2, <2>3, <2>4, Zenon DEF Walked
<1>10. \A q \in Pixels :
         written[q] = RowsSum(r, q) + Cover("x", 0, q[1]) * TileWeight("y", r, q[2])
  <2> TAKE q \in Pixels
  <2>1. written[q] = RowsSum(r, q)
    BY <1>3 DEF RowsBehind
  <2>2. q[2] \in Nat /\ q[2] < small["y"] * scale
    BY <1>2, PixelInside
  <2>3. TileWeight("y", r, q[2]) \in Int /\ Cover("y", r, q[2]) \in Int
    BY <1>1, <1>2, <1>4, <2>2, CoverGrows DEF Axes
  <2>4. RowsSum(r, q) \in Int
    BY <1>2, <2>3, FullInt DEF RowsSum
  <2>5. Cover("x", 0, q[1]) = 0
    BY DEF Cover
  <2> QED
    BY <2>1, <2>3, <2>4, <2>5
<1>11. count <= r * num.x + 0
  BY <1>3, <1>4, <1>6 DEF RowsBehind
<1>12. WithinRow(r, 0)'
  <2>1. ~Ended("y", r)
    BY <1>1, <1>4
  <2>2. \A q \in Pixels' :
          written'[q] = RowsSum(r, q)' + Cover("x", 0, q[1])' * TileWeight("y", r, q[2])'
    BY <1>1, <1>10, GeometryFrame
  <2>3. /\ ~Ended("y", r)' /\ pos'.y = Put("y", r)' /\ skip'.y = Moved("y", r)'
        /\ last'.y = Reaches("y", r)' /\ r < num'.y /\ count' <= r * num'.x + 0
    BY <1>1, <1>4, <1>6, <1>7, <1>8, <1>11, <2>1, GeometryFrame
  <2> QED
    BY <1>9, <2>2, <2>3 DEF WithinRow
<1>13. \E n \in 0 .. num'.y, c \in 0 .. num'.x : WithinRow(n, c)'
  BY <1>4, <1>6, <1>12
<1>14. GeometryOK' /\ count' <= num'.x * num'.y /\ shown' <= num'.x * num'.y
  BY <1>1, <1>2, <1>6, GeometryFrame DEF BlendInv
<1>15. last' \in Pairs(BOOLEAN)
  BY <1>1 DEF Ends, Pairs
<1> QED
  BY <1>1, <1>13, <1>14, <1>15 DEF BlendInv, WrittenOnce

\* The rows that are done leave nothing to add, nor does the row that is.
LEMMA RowDoneBlends == ASSUME TilingInv, BlendInv, RowDone PROVE BlendInv'
PROOF
<1>1. /\ tilingPc = "tiles" /\ tilingPc' = "rows" /\ (pos.x >= small.x \/ last.x)
      /\ UNCHANGED <<inputs, geometry, last, at, skip, count, shown, written>>
      /\ pos' = [pos EXCEPT !.y = pos.y + Stride.y]
  BY DEF RowDone
<1>2. InputsOK /\ GeometryOK
  BY <1>1 DEF TilingInv, BlendInv
<1>3. PICK r \in 0 .. num.y, c \in 0 .. num.x : WithinRow(r, c)
  BY <1>1 DEF BlendInv
<1>4. /\ num.x \in Nat /\ c \in Nat /\ c <= num.x /\ last.x = Ended("x", c)
      /\ ~last.x => pos.x < small.x
  BY <1>2, <1>3, AnotherTile DEF WithinRow, Axes
<1>5. num.y \in Nat /\ r \in Nat /\ r < num.y /\ ~Ended("y", r) /\ num' = num
  BY <1>1, <1>2, <1>3, LastReaches DEF WithinRow, Axes, Positive, geometry
<1>6. last.x /\ Ended("x", c)
  <2>1. ~last.x => pos.x \in Int /\ small.x \in Int
    BY <1>2 DEF TilingInv, PositionsOK, Integral, InputsOK, Pairs, Positive
  <2> QED
    BY <1>1, <1>4, <2>1
<1>7. Walked("y", r + 1)'
  <2>1. Ended("y", r + 1) = Reaches("y", r)
    <3>1. (r + 1) - 1 = r /\ r + 1 > 0
      BY <1>5
    <3> QED
      BY <3>1 DEF Ended, Reaches
  <2>2. last'.y = Ended("y", r + 1)'
    BY <1>1, <1>3, <2>1, GeometryFrame DEF WithinRow
  <2>3. pos'.y = pos.y + Stride.y
    BY <1>1 DEF TilingInv, PositionsOK, Integral, Pairs
  <2>4. ~last'.y => pos'.y = Begin("y", r + 1)'
    <3>1. Begin("y", r + 1) = Begin("y", r) + Stride["y"]
      BY <1>2, <1>5, TileFacts DEF Axes
    <3>2. ~last.y => pos.y = Begin("y", r)
      BY <1>3 DEF WithinRow, Put
    <3> QED
      BY <1>1, <2>3, <3>1, <3>2, GeometryFrame
  <2>5. r + 1 \in 0 .. num'.y
    BY <1>5
  <2> QED
    BY <2>2, <2>4, <2>5 DEF Walked
<1>8. \A q \in Pixels : written[q] = RowsSum(r + 1, q)
  <2> TAKE q \in Pixels
  <2> DEFINE F == FullAlong("x")
             C0 == Cover("y", r, q[2])
             C1 == Cover("y", r + 1, q[2])
             W == TileWeight("y", r, q[2])
  <2>1. q[2] \in Nat /\ q[2] < small["y"] * scale
    BY <1>2, PixelInside
  <2>2. C0 \in Int /\ W \in Int /\ C1 \in Int /\ C0 + W = C1
    BY <1>2, <1>5, <2>1, CoverGrows DEF Axes
  <2>3. Cover("x", c, q[1]) = F
    BY <1>4, <1>6 DEF Cover, Ended
  <2>4. written[q] = F * C0 + F * W
    BY <1>3, <2>3 DEF WithinRow, RowsSum
  <2>5. F \in Int
    BY <1>2, FullInt
  <2> HIDE DEF F, C0, W, C1
  <2>6. F * C0 + F * W = F * C1
    BY <2>2, <2>5
  <2> QED
    BY <2>4, <2>6 DEF RowsSum, F, C1
<1>9. count <= (r + 1) * num.x
  <2>1. count \in Nat /\ count <= r * num.x + c
    BY <1>3 DEF WithinRow, TilingInv
  <2> QED
    BY <1>4, <1>5, <2>1, CountBound
<1>10. RowsBehind(r + 1)'
  <2>1. \A q \in Pixels' : written'[q] = RowsSum(r + 1, q)'
    BY <1>1, <1>8, GeometryFrame
  <2>2. count' <= (r + 1) * num'.x
    BY <1>1, <1>5, <1>9
  <2> QED
    BY <1>7, <2>1, <2>2 DEF RowsBehind
<1>11. \E n \in 0 .. num'.y : RowsBehind(n)'
  BY <1>5, <1>10
<1>12. GeometryOK' /\ count' <= num'.x * num'.y /\ shown' <= num'.x * num'.y
  BY <1>1, <1>2, <1>5, GeometryFrame DEF BlendInv
<1> QED
  BY <1>1, <1>11, <1>12 DEF BlendInv, WrittenOnce

\* A tile adds to every pixel the product of its weights along both axes, and
\* writes where nothing is blended only what no other has written.
LEMMA TileBlends == ASSUME TilingInv, BlendInv, NextTile PROVE BlendInv'
PROOF
<1>1. /\ tilingPc = "tiles" /\ ~last.x /\ UNCHANGED <<tilingPc, inputs, geometry>>
      /\ at' = [x |-> Place("x"), y |-> pos.y]
      /\ skip' = [skip EXCEPT !.x = (pos.x - Place("x")) * scale]
      /\ last' = [last EXCEPT !.x = Ends("x")]
      /\ Merge(at'.x * scale, at'.y * scale, skip'.x, skip'.y)
      /\ pos' = [pos EXCEPT !.x = Place("x") + Stride.x]
      /\ count' = count + 1 /\ shown' = count'
  BY DEF NextTile
<1>2. InputsOK /\ GeometryOK
  BY <1>1 DEF TilingInv, BlendInv
<1>3. PICK r \in 0 .. num.y, c \in 0 .. num.x : WithinRow(r, c)
  BY <1>1 DEF BlendInv
<1>4. /\ num.x \in Nat /\ c \in Nat /\ c < num.x /\ ~Ended("x", c)
      /\ pos.x = Begin("x", c)
  BY <1>1, <1>2, <1>3, AnotherTile DEF WithinRow, Axes
<1>5. num.y \in Nat /\ r \in Nat /\ r < num.y /\ ~Ended("y", r) /\ num' = num
  BY <1>1, <1>2, <1>3, LastReaches DEF WithinRow, Axes, Positive, geometry
<1>6. /\ Place("x") = Put("x", c) /\ Ends("x") = Reaches("x", c)
      /\ (pos.x - Place("x")) * scale = Moved("x", c)
  BY <1>4, PlaceOfTile DEF Axes
<1>7. /\ at'.x = Put("x", c) /\ at'.y = Put("y", r) /\ skip'.x = Moved("x", c)
      /\ skip'.y = Moved("y", r) /\ pos'.x = Put("x", c) + Stride.x /\ pos'.y = Put("y", r)
  <2>1. skip \in Integral /\ pos \in Integral
    BY DEF TilingInv, PositionsOK
  <2> QED
    BY <1>1, <1>3, <1>6, <2>1 DEF WithinRow, Integral, Pairs
<1>8. last'.x = Reaches("x", c) /\ last'.y = Reaches("y", r)
  <2>1. last \in Pairs(BOOLEAN)
    BY DEF BlendInv
  <2> QED
    BY <1>1, <1>3, <1>6, <2>1 DEF WithinRow, Pairs
<1>9. Walked("x", c + 1)'
  <2>1. Ended("x", c + 1) = Reaches("x", c)
    <3>1. (c + 1) - 1 = c /\ c + 1 > 0
      BY <1>4
    <3> QED
      BY <3>1 DEF Ended, Reaches
  <2>2. last'.x = Ended("x", c + 1)'
    BY <1>1, <1>8, <2>1, GeometryFrame
  <2>3. ~last'.x => pos'.x = Begin("x", c + 1)'
    <3>1. Begin("x", c + 1) = Begin("x", c) + Stride["x"]
      BY <1>2, <1>4, TileFacts DEF Axes
    <3> QED
      BY <1>1, <1>7, <1>8, <3>1, GeometryFrame DEF Put
  <2>4. c + 1 \in 0 .. num'.x
    BY <1>4, <1>5
  <2> QED
    BY <2>2, <2>3, <2>4 DEF Walked
<1>10. \A q \in Pixels :
         written'[q] = RowsSum(r, q) + Cover("x", c + 1, q[1]) * TileWeight("y", r, q[2])
  <2> TAKE q \in Pixels
  <2> DEFINE F == FullAlong("x")
             Y == Cover("y", r, q[2])
             X == Cover("x", c, q[1])
             X1 == Cover("x", c + 1, q[1])
             Wx == TileWeight("x", c, q[1])
             Wy == TileWeight("y", r, q[2])
             px == Put("x", c) * scale
             py == Put("y", r) * scale
             inX == InTile(q[1], "x", px, Moved("x", c))
             inY == InTile(q[2], "y", py, Moved("y", r))
             ax == AxisWeight("x", q[1] - px, px, Moved("x", c))
             ay == AxisWeight("y", q[2] - py, py, Moved("y", r))
  <2>1. /\ q[1] \in Nat /\ q[1] < small["x"] * scale
        /\ q[2] \in Nat /\ q[2] < small["y"] * scale
    BY <1>2, PixelInside
  <2>2. /\ X \in Int /\ Wx \in Int /\ X1 \in Int /\ X + Wx = X1
        /\ overlap["x"] = 0 /\ Wx # 0 => X = 0
    BY <1>2, <1>4, <2>1, CoverGrows DEF Axes
  <2>3. /\ Y \in Int /\ Wy \in Int
        /\ overlap["y"] = 0 /\ Wy # 0 => Y = 0
    BY <1>2, <1>5, <2>1, CoverGrows DEF Axes
  <2>4. F \in Int
    BY <1>2, FullInt
  <2>5. Wx = (IF inX THEN ax ELSE 0) /\ Wy = (IF inY THEN ay ELSE 0)
    BY DEF TileWeight
  <2>6. written[q] = F * Y + X * Wy
    BY <1>3 DEF WithinRow, RowsSum
  <2>7. written'[q] = IF ~inX \/ ~inY THEN written[q]
                      ELSE IF overlap.x > 0 \/ overlap.y > 0 THEN written[q] + ax * ay
                      ELSE Full
    BY <1>1, <1>7 DEF Merge
  <2>8. overlap.x \in Nat /\ overlap.y \in Nat
    BY <1>2 DEF GeometryOK, Spread, Axes
  <2>9. overlap.x = 0 /\ overlap.y = 0 => ax = 1 /\ ay = 1 /\ F = 1 /\ Full = 1
    <3> SUFFICES ASSUME overlap.x = 0, overlap.y = 0
                 PROVE  ax = 1 /\ ay = 1 /\ F = 1 /\ Full = 1
      OBVIOUS
    <3>1. Ramp["x"] = 1 /\ Ramp["y"] = 1
      BY DEF Ramp, Axes
    <3>2. Smootherstep(1, 1) = 1
      BY RampsAddUp
    <3> HIDE DEF px, py
    <3> QED
      BY <3>1, <3>2 DEF AxisWeight, Lesser, FullAlong, Full
  <2> HIDE DEF F, Y, X, X1, Wx, Wy, inX, inY, ax, ay
  <2>10. X1 * Wy = X * Wy + Wx * Wy
    BY <2>2, <2>3
  <2>11. F * Y \in Int /\ X * Wy \in Int /\ Wx * Wy \in Int
    BY <2>2, <2>3, <2>4
  <2>12. written'[q] = F * Y + X1 * Wy
    <3>1. CASE ~inX
      <4>1. Wx * Wy = 0
        BY <2>3, <2>5, <3>1
      <4> QED
        BY <2>6, <2>7, <2>10, <2>11, <3>1, <4>1
    <3>2. CASE ~inY
      <4>1. Wx * Wy = 0
        BY <2>2, <2>5, <3>2
      <4> QED
        BY <2>6, <2>7, <2>10, <2>11, <3>2, <4>1
    <3>3. CASE inX /\ inY /\ (overlap.x > 0 \/ overlap.y > 0)
      BY <2>5, <2>6, <2>7, <2>10, <2>11, <3>3
    <3>4. CASE inX /\ inY /\ overlap.x = 0 /\ overlap.y = 0
      <4>1. Wx = 1 /\ Wy = 1 /\ X = 0 /\ Y = 0 /\ F = 1 /\ written'[q] = 1
        BY <2>2, <2>3, <2>5, <2>7, <2>9, <3>4
      <4> QED
        BY <2>2, <4>1
    <3> QED
      BY <2>8, <3>1, <3>2, <3>3, <3>4
  <2> QED
    BY <2>12 DEF RowsSum, F, Y, X1, Wy
<1>11. count' <= r * num.x + (c + 1) /\ count' <= num.x * num.y
  <2>1. count \in Nat /\ count <= r * num.x + c
    BY <1>3 DEF WithinRow, TilingInv
  <2>2. r * num.x \in Nat /\ r * num.x + (c + 1) <= num.y * num.x
    BY <1>4, <1>5, CountBound
  <2>3. num.y * num.x = num.x * num.y /\ num.y * num.x \in Nat
    BY <1>4, <1>5
  <2> QED
    BY <1>1, <1>4, <2>1, <2>2, <2>3
<1>12. WithinRow(r, c + 1)'
  <2>1. \A q \in Pixels' :
          written'[q] = RowsSum(r, q)' + Cover("x", c + 1, q[1])' * TileWeight("y", r, q[2])'
    BY <1>1, <1>10, GeometryFrame
  <2>2. /\ ~Ended("y", r)' /\ pos'.y = Put("y", r)' /\ skip'.y = Moved("y", r)'
        /\ last'.y = Reaches("y", r)' /\ r < num'.y /\ count' <= r * num'.x + (c + 1)
    BY <1>1, <1>5, <1>7, <1>8, <1>11, GeometryFrame
  <2> QED
    BY <1>9, <2>1, <2>2 DEF WithinRow
<1>13. \E n \in 0 .. num'.y, k \in 0 .. num'.x : WithinRow(n, k)'
  <2>1. r \in 0 .. num'.y /\ c + 1 \in 0 .. num'.x
    BY <1>4, <1>5
  <2> QED
    BY <1>12, <2>1
<1>14. GeometryOK' /\ count' <= num'.x * num'.y /\ shown' <= num'.x * num'.y
  BY <1>1, <1>2, <1>5, <1>11, GeometryFrame
<1>15. last' \in Pairs(BOOLEAN)
  <2>1. last \in Pairs(BOOLEAN)
    BY DEF BlendInv
  <2>2. Ends("x") \in BOOLEAN
    BY DEF Ends
  <2> QED
    BY <1>1, <2>1, <2>2 DEF Pairs
<1> QED
  BY <1>1, <1>13, <1>14, <1>15 DEF BlendInv, WrittenOnce

\* At the end all rows are covered, and every pixel got its whole weight.
LEMMA EndBlends == ASSUME TilingInv, BlendInv, TilesDone PROVE BlendInv'
PROOF
<1>1. /\ tilingPc = "rows" /\ tilingPc' = "done" /\ (pos.y >= small.y \/ last.y)
      /\ UNCHANGED <<inputs, geometry, pos, last, at, skip, count, written>>
      /\ shown' = IF count + 1 < num.x * num.y THEN num.x * num.y ELSE shown
  BY DEF TilesDone
<1>2. InputsOK /\ GeometryOK
  BY <1>1 DEF TilingInv, BlendInv
<1>3. PICK r \in 0 .. num.y : RowsBehind(r)
  BY <1>1 DEF BlendInv
<1>4. /\ num.y \in Nat /\ r \in Nat /\ last.y = Ended("y", r)
      /\ ~last.y => pos.y < small.y
  BY <1>2, <1>3, AnotherTile DEF RowsBehind, Axes
<1>5. last.y /\ Ended("y", r)
  <2>1. ~last.y => pos.y \in Int /\ small.y \in Int
    BY <1>2 DEF TilingInv, PositionsOK, Integral, InputsOK, Pairs, Positive
  <2> QED
    BY <1>1, <1>4, <2>1
<1>6. \A q \in Pixels : written[q] = Full
  <2>1. \A i : Cover("y", r, i) = FullAlong("y")
    BY <1>4, <1>5 DEF Cover, Ended
  <2> QED
    BY <1>2, <1>3, <2>1, FullInt DEF RowsBehind, RowsSum
<1>7. Full' = Full /\ num' = num
  BY <1>1, GeometryFrame DEF Full
<1>8. WrittenOnce'
  BY <1>1, <1>6, <1>7, GeometryFrame DEF WrittenOnce
<1>9. GeometryOK' /\ count' <= num'.x * num'.y /\ shown' <= num'.x * num'.y
  <2>1. num.x * num.y \in Nat
    <3>1. num.x \in Nat
      BY <1>2, LastReaches DEF Axes, Positive
    <3> QED
      BY <1>4, <3>1
  <2>2. count <= num.x * num.y /\ shown <= num.x * num.y
    BY <1>1 DEF BlendInv
  <2> QED
    BY <1>1, <1>2, <1>7, <2>1, <2>2, GeometryFrame
<1> QED
  BY <1>1, <1>8, <1>9 DEF BlendInv

\* A stutter changes nothing.
LEMMA StutterBlends == ASSUME BlendInv, UNCHANGED tilingVars PROVE BlendInv'
PROOF
<1>1. UNCHANGED <<tilingPc, inputs, geometry, pos, last, skip, count, shown, written>>
  BY DEF tilingVars
<1>2. num' = num /\ (GeometryOK' = GeometryOK) /\ Full' = Full /\ Pixels' = Pixels
  BY <1>1, GeometryFrame DEF Full
<1>3. \A a, k : Walked(a, k)' = Walked(a, k)
  BY <1>1, GeometryFrame DEF Walked
<1>4. \A r : RowsBehind(r)' = RowsBehind(r)
  BY <1>1, <1>2, <1>3, GeometryFrame DEF RowsBehind
<1>5. \A r, c : WithinRow(r, c)' = WithinRow(r, c)
  BY <1>1, <1>2, <1>3, GeometryFrame DEF WithinRow
<1>6. WrittenOnce'
  BY <1>1, <1>2 DEF WrittenOnce, BlendInv
<1> QED
  BY <1>1, <1>2, <1>4, <1>5, <1>6 DEF BlendInv

\* The sums hold in every state, together with where the tiles are put.
THEOREM SumsInvariant == TilingSpec => [](TilingInv /\ BlendInv)
PROOF
<1>1. TilingInit => TilingInv /\ BlendInv
  BY TilingInitially, BlendInitially
<1>2. TilingInv /\ BlendInv /\ [TilingNext]_tilingVars => (TilingInv /\ BlendInv)'
  <2>1. TilingInv /\ [TilingNext]_tilingVars => TilingInv'
    BY CountPreserves, RowPreserves, TilePreserves, RowDonePreserves, RestPreserves
       DEF TilingNext, TilingEnded
  <2>2. TilingInv /\ BlendInv /\ [TilingNext]_tilingVars => BlendInv'
    BY CountBlends, RowBlends, TileBlends, RowDoneBlends, EndBlends, StutterBlends
       DEF TilingNext, TilingEnded
  <2> QED
    BY <2>1, <2>2
<1> QED
  BY <1>1, <1>2, PTL DEF TilingSpec

\* For every size, tile, overlap and scale, the weights each pixel of the output
\* is written with add up to one (sd_tiling_non_square, ggml_ext_tensor_merge_2d).
THEOREM BlendedOnce == TilingSpec => []WrittenOnce
PROOF
<1>1. TilingInv /\ BlendInv => WrittenOnce
  BY DEF BlendInv
<1> QED
  BY SumsInvariant, <1>1, PTL

\* No three tiles meet along an axis, whatever the rounding of the overlap
\* (sd_tiling_calc_tiles).
THEOREM OverlapBounded == TilingSpec => []OverlapAtMostHalf
PROOF
<1>1. TilingInv /\ BlendInv => OverlapAtMostHalf
  BY DEF BlendInv, GeometryOK, Spread, OverlapAtMostHalf
<1> QED
  BY SumsInvariant, <1>1, PTL

\* No more tiles are processed than were counted (sd_tiling_calc_tiles), so that
\* progress does not run past its end.
THEOREM ProgressBounded == TilingSpec => []ProgressInBounds
PROOF
<1>1. TilingInv /\ BlendInv => ProgressInBounds
  BY DEF BlendInv, ProgressInBounds
<1> QED
  BY SumsInvariant, <1>1, PTL

-----------------------------------------------------------------------------
\* A tile is put no further than the running position, and not before the start.
LEMMA PlaceNat ==
  ASSUME InputsOK, NEW a \in Axes, pos[a] \in Nat
  PROVE  Place(a) \in Nat /\ (pos[a] - Place(a)) * scale \in Nat
PROOF
<1>1. small[a] \in Nat /\ tile[a] \in Nat /\ scale \in Nat
  BY DEF InputsOK, Pairs, Positive, Axes
<1>2. TileSize[a] \in Nat /\ TileSize[a] <= small[a]
  BY <1>1 DEF TileSize
<1>3. Place(a) \in Nat /\ pos[a] - Place(a) \in Nat
  BY <1>1, <1>2 DEF Place, Ends
<1>4. \A k \in Nat : k * scale \in Nat
  BY <1>1
<1> QED
  BY <1>3, <1>4

LEMMA ProductNat == ASSUME NEW m \in Nat, NEW n \in Nat PROVE m * n \in Nat
PROOF
  OBVIOUS

\* A ramp does not fall below zero (smootherstep_f32).
LEMMA SmootherstepNat ==
  ASSUME NEW d \in Nat, NEW n \in 0 .. d
  PROVE  Smootherstep(n, d) \in Nat
PROOF
<1> DEFINE m == d - n
           c == n * n + 5 * (n * m) + 10 * (m * m)
<1>1. n \in Nat /\ m \in Nat /\ d = n + m
  OBVIOUS
<1> HIDE DEF m
<1>2. c \in Nat
  <2>1. n * n \in Nat /\ n * m \in Nat /\ m * m \in Nat
    BY <1>1, ProductNat
  <2> QED
    BY <2>1
<1>3. n * (6 * n - 15 * d) + 10 * d * d = c
  BY <1>1
<1>4. n * n * n \in Nat
  <2>1. n * n \in Nat
    BY <1>1, ProductNat
  <2> QED
    BY <1>1, <2>1, ProductNat
<1>5. Smootherstep(n, d) = (n * n * n) * c
  BY <1>3 DEF Smootherstep
<1> HIDE DEF c
<1> QED
  BY <1>2, <1>4, <1>5, ProductNat

LEMMA RampNat ==
  ASSUME InputsOK, overlap \in Pairs(Nat), NEW a \in Axes
  PROVE  Ramp[a] \in Nat
PROOF
<1>1. overlap[a] \in Nat /\ scale \in Nat
  BY DEF InputsOK, Pairs, Positive, Axes
<1>2. overlap[a] * scale \in Nat
  BY <1>1, ProductNat
<1> QED
  BY <1>2 DEF Ramp

\* A pixel a tile writes is not before the ramp it begins with, nor behind the
\* one it ends with.
LEMMA AxisWeightNat ==
  ASSUME InputsOK, overlap \in Pairs(Nat), NEW a \in Axes,
         NEW q \in Int, NEW p \in Int, NEW d \in Int, InTile(q, a, p, d)
  PROVE  AxisWeight(a, q - p, p, d) \in Nat
PROOF
<1> DEFINE size == TileSize[a] * scale
           i == q - p
           rise == IF overlap[a] > 0 /\ p > 0 THEN i - d ELSE Ramp[a]
           fall == IF overlap[a] > 0 /\ p < (small[a] - TileSize[a]) * scale THEN size - i ELSE Ramp[a]
           n == Lesser(Lesser(rise, fall), Ramp[a])
<1>1. Ramp[a] \in Nat
  BY RampNat
<1>2. size \in Int
  BY TileSizePositive DEF InputsOK, Pairs, Positive, Axes
<1>3. p + d <= q /\ q < p + size
  BY DEF InTile, FirstWritten
<1> HIDE DEF size
<1>4. i - d \in Nat /\ size - i \in Nat
  BY <1>2, <1>3
<1>5. rise \in Nat /\ fall \in Nat
  BY <1>1, <1>4
<1>6. AxisWeight(a, i, p, d) = Smootherstep(n, Ramp[a])
  BY DEF AxisWeight, size
<1> HIDE DEF rise, fall, i
<1>7. n \in 0 .. Ramp[a]
  BY <1>1, <1>5 DEF Lesser
<1> HIDE DEF n
<1> QED
  BY <1>1, <1>6, <1>7, SmootherstepNat DEF i

\* Merging a tile adds weights that are not negative.
LEMMA MergedNat ==
  ASSUME InputsOK, overlap \in Pairs(Nat), \A q \in Pixels : written[q] \in Nat,
         NEW px \in Int, NEW py \in Int, NEW dx \in Int, NEW dy \in Int, Merge(px, py, dx, dy)
  PROVE  DOMAIN written' = Pixels /\ \A q \in Pixels : written'[q] \in Nat
PROOF
<1>1. /\ DOMAIN written' = Pixels
      /\ \A q \in Pixels : written'[q] =
           IF ~InTile(q[1], "x", px, dx) \/ ~InTile(q[2], "y", py, dy) THEN written[q]
           ELSE IF overlap.x > 0 \/ overlap.y > 0
                  THEN written[q] + AxisWeight("x", q[1] - px, px, dx)
                                      * AxisWeight("y", q[2] - py, py, dy)
                  ELSE Full
  BY DEF Merge
<1>2. Full \in Nat
  <2>1. Ramp["x"] \in Nat /\ Ramp["y"] \in Nat
    BY RampNat DEF Axes
  <2>2. Smootherstep(Ramp["x"], Ramp["x"]) \in Nat /\ Smootherstep(Ramp["y"], Ramp["y"]) \in Nat
    BY <2>1, SmootherstepNat
  <2> QED
    BY <2>2, ProductNat DEF Full
<1>3. ASSUME NEW q \in Pixels PROVE written'[q] \in Nat
  <2>1. q[1] \in Int /\ q[2] \in Int
    BY PixelInside
  <2>2. CASE InTile(q[1], "x", px, dx) /\ InTile(q[2], "y", py, dy)
    <3> DEFINE wx == AxisWeight("x", q[1] - px, px, dx)
               wy == AxisWeight("y", q[2] - py, py, dy)
    <3>1. wx \in Nat /\ wy \in Nat
      BY <2>1, <2>2, AxisWeightNat DEF Axes
    <3>2. written'[q] = written[q] + wx * wy \/ written'[q] = Full
      BY <1>1, <2>2
    <3> HIDE DEF wx, wy
    <3>3. wx * wy \in Nat
      BY <3>1, ProductNat
    <3> QED
      BY <1>2, <3>2, <3>3
  <2>3. CASE ~(InTile(q[1], "x", px, dx) /\ InTile(q[2], "y", py, dy))
    BY <1>1, <2>3
  <2> QED
    BY <2>2, <2>3
<1> QED
  BY <1>1, <1>3

LEMMA TilingStaysTyped ==
  ASSUME TilingInv, BlendInv, BlendInv', TilingTypeOK, [TilingNext]_tilingVars
  PROVE  TilingTypeOK'
PROOF
<1>1. InputsOK /\ {num, overlap, pos, at, skip} \subseteq Pairs(Nat) /\ count \in Nat /\ shown \in Nat
  BY DEF TilingInv, TilingTypeOK
<1>2. UNCHANGED inputs
  BY DEF TilingNext, CountTiles, NextRow, NextTile, RowDone, TilesDone, TilingEnded, tilingVars
<1>3. /\ small' \in Sizes /\ tile' \in TileSizes /\ scale' \in Scales /\ Pixels' = Pixels
      /\ small' = small /\ tile' = tile /\ scale' = scale
  BY <1>2 DEF inputs, TilingTypeOK, Pixels
<1>4. tilingPc' \in {"start", "rows", "tiles", "done"} /\ last' \in Pairs(BOOLEAN)
  BY DEF BlendInv
<1>5. tilingPc # "start" => \A a \in Axes : Stride[a] \in Nat
  <2> SUFFICES ASSUME tilingPc # "start", NEW a \in Axes PROVE Stride[a] \in Nat
    OBVIOUS
  <2>1. overlap[a] \in Nat /\ overlap[a] < tile[a]
    BY DEF BlendInv, GeometryOK, Spread
  <2>2. tile[a] \in Nat
    BY <1>1 DEF InputsOK, Pairs, Positive, Axes
  <2> QED
    BY <2>1, <2>2 DEF Stride
<1>6. pos.x \in Nat /\ pos.y \in Nat /\ at.x \in Nat /\ at.y \in Nat /\ skip.x \in Nat /\ skip.y \in Nat
      /\ scale \in Nat
  BY <1>1 DEF Pairs, InputsOK, Positive
<1>7. ASSUME {num', overlap', pos', at', skip'} \subseteq Pairs(Nat), count' \in Nat, shown' \in Nat,
             DOMAIN written' = Pixels, \A q \in Pixels : written'[q] \in Nat
      PROVE  TilingTypeOK'
  BY <1>3, <1>4, <1>7 DEF TilingTypeOK
<1>8. DOMAIN written = Pixels /\ \A q \in Pixels : written[q] \in Nat
  BY DEF TilingTypeOK
<1>9. CASE CountTiles
  <2>1. UNCHANGED <<pos, at, skip, count, shown, written>> /\ tilingPc' = "rows"
    BY <1>9 DEF CountTiles
  <2>2. PICK target \in Overlaps : num' = [a \in Axes |-> TilesOf(small[a], tile[a], target)]
    BY <1>9 DEF CountTiles
  <2>3. PICK ox, oy : overlap' = [x |-> ox, y |-> oy]
    BY <1>9 DEF CountTiles
  <2>4. GeometryOK'
    BY <2>1 DEF BlendInv
  <2>5. overlap'["x"] \in Nat /\ overlap'["y"] \in Nat /\ num'["x"] \in Nat /\ num'["y"] \in Nat
    BY <2>4 DEF GeometryOK, Spread, Axes, Positive
  <2>6. num' \in Pairs(Nat) /\ overlap' \in Pairs(Nat)
    BY <2>2, <2>3, <2>5 DEF Pairs, Axes
  <2> QED
    BY <1>1, <1>7, <1>8, <2>1, <2>6
<1>10. CASE NextRow
  <2>1. /\ UNCHANGED <<num, overlap, at, count, shown, written>>
        /\ pos' = [x |-> 0, y |-> Place("y")]
        /\ skip' = [skip EXCEPT !.y = (pos.y - Place("y")) * scale]
    BY <1>10 DEF NextRow, geometry
  <2>2. Place("y") \in Nat /\ (pos.y - Place("y")) * scale \in Nat
    BY <1>1, <1>6, PlaceNat DEF Axes
  <2>3. pos' \in Pairs(Nat) /\ skip' \in Pairs(Nat)
    BY <1>1, <2>1, <2>2 DEF Pairs
  <2> QED
    BY <1>1, <1>7, <1>8, <2>1, <2>3
<1>11. CASE NextTile
  <2>1. /\ UNCHANGED <<num, overlap>> /\ count' = count + 1 /\ shown' = count'
        /\ at' = [x |-> Place("x"), y |-> pos.y]
        /\ skip' = [skip EXCEPT !.x = (pos.x - Place("x")) * scale]
        /\ pos' = [pos EXCEPT !.x = Place("x") + Stride.x]
        /\ Merge(at'.x * scale, at'.y * scale, skip'.x, skip'.y)
        /\ tilingPc = "tiles"
    BY <1>11 DEF NextTile, geometry
  <2>2. Place("x") \in Nat /\ (pos.x - Place("x")) * scale \in Nat /\ Stride.x \in Nat
    BY <1>1, <1>5, <1>6, <2>1, PlaceNat DEF Axes
  <2>3. at' \in Pairs(Nat) /\ skip' \in Pairs(Nat) /\ pos' \in Pairs(Nat)
    BY <1>1, <1>6, <2>1, <2>2 DEF Pairs
  <2>4. at'.x * scale \in Int /\ at'.y * scale \in Int /\ skip'.x \in Int /\ skip'.y \in Int
    BY <1>6, <2>3 DEF Pairs
  <2>5. DOMAIN written' = Pixels /\ \A q \in Pixels : written'[q] \in Nat
    BY <1>1, <1>8, <2>1, <2>4, MergedNat
  <2> QED
    BY <1>1, <1>7, <2>1, <2>3, <2>5
<1>12. CASE RowDone
  <2>1. /\ UNCHANGED <<num, overlap, at, skip, count, shown, written>> /\ tilingPc = "tiles"
        /\ pos' = [pos EXCEPT !.y = pos.y + Stride.y]
    BY <1>12 DEF RowDone, geometry
  <2>2. Stride.y \in Nat
    BY <1>5, <2>1 DEF Axes
  <2>3. pos' \in Pairs(Nat)
    BY <1>1, <1>6, <2>1, <2>2 DEF Pairs
  <2> QED
    BY <1>1, <1>7, <1>8, <2>1, <2>3
<1>13. CASE TilesDone
  <2>1. /\ UNCHANGED <<num, overlap, pos, at, skip, count, written>>
        /\ shown' = IF count + 1 < num.x * num.y THEN num.x * num.y ELSE shown
    BY <1>13 DEF TilesDone, geometry
  <2>2. num.x * num.y \in Nat
    BY <1>1, ProductNat DEF Pairs
  <2> QED
    BY <1>1, <1>7, <1>8, <2>1, <2>2
<1>14. CASE TilingEnded \/ UNCHANGED tilingVars
  <2>1. UNCHANGED <<num, overlap, pos, at, skip, count, shown, written>>
    BY <1>14 DEF TilingEnded, tilingVars, geometry
  <2> QED
    BY <1>1, <1>7, <1>8, <2>1
<1> QED
  BY <1>9, <1>10, <1>11, <1>12, <1>13, <1>14 DEF TilingNext

\* No position, no part of a tile that is skipped, and no sum of weights is ever
\* negative (sd_tiling_non_square, whose positions merge_2d indexes with).
THEOREM TilingTypes == TilingSpec => []TilingTypeOK
PROOF
<1>1. TilingInit => TilingTypeOK
  BY DEF TilingInit, TilingTypeOK, Origin, Pairs
<1>2. TilingInv /\ BlendInv /\ BlendInv' /\ TilingTypeOK /\ [TilingNext]_tilingVars => TilingTypeOK'
  BY TilingStaysTyped
<1> QED
  BY SumsInvariant, <1>1, <1>2, PTL DEF TilingSpec
-----------------------------------------------------------------------------
(* The loops end *)

Beyond(p, size) == IF p < size THEN size - p ELSE 0

\* Pixels from the running position to the end of the image, none once the tile
\* that ends with it was placed
Ahead(a) == IF last[a] THEN 0 ELSE Beyond(pos[a], small[a])

TilingStage == IF tilingPc = "start" THEN 2 ELSE IF tilingPc = "done" THEN 0 ELSE 1

\* A row is begun and finished between two positions, and the last one without
\* any left.
RowSteps ==
  IF last.y THEN (IF tilingPc = "tiles" THEN 1 ELSE 0)
  ELSE 2 * Ahead("y") + (IF tilingPc = "tiles" THEN 0 ELSE 1)

\* A step leaves a later stage, fewer rows, or less of the row.
TilingCloser ==
  \/ TilingStage' < TilingStage
  \/ TilingStage' = TilingStage /\ RowSteps' < RowSteps
  \/ TilingStage' = TilingStage /\ RowSteps' = RowSteps /\ Ahead("x")' < Ahead("x")

\* What the loops rest on: a position moves on, by more than its overlap takes back.
LoopFacts ==
  /\ small \in Pairs(Positive) /\ pos \in Pairs(Nat) /\ last \in Pairs(BOOLEAN)
  /\ tilingPc \in {"start", "rows", "tiles", "done"}
  /\ tilingPc = "tiles" => pos.y < small.y
  /\ tilingPc # "start" => \A a \in Axes : Stride[a] \in Positive

\* The facts follow from the types, from where a row is put, and from an overlap
\* that is less than a tile.
LEMMA LoopsRest ==
  ASSUME TilingInv, TilingTypeOK, OverlapAtMostHalf
  PROVE  LoopFacts
PROOF
<1>1. small \in Pairs(Positive) /\ tile \in Pairs(Positive)
  BY DEF TilingInv, InputsOK
<1>2. pos \in Pairs(Nat) /\ overlap \in Pairs(Nat) /\ last \in Pairs(BOOLEAN)
      /\ tilingPc \in {"start", "rows", "tiles", "done"}
  BY DEF TilingTypeOK
<1>3. TileSize \in Pairs(Positive)
  BY TileSizePositive DEF TilingInv
<1>4. tilingPc = "tiles" => pos.y < small.y
  <2>1. tilingPc = "tiles" => pos.y + TileSize.y <= small.y
    BY DEF TilingInv, RowInside
  <2>2. pos.y \in Nat /\ small.y \in Nat /\ TileSize.y \in Nat /\ TileSize.y >= 1
    BY <1>1, <1>2, <1>3 DEF Pairs, Positive
  <2> HIDE DEF TileSize
  <2> QED
    BY <2>1, <2>2
<1>5. ASSUME tilingPc # "start" PROVE \A a \in Axes : Stride[a] \in Positive
  <2>1. overlap.x < tile.x /\ overlap.y < tile.y
    BY <1>5 DEF OverlapAtMostHalf, Axes
  <2>2. Stride.x = tile.x - overlap.x /\ Stride.y = tile.y - overlap.y
    BY DEF Stride, Axes
  <2>3. Stride.x \in Positive /\ Stride.y \in Positive
    BY <1>1, <1>2, <2>1, <2>2 DEF Pairs, Positive
  <2> QED
    BY <2>3 DEF Axes
<1> QED
  BY <1>1, <1>2, <1>4, <1>5 DEF LoopFacts

\* Past the end nothing is ahead, and each position before it leaves less.
LEMMA BeyondDrops ==
  ASSUME NEW p \in Nat, NEW size \in Positive, p < size, NEW d \in Positive
  PROVE  /\ Beyond(p, size) \in Nat /\ 1 <= Beyond(p, size)
         /\ Beyond(p + d, size) \in Nat /\ Beyond(p + d, size) < Beyond(p, size)
PROOF
  BY DEF Beyond, Positive

\* Beginning a row: it is the last, or as much is ahead as was.
LEMMA RowCloser == ASSUME LoopFacts, NextRow PROVE TilingCloser
PROOF
<1>1. /\ tilingPc = "rows" /\ tilingPc' = "tiles" /\ pos.y < small.y /\ last.y = FALSE
      /\ pos'.y = Place("y") /\ last'.y = Ends("y") /\ small' = small
  BY DEF NextRow, LoopFacts, Pairs, inputs
<1>2. TilingStage' = TilingStage
  BY <1>1 DEF TilingStage
<1>3. pos.y \in Nat /\ small.y \in Positive
  BY DEF LoopFacts, Pairs
<1>4. Beyond(pos.y, small.y) \in Nat /\ 1 <= Beyond(pos.y, small.y)
  BY <1>1, <1>3 DEF Beyond, Positive
<1>5. RowSteps = 2 * Beyond(pos.y, small.y) + 1
  BY <1>1 DEF RowSteps, Ahead
<1>6. CASE Ends("y")
  <2>1. RowSteps' = 1
    BY <1>1, <1>6 DEF RowSteps
  <2> QED
    BY <1>2, <1>4, <1>5, <2>1 DEF TilingCloser
<1>7. CASE ~Ends("y")
  <2>1. pos'.y = pos.y /\ last'.y = FALSE
    BY <1>1, <1>7 DEF Place
  <2>2. RowSteps' = 2 * Beyond(pos.y, small.y) + 0
    BY <1>1, <2>1 DEF RowSteps, Ahead
  <2> QED
    BY <1>2, <1>4, <1>5, <2>2 DEF TilingCloser
<1> QED
  BY <1>6, <1>7

\* After a row the position is further down, unless it was the last.
LEMMA RowDoneCloser == ASSUME LoopFacts, RowDone PROVE TilingCloser
PROOF
<1>1. /\ tilingPc = "tiles" /\ tilingPc' = "rows" /\ last' = last /\ small' = small
      /\ pos' = [pos EXCEPT !.y = pos.y + Stride.y]
  BY DEF RowDone, inputs
<1>2. TilingStage' = TilingStage
  BY <1>1 DEF TilingStage
<1>3. pos.y \in Nat /\ small.y \in Positive /\ pos.y < small.y /\ last.y \in BOOLEAN
      /\ pos'.y = pos.y + Stride.y
  BY <1>1 DEF LoopFacts, Pairs
<1>4. Stride.y \in Positive
  BY <1>1 DEF LoopFacts, Axes
<1>5. CASE last.y
  <2>1. RowSteps = 1 /\ RowSteps' = 0
    BY <1>1, <1>5 DEF RowSteps
  <2> QED
    BY <1>2, <2>1 DEF TilingCloser
<1>6. CASE ~last.y
  <2>1. RowSteps = 2 * Beyond(pos.y, small.y) + 0
    BY <1>1, <1>6 DEF RowSteps, Ahead
  <2>2. RowSteps' = 2 * Beyond(pos.y + Stride.y, small.y) + 1
    BY <1>1, <1>3, <1>6 DEF RowSteps, Ahead
  <2>3. /\ Beyond(pos.y, small.y) \in Nat /\ Beyond(pos.y + Stride.y, small.y) \in Nat
        /\ Beyond(pos.y + Stride.y, small.y) < Beyond(pos.y, small.y)
    BY <1>3, <1>4, BeyondDrops
  <2> QED
    BY <1>2, <2>1, <2>2, <2>3 DEF TilingCloser
<1> QED
  BY <1>5, <1>6

\* After a tile the position is further along the row, or it was the last.
LEMMA TileCloser == ASSUME LoopFacts, NextTile PROVE TilingCloser
PROOF
<1>1. /\ tilingPc = "tiles" /\ tilingPc' = tilingPc /\ small' = small /\ pos.x < small.x
      /\ last.x = FALSE /\ last' = [last EXCEPT !.x = Ends("x")]
      /\ pos' = [pos EXCEPT !.x = Place("x") + Stride.x]
  BY DEF NextTile, LoopFacts, Pairs, inputs
<1>2. /\ pos.x \in Nat /\ small.x \in Positive
      /\ pos'.x = Place("x") + Stride.x /\ pos'.y = pos.y /\ last'.y = last.y
      /\ last'.x = Ends("x")
  BY <1>1 DEF LoopFacts, Pairs
<1>3. Stride.x \in Positive
  BY <1>1 DEF LoopFacts, Axes
<1>4. TilingStage' = TilingStage /\ RowSteps' = RowSteps
  BY <1>1, <1>2 DEF TilingStage, RowSteps, Ahead
<1>5. Ahead("x") = Beyond(pos.x, small.x)
  BY <1>1 DEF Ahead
<1>6. /\ Beyond(pos.x, small.x) \in Nat /\ 1 <= Beyond(pos.x, small.x)
      /\ Beyond(pos.x + Stride.x, small.x) < Beyond(pos.x, small.x)
  BY <1>1, <1>2, <1>3, BeyondDrops
<1>7. CASE Ends("x")
  <2>1. Ahead("x")' = 0
    BY <1>2, <1>7 DEF Ahead
  <2> QED
    BY <1>4, <1>5, <1>6, <2>1 DEF TilingCloser
<1>8. CASE ~Ends("x")
  <2>1. pos'.x = pos.x + Stride.x
    BY <1>2, <1>8 DEF Place
  <2>2. Ahead("x")' = Beyond(pos.x + Stride.x, small.x)
    BY <1>1, <1>2, <1>8, <2>1 DEF Ahead
  <2> QED
    BY <1>4, <1>5, <1>6, <2>2 DEF TilingCloser
<1> QED
  BY <1>7, <1>8

\* Whatever the sizes, the two loops of sd_tiling_non_square end, which have no
\* bound but their positions: every step that changes anything makes a measure
\* smaller, since a tile is always longer than its overlap.
THEOREM TilingEnds == TilingSpec => [][TilingCloser]_tilingVars
PROOF
<1>1. TilingInv /\ TilingTypeOK /\ OverlapAtMostHalf /\ [TilingNext]_tilingVars
        => [TilingCloser]_tilingVars
  <2> SUFFICES ASSUME TilingInv, TilingTypeOK, OverlapAtMostHalf, TilingNext,
                      ~(UNCHANGED tilingVars)
               PROVE  TilingCloser
    OBVIOUS
  <2>1. LoopFacts
    BY LoopsRest
  <2>2. CASE CountTiles
    BY <2>2 DEF CountTiles, TilingCloser, TilingStage
  <2>3. CASE TilesDone
    BY <2>3 DEF TilesDone, TilingCloser, TilingStage
  <2> QED
    BY <2>1, <2>2, <2>3, RowCloser, RowDoneCloser, TileCloser DEF TilingNext, TilingEnded
<1> QED
  BY TilingInvariance, TilingTypes, OverlapBounded, <1>1, PTL DEF TilingSpec
=============================================================================
