------------------------------- MODULE Tiling -------------------------------
(***************************************************************************)
(* Tiled processing (ggml_extend.hpp, sd_tiling_non_square): an image that *)
(* is too large for one computation is cut into overlapping tiles, and the *)
(* results are blended where tiles overlap.                                *)
(*                                                                         *)
(* Pixels carry no colour: what is kept for each is the sum of the weights *)
(* it was written with.  Fractions are exact, except that a quotient that  *)
(* should be whole may come out below it, as floats do.                    *)
(***************************************************************************)
EXTENDS Integers

CONSTANTS
  Sizes,     \* sizes of the smaller of input and output
  TileSizes, \* p_tile_size_x, p_tile_size_y
  Overlaps,  \* tile_overlap_factor, as numerator and denominator
  Scales     \* output pixels for one pixel of the smaller image, 1 to encode

Pairs(S) == [x : S, y : S]

ASSUME TilingAssumption ==
  /\ Sizes \subseteq Pairs(Nat \ {0}) /\ TileSizes \subseteq Pairs(Nat \ {0})
  /\ Scales \subseteq Nat \ {0}
  /\ \A o \in Overlaps : o[1] \in Nat /\ o[2] \in Nat \ {0} /\ 2 * o[1] <= o[2]

VARIABLES
  tilingPc,
  small,    \* small_width, small_height
  tile,     \* p_tile_size_x, p_tile_size_y
  scale,
  num,      \* num_tiles_x, num_tiles_y
  overlap,  \* tile_overlap_x, tile_overlap_y
  pos,      \* x, y
  last,     \* last_x, last_y
  at,       \* where the tile just merged was put
  skip,     \* dx, dy
  count,    \* tiles processed
  shown,    \* what the progress bar shows
  written   \* for each output pixel, the sum of the weights it got

inputs == <<small, tile, scale>>
geometry == <<num, overlap>>
tilingVars == <<tilingPc, inputs, geometry, pos, last, at, skip, count, shown, written>>

Axes == {"x", "y"}

-----------------------------------------------------------------------------
(* sd_tiling_calc_tiles *)

\* Integer division as in C
Quotient(a, b) == IF a < 0 THEN -((-a) \div b) ELSE a \div b

\* Bug the runs must notice: never an extra tile.
NoExtraTile(n, size, t, o) == FALSE

\* Tiles do not fit perfectly, and there is room for one more.
ExtraTile(n, size, t, o) ==
  LET overshoot == ((n + 1) * (t - o) + o) % size
  IN  overshoot # t - o /\ overshoot <= n * (t \div 2 - o)

NumTiles(size, t, target) ==
  LET o == (t * target[1]) \div target[2]
      n == Quotient(size - o, t - o)
  IN  IF ExtraTile(n, size, t, o) THEN n + 1 ELSE n

\* The number of tiles along an axis.  Up to two tiles are counted again.
TilesOf(size, t, target) ==
  LET n == NumTiles(size, t, target)
  IN  IF n > 2 THEN n ELSE IF size <= t THEN 1 ELSE 2

\* Bug the runs must notice: the overlap is rounded up.
RoundedUp(size, t, n) ==
  IF n = 1 THEN {0} ELSE {1 + Quotient(t * n - size, n - 1)}

\* (int32_t)(p_tile_size * tile_overlap_factor): the factor spreads what the
\* tiles have too much over their n - 1 overlaps.
OverlapsOf(size, t, n) ==
  IF n = 1 THEN {0}
  ELSE LET excess == t * n - size
           whole == Quotient(excess, n - 1)
       IN  {whole} \cup (IF whole > 0 /\ excess % (n - 1) = 0 THEN {whole - 1} ELSE {})

TileSize == [a \in Axes |-> IF tile[a] < small[a] THEN tile[a] ELSE small[a]]

Stride == [a \in Axes |-> tile[a] - overlap[a]]

-----------------------------------------------------------------------------
(* Blending: ggml_ext_tensor_merge_2d *)

\* smootherstep_f32(n / d), times d^5
Smootherstep(n, d) == n * n * n * (n * (6 * n - 15 * d) + 10 * d * d)

Lesser(a, b) == IF a < b THEN a ELSE b

\* The overlap in output pixels, or 1 where nothing is blended
Ramp == [a \in Axes |-> IF overlap[a] > 0 THEN overlap[a] * scale ELSE 1]

\* The weight along axis a of pixel i of a tile at position p that skips d
AxisWeight(a, i, p, d) ==
  LET size == TileSize[a] * scale
      rise == IF overlap[a] > 0 /\ p > 0 THEN i - d ELSE Ramp[a]
      fall == IF overlap[a] > 0 /\ p < (small[a] - TileSize[a]) * scale THEN size - i ELSE Ramp[a]
  IN  Smootherstep(Lesser(Lesser(rise, fall), Ramp[a]), Ramp[a])

\* The weight of a pixel that is fully written
Full == Smootherstep(Ramp.x, Ramp.x) * Smootherstep(Ramp.y, Ramp.y)

Pixels == (0 .. small.x * scale - 1) \X (0 .. small.y * scale - 1)

\* Bug the runs must notice: a tile that was moved back is merged whole.
NothingSkipped(p, d) == p

\* The first pixel a tile at p writes
FirstWritten(p, d) == p + d

InTile(pixel, axis, p, d) ==
  FirstWritten(p, d) <= pixel /\ pixel < p + TileSize[axis] * scale

Merge(px, py, dx, dy) ==
  written' = [q \in Pixels |->
    IF ~InTile(q[1], "x", px, dx) \/ ~InTile(q[2], "y", py, dy) THEN written[q]
    ELSE IF overlap.x > 0 \/ overlap.y > 0
           THEN written[q] + AxisWeight("x", q[1] - px, px, dx)
                               * AxisWeight("y", q[2] - py, py, dy)
           ELSE Full]

-----------------------------------------------------------------------------
Origin == [x |-> 0, y |-> 0]

TilingInit ==
  /\ tilingPc = "start" /\ small \in Sizes /\ tile \in TileSizes /\ scale \in Scales
  /\ num = Origin /\ overlap = Origin /\ pos = Origin
  /\ last = [x |-> FALSE, y |-> FALSE] /\ at = Origin /\ skip = Origin
  /\ count = 0 /\ shown = 0 /\ written = [q \in Pixels |-> 0]

\* The tiles are counted, and the first progress is shown.
CountTiles ==
  /\ tilingPc = "start"
  /\ \E target \in Overlaps :
       num' = [a \in Axes |-> TilesOf(small[a], tile[a], target)]
  /\ \E ox \in OverlapsOf(small.x, tile.x, num'.x), oy \in OverlapsOf(small.y, tile.y, num'.y) :
       overlap' = [x |-> ox, y |-> oy]
  /\ tilingPc' = "rows"
  /\ UNCHANGED <<inputs, pos, last, at, skip, count, shown, written>>

\* Bug the runs must notice: a tile that ends with the image is not the last.
EndsPast(a) == pos[a] + TileSize[a] > small[a]

\* The tile at the running position reaches the end of the image.
Ends(a) == pos[a] + TileSize[a] >= small[a]

\* Bug the runs must notice: the last tile is not moved back.
NotMovedBack(a) == pos[a]

\* Where the tile at the running position is put along an axis
Place(a) == IF Ends(a) THEN small[a] - TileSize[a] ELSE pos[a]

\* The next row of tiles.  The last one is moved back to end with the image.
NextRow ==
  /\ tilingPc = "rows" /\ pos.y < small.y /\ ~last.y
  /\ pos' = [x |-> 0, y |-> Place("y")]
  /\ skip' = [skip EXCEPT !.y = (pos.y - Place("y")) * scale]
  /\ last' = [x |-> FALSE, y |-> Ends("y")]
  /\ tilingPc' = "tiles"
  /\ UNCHANGED <<inputs, geometry, at, count, shown, written>>

\* The next tile of a row
NextTile ==
  /\ tilingPc = "tiles" /\ pos.x < small.x /\ ~last.x
  /\ at' = [x |-> Place("x"), y |-> pos.y]
  /\ skip' = [skip EXCEPT !.x = (pos.x - Place("x")) * scale]
  /\ last' = [last EXCEPT !.x = Ends("x")]
  /\ Merge(at'.x * scale, at'.y * scale, skip'.x, skip'.y)
  /\ pos' = [pos EXCEPT !.x = Place("x") + Stride.x]
  /\ count' = count + 1 /\ shown' = count'
  /\ UNCHANGED <<tilingPc, inputs, geometry>>

RowDone ==
  /\ tilingPc = "tiles" /\ (pos.x >= small.x \/ last.x)
  /\ pos' = [pos EXCEPT !.y = pos.y + Stride.y]
  /\ tilingPc' = "rows"
  /\ UNCHANGED <<inputs, geometry, last, at, skip, count, shown, written>>

\* Fewer tiles may do than were counted.  tile_count is one more than count.
TilesDone ==
  /\ tilingPc = "rows" /\ (pos.y >= small.y \/ last.y)
  /\ shown' = IF count + 1 < num.x * num.y THEN num.x * num.y ELSE shown
  /\ tilingPc' = "done"
  /\ UNCHANGED <<inputs, geometry, pos, last, at, skip, count, written>>

TilingEnded == tilingPc = "done" /\ UNCHANGED tilingVars

TilingNext == CountTiles \/ NextRow \/ NextTile \/ RowDone \/ TilesDone \/ TilingEnded

TilingSpec == TilingInit /\ [][TilingNext]_tilingVars

-----------------------------------------------------------------------------
\* The type of the state: the overlap factors are never negative.
TilingTypeOK ==
  /\ tilingPc \in {"start", "rows", "tiles", "done"}
  /\ small \in Sizes /\ tile \in TileSizes /\ scale \in Scales
  /\ {num, overlap, pos, at, skip} \subseteq Pairs(Nat) /\ last \in Pairs(BOOLEAN)
  /\ count \in Nat /\ shown \in Nat
  /\ DOMAIN written = Pixels /\ \A q \in Pixels : written[q] \in Nat

\* The blended image is an average: when all tiles are merged, the weights each
\* pixel of the output was written with add up to one, where tiles overlap, in
\* the corners where four of them do, and where the last one was moved back
\* over its neighbour (sd_tiling_non_square, ggml_ext_tensor_merge_2d).
WrittenOnce == tilingPc = "done" => \A q \in Pixels : written[q] = Full

\* A tile never reads or writes outside the images, which the copies do not
\* check, and the last ones still write something (ggml_ext_tensor_split_2d).
TilesInside ==
  count > 0 => \A a \in Axes :
    /\ at[a] + TileSize[a] <= small[a]
    /\ skip[a] < TileSize[a] * scale

\* No more than two tiles meet along an axis, so ramps do not run into each
\* other: with three tiles or more, the overlap is at most half of a tile.
\* The code says an extra tile is squeezed in "without overlap becoming >0.5".
OverlapAtMostHalf ==
  tilingPc # "start" => \A a \in Axes :
    /\ overlap[a] < tile[a]
    /\ num[a] > 2 => 2 * overlap[a] <= tile[a]

\* Progress never runs past its end: no more tiles are processed than were
\* counted, though positions do not depend on the count (sd_tiling_calc_tiles).
ProgressInBounds == tilingPc # "start" => count <= num.x * num.y /\ shown <= num.x * num.y
=============================================================================
