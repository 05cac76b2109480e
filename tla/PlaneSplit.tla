----------------------------- MODULE PlaneSplit -----------------------------
(***************************************************************************)
(* How the reader of the 2D transform splits an image into four planes     *)
(* (initialize_planes_tiled of lwt_2d_reader.cpp).  A tile of the planes   *)
(* comes from a square of two by two tiles of the padded image.  The       *)
(* reader first finds out, for each axis, in which tiles of the image the  *)
(* samples lie that the extension makes that square of, brings these tiles *)
(* to the scratch, and then looks up every sample in there.                *)
(*                                                                         *)
(* There is room for a few tiles only.  Nothing is reported if they are    *)
(* more, or if a tile that is looked up is not there: then another is read.*)
(***************************************************************************)
EXTENDS PlaneExecution, SignalExtension, ExtensionGrowth

CONSTANT Pixel(_, _)    \* of the image, row and column

\* Faulty variant: what the square can touch, and one edge.
AxisCapacityShort(mode) == IF mode = "symmetric" THEN 3 ELSE 4

\* Tiles along an axis there is room for (SplitSourceTiles).
AxisCapacity(mode) == IF mode = "symmetric" THEN 3 ELSE 5

\* SourceAxisTileCollector, called for one sample after another: the tiles in
\* the order they are first met, as many as there is room for.
Collected(mode, visited) ==
    LET tile(k) == visited[k] \div Tile
        First(k) == \A earlier \in 1 .. k - 1 : tile(earlier) # tile(k)
        firsts == SelectSeq([k \in DOMAIN visited |-> k], First)
    IN [k \in 1 .. Smaller(Len(firsts), AxisCapacity(mode)) |-> tile(firsts[k])]

(***************************************************************************)
(* collect_boundary_source_axis_tiles, for the square from position i of   *)
(* the image on: the samples that each of its positions is made of, and    *)
(* after all of them both edges, which antireflection takes everywhere.    *)
(***************************************************************************)
Visited(mode, i, n) ==
    LET access == ExtendedIndex(mode, i, n)
    IN IF mode = "antireflect" THEN <<access.source>> ELSE Sources(access, n)

BoundaryTiles(mode, i, n) ==
    LET visited == FlattenSeq([o \in 1 .. 2 * Tile |-> Visited(mode, i + o - 1, n)])
        edges == IF mode = "antireflect" THEN <<0, n - 1>> ELSE <<>>
    IN Collected(mode, visited \o edges)

\* collect_source_axis_tiles, if the whole square lies within the image.
InteriorTiles(i) ==
    [k \in 1 .. (i + 2 * Tile - 1) \div Tile - i \div Tile + 1 |-> i \div Tile + k - 1]

\* find_index, and the sample that is read in place of another.
Staged(found, source) ==
    LET tile == source \div Tile
    IN (IF Contains(found, tile) THEN tile ELSE found[1]) * Tile + (source % Tile)

-----------------------------------------------------------------------------
\* Sample i of a stream of the split image, counted in the padded image, and
\* in the image itself (write_polyphase_tile).
SplitIndex(s, i) == 2 * i + (IF s = "odd" THEN 1 ELSE 0)

RawPosition(s, i, pad) == SplitIndex(s, i) - pad

\* Where the square begins that the tile is made of in which i lies.
SquareBegin(i, pad) == 2 * ((i \div Tile) * Tile) - pad

Inside(begin, n) == begin >= 0 /\ begin + 2 * Tile <= n

(***************************************************************************)
(* What is read, along one axis, for every sample of an interval of a      *)
(* stream: how it is combined and of which samples.  That depends on       *)
(* whether the square is inside along both axes (whole).                   *)
(***************************************************************************)
Read(mode, i, n, found) ==
    LET access == ExtendedIndex(mode, i, n)
        sources == Sources(access, n)
    IN [access |-> access,
        from |-> [k \in 1 .. Len(sources) |-> Staged(found, sources[k])]]

AxisReads(mode, n, pad, s, interval) ==
    LET Begin(i) == SquareBegin(i, pad)
        found == Evaluated([begin \in {Begin(i) : i \in Elements(interval)} |->
            [whole \in BOOLEAN |-> IF whole THEN InteriorTiles(begin)
                                   ELSE BoundaryTiles(mode, begin, n)]])
    IN Evaluated([i \in Elements(interval) |->
         [inside |-> Inside(Begin(i), n),
          read |-> [whole \in BOOLEAN |->
             Read(mode, RawPosition(s, i, pad), n, found[Begin(i)][whole])]]])

\* read_staged_extended_2d: the extension along y of the extension along x.
SplitSample(down, across) ==
    LET whole == down.inside /\ across.inside
        y == down.read[whole]
        x == across.read[whole]
        Row(r) == Combined(x.access, [k \in DOMAIN x.from |-> Pixel(r, x.from[k])])
    IN Combined(y.access, [k \in DOMAIN y.from |-> Row(y.from[k])]) % Modulus

\* The rectangle of the plane of the streams sy and sx.
SplitPlane(mode, size, pad, sy, sx, rect) ==
    LET Along(a, s) == AxisReads(mode, size[a], pad[a], s, rect[a])
    IN CHOOSE plane \in {Filled(rect, LAMBDA y, x : SplitSample(down[y], across[x])) :
                           down \in {Along("y", sy)}, across \in {Along("x", sx)}} : TRUE

(***************************************************************************)
(* The padded image, for comparison: all rows extended, then all columns   *)
(* of the result, sample by sample (ExtensionGrowth).                      *)
(***************************************************************************)
GrownImage(mode, size, pad, padded) ==
    LET reach == [a \in Axes |-> Larger(pad[a], padded[a] - pad[a] - size[a])]
        rows == Evaluated([y \in 0 .. size.y - 1 |->
                   Grown(mode, LAMBDA x : Pixel(y, x), size.x, reach.x)])
        columns == Evaluated([x \in -reach.x .. size.x - 1 + reach.x |->
                      Grown(mode, LAMBDA y : rows[y][x], size.y, reach.y)])
    IN Evaluated([y \in 0 .. padded.y - 1 |-> [x \in 0 .. padded.x - 1 |->
         columns[x - pad.x][y - pad.y] % Modulus]])
=============================================================================
