----------------------------- MODULE PlaneLegs -----------------------------
(***************************************************************************)
(* What reader and writer of the 2D transform make of a chunk of the plan: *)
(* which tiles of which planes they touch, in which order.  Planes are     *)
(* stored in tiles from the one in which their rectangle begins.           *)
(*                                                                         *)
(* The result is a sequence of legs as Lwt2DPipeline runs them.            *)
(***************************************************************************)
EXTENDS PlaneSchedule

Place(plane, y, x) == <<plane, y, x>>

LegOperands == {"source0", "source1", "base"}

\* aligned_begin, and the tiles from there on that an interval meets.
Aligned(n) == (n \div Tile) * Tile

TilesIn(i) == 0 .. Span(i) \div Tile - 1

\* Tiles in the order of two nested loops, rows first.
RowMajor(rows, columns) ==
    [n \in 1 .. rows * columns |->
       [y |-> (n - 1) \div columns, x |-> (n - 1) % columns]]

TilesOfRect(rect) == RowMajor(Span(rect.y) \div Tile, Span(rect.x) \div Tile)

-----------------------------------------------------------------------------
(***************************************************************************)
(* A tile that is asked for at a position that need not be a multiple of   *)
(* the tile, from a plane that stores a rectangle.                         *)
(***************************************************************************)
\* The elements that are both asked for and stored.
Meets(stored, at) ==
    Interval(Larger(stored.begin, at), Smaller(stored.end, at + Tile))

\* The tiles of the plane, along one axis, that hold them.
Touched(stored, at) ==
    LET i == Meets(stored, at)
        From(n) == (n - Aligned(stored.begin)) \div Tile
    IN IF i.begin >= i.end THEN {} ELSE From(i.begin) .. From(i.end - 1)

PlacesAt(plane, stored, at) ==
    {Place(plane, y, x) : y \in Touched(stored.y, at.y), x \in Touched(stored.x, at.x)}

\* classify_route_tile and stage_optimized_tile.
ClassAt(stored, at) ==
    IF \E a \in Axes : at[a] < stored[a].begin \/ at[a] + Tile > stored[a].end
    THEN "bounded"
    ELSE IF \A a \in Axes : (at[a] - Aligned(stored[a].begin)) % Tile = 0
    THEN "exact"
    ELSE "shifted"

\* base_requested_y, base_requested_x: where the operand of a tile begins.
Requested(rect, output, tile) ==
    [a \in Axes |-> rect[a].begin + Aligned(output[a].begin) + tile[a] * Tile
                      - output[a].begin]

\* stencil_requested_origin; the horizontal stencil looks at sixteen columns
\* to the left of the window's last one.
Taps(route) ==
    IF IsScale(route.type) THEN 1
    ELSE Extent(route.sourceRect[route.axis]) - Extent(route.outputRect[route.axis]) + 1

StencilOrigin(route, tile, index) ==
    LET at == Requested(route.sourceRect, route.outputRect, tile)
    IN IF route.axis = "y" THEN [at EXCEPT !.y = @ + index * Tile]
       ELSE [at EXCEPT !.x = @ + index * Tile - (17 - Taps(route))]

OperandAt(route, tile, operand) ==
    CASE operand = "base" -> Requested(route.baseRect, route.outputRect, tile)
      [] IsScale(route.type) -> Requested(route.sourceRect, route.outputRect, tile)
      [] operand = "source0" -> StencilOrigin(route, tile, 0)
      [] operand = "source1" -> StencilOrigin(route, tile, 1)

StagedFrom(stored, plane, at) ==
    [class |-> ClassAt(stored[plane], at), places |-> PlacesAt(plane, stored[plane], at)]

-----------------------------------------------------------------------------
\* The leg of a route, the planes storing what they do before it.
RouteLeg(route, stored) ==
    LET tiles == TilesOfRect(route.outputRect)
        From(operand) == IF operand = "base" THEN route.base ELSE route.source
    IN [kind |-> IF IsLift(route.type) THEN "lift" ELSE "scale",
        staged |-> [t \in 1 .. Len(tiles) |->
                      [o \in LegOperands |->
                         StagedFrom(stored, From(o), OperandAt(route, tiles[t], o))]],
        writes |-> [t \in 1 .. Len(tiles) |->
                      Place(route.output, tiles[t].y, tiles[t].x)]]

(***************************************************************************)
(* initialize_planes_tiled: the tiles of the split image one by one, each  *)
(* to all planes whose rectangle it meets.                                 *)
(***************************************************************************)
HomeRects(chunk) ==
    [p \in Planes \ {"Scratch"} |->
       LET at == CHOOSE c \in Streams \X Streams : HomePlane[c[1]][c[2]] = p
       IN chunk.initial[at[1]][at[2]]]

HullOf(rects, a) ==
    Interval(Min({rects[p][a].begin : p \in DOMAIN rects}),
             Max({rects[p][a].end : p \in DOMAIN rects}))

ForwardLoads(chunk) ==
    LET rects == HomeRects(chunk)
        hull == [a \in Axes |-> HullOf(rects, a)]
        At(tile) == [a \in Axes |-> Aligned(hull[a].begin) + tile[a] * Tile]
        Load(tile) ==
            [staged |-> TRUE,
             places |-> UNION {PlacesAt(p, rects[p], At(tile)) : p \in DOMAIN rects}]
        Active(load) == load.places # {}
        tiles == TilesOfRect(hull)
    IN SelectSeq([n \in 1 .. Len(tiles) |-> Load(tiles[n])], Active)

(***************************************************************************)
(* initialize_inverse_band_planes: plane by plane; a tile that is one of   *)
(* the band is read into the plane directly.  In the plane the coefficients*)
(* of a stream lie so many places further on (apart).                      *)
(***************************************************************************)
Straight(rect, at, apart) ==
    \A a \in Axes : /\ at[a] >= rect[a].begin /\ at[a] + Tile <= rect[a].end
                    /\ (at[a] - apart[a]) % Tile = 0

PlaneLoads(plane, rect, apart) ==
    LET tiles == TilesOfRect(rect)
        At(tile) == [a \in Axes |-> Aligned(rect[a].begin) + tile[a] * Tile]
    IN [n \in 1 .. Len(tiles) |->
          [staged |-> ~Straight(rect, At(tiles[n]), apart),
           places |-> {Place(plane, tiles[n].y, tiles[n].x)}]]

InverseLoads(chunk, apart) ==
    LET Of(sy, sx) ==
            PlaneLoads(HomePlane[sy][sx], chunk.initial[sy][sx],
                       [y |-> apart.y[sy], x |-> apart.x[sx]])
    IN Of("even", "even") \o Of("even", "odd") \o Of("odd", "even") \o Of("odd", "odd")

(***************************************************************************)
(* Results are put together from the first byte of the scratch on, where   *)
(* the reader has its route pages: a tile of the image with every element  *)
(* at its place in a tile, a piece of a band in the first page.            *)
(***************************************************************************)
RoutePageElements == 32

\* A tile consists of four faces, each of which is stored row by row.
tile_element_offset(y, x) ==
    LET face == Tile \div 2
    IN (y \div face) * Tile * face + (x \div face) * face * face
         + ((y % face) * face) + (x % face)

\* Pages, numbered from 0, that a tile of an output overwrites.
PagesUnder(output, tile) ==
    LET Inside(a) ==
            {n \in 0 .. Tile - 1 :
               Aligned(output[a].begin) + tile[a] * Tile + n
                 \in output[a].begin .. output[a].end - 1}
    IN {tile_element_offset(y, x) \div RoutePageElements :
          y \in Inside("y"), x \in Inside("x")}

\* The reader is done with a page when it has executed its route; it looks at
\* those of the routes after the last while the writer delivers the results.
PartsUnder(chunk, pages) ==
    LET routes == Routes(chunk)
        last == Max({n \in 1 .. Len(routes) : ~EmptyRectangle(routes[n].outputRect)})
    IN {IF page < last THEN "executed" ELSE "trailing" :
          page \in {p \in pages : p < Len(routes)}}

(***************************************************************************)
(* The writer is told the rectangle of a result in its plane, and writes a *)
(* band tile by tile, or in pieces of sixteen elements at most through the *)
(* scratch if its tiles are not those of the output.                       *)
(***************************************************************************)
BandWhole(output, rect) ==
    \A a \in Axes :
      /\ \A n \in {output[a].begin, Extent(output[a]), rect[a].begin} : n % Tile = 0
      /\ Extent(output[a]) = Extent(rect[a])

ForwardResults(chunk) ==
    LET Of(sy, sx) ==
            [staged |-> IF BandWhole(chunk.output, chunk.finalRect[sy][sx])
                        THEN {} ELSE PartsUnder(chunk, {0}),
             places |-> {Place(chunk.final[sy][sx], y, x) :
                           y \in TilesIn(chunk.finalRect[sy][sx].y),
                           x \in TilesIn(chunk.finalRect[sy][sx].x)}]
    IN <<Of("even", "even"), Of("even", "odd"), Of("odd", "even"), Of("odd", "odd")>>

\* write_interleaved_output: every tile of the image, from all four planes.
InverseResults(chunk, pad) ==
    LET tiles == TilesOfRect(chunk.output)
        \* Elements of a stream in the tile of the image that begins at n.
        Half(a, s, n) ==
            LET odd == IF s = "odd" THEN 1 ELSE 0
                first == Larger(n, chunk.output[a].begin) + pad[a]
                past == Smaller(n + Tile, chunk.output[a].end) + pad[a]
            IN Interval((first + 1 - odd) \div 2, (past + 1 - odd) \div 2)
        Cells(a, s, rect, n) ==
            {(i - Aligned(rect.begin)) \div Tile :
               i \in Half(a, s, n).begin .. Half(a, s, n).end - 1}
        At(a, tile) == Aligned(chunk.output[a].begin) + tile[a] * Tile
        From(tile, sy, sx) ==
            LET rect == chunk.finalRect[sy][sx]
            IN {Place(chunk.final[sy][sx], y, x) :
                  y \in Cells("y", sy, rect.y, At("y", tile)),
                  x \in Cells("x", sx, rect.x, At("x", tile))}
    IN [n \in 1 .. Len(tiles) |->
          [staged |-> PartsUnder(chunk, PagesUnder(chunk.output, tiles[n])),
           places |-> UNION {From(tiles[n], sy, sx) : sy \in Streams, sx \in Streams}]]

-----------------------------------------------------------------------------
Executable(route) == ~EmptyRectangle(route.outputRect)

\* Rectangles that the planes store before the n-th of the executed routes.
StoredBefore(chunk, executed) ==
    LET homes == HomeRects(chunk)
        unused == Rectangle("y", Nothing, Nothing)
        Writers(n, p) == {i \in 1 .. n - 1 : executed[i].output = p}
    IN [n \in 1 .. Len(executed) |->
          [p \in Planes |->
             IF Writers(n, p) # {} THEN executed[Max(Writers(n, p))].outputRect
             ELSE IF p = "Scratch" THEN unused ELSE homes[p]]]

\* The legs of a work item: its routes with output, then its results.
ItemLegs(item, chunk, loads, results) ==
    LET executed == SelectSeq(Routes(chunk), Executable)
        stored == StoredBefore(chunk, executed)
        Leg(n) == LET part == RouteLeg(executed[n], stored[n])
                  IN [item |-> item, kind |-> part.kind, staged |-> part.staged,
                      writes |-> part.writes,
                      skips |-> n = Len(executed) /\ ~Executable(Last(Routes(chunk))),
                      loads |-> IF n = 1 THEN loads ELSE <<>>, results |-> <<>>]
    IN [n \in 1 .. Len(executed) |-> Leg(n)]
       \o <<[item |-> item, kind |-> "results", staged |-> <<>>, writes |-> <<>>,
            skips |-> FALSE, loads |-> <<>>, results |-> results]>>

(***************************************************************************)
(* The legs of a core, from its first work item on: the samples of the     *)
(* batch one after the other, chunk by chunk.                              *)
(***************************************************************************)
ChunkOf(plan, work) == plan.chunks[(work % Len(plan.chunks)) + 1]

WorkLegs(plan, work) ==
    LET chunk == ChunkOf(plan, work)
    IN ItemLegs(work, chunk,
                IF plan.inverse THEN InverseLoads(chunk, plan.apart)
                                ELSE ForwardLoads(chunk),
                IF plan.inverse THEN InverseResults(chunk, plan.pad)
                                ELSE ForwardResults(chunk))

CoreLegs(plan, begin, number) ==
    FlattenSeq([n \in 1 .. number |-> WorkLegs(plan, begin + n - 1)])
=============================================================================
