--------------------------- MODULE PlaneSchedule ---------------------------
(***************************************************************************)
(* The schedule of a rectangle of output of the 2D transform               *)
(* (build_route_schedule).  Four planes of the workspace hold the four     *)
(* combinations of the even and odd streams of the two axes; the fifth is  *)
(* scratch.  Four passes lift one axis each: the first two the axis that   *)
(* comes first, once for either stream of the other axis, the last two the *)
(* other axis.  The plane a pass leaves free is the next one's.            *)
(*                                                                         *)
(* A rectangle maps both axes to an interval.                              *)
(***************************************************************************)
EXTENDS AxisCone

CONSTANT Tile       \* rows and columns of a tile (kTileHeight2D, kTileWidth2D)

ASSUME TileAssumption == Tile \in Nat \ {0}

Axes == {"y", "x"}

Across == [y |-> "x", x |-> "y"]

Planes == {"P0", "P1", "P2", "P3", "Scratch"}

\* Where the stream sy of the rows of the stream sx of the columns is loaded.
HomePlane == [sy \in Streams |-> [sx \in Streams |->
    IF sy = "even" THEN (IF sx = "even" THEN "P0" ELSE "P1")
    ELSE (IF sx = "even" THEN "P2" ELSE "P3")]]

Rectangle(axis, along, across) ==
    [a \in Axes |-> IF a = axis THEN along ELSE across]

EmptyRectangle(r) == \E a \in Axes : Empty(r[a])

\* The intervals of a rectangle lie within those of another.
Within(outer, inner) ==
    EmptyRectangle(inner) \/ \A a \in Axes : Covers(outer[a], inner[a])

-----------------------------------------------------------------------------
(***************************************************************************)
(* append_axis_routes: a lift writes the free plane, and the plane of the  *)
(* stream it replaces becomes free; a scale is done in place.              *)
(***************************************************************************)
PlaneRoute(axis, across, slots, route) ==
    LET target == Target(route.type)
        On(s) == slots[s]
        Used(along) == Rectangle(axis, along, across)
    IN [axis |-> axis, type |-> route.type,
        source |-> IF route.type = "swap" THEN On("even")
                   ELSE IF IsLift(route.type) THEN On(Other[target]) ELSE On(target),
        base   |-> IF route.type = "swap" THEN On("odd") ELSE On(target),
        output |-> IF route.type = "swap" THEN On("even")
                   ELSE IF IsLift(route.type) THEN slots.free ELSE On(target),
        sourceRect |-> Used(route.source), baseRect |-> Used(route.base),
        outputRect |-> Used(route.output)]

SlotsAfter(slots, type) ==
    IF IsLift(type) THEN Moved(slots, Target(type))
    ELSE IF type = "swap" THEN [slots EXCEPT !.even = slots.odd, !.odd = slots.even]
    ELSE slots

\* A pass is [routes, slots]: its routes, and where it leaves the streams.
Pass(axis, cone, across, slots) ==
    LET Appended(pass, route) ==
            [slots |-> SlotsAfter(pass.slots, route.type),
             routes |-> Append(pass.routes,
                               PlaneRoute(axis, across, pass.slots, route))]
    IN FoldLeft(Appended, [slots |-> slots, routes |-> <<>>], cone.routes)

Pair(even, odd, free) == [even |-> even, odd |-> odd, free |-> free]

-----------------------------------------------------------------------------
\* Home plane of stream su of the axis u and stream sv of the other one.
Home(u, su, sv) == IF u = "y" THEN HomePlane[su][sv] ELSE HomePlane[sv][su]

\* Faulty variant: every pass is given the scratch plane.
FreeReset(pass) == "Scratch"

\* The plane that the pass before leaves free.
FreeAfter(pass) == pass.slots.free

\* The axis u is lifted first.
Schedule(u, cone) ==
    LET v == Across[u]
        a == Pass(u, cone[u], cone[v].initial.even,
                  Pair(Home(u, "even", "even"), Home(u, "odd", "even"), "Scratch"))
        b == Pass(u, cone[u], cone[v].initial.odd,
                  Pair(Home(u, "even", "odd"), Home(u, "odd", "odd"), FreeAfter(a)))
        c == Pass(v, cone[v], cone[u].final.even,
                  Pair(a.slots.even, b.slots.even, FreeAfter(b)))
        d == Pass(v, cone[v], cone[u].final.odd,
                  Pair(a.slots.odd, b.slots.odd, FreeAfter(c)))
        Of(su, sv) == IF su = "even" THEN c.slots[sv] ELSE d.slots[sv]
    IN [passes |-> <<a.routes, b.routes, c.routes, d.routes>>,
        final  |-> [sy \in Streams |-> [sx \in Streams |->
                      IF u = "y" THEN Of(sy, sx) ELSE Of(sx, sy)]]]

\* The forward transform lifts the columns first, the inverse one the rows.
FirstAxis == [lwt |-> "y", ilwt |-> "x"]

-----------------------------------------------------------------------------
(***************************************************************************)
(* What the planes have to hold (make_resource_model).                     *)
(***************************************************************************)
\* At one end of the two axes' cones.
Corners(cone, end) ==
    [sy \in Streams |-> [sx \in Streams |->
       [y |-> cone.y[end][sy], x |-> cone.x[end][sx]]]]

Routes(chunk) == FlattenSeq(chunk.passes)

\* What is loaded, read or written: a plane, and a rectangle in it.
Uses(chunk) ==
    LET Loaded == {<<HomePlane[sy][sx], chunk.initial[sy][sx]>> :
                     sy \in Streams, sx \in Streams}
        By(route) == {<<route.source, route.sourceRect>>, <<route.base, route.baseRect>>,
                      <<route.output, route.outputRect>>}
    IN Loaded \union UNION {By(route) : route \in ToSet(Routes(chunk))}

\* Whole tiles around an interval (aligned_interval_span).
Span(i) == RoundUp(i.end, Tile) - (i.begin \div Tile) * Tile

PlaneShape(chunk, plane) ==
    LET held == {use[2] : use \in {v \in Uses(chunk) :
                                     v[1] = plane /\ ~EmptyRectangle(v[2])}}
    IN [a \in Axes |-> Max({0} \union {Span(r[a]) : r \in held})]

Area(shape) == shape.y * shape.x

Workspace(shapes) == SumFunction([p \in Planes |-> Area(shapes[p])])

-----------------------------------------------------------------------------
(***************************************************************************)
(* How the planners divide the output into chunks, and what a chunk is:    *)
(* its schedule, and what it loads and leaves in the planes.               *)
(*                                                                         *)
(* A job has at least [inverse, scheme, size]; traces are those of its two *)
(* axes, tiles says how many rows and columns of tiles a chunk has.        *)
(***************************************************************************)
\* The job of one axis.
AxisJob(job, a) == [scheme |-> job.scheme, length |-> job.size[a]]

AxisTraces(job) == [a \in Axes |-> AxisTrace(AxisJob(job, a))]

\* Rows and columns of output: coefficients of a band, or samples.
OutputSize(job) ==
    [a \in Axes |-> IF job.inverse THEN job.size[a] ELSE OutputLength(AxisJob(job, a))]

TilesOf(job, a) == CeilDiv(OutputSize(job)[a], Tile)

Cone(job, traces, a, interval) ==
    IF job.inverse THEN InverseCone(AxisJob(job, a), traces[a], interval)
    ELSE ForwardCone(AxisJob(job, a), traces[a], interval)

\* build_chunk
Chunk(job, cone, output) ==
    LET schedule == Schedule(FirstAxis[IF job.inverse THEN "ilwt" ELSE "lwt"], cone)
    IN [output |-> output,
        initial |-> Corners(cone, "initial"),
        passes |-> schedule.passes,
        final |-> schedule.final,
        finalRect |-> Corners(cone, "final")]

\* build_chunks: cut both axes, and combine.
Cuts(job, tiles, a) ==
    LET step == tiles[a] * Tile
        length == OutputSize(job)[a]
    IN [n \in 1 .. CeilDiv(length, step) |->
          Interval((n - 1) * step, Smaller(n * step, length))]

AxisCones(job, traces, tiles) ==
    [a \in Axes |->
       LET cuts == Cuts(job, tiles, a)
       IN [n \in 1 .. Len(cuts) |-> Cone(job, traces, a, cuts[n])]]

ChunksOf(job, tiles, cones) ==
    LET columns == Len(cones.x)
        cuts == [a \in Axes |-> Cuts(job, tiles, a)]
        At(n) == [y |-> (n - 1) \div columns + 1, x |-> ((n - 1) % columns) + 1]
    IN [n \in 1 .. Len(cones.y) * columns |->
          Chunk(job, [a \in Axes |-> cones[a][At(n)[a]]],
                     [a \in Axes |-> cuts[a][At(n)[a]]])]
=============================================================================
