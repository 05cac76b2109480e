----------------------------- MODULE Planner2D -----------------------------
(***************************************************************************)
(* The execution plans of the 2D transform, forward                        *)
(* (make_lwt_2d_execution_plan) and inverse (make_ilwt_2d_execution_plan). *)
(*                                                                         *)
(* The output is divided into chunks of so many rows and columns of tiles. *)
(* All sizes of a chunk are tried; one whose chunks all fit the budget     *)
(* becomes the plan if it is estimated to be better than the best so far   *)
(* (a cost model whose numbers are left out: either may win).  Then every  *)
(* plane is allocated once, for the tallest and the widest of the chunks.  *)
(*                                                                         *)
(* A job is [inverse, scheme, size, mode, budget]; the budget is in        *)
(* samples, what the fixed buffers take has been subtracted.               *)
(***************************************************************************)
EXTENDS PlaneSplit

CONSTANT Jobs

\* Not what scheme it is, only that it is one; every image has output.
ASSUME JobsAssumption ==
    \A j \in Jobs :
      /\ j.inverse \in BOOLEAN /\ j.mode \in Modes /\ j.budget \in Nat
      /\ j.scheme.taps \in Nat \ {0}
      /\ \A a \in Axes : {j.size[a], OutputSize(j)[a]} \subseteq Nat \ {0}
      /\ j.scheme.delay \in [Streams -> Int]
      /\ j.scheme.steps \in Seq([type : StepTypes, shift : Int, coeff : Seq(Int)])
      /\ \A i \in 1 .. Len(j.scheme.steps) :
           IsLift(j.scheme.steps[i].type) => j.scheme.steps[i].coeff # <<>>

VARIABLES
    phase,      \* "trace", "candidates", "planned" or "refused"
    fault,      \* why the plan was refused
    job,        \* what is being planned
    traces,     \* of either axis
    tiles,      \* rows and columns of tiles of the next candidate's chunks
    best,       \* [tiles, chunks], the best candidate so far
    planes      \* allocated rows and columns of every plane

vars == <<phase, fault, job, traces, tiles, best, planes>>

NotFound == [tiles |-> [a \in Axes |-> 0], chunks |-> <<>>]

NoPlanes == [p \in Planes |-> [a \in Axes |-> 0]]

Init ==
    /\ job \in Jobs
    /\ phase = "trace"
    /\ fault = "none"
    /\ traces = <<>>
    /\ tiles = [a \in Axes |-> 1]
    /\ best = NotFound
    /\ planes = NoPlanes

Refuse(reason) == phase' = "refused" /\ fault' = reason

-----------------------------------------------------------------------------
MakeTraces ==
    /\ phase = "trace"
    /\ traces' = AxisTraces(job)
    /\ IF ~ScalesAreTerminal(traces'["y"].routes) THEN Refuse("scheme")
       ELSE IF ~job.inverse /\ job.mode \in {"reflect", "antireflect"} /\ \E a \in Axes : job.size[a] = 1
       THEN Refuse("mode")
       ELSE phase' = "candidates" /\ fault' = fault
    /\ UNCHANGED <<job, tiles, best, planes>>

-----------------------------------------------------------------------------
\* A forward plan has a lift to take a terminal scale along.
Inlinable == job.inverse \/ CanInline(traces.y.routes)

\* The TT_FATALs on the way.
ChunkFault(cones, chunks) ==
    IF \E a \in Axes : \E n \in 1 .. Len(cones[a]) : ~cones[a][n].valid
    THEN "dependency"
    ELSE IF \E n \in 1 .. Len(chunks) :
              \E p, q \in Streams \X Streams :
                p # q /\ chunks[n].final[p[1]][p[2]] = chunks[n].final[q[1]][q[2]]
    THEN "aliased"
    ELSE IF \E n \in 1 .. Len(chunks), p \in Planes :
              Area(PlaneShape(chunks[n], p)) = 0
    THEN "unused"
    ELSE "none"

FitsAlone(chunk) == Workspace([p \in Planes |-> PlaneShape(chunk, p)]) <= job.budget

\* The inner loop runs over the columns.
NextTiles ==
    IF tiles.x < TilesOf(job, "x") THEN [tiles EXCEPT !.x = @ + 1]
    ELSE [y |-> tiles.y + 1, x |-> 1]

RefuseScheme ==
    /\ phase = "candidates"
    /\ ~Inlinable
    /\ Refuse("scheme")
    /\ UNCHANGED <<job, traces, tiles, best, planes>>

Consider ==
    /\ phase = "candidates"
    /\ Inlinable
    /\ tiles.y <= TilesOf(job, "y")
    /\ \E cones \in {AxisCones(job, traces, tiles)} :
         \E chunks \in {ChunksOf(job, tiles, cones)} :
         \E found \in {ChunkFault(cones, chunks)} :
           IF found # "none" THEN Refuse(found) /\ UNCHANGED <<tiles, best>>
           ELSE /\ tiles' = NextTiles
                /\ UNCHANGED <<phase, fault>>
                /\ IF \A n \in 1 .. Len(chunks) : FitsAlone(chunks[n])
                   THEN \/ best' = [tiles |-> tiles, chunks |-> chunks]
                        \/ best # NotFound /\ best' = best
                   ELSE best' = best
    /\ UNCHANGED <<job, traces, planes>>

-----------------------------------------------------------------------------
Uniform(plane) ==
    [a \in Axes |-> Max({PlaneShape(chunk, plane)[a] : chunk \in ToSet(best.chunks)})]

Allocate ==
    /\ phase = "candidates"
    /\ tiles.y > TilesOf(job, "y")
    /\ IF best = NotFound THEN Refuse("budget") /\ planes' = planes
       ELSE /\ planes' = [p \in Planes |-> Uniform(p)]
            /\ IF Workspace(planes') <= job.budget
               THEN phase' = "planned" /\ fault' = fault
               ELSE Refuse("uniform")
    /\ UNCHANGED <<job, traces, tiles, best>>

Next == MakeTraces \/ RefuseScheme \/ Consider \/ Allocate

Spec == Init /\ [][Next]_vars

-----------------------------------------------------------------------------
(***************************************************************************)
(* The planes at the start of a chunk.                                     *)
(***************************************************************************)
\* Absolute position of element i of a final stream.
Absolute(a, s, i) == i + traces[a].stream[s].shift

\* The element is one of the coefficients of the band.
InBand(a, s, i) ==
    Absolute(a, s, i) - CanonicalStart(AxisJob(job, a)) \in 0 .. OutputLength(AxisJob(job, a)) - 1

BandValue(ideal, sy, sx, y, x) ==
    IF InBand("y", sy, y) /\ InBand("x", sx, x)
    THEN ideal[sy][Absolute("y", sy, y)][sx][Absolute("x", sx, x)]
    ELSE Missing

Padding == [a \in Axes |-> Pad(AxisJob(job, a))]

InitialMemory(ideal, chunk) ==
    [p \in Planes |->
       IF p = "Scratch" THEN Unused
       ELSE LET at == CHOOSE c \in Streams \X Streams : HomePlane[c[1]][c[2]] = p
                rect == chunk.initial[at[1]][at[2]]
            IN IF job.inverse
               THEN Filled(rect, LAMBDA y, x : BandValue(ideal, at[1], at[2], y, x))
               ELSE SplitPlane(job.mode, job.size, Padding, at[1], at[2], rect)]

\* What element y, x of the combination sy, sx of streams has to be.
Wanted(image, ideal, sy, sx, y, x) ==
    IF job.inverse THEN image[SplitIndex(sy, y)][SplitIndex(sx, x)]
    ELSE ideal[sy][Absolute("y", sy, y)][sx][Absolute("x", sx, x)]

(***************************************************************************)
(* Every variable has its type; in particular no length, offset or bound   *)
(* of a rectangle that the code keeps as size_t is ever negative.          *)
(***************************************************************************)
Natural(rect) ==
    \A a \in Axes : {rect[a].begin, rect[a].end} \subseteq Nat

TypeOK ==
    /\ phase \in {"trace", "candidates", "planned", "refused"}
    /\ fault \in {"none", "scheme", "mode", "dependency", "unused", "aliased",
                  "budget", "uniform"}
    /\ phase = "refused" <=> fault # "none"
    /\ job \in Jobs
    /\ phase # "trace" =>
         \A a \in Axes : \A i \in 1 .. Len(traces[a].routes) :
           LET route == traces[a].routes[i]
           IN {route.sourceLength, route.baseLength, route.outputLength,
               route.sourceOffset, route.baseOffset} \subseteq Nat
    /\ tiles \in [Axes -> Nat \ {0}]
    /\ planes \in [Planes -> [Axes -> Nat]]
    /\ \A n \in 1 .. Len(best.chunks) :
         \A use \in Uses(best.chunks[n]) : use[1] \in Planes /\ Natural(use[2])

(***************************************************************************)
(* Of the planners' TT_FATALs only those are reachable that judge what was *)
(* asked for: the shape of the scheme, an extension mode that needs two    *)
(* samples, and the budget.  The dependencies of a chunk always lie within *)
(* the streams, every plane is used, no two results share one, and the     *)
(* allocation for all chunks fits whenever every single chunk does.        *)
(***************************************************************************)
OnlyRequestRefused == fault \in {"none", "scheme", "mode", "budget"}

(***************************************************************************)
(* The inverse transform asks for coefficients that exist: what a chunk    *)
(* loads of a band lies within the band.  The reader asserts it, and the   *)
(* planner, unlike that of the 1D transform, does not check it.            *)
(***************************************************************************)
CoefficientsExist ==
    job.inverse =>
      \A n \in 1 .. Len(best.chunks), sy, sx \in Streams :
        LET rect == best.chunks[n].initial[sy][sx]
        IN EmptyRectangle(rect)
             \/ /\ \A y \in Elements(rect.y) : InBand("y", sy, y)
                /\ \A x \in Elements(rect.x) : InBand("x", sx, x)

(***************************************************************************)
(* Through the four passes of a chunk every route finds its operands       *)
(* within what its planes store at that time, and a lift writes over       *)
(* neither of them; whatever is stored fits the planes that were allocated *)
(* for all chunks.  In the end the planes of the four results store them,  *)
(* from the tile on in which they begin: the writer is told the results'   *)
(* rectangles, not the stored ones, and derives the tile from them.        *)
(***************************************************************************)
LoadedRects(chunk) ==
    [p \in Planes |->
       IF p = "Scratch" THEN Rectangle("y", Nothing, Nothing)
       ELSE LET at == CHOOSE c \in Streams \X Streams : HomePlane[c[1]][c[2]] = p
            IN chunk.initial[at[1]][at[2]]]

RouteHeld(stored, route) ==
    /\ Within(stored[route.source], route.sourceRect)
    /\ Within(stored[route.base], route.baseRect)
    /\ IsLift(route.type) => route.output \notin {route.source, route.base}

\* What the planes store before route i of the four passes.
StoredBefore(chunk, run, i) ==
    [p \in Planes |->
       LET writers == {k \in 1 .. i - 1 : Executable(run[k]) /\ run[k].output = p}
       IN IF writers = {} THEN LoadedRects(chunk)[p]
          ELSE run[Max(writers)].outputRect]

FitsPlanes(stored) ==
    \A p \in Planes, a \in Axes :
      EmptyRectangle(stored[p]) \/ Span(stored[p][a]) <= planes[p][a]

ChunkServed(chunk) ==
    \A run \in {Routes(chunk)} :
      /\ \A i \in 1 .. Len(run) + 1 :
           \A stored \in {StoredBefore(chunk, run, i)} :
             /\ FitsPlanes(stored)
             /\ (i <= Len(run) /\ Executable(run[i])) => RouteHeld(stored, run[i])
      /\ \A stored \in {StoredBefore(chunk, run, Len(run) + 1)} :
           \A sy, sx \in Streams :
             Within(stored[chunk.final[sy][sx]], chunk.finalRect[sy][sx])

ResultsAligned(chunk) ==
    \A run \in {Routes(chunk)} :
      \A stored \in {StoredBefore(chunk, run, Len(run) + 1)} :
        \A sy, sx \in Streams :
          LET rect == chunk.finalRect[sy][sx]
              kept == stored[chunk.final[sy][sx]]
          IN EmptyRectangle(rect)
               \/ \A a \in Axes : TileBegin(kept[a]) = TileBegin(rect[a])

PlanesServe ==
    phase = "planned" => \A n \in 1 .. Len(best.chunks) : ChunkServed(best.chunks[n])

PlanesHold ==
    /\ PlanesServe
    /\ phase = "planned" =>
         \A n \in 1 .. Len(best.chunks) : ResultsAligned(best.chunks[n])

(***************************************************************************)
(* Every chunk of the plan, loaded with no more than the planner says it   *)
(* needs and run by the operations the compute kernel was compiled to,     *)
(* leaves in its planes what the transform of the whole image, every       *)
(* column and then every row, has there: forward the coefficients of the   *)
(* four bands, and inverse, from the coefficients, the image itself.  And  *)
(* every sample of the output is made by one of the chunks and no more.    *)
(***************************************************************************)
ChunkExact(chunk, image, ideal) ==
    \A memory \in {ChunkRun(Kernel(job.inverse, job.scheme),
                            InitialMemory(ideal, chunk), chunk)} :
      \A sy, sx \in Streams :
        LET rect == chunk.finalRect[sy][sx]
        IN \A y \in Elements(rect.y), x \in Elements(rect.x) :
             Taken(memory[chunk.final[sy][sx]], rect, y, x)
               = Wanted(image, ideal, sy, sx, y, x)

MadeOnce ==
    \A y \in 0 .. OutputSize(job).y - 1, x \in 0 .. OutputSize(job).x - 1 :
      Cardinality({n \in 1 .. Len(best.chunks) :
                     /\ y \in Elements(best.chunks[n].output.y)
                     /\ x \in Elements(best.chunks[n].output.x)}) = 1

TransformExact ==
    phase = "planned" =>
      /\ MadeOnce
      /\ LET padded == [a \in Axes |-> PaddedLength(AxisJob(job, a))]
         IN \A image \in {GrownImage(job.mode, job.size, Padding, padded)} :
              \A columns \in {IdealColumns(job.scheme, padded, image)} :
              \A ideal \in {IdealRows(columns, job.scheme, padded)} :
                \A n \in 1 .. Len(best.chunks) : ChunkExact(best.chunks[n], image, ideal)
=============================================================================
