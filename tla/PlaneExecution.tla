--------------------------- MODULE PlaneExecution ---------------------------
(***************************************************************************)
(* What the kernels of the 2D transform make of a chunk.  The reader loads *)
(* the four planes and keeps track of the rectangle every plane stores;    *)
(* the compute kernel unrolls the steps of the scheme once for each pass   *)
(* and applies an operation to each route that has output; the writer      *)
(* stores the output and takes the four results from the planes.           *)
(*                                                                         *)
(* The memory maps a plane to [rect, value], a value for every row and     *)
(* column of the rectangle.                                                *)
(***************************************************************************)
EXTENDS PlaneSchedule, LiftingReference

Elements(i) == i.begin .. i.end - 1

Unused == [rect |-> [a \in Axes |-> Nothing], value |-> <<>>]

Filled(rect, Value(_, _)) ==
    [rect |-> rect,
     value |-> [y \in Elements(rect.y) |-> [x \in Elements(rect.x) |-> Value(y, x)]]]

\* What is not stored reads as zero (read_plane, assemble_bounded_tile).
Held(plane, y, x) ==
    IF y \in Elements(plane.rect.y) /\ x \in Elements(plane.rect.x)
    THEN plane.value[y][x] ELSE 0

\* The coefficients of a lift are applied in reverse, as in LiftingScheme.
Output(op, route, memory) ==
    LET k == Len(op.coeff)
        base == memory[route.base]
        source == memory[route.source]
        \* From where output is to where its operand is.
        Shift(rect) == [a \in Axes |-> rect[a].begin - route.outputRect[a].begin]
        toBase == Shift(route.baseRect)
        toSource == Shift(route.sourceRect)
        step == [a \in Axes |-> IF a = route.axis THEN 1 ELSE 0]
        Base(y, x) == Held(base, y + toBase.y, x + toBase.x)
        Window(y, x) == Weighted(op.coeff, LAMBDA j :
            Held(source, y + toSource.y + (k - j) * step.y,
                         x + toSource.x + (k - j) * step.x))
        Value(y, x) ==
            IF op.kind = "lift"
            THEN (op.result * (op.base * Base(y, x) + op.source * Window(y, x))) % Modulus
            ELSE (op.coeff[1] * Base(y, x)) % Modulus
    IN Filled(route.outputRect, Value)

Executable(route) == ~EmptyRectangle(route.outputRect)

\* The compute kernel of either direction: what it was compiled to for one
\* axis, and the scales that are an operation of their own (run_step).
Kernel(inverse, scheme) ==
    IF inverse THEN [program |-> InverseProgram(scheme.undo), scales |-> {}]
    ELSE [program |-> ForwardProgram(scheme.steps),
          scales |-> {ScaleOf[Other[InlineStream(scheme.steps)]]}]

\* run_axis: operations and routes are counted alike; a route without
\* output has no tiles.
PassRun(kernel, memory, pass) ==
    LET Operated(route) == IsLift(route.type) \/ route.type \in kernel.scales
        routes == SelectSeq(pass, Operated)
        Step(m, n) ==
            IF EmptyRectangle(routes[n].outputRect) THEN m
            ELSE [m EXCEPT ![routes[n].output] = Output(kernel.program[n], routes[n], m)]
    IN FoldLeftDomain(Step, memory, routes)

ChunkRun(kernel, memory, chunk) ==
    FoldLeft(LAMBDA m, pass : PassRun(kernel, m, pass), memory, chunk.passes)

(***************************************************************************)
(* The writer takes a result from its plane as if what is stored there     *)
(* began in the tile in which the result begins.                           *)
(***************************************************************************)
\* Faulty variant: as if it began where the result does.
ExactBegin(i) == i.begin

TileBegin(i) == (i.begin \div Tile) * Tile

Taken(plane, rect, y, x) ==
    Held(plane, y - TileBegin(rect.y) + TileBegin(plane.rect.y),
                x - TileBegin(rect.x) + TileBegin(plane.rect.x))

-----------------------------------------------------------------------------
(***************************************************************************)
(* The transform of a whole image, at absolute positions                   *)
(* (LiftingReference): of every column, then of every row of the results.  *)
(***************************************************************************)
\* The image is the padded one, [row -> [column -> sample]].
IdealColumns(scheme, padded, image) ==
    [x \in 0 .. padded.x - 1 |-> IdealOf(scheme, padded.y, LAMBDA y : image[y][x])]

IdealRows(columns, scheme, padded) ==
    [sy \in Streams |-> [ty \in 0 .. padded.y |->
       IdealOf(scheme, padded.x, LAMBDA x : columns[x][sy][ty])]]
=============================================================================
