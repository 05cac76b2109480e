----------------------------- MODULE LwtPlanner -----------------------------
(***************************************************************************)
(* The execution plan of a forward transform (make_lwt_execution_plan).    *)
(* The coefficients are divided into chunks of whole output groups.  For   *)
(* each chunk the planner works backwards through the routes to what it    *)
(* needs of the two initial streams, then forwards again, placing every    *)
(* route in the workspace slots.  If the workspace of the longest chunk    *)
(* does not fit the L1 budget, it starts again with twice as many chunks.  *)
(* The backward and the forward pass are loops; an action is an iteration. *)
(***************************************************************************)
EXTENDS ChunkPlanning, LiftingReference

\* A job of the forward direction is in this phase.
During(p) == ~job.inverse /\ phase = p

-----------------------------------------------------------------------------
GroupTotal == GroupsOf(OutputLength(job), GroupElements)

\* Element of the final stream s that is coefficient 0.
Origin(s) == CanonicalStart(job) - stream[s].shift

\* One chunk per group, or per core if there are not as many.
SizeChunks ==
    /\ During("size")
    /\ IF \A s \in Streams :
            Origin(s) >= 0 /\ Origin(s) + OutputLength(job) <= stream[s].length
       THEN /\ chunkCount' = Smaller(GroupTotal, job.cores)
            /\ phase' = "chunks" /\ fault' = fault
       ELSE Refuse("origin") /\ chunkCount' = chunkCount
    /\ UNCHANGED <<job, stream, active, routes, chunks, at, required, length,
                   walk>>

\* The coefficients of the chunk that is next.
ChunkBegin ==
    ShareBegin(GroupTotal, chunkCount, Len(chunks)) * GroupElements

ChunkEnd ==
    LET p == Len(chunks)
        past == ShareBegin(GroupTotal, chunkCount, p)
                  + ShareSize(GroupTotal, chunkCount, p)
    IN Smaller(past * GroupElements, OutputLength(job))

StartChunk ==
    /\ During("chunks")
    /\ Len(chunks) < chunkCount
    /\ LET need == [s \in Streams |->
                       Interval(ChunkBegin + Origin(s), ChunkEnd + Origin(s))]
       IN /\ length' = [s \in Streams |-> stream[s].length]
          /\ required' = [n \in {Len(routes)} |-> need]
          /\ at' = Len(routes)
          /\ IF AllValid(need, length') THEN phase' = "propagate" /\ fault' = fault
                                        ELSE Refuse("dependency")
    /\ UNCHANGED <<job, stream, active, routes, chunkCount, chunks, walk>>

-----------------------------------------------------------------------------
\* backpropagate_requirements, one route further back.
Propagate ==
    /\ During("propagate")
    /\ at > 0
    /\ LET need == Needed(routes[at], required[at])
           before == LengthBefore(routes[at], length)
       IN IF LeavesLengths(routes[at], length) /\ AllValid(need, before)
          THEN /\ length' = before
               /\ required' = Extended(required, at - 1, need)
               /\ UNCHANGED <<phase, fault>>
          ELSE Refuse("dependency") /\ UNCHANGED <<length, required>>
    /\ at' = at - 1
    /\ UNCHANGED <<job, stream, active, routes, chunkCount, chunks, walk>>

-----------------------------------------------------------------------------
\* The forward walk of build_chunk begins.
StartWalk ==
    /\ During("propagate")
    /\ at = 0
    /\ walk' = WalkFrom(required[0])
    /\ IF /\ length = SplitLength(job)
          /\ CanInline(routes)
       THEN phase' = "place" /\ fault' = fault
       ELSE Refuse("dependency")
    /\ UNCHANGED <<job, stream, active, routes, chunkCount, chunks, at, required,
                   length>>

Placing(type) ==
    /\ During("place")
    /\ at < Len(routes)
    /\ routes[at + 1].type = type
    /\ at' = at + 1
    /\ UNCHANGED <<job, stream, active, routes, chunkCount, chunks, required,
                   length>>

PlaceSwap == Placing("swap") /\ walk' = Swapped /\ UNCHANGED <<phase, fault>>

\* The last lift takes its terminal scale along and writes DRAM.
PlaceLift ==
    \E type \in {"predict", "update"} :
      LET full == routes[at + 1]
          t == Target(type)
          output == required[at + 1][t]
          source == Translated(output, full.sourceOffset, full.k - 1)
          base == Translated(output, full.baseOffset, 0)
          inline == at + 1 = InlineRoute(routes)
      IN /\ Placing(type)
         /\ IF Has(Other[t], source) /\ Has(t, base)
            THEN /\ walk' = Lifted(full, output, source, base,
                       IF inline THEN FinalDram[InlineResult(routes)] ELSE "workspace",
                       IF inline /\ ~Empty(output) THEN output.begin ELSE 0)
                 /\ UNCHANGED <<phase, fault>>
            ELSE Refuse("dependency") /\ UNCHANGED walk

\* The scale that was taken along is gone, the other one writes DRAM.
PlaceScale ==
    \E s \in Streams :
      LET output == required[at + 1][s]
          offset == Offset(s, output)
      IN /\ Placing(ScaleOf[s])
         /\ IF s = InlineResult(routes) THEN UNCHANGED <<phase, fault, walk>>
            ELSE IF Has(s, output)
            THEN /\ walk' = [walk EXCEPT !.routes = Append(@,
                      [type |-> ScaleOf[s], k |-> 1,
                       source |-> walk.slot[s], base |-> walk.slot[s],
                       output |-> walk.slot[s], storage |-> FinalDram[s],
                       sourceLength |-> Extent(walk.storage[s]),
                       baseLength |-> Extent(walk.storage[s]),
                       sourceOffset |-> offset, baseOffset |-> offset,
                       outputLength |-> Extent(output),
                       outputOffset |-> IF Empty(output) THEN 0 ELSE output.begin])]
                 /\ UNCHANGED <<phase, fault>>
            ELSE Refuse("dependency") /\ UNCHANGED walk

\* DRAM offsets count from coefficient 0.
FromOrigin(route) ==
    IF route.storage = "workspace" THEN route
    ELSE LET s == CHOOSE x \in Streams : FinalDram[x] = route.storage
         IN [route EXCEPT !.outputOffset = @ - Origin(s)]

FinishChunk ==
    /\ During("place")
    /\ at = Len(routes)
    /\ LET built == [k \in 1 .. Len(walk.routes) |-> FromOrigin(walk.routes[k])]
       IN IF \A k \in 1 .. Len(built) : built[k].outputOffset >= 0
          THEN /\ chunks' = Append(chunks,
                    [initial |-> required[0], routes |-> built,
                     workspace |-> walk.workspace])
               /\ phase' = "chunks" /\ fault' = fault
          ELSE Refuse("dependency") /\ chunks' = chunks
    /\ at' = 0 /\ required' = <<>> /\ length' = SplitLength(job) /\ walk' = Nowhere
    /\ UNCHANGED <<job, stream, active, routes, chunkCount>>

Accept ==
    /\ ~job.inverse /\ Judging
    /\ Fits
    /\ phase' = "planned"
    /\ UNCHANGED <<fault, chunkCount, chunks>>

Plan ==
    \/ SizeChunks \/ StartChunk \/ Propagate \/ StartWalk
    \/ PlaceSwap \/ PlaceLift \/ PlaceScale \/ FinishChunk
    \/ Accept
    \/ ~job.inverse /\ TryMoreChunks(GroupTotal)
    \/ ~job.inverse /\ GiveUp(GroupTotal)

-----------------------------------------------------------------------------
(***************************************************************************)
(* Running a chunk: the initial streams are loaded, the compute kernel's   *)
(* operations are applied to the routes one after the other, and what goes *)
(* to DRAM is kept.                                                        *)
(***************************************************************************)
LoadedElements(s, interval) ==
    [i \in 1 .. Extent(interval) |->
       Signal(2 * (interval.begin + i - 1) + (IF s = "odd" THEN 1 ELSE 0))]

RunChunk(c) ==
    LET program == ForwardProgram(Steps)
        start == [A |-> LoadedElements("even", c.initial.even),
                  B |-> LoadedElements("odd", c.initial.odd),
                  Scratch |-> <<>>, finalEven |-> <<>>, finalOdd |-> <<>>]
        Destination(r) == IF r.storage = "workspace" THEN r.output ELSE r.storage
    IN FoldLeftDomain(LAMBDA memory, k :
            [memory EXCEPT ![Destination(c.routes[k])] =
               Computed(program[k], c.routes[k], memory)],
          start, c.routes)

\* The route of a chunk that produces the coefficients of stream s.
FinalRoute(c, s) ==
    CHOOSE k \in 1 .. Len(c.routes) : c.routes[k].storage = FinalDram[s]

-----------------------------------------------------------------------------
(***************************************************************************)
(* Every route of every chunk has output, so that the three kernels have a *)
(* group to pass on for each.  (LwtPipeline assumes it.)                   *)
(***************************************************************************)
RoutesProduce ==
    \A n \in 1 .. Len(chunks) : \A k \in 1 .. Len(chunks[n].routes) :
      chunks[n].routes[k].outputLength > 0

(***************************************************************************)
(* The chunks of an accepted plan write every coefficient of both kinds,   *)
(* each from exactly one chunk, and start on a boundary of groups: no two  *)
(* cores ever write the same stick of DRAM.                                *)
(***************************************************************************)
CoefficientsTiled ==
    phase = "planned" =>
      \A s \in Streams :
        LET First(n) == chunks[n].routes[FinalRoute(chunks[n], s)].outputOffset
            Past(n) == First(n) + chunks[n].routes[FinalRoute(chunks[n], s)].outputLength
        IN /\ First(1) = 0 /\ Past(Len(chunks)) = OutputLength(job)
           /\ \A n \in 1 .. Len(chunks) - 1 :
                First(n + 1) = Past(n) /\ Past(n) % GroupElements = 0

(***************************************************************************)
(* Each chunk, loaded with no more than the planner says it needs and run  *)
(* by the operations the compute kernel was compiled to, computes the      *)
(* coefficients of the whole transform: trimming, offsets, slots, the      *)
(* inline scale and the swap bookkeeping of planner and kernel agree.      *)
(***************************************************************************)
CoefficientsExact ==
    phase = "planned" =>
      \A ideal \in {Ideal(job.scheme, PaddedLength(job))}, n \in 1 .. Len(chunks) :
        /\ Len(ForwardProgram(Steps)) = Len(chunks[n].routes)
        /\ \A memory \in {RunChunk(chunks[n])}, s \in Streams :
             LET r == chunks[n].routes[FinalRoute(chunks[n], s)]
             IN memory[FinalDram[s]] =
                  [i \in 1 .. r.outputLength |->
                     ideal[s][CanonicalStart(job) + r.outputOffset + i - 1]]
=============================================================================
