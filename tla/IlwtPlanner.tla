---------------------------- MODULE IlwtPlanner ----------------------------
(***************************************************************************)
(* The execution plan of an inverse transform (make_inverse_lifting_plan   *)
(* and make_ilwt_execution_plan).  The trace of the forward transform is   *)
(* walked forwards to find which coefficients a chunk of the signal needs, *)
(* and backwards to place the inverse routes.                              *)
(***************************************************************************)
EXTENDS ChunkPlanning, LiftingReference

\* A job of the inverse direction is in this phase.
During(p) == job.inverse /\ phase = p

-----------------------------------------------------------------------------
OutputGroup == 2 * GroupElements

GroupTotal == GroupsOf(job.length, OutputGroup)

\* The coefficients handed in may be padded to whole sticks.
CoefficientLengthValid ==
    LET expected == OutputLength(job)
    IN \/ job.coefficients = expected
       \/ /\ job.coefficients >= expected
          /\ job.coefficients % StickWidth = 0
          /\ job.coefficients - expected < StickWidth

SizeChunks ==
    /\ During("size")
    /\ IF CoefficientLengthValid
       THEN /\ chunkCount' = Smaller(GroupTotal, job.cores)
            /\ phase' = "chunks" /\ fault' = fault
       ELSE Refuse("length") /\ chunkCount' = chunkCount
    /\ UNCHANGED <<job, stream, active, routes, chunks, at, required, length,
                   walk>>

\* The samples of the chunk that is next.
ChunkBegin == ShareBegin(GroupTotal, chunkCount, Len(chunks)) * OutputGroup

ChunkEnd ==
    LET p == Len(chunks)
        past == ShareBegin(GroupTotal, chunkCount, p)
                  + ShareSize(GroupTotal, chunkCount, p)
    IN Smaller(past * OutputGroup, job.length)

\* The elements of the two padded streams that samples b .. e - 1 come from.
SplitOf(b, e) ==
    [even |-> Interval((b + Pad(job) + 1) \div 2, (e + Pad(job) + 1) \div 2),
     odd  |-> Interval((b + Pad(job)) \div 2, (e + Pad(job)) \div 2)]

StartChunk ==
    /\ During("chunks")
    /\ Len(chunks) < chunkCount
    /\ LET need == SplitOf(ChunkBegin, ChunkEnd)
       IN /\ length' = SplitLength(job)
          /\ required' = [n \in {0} |-> need]
          /\ at' = 0
          /\ IF ChunkBegin <= ChunkEnd /\ AllValid(need, length')
             THEN phase' = "propagate" /\ fault' = fault
             ELSE Refuse("dependency")
    /\ UNCHANGED <<job, stream, active, routes, chunkCount, chunks, walk>>

-----------------------------------------------------------------------------
\* propagate_requirements, one route further on.
Propagate ==
    /\ During("propagate")
    /\ at < Len(routes)
    /\ LET route == routes[at + 1]
           need == NeededAfter(route, required[at])
           after == LengthAfter(route, length)
       IN IF /\ AllValid(required[at], length)
             /\ FindsLengths(route, length)
             /\ Kept(route, required[at])
             /\ AllValid(need, after)
          THEN /\ length' = after
               /\ required' = Extended(required, at + 1, need)
               /\ UNCHANGED <<phase, fault>>
          ELSE Refuse("dependency") /\ UNCHANGED <<length, required>>
    /\ at' = at + 1
    /\ UNCHANGED <<job, stream, active, routes, chunkCount, chunks, walk>>

-----------------------------------------------------------------------------
\* canonical_interval: the coefficients of a kind that a chunk loads, from
\* what is needed of the final stream.
Canonical(s, need) ==
    LET first == CanonicalStart(job) - stream[s].shift
    IN IF Empty(need) THEN need
       ELSE Interval(need.begin - first, need.end - first)

CanonicalValid(s, need) ==
    Empty(need) \/ /\ Canonical(s, need).begin >= 0
                   /\ ValidIn(Canonical(s, need), job.coefficients)

\* The walk back begins with the coefficients in the home slots.
StartWalk ==
    /\ During("propagate")
    /\ at = Len(routes)
    /\ walk' = WalkFrom(required[at])
    /\ IF /\ length = [s \in Streams |-> stream[s].length]
          /\ \A s \in Streams : CanonicalValid(s, required[at][s])
          /\ Len(routes) >= 3 /\ ScalesAreTerminal(routes)
       THEN phase' = "place" /\ fault' = fault
       ELSE Refuse("dependency")
    /\ UNCHANGED <<job, stream, active, routes, chunkCount, chunks, at, required,
                   length>>

Placing(type) ==
    /\ During("place")
    /\ at > 0
    /\ routes[at].type = type
    /\ at' = at - 1
    /\ UNCHANGED <<job, stream, active, routes, chunkCount, chunks, required,
                   length>>

PlaceSwap == Placing("swap") /\ walk' = Swapped /\ UNCHANGED <<phase, fault>>

\* Every inverse lift writes the workspace, from offset 0.
PlaceLift ==
    \E type \in {"predict", "update"} :
      LET full == routes[at]
          t == Target(type)
          output == required[at - 1][t]
          target == Subtracted(output, full.baseOffset)
          source == Translated(target, full.sourceOffset, full.k - 1)
      IN /\ Placing(type)
         /\ IF /\ CanSubtract(output, full.baseOffset)
               /\ Has(Other[t], source) /\ Has(t, target)
            THEN /\ walk' = Lifted(full, output, source, target, "workspace", 0)
                 /\ UNCHANGED <<phase, fault>>
            ELSE Refuse("dependency") /\ UNCHANGED walk

\* The two terminal scales are left to the compute kernel.
PlaceScale ==
    \E s \in Streams : Placing(ScaleOf[s]) /\ UNCHANGED <<phase, fault, walk>>

FinishChunk ==
    /\ During("place")
    /\ at = 0
    /\ IF \A s \in Streams : Has(s, required[0][s])
       THEN /\ chunks' = Append(chunks,
                 [begin |-> ChunkBegin, end |-> ChunkEnd,
                  initial |-> [s \in Streams |->
                                 Canonical(s, required[Len(routes)][s])],
                  target |-> required[0],
                  routes |-> walk.routes, final |-> walk.slot,
                  finalOffset |-> [s \in Streams |-> Offset(s, required[0][s])],
                  workspace |-> walk.workspace])
            /\ phase' = "chunks" /\ fault' = fault
       ELSE Refuse("dependency") /\ chunks' = chunks
    /\ at' = 0 /\ required' = <<>> /\ length' = SplitLength(job) /\ walk' = Nowhere
    /\ UNCHANGED <<job, stream, active, routes, chunkCount>>

(***************************************************************************)
(* The writer may interleave the output of the last route directly only if *)
(* it is the whole of the stream that the route replaces.                  *)
(***************************************************************************)
DirectPossible(c) ==
    LET last == c.routes[Len(c.routes)]
        t == Target(last.type)
    IN /\ IsLift(last.type)
       /\ c.final[t] = last.output
       /\ c.finalOffset[t] = 0
       /\ Extent(c.target[t]) = last.outputLength

Accept ==
    /\ job.inverse /\ Judging
    /\ Fits
    /\ IF \A n \in 1 .. Len(chunks) :
            /\ chunks[n].routes # <<>>
            /\ job.direct => DirectPossible(chunks[n])
       THEN phase' = "planned" /\ fault' = fault
       ELSE Refuse("direct")
    /\ UNCHANGED <<chunkCount, chunks>>

Plan ==
    \/ SizeChunks \/ StartChunk \/ Propagate \/ StartWalk
    \/ PlaceSwap \/ PlaceLift \/ PlaceScale \/ FinishChunk
    \/ Accept
    \/ job.inverse /\ TryMoreChunks(GroupTotal)
    \/ job.inverse /\ GiveUp(GroupTotal)

-----------------------------------------------------------------------------
(***************************************************************************)
(* Running a chunk on the coefficients the forward transform hands over.   *)
(* Coefficients that only fill up the last stick read as zero.             *)
(***************************************************************************)
LoadedCoefficients(ideal, s, interval) ==
    [i \in 1 .. Extent(interval) |->
       LET c == interval.begin + i - 1
       IN IF c < OutputLength(job) THEN ideal[s][CanonicalStart(job) + c] ELSE 0]

RunChunk(c, ideal) ==
    LET program == InverseProgram(job.scheme.undo)
        start == [A |-> LoadedCoefficients(ideal, "even", c.initial.even),
                  B |-> LoadedCoefficients(ideal, "odd", c.initial.odd),
                  Scratch |-> <<>>]
    IN FoldLeftDomain(LAMBDA memory, k :
            [memory EXCEPT ![c.routes[k].output] =
               Computed(program[k], c.routes[k], memory)],
          start, c.routes)

(***************************************************************************)
(* The chunks of an accepted plan follow one another from sample 0 to the  *)
(* last one and meet on boundaries of whole output groups.                 *)
(***************************************************************************)
SamplesTiled ==
    phase = "planned" =>
      /\ chunks[1].begin = 0 /\ chunks[Len(chunks)].end = job.length
      /\ \A n \in 1 .. Len(chunks) - 1 :
           /\ chunks[n].end = chunks[n + 1].begin
           /\ chunks[n].end % OutputGroup = 0

(***************************************************************************)
(* Perfect reconstruction, chunk by chunk: loaded with no more than the    *)
(* coefficients the planner says it needs, and run by the operations of    *)
(* the compute kernel, every chunk ends with its samples of the signal in  *)
(* the slots and at the offsets the writer interleaves them from.          *)
(***************************************************************************)
SamplesExact ==
    phase = "planned" =>
      \A ideal \in {Ideal(job.scheme, PaddedLength(job))}, n \in 1 .. Len(chunks) :
        \A memory \in {RunChunk(chunks[n], ideal)}, i \in chunks[n].begin .. chunks[n].end - 1 :
          LET c == chunks[n]
              s == IF (i + Pad(job)) % 2 = 0 THEN "even" ELSE "odd"
              element == (i + Pad(job)) \div 2 - c.target[s].begin
          IN Stored(memory[c.final[s]], c.finalOffset[s] + element)
               = Signal(i + Pad(job))
=============================================================================
