--------------------------- MODULE ChunkPlanning ---------------------------
(***************************************************************************)
(* What the forward and the inverse planner have in common.  Both start    *)
(* from the forward lifting plan of the job (make_forward_lifting_plan):   *)
(* the steps of the wavelet's scheme are appended one after the other,     *)
(* then the two terminal scales are sent to DRAM.  Then a candidate        *)
(* number of chunks is tried, each chunk is worked out route by route in   *)
(* one direction (required) and placed in the workspace slots in the       *)
(* other (walk), and the candidate is accepted if its workspace fits.      *)
(***************************************************************************)
EXTENDS AxisRequirements

CONSTANT Jobs       \* what there may be to plan, each with scheme and length

\* Not what scheme it is, only that it is one: a lift has coefficients.
ASSUME JobsAssumption ==
    \A j \in Jobs :
      /\ {j.inverse, j.tileNative} \subseteq BOOLEAN
      /\ {j.length, j.cores, j.scheme.taps} \subseteq Nat \ {0}
      /\ j.budget \in Nat
      /\ j.inverse => j.coefficients \in Nat
      /\ j.scheme.delay \in [Streams -> Int]
      /\ j.scheme.steps \in Seq([type : StepTypes, shift : Int, coeff : Seq(Int)])
      /\ \A i \in 1 .. Len(j.scheme.steps) :
           IsLift(j.scheme.steps[i].type) => j.scheme.steps[i].coeff # <<>>

VARIABLES
    phase,      \* "trace", "size", "chunks", "planned" or "refused"
    fault,      \* why a plan was refused
    job,        \* what is being planned
    stream,     \* shift and length of the even and the odd stream
    active,     \* slots of the even and the odd stream, and the free slot
    routes      \* routes of the steps so far

traceVars == <<phase, fault, job, stream, active, routes>>

TraceInit ==
    /\ job \in Jobs
    /\ phase = "trace"
    /\ fault = "none"
    /\ stream = InitialStreams(job)
    /\ active = HomeSlots
    /\ routes = <<>>

Steps == job.scheme.steps

AppendRoute ==
    /\ phase = "trace"
    /\ Len(routes) < Len(Steps)
    /\ LET trace == [stream |-> stream, active |-> active, routes |-> routes]
           after == Traced(trace, Steps[Len(routes) + 1])
       IN /\ stream' = after.stream
          /\ active' = after.active
          /\ routes' = after.routes
    /\ UNCHANGED <<phase, fault, job>>

Refuse(reason) == phase' = "refused" /\ fault' = reason

RouteTerminalScales ==
    /\ phase = "trace"
    /\ Len(routes) = Len(Steps)
    /\ IF ScalesAreTerminal(routes)
       THEN /\ routes' = TerminalScalesRouted(routes)
            /\ phase' = "size" /\ fault' = fault
       ELSE Refuse("scheme") /\ routes' = routes
    /\ UNCHANGED <<job, stream, active>>

TraceNext == AppendRoute \/ RouteTerminalScales

-----------------------------------------------------------------------------
VARIABLES
    chunkCount,     \* chunks of the current candidate
    chunks,         \* those built so far
    at,             \* routes of the trace before the point now worked at
    required,       \* needed of the two streams: routes done -> intervals
    length,         \* lengths of the two streams at that point
    walk            \* streams placed so far, and the routes that place them

chunkVars == <<chunkCount, chunks, at, required, length, walk>>
vars == <<traceVars, chunkVars>>

Nowhere == [slot |-> HomeSlots, storage |-> [s \in Streams |-> Interval(0, 0)],
            routes |-> <<>>, workspace |-> 0]

Init ==
    /\ TraceInit
    /\ chunkCount = 0
    /\ chunks = <<>>
    /\ at = 0
    /\ required = <<>>
    /\ length = SplitLength(job)
    /\ walk = Nowhere

\* A point of the trace more for which it is known what is needed there.
Extended(f, i, need) == [n \in DOMAIN f \union {i} |-> IF n = i THEN need ELSE f[n]]

\* The two initial streams of the walk are loaded into their home slots.
WalkFrom(need) ==
    [slot |-> HomeSlots, storage |-> need, routes |-> <<>>,
     workspace |-> Larger(Extent(need.even), Extent(need.odd))]

\* local_offset refuses data that is not in what is stored.
Has(s, interval) == Covers(walk.storage[s], interval)

Offset(s, interval) == LocalOffset(walk.storage[s], interval)

Swapped ==
    [walk EXCEPT
       !.slot = [@ EXCEPT !.even = walk.slot.odd, !.odd = walk.slot.even],
       !.storage = [s \in Streams |-> walk.storage[Other[s]]]]

\* Faulty variant: the slot of the operand is released, not of the base.
LiftedOver(full, output, source, base, storage, outputOffset) ==
    LET t == Target(full.type)
        o == Other[t]
    IN [walk EXCEPT
          !.slot = [@ EXCEPT ![t] = walk.slot.free, !.free = walk.slot[o]],
          !.storage = [@ EXCEPT ![t] = output],
          !.workspace = Larger(@, Extent(output)),
          !.routes = Append(@,
            [type |-> full.type, k |-> full.k,
             source |-> walk.slot[o], base |-> walk.slot[t],
             output |-> walk.slot.free, storage |-> storage,
             sourceLength |-> Extent(walk.storage[o]),
             baseLength |-> Extent(walk.storage[t]),
             sourceOffset |-> Offset(o, source), baseOffset |-> Offset(t, base),
             outputLength |-> Extent(output), outputOffset |-> outputOffset])]

\* A predict or update puts its output in the free slot; the slot of the
\* stream it replaces becomes free.
Lifted(full, output, source, base, storage, outputOffset) ==
    LET t == Target(full.type)
        o == Other[t]
    IN [walk EXCEPT
          !.slot = Moved(@, t),
          !.storage = [@ EXCEPT ![t] = output],
          !.workspace = Larger(@, Extent(output)),
          !.routes = Append(@,
            [type |-> full.type, k |-> full.k,
             source |-> walk.slot[o], base |-> walk.slot[t],
             output |-> walk.slot.free, storage |-> storage,
             sourceLength |-> Extent(walk.storage[o]),
             baseLength |-> Extent(walk.storage[t]),
             sourceOffset |-> Offset(o, source), baseOffset |-> Offset(t, base),
             outputLength |-> Extent(output), outputOffset |-> outputOffset])]

-----------------------------------------------------------------------------
Alignment == IF job.tileNative THEN GroupElements ELSE StickWidth

LongestStream == Max({0} \union {chunks[n].workspace : n \in 1 .. Len(chunks)})

WorkspaceElements == RoundUp(LongestStream, Alignment)

\* Faulty variant: what the rounding adds is not charged.
FitsUnrounded == 3 * LongestStream <= job.budget

\* Three slots of the longest stream of any chunk, rounded up.
Fits == 3 * WorkspaceElements <= job.budget

\* Faulty variant: the next candidate is the same.
MoreChunksStuck(groupTotal) == chunkCount

\* Faulty variant: there may be more chunks than groups.
MoreChunksUncapped(groupTotal) == 2 * chunkCount

MoreChunks(groupTotal) == Smaller(groupTotal, 2 * chunkCount)

Judging ==
    /\ phase = "chunks"
    /\ Len(chunks) = chunkCount
    /\ UNCHANGED <<job, stream, active, routes, at, required, length, walk>>

TryMoreChunks(groupTotal) ==
    /\ Judging
    /\ ~Fits /\ chunkCount < groupTotal
    /\ chunkCount' = MoreChunks(groupTotal)
    /\ chunks' = <<>>
    /\ UNCHANGED <<phase, fault>>

GiveUp(groupTotal) ==
    /\ Judging
    /\ ~Fits /\ chunkCount >= groupTotal
    /\ Refuse("budget")
    /\ UNCHANGED <<chunkCount, chunks>>

-----------------------------------------------------------------------------
(***************************************************************************)
(* Properties of the plans of either direction.                            *)
(***************************************************************************)
(***************************************************************************)
(* Every variable has its type; in particular the lengths and offsets that *)
(* the code keeps as size_t never become negative.                         *)
(***************************************************************************)
IntervalType == [begin : Nat, end : Nat]

OffsetsNatural(route) ==
    /\ {route.sourceOffset, route.baseOffset} \subseteq Nat
    /\ {route.sourceLength, route.baseLength, route.outputLength} \subseteq Nat

TypeOK ==
    /\ phase \in {"trace", "size", "chunks", "propagate", "place", "planned",
                  "refused"}
    /\ fault \in {"none", "scheme", "origin", "length", "dependency", "direct",
                  "budget"}
    /\ phase = "refused" <=> fault # "none"
    /\ job \in Jobs
    /\ stream \in [Streams -> [shift : Int, length : Nat]]
    /\ active \in [{"even", "odd", "free"} -> Slots]
    /\ walk.slot \in [{"even", "odd", "free"} -> Slots]
    /\ Len(routes) <= Len(Steps)
    /\ \A i \in 1 .. Len(routes) : OffsetsNatural(routes[i])
    /\ \A i \in 1 .. Len(walk.routes) : OffsetsNatural(walk.routes[i])
    /\ at \in 0 .. Len(routes)
    /\ \A i \in DOMAIN required : required[i] \in [Streams -> IntervalType]
    /\ chunkCount \in Nat
    /\ Len(chunks) <= chunkCount

(***************************************************************************)
(* The backward and the forward analysis of a chunk always agree: of the   *)
(* TT_FATALs of the planners only those are reachable that judge what was  *)
(* asked for, that is the shape of the scheme, the number of coefficients  *)
(* and the L1 budget, whatever the length of the signal and the chunk.     *)
(***************************************************************************)
OnlyRequestRefused == fault \in {"none", "scheme", "length", "budget"}

(***************************************************************************)
(* While a chunk is placed, its two streams and the free slot are in three *)
(* different slots, whatever swaps and lifts came before.                  *)
(***************************************************************************)
WalkDistinct ==
    /\ walk.slot.even # walk.slot.odd
    /\ walk.slot.free \notin {walk.slot.even, walk.slot.odd}

(***************************************************************************)
(* The routes of the last chunk done find their operands in the slots and  *)
(* with the lengths in which the loads and the routes before them left the *)
(* two streams, and write over neither.  (LwtPipeline assumes it of its    *)
(* schedule.)                                                              *)
(***************************************************************************)
\* What the loads (i = 0) or route i put into a slot, and how long it is.
PutBy(c, i) ==
    IF i = 0
    THEN {<<"A", Extent(c.initial.even)>>, <<"B", Extent(c.initial.odd)>>}
    ELSE IF IsLift(c.routes[i].type)
    THEN {<<c.routes[i].output, c.routes[i].outputLength>>}
    ELSE {}

\* What of it no later route before k has replaced.
LeftBefore(c, k) ==
    {x \in UNION {PutBy(c, i) : i \in 0 .. k - 1} :
       \E i \in 0 .. k - 1 :
         /\ x \in PutBy(c, i)
         /\ \A j \in i + 1 .. k - 1 :
              IsLift(c.routes[j].type) => c.routes[j].base # x[1]}

OperandsKept ==
    phase \in {"chunks", "planned"} /\ chunks # <<>> =>
      \A k \in 1 .. Len(Last(chunks).routes) :
      LET r == Last(chunks).routes[k]
          left == LeftBefore(Last(chunks), k)
      IN /\ {<<r.source, r.sourceLength>>, <<r.base, r.baseLength>>} \subseteq left
         /\ IsLift(r.type) => /\ r.source # r.base
                              /\ \A x \in left : x[1] # r.output

(***************************************************************************)
(* The three slots the budget was checked for are large enough for every   *)
(* stream that is loaded or written, in whole sticks or, tile-native, in   *)
(* whole groups, which is how the writer writes them.                      *)
(***************************************************************************)
SlotsLargeEnough ==
    phase = "planned" =>
      \A n \in 1 .. Len(chunks) :
        LET HasRoom(elements) == 3 * RoundUp(elements, Alignment) <= job.budget
        IN /\ \A s \in Streams : HasRoom(Extent(chunks[n].initial[s]))
           /\ \A k \in 1 .. Len(chunks[n].routes) :
                HasRoom(chunks[n].routes[k].outputLength)

(***************************************************************************)
(* Planning ends: doubling the chunks reaches a workspace that fits, or    *)
(* the smallest one there is.                                              *)
(***************************************************************************)
Settles == <>(phase \in {"planned", "refused"})
=============================================================================
