--------------------------- MODULE PlannerProofs ---------------------------
(***************************************************************************)
(* The 1D planners, for every scheme, length, number of cores and budget.  *)
(* What a refused plan had put together is not looked at any more.         *)
(***************************************************************************)
EXTENDS Planner, AnySequences

Stretch == [begin : Int, end : Int]

Needs == [Streams -> Stretch]

RouteFields ==
    {"type", "k", "source", "base", "output", "storage", "sourceLength",
     "baseLength", "sourceOffset", "baseOffset", "outputLength"}

RouteOK(r) ==
    /\ DOMAIN r = RouteFields
    /\ r.type \in StepTypes
    /\ {r.k, r.sourceOffset, r.baseOffset} \subseteq Nat
    /\ {r.sourceLength, r.baseLength, r.outputLength} \subseteq Nat
    /\ IsLift(r.type) => r.k > 0

TraceOK ==
    /\ job \in Jobs
    /\ stream \in [Streams -> [shift : Int, length : Nat]]
    /\ IsSeq(routes)
    /\ \A i \in 1 .. Len(routes) : RouteOK(routes[i])

\* Of the points of the trace those whose need is known, as far as a chunk
\* has been worked out.
Known ==
    IF phase = "place" THEN 0 .. Len(routes)
    ELSE IF job.inverse THEN 0 .. at ELSE at .. Len(routes)

RequiredOK ==
    phase \in {"propagate", "place"} =>
      /\ at \in 0 .. Len(routes)
      /\ DOMAIN required = Known
      /\ \A i \in Known :
           /\ required[i] \in Needs
           /\ \A s \in Streams : required[i][s].begin <= required[i][s].end

\* Route k finds its operands and writes over neither.
OperandsAt(c, k) ==
    LET r == c.routes[k]
        left == LeftBefore(c, k)
    IN /\ {<<r.source, r.sourceLength>>, <<r.base, r.baseLength>>} \subseteq left
       /\ IsLift(r.type) => /\ r.source # r.base
                            /\ \A x \in left : x[1] # r.output

PlacedFields ==
    {"type", "k", "source", "base", "output", "storage", "sourceLength",
     "baseLength", "sourceOffset", "baseOffset", "outputLength", "outputOffset"}

ChunkOK(c) ==
    /\ c.initial \in Needs
    /\ IsSeq(c.routes)
    /\ c.workspace \in Nat
    /\ \A s \in Streams : Extent(c.initial[s]) <= c.workspace
    /\ \A k \in 1 .. Len(c.routes) :
         /\ DOMAIN c.routes[k] = PlacedFields
         /\ c.routes[k].outputLength \in Int
         /\ c.routes[k].outputLength <= c.workspace
         /\ OperandsAt(c, k)

ChunksOK ==
    /\ IsSeq(chunks)
    /\ \A n \in 1 .. Len(chunks) : ChunkOK(chunks[n])

\* The chunk as far as it has been placed: it starts from what is needed of
\* the two streams that are loaded.
Placed ==
    [initial |-> required[IF job.inverse THEN Len(routes) ELSE 0],
     routes |-> walk.routes, workspace |-> walk.workspace]

SlotNames == {"even", "odd", "free"}

\* What the two streams occupy is all that the slots still hold.
WalkOK ==
    /\ DOMAIN walk = {"slot", "storage", "routes", "workspace"}
    /\ walk.slot \in [SlotNames -> Slots]
    /\ phase = "place" =>
         /\ walk.storage \in Needs
         /\ \A s \in Streams : Extent(walk.storage[s]) <= walk.workspace
         /\ ChunkOK(Placed)
         /\ LeftBefore(Placed, Len(walk.routes) + 1)
              = {<<walk.slot[s], Extent(walk.storage[s])>> : s \in Streams}

Phases == {"trace", "size", "chunks", "propagate", "place", "planned", "refused"}

\* What there is to divide into chunks: samples or coefficients, in groups.
Whole == IF job.inverse THEN job.length ELSE OutputLength(job)

Unit == IF job.inverse THEN 2 * GroupElements ELSE GroupElements

GroupTotal == GroupsOf(Whole, Unit)

\* Where chunk p + 1 begins and chunk p ends.
Boundary(p) == ShareBegin(GroupTotal, chunkCount, p) * Unit

CountOK ==
    /\ phase \in {"trace", "size"} => chunks = <<>>
    /\ phase \in {"chunks", "propagate", "place", "planned"} =>
         chunkCount \in 1 .. GroupTotal /\ Len(chunks) <= chunkCount
    /\ phase \in {"propagate", "place"} => Len(chunks) < chunkCount

IInv ==
    /\ phase \in Phases
    /\ TraceOK /\ RequiredOK /\ ChunksOK /\ CountOK /\ WalkDistinct /\ WalkOK
    /\ phase = "planned" => Fits

-----------------------------------------------------------------------------
(***************************************************************************)
(* Intervals.                                                              *)
(***************************************************************************)
LEMMA IntervalIs ==
  ASSUME NEW b \in Int, NEW e \in Int
  PROVE  Interval(b, e) \in Stretch /\ Interval(b, e).begin = b /\ Interval(b, e).end = e
BY DEF Interval, Stretch

LEMMA StretchIs ==
  ASSUME NEW i \in Stretch
  PROVE  i.begin \in Int /\ i.end \in Int /\ Extent(i) \in Int
BY DEF Stretch, Extent

LEMMA TranslatedIs ==
  ASSUME NEW i \in Stretch, NEW o \in Int, NEW e \in Int
  PROVE  Translated(i, o, e) \in Stretch /\ Subtracted(i, o) \in Stretch
<1>1. /\ i.begin + o \in Int /\ i.end + o + e \in Int
      /\ i.begin - o \in Int /\ i.end - o \in Int
  BY DEF Stretch
<1>2. QED
  BY <1>1, IntervalIs DEF Translated, Subtracted

LEMMA HullIs ==
  ASSUME NEW i \in Stretch, NEW j \in Stretch
  PROVE  Hull(i, j) \in Stretch
<1>1. Smaller(i.begin, j.begin) \in Int /\ Larger(i.end, j.end) \in Int
  BY DEF Stretch, Smaller, Larger
<1>2. QED
  BY <1>1, IntervalIs DEF Hull

LEMMA StreamOf ==
  /\ \A type : Target(type) \in Streams
  /\ \A s \in Streams : Other[s] \in Streams /\ Other[s] # s /\ Other[Other[s]] = s
                        /\ Streams = {s, Other[s]}
BY DEF Target, Streams, Other

LEMMA NeededIs ==
  ASSUME NEW r, RouteOK(r), NEW need \in Needs
  PROVE  Needed(r, need) \in Needs /\ NeededAfter(r, need) \in Needs
<1> DEFINE t == Target(r.type)
<1>1. t \in Streams /\ Other[t] \in Streams
  BY StreamOf
<1>2. r.sourceOffset \in Int /\ r.baseOffset \in Int /\ r.k - 1 \in Int /\ 0 \in Int
  BY DEF RouteOK
<1>3. need[t] \in Stretch /\ need[Other[t]] \in Stretch
  BY <1>1 DEF Needs
<1> HIDE DEF t
<1>4. [even |-> need.odd, odd |-> need.even] \in Needs
  BY DEF Needs, Streams
<1>5. \A x \in Stretch, y \in Stretch :
        /\ [need EXCEPT ![t] = x] \in Needs
        /\ [need EXCEPT ![t] = x, ![Other[t]] = y] \in Needs
  BY <1>1 DEF Needs
<1>6. /\ Translated(need[t], r.sourceOffset, 0) \in Stretch
      /\ Translated(need[t], r.baseOffset, 0) \in Stretch
      /\ Hull(need[Other[t]], Translated(need[t], r.sourceOffset, r.k - 1)) \in Stretch
  BY <1>2, <1>3, TranslatedIs, HullIs
<1>7. Needed(r, need) \in Needs
  BY <1>4, <1>5, <1>6 DEF Needed, t
<1>8. Undone(r, need) \in Stretch
  BY <1>2, <1>3, TranslatedIs DEF Undone, t
<1>9. Hull(need[Other[t]], Translated(Undone(r, need), r.sourceOffset, r.k - 1)) \in Stretch
  BY <1>2, <1>3, <1>8, TranslatedIs, HullIs
<1>10. NeededAfter(r, need) \in Needs
  BY <1>4, <1>5, <1>8, <1>9 DEF NeededAfter, t
<1>11. QED
  BY <1>7, <1>10

\* What is stored is at least as long as what it covers, or nothing is needed.
LEMMA CoversIs ==
  ASSUME NEW i \in Stretch, NEW j \in Stretch, Covers(i, j)
  PROVE  Extent(j) = 0 \/ Extent(j) <= Extent(i)
BY DEF Covers, Empty, Extent, Stretch

-----------------------------------------------------------------------------
(***************************************************************************)
(* What the slots hold before a route.                                     *)
(***************************************************************************)
LEMMA InLeft ==
  ASSUME NEW c, NEW k \in Nat
  PROVE  \A x : x \in LeftBefore(c, k) <=>
           \E i \in 0 .. k - 1 :
             /\ x \in PutBy(c, i)
             /\ \A j \in i + 1 .. k - 1 :
                  IsLift(c.routes[j].type) => c.routes[j].base # x[1]
BY DEF LeftBefore

\* It depends on the routes before, and of them on what is put where.
PutAlike(r, q) ==
    /\ r.type = q.type /\ r.base = q.base
    /\ r.output = q.output /\ r.outputLength = q.outputLength

LEMMA SameLeft ==
  ASSUME NEW c, NEW d, NEW k \in Nat,
         \A s \in Streams : Extent(c.initial[s]) = Extent(d.initial[s]),
         \A j \in 1 .. k - 1 : PutAlike(c.routes[j], d.routes[j])
  PROVE  LeftBefore(c, k) = LeftBefore(d, k)
<1>1. PutBy(c, 0) = PutBy(d, 0)
  <2>1. /\ Extent(c.initial.even) = Extent(d.initial.even)
        /\ Extent(c.initial.odd) = Extent(d.initial.odd)
    BY DEF Streams
  <2>2. QED
    BY <2>1 DEF PutBy
<1>2. \A i \in 0 .. k - 1 : PutBy(c, i) = PutBy(d, i)
  <2>1. ASSUME NEW i \in 1 .. k - 1 PROVE PutBy(c, i) = PutBy(d, i)
    <3>1. PutAlike(c.routes[i], d.routes[i]) /\ i # 0
      OBVIOUS
    <3> DEFINE r == c.routes[i]
               q == d.routes[i]
    <3>2. PutAlike(r, q)
      BY <3>1
    <3>3. PutBy(c, i) = IF IsLift(r.type) THEN {<<r.output, r.outputLength>>} ELSE {}
      BY <3>1 DEF PutBy
    <3>4. PutBy(d, i) = IF IsLift(q.type) THEN {<<q.output, q.outputLength>>} ELSE {}
      BY <3>1 DEF PutBy
    <3> HIDE DEF r, q
    <3>5. QED
      BY <3>2, <3>3, <3>4 DEF PutAlike
  <2>2. \A i \in 0 .. k - 1 : i = 0 \/ i \in 1 .. k - 1
    OBVIOUS
  <2>3. QED
    BY <1>1, <2>1, <2>2
<1>3. \A i \in 0 .. k - 1 : \A j \in i + 1 .. k - 1 :
        /\ c.routes[j].type = d.routes[j].type
        /\ c.routes[j].base = d.routes[j].base
  <2>1. ASSUME NEW i \in 0 .. k - 1, NEW j \in i + 1 .. k - 1
        PROVE  PutAlike(c.routes[j], d.routes[j])
    <3>1. j \in 1 .. k - 1
      OBVIOUS
    <3>2. QED
      BY <3>1
  <2>2. QED
    BY <2>1 DEF PutAlike
<1>4. \A x : x \in LeftBefore(c, k) <=> x \in LeftBefore(d, k)
  <2> DEFINE Spared(e, x, i) == \A j \in i + 1 .. k - 1 :
                                 IsLift(e.routes[j].type) => e.routes[j].base # x[1]
  <2>1. \A x : x \in LeftBefore(c, k) <=> \E i \in 0 .. k - 1 : x \in PutBy(c, i) /\ Spared(c, x, i)
    BY InLeft
  <2>2. \A x : x \in LeftBefore(d, k) <=> \E i \in 0 .. k - 1 : x \in PutBy(d, i) /\ Spared(d, x, i)
    BY InLeft
  <2>3. \A x : \A i \in 0 .. k - 1 : Spared(c, x, i) <=> Spared(d, x, i)
    BY <1>3
  <2> HIDE DEF Spared
  <2>4. QED
    BY <1>2, <2>1, <2>2, <2>3
<1>5. QED
  BY <1>4

LEMMA LeftAtFirst ==
  ASSUME NEW c
  PROVE  LeftBefore(c, 1) = {<<"A", Extent(c.initial.even)>>, <<"B", Extent(c.initial.odd)>>}
<1>1. \A x : x \in LeftBefore(c, 1) <=> x \in PutBy(c, 0)
  <2>1. \A i : i \in 0 .. 1 - 1 <=> i = 0
    OBVIOUS
  <2>2. 0 + 1 .. 1 - 1 = {}
    OBVIOUS
  <2>3. QED
    BY <2>1, <2>2, InLeft
<1>2. QED
  BY <1>1 DEF PutBy

LEMMA NextLeft ==
  ASSUME NEW c, NEW k \in Nat \ {0}
  PROVE  LeftBefore(c, k + 1) =
           IF IsLift(c.routes[k].type)
           THEN {x \in LeftBefore(c, k) : x[1] # c.routes[k].base}
                  \union {<<c.routes[k].output, c.routes[k].outputLength>>}
           ELSE LeftBefore(c, k)
<1> DEFINE lift == IsLift(c.routes[k].type)
           After(x, i, n) == \A j \in i + 1 .. n :
                               IsLift(c.routes[j].type) => c.routes[j].base # x[1]
<1>1. \A i \in Int : i \in 0 .. (k + 1) - 1 <=> i \in 0 .. k - 1 \/ i = k
  OBVIOUS
<1>2. ASSUME NEW x, NEW i \in 0 .. k - 1
      PROVE  After(x, i, (k + 1) - 1)
               <=> After(x, i, k - 1) /\ (lift => c.routes[k].base # x[1])
  <2>1. \A j \in Int : j \in i + 1 .. (k + 1) - 1 <=> j \in i + 1 .. k - 1 \/ j = k
    OBVIOUS
  <2>2. k \in Int
    OBVIOUS
  <2>3. QED
    BY <2>1, <2>2
<1>3. \A x : After(x, k, (k + 1) - 1)
  <2>1. k + 1 .. (k + 1) - 1 = {}
    OBVIOUS
  <2>2. QED
    BY <2>1
<1>4. \A x : x \in PutBy(c, k) <=> lift /\ x = <<c.routes[k].output, c.routes[k].outputLength>>
  BY DEF PutBy
<1>5. \A x : x \in LeftBefore(c, k + 1) <=>
               \E i \in 0 .. (k + 1) - 1 : x \in PutBy(c, i) /\ After(x, i, (k + 1) - 1)
  BY InLeft, k + 1 \in Nat
<1>6. \A x : x \in LeftBefore(c, k) <=>
               \E i \in 0 .. k - 1 : x \in PutBy(c, i) /\ After(x, i, k - 1)
  BY InLeft
<1> HIDE DEF After, lift
<1>7. \A x : x \in LeftBefore(c, k + 1) <=>
               \/ x \in LeftBefore(c, k) /\ (lift => c.routes[k].base # x[1])
               \/ lift /\ x = <<c.routes[k].output, c.routes[k].outputLength>>
  <2>1. ASSUME NEW x
        PROVE  x \in LeftBefore(c, k + 1) <=>
                 \/ \E i \in 0 .. k - 1 : x \in PutBy(c, i) /\ After(x, i, (k + 1) - 1)
                 \/ x \in PutBy(c, k) /\ After(x, k, (k + 1) - 1)
    BY <1>1, <1>5, k \in Int
  <2>2. QED
    BY <1>2, <1>3, <1>4, <1>6, <2>1
<1>8. QED
  BY <1>7 DEF lift

-----------------------------------------------------------------------------
(***************************************************************************)
(* A route is placed.                                                      *)
(***************************************************************************)
With(c, r, elements) ==
    [initial |-> c.initial, routes |-> Append(c.routes, r), workspace |-> elements]

LEMMA WithRoute ==
  ASSUME NEW c, ChunkOK(c), NEW r, DOMAIN r = PlacedFields,
         NEW elements \in Int, c.workspace <= elements,
         r.outputLength \in Int, r.outputLength <= elements,
         {<<r.source, r.sourceLength>>, <<r.base, r.baseLength>>}
           \subseteq LeftBefore(c, Len(c.routes) + 1),
         IsLift(r.type) => /\ r.source # r.base
                           /\ \A x \in LeftBefore(c, Len(c.routes) + 1) : x[1] # r.output
  PROVE  /\ ChunkOK(With(c, r, elements))
         /\ LeftBefore(With(c, r, elements), Len(c.routes) + 2) =
              IF IsLift(r.type)
              THEN {x \in LeftBefore(c, Len(c.routes) + 1) : x[1] # r.base}
                     \union {<<r.output, r.outputLength>>}
              ELSE LeftBefore(c, Len(c.routes) + 1)
<1> DEFINE n == Len(c.routes)
           d == With(c, r, elements)
<1>1. n \in Nat /\ IsSeq(c.routes)
  BY DEF ChunkOK, IsSeq
<1>2. /\ d.initial = c.initial /\ d.workspace = elements
      /\ d.routes = Append(c.routes, r)
  BY DEF With
<1>3. /\ IsSeq(d.routes) /\ Len(d.routes) = n + 1 /\ d.routes[n + 1] = r
      /\ \A k \in 1 .. n : d.routes[k] = c.routes[k]
  BY <1>1, <1>2, AppendIsSeq, AppendElements
<1> HIDE DEF d, n
<1>4. \A k \in 1 .. n + 1 : LeftBefore(d, k) = LeftBefore(c, k)
  <2>1. ASSUME NEW k \in 1 .. n + 1 PROVE LeftBefore(d, k) = LeftBefore(c, k)
    <3>1. \A s \in Streams : Extent(d.initial[s]) = Extent(c.initial[s])
      BY <1>2
    <3>2. \A j \in 1 .. k - 1 : PutAlike(d.routes[j], c.routes[j])
      <4>1. \A j \in 1 .. k - 1 : j \in 1 .. n
        BY <1>1
      <4>2. QED
        BY <1>3, <4>1 DEF PutAlike
    <3>3. k \in Nat
      BY <1>1
    <3>4. QED
      BY <3>1, <3>2, <3>3, SameLeft
  <2>2. QED
    BY <2>1
<1>5. \A k \in 1 .. n : OperandsAt(d, k)
  <2>1. ASSUME NEW k \in 1 .. n PROVE OperandsAt(d, k)
    <3>1. OperandsAt(c, k) /\ k \in 1 .. n + 1
      BY <1>1 DEF ChunkOK, n
    <3>2. QED
      BY <1>3, <1>4, <3>1 DEF OperandsAt
  <2>2. QED
    BY <2>1
<1>6. OperandsAt(d, n + 1)
  BY <1>1, <1>3, <1>4 DEF OperandsAt, n
<1>7. \A k \in 1 .. n + 1 :
        /\ DOMAIN d.routes[k] = PlacedFields
        /\ d.routes[k].outputLength \in Int /\ d.routes[k].outputLength <= elements
        /\ OperandsAt(d, k)
  <2>1. \A k \in 1 .. n + 1 : k \in 1 .. n \/ k = n + 1
    BY <1>1
  <2>2. ASSUME NEW k \in 1 .. n
        PROVE  /\ DOMAIN d.routes[k] = PlacedFields
               /\ d.routes[k].outputLength \in Int /\ d.routes[k].outputLength <= elements
    <3>1. /\ DOMAIN c.routes[k] = PlacedFields /\ c.routes[k].outputLength \in Int
          /\ c.routes[k].outputLength <= c.workspace /\ c.workspace \in Int
      BY DEF ChunkOK, n
    <3>2. c.routes[k].outputLength <= elements
      BY <3>1
    <3>3. QED
      BY <1>3, <3>1, <3>2
  <2>3. QED
    BY <1>3, <1>5, <1>6, <2>1, <2>2
<1>8. \A s \in Streams : Extent(d.initial[s]) <= elements
  <2>1. ASSUME NEW s \in Streams PROVE Extent(c.initial[s]) <= elements
    <3>1. /\ Extent(c.initial[s]) \in Int /\ Extent(c.initial[s]) <= c.workspace
          /\ c.workspace \in Int
      BY StretchIs DEF ChunkOK, Needs
    <3>2. QED
      BY <3>1
  <2>2. QED
    BY <1>2, <2>1
<1>9. ChunkOK(d)
  BY <1>2, <1>3, <1>7, <1>8 DEF ChunkOK
<1>10. LeftBefore(d, (n + 1) + 1) =
         IF IsLift(r.type)
         THEN {x \in LeftBefore(c, n + 1) : x[1] # r.base}
                \union {<<r.output, r.outputLength>>}
         ELSE LeftBefore(c, n + 1)
  <2>1. n + 1 \in Nat \ {0} /\ n + 1 \in 1 .. n + 1
    BY <1>1
  <2>2. LeftBefore(d, n + 1) = LeftBefore(c, n + 1)
    BY <1>4, <2>1
  <2>3. QED
    BY <1>3, <2>1, <2>2, NextLeft
<1>11. (n + 1) + 1 = n + 2
  BY <1>1
<1>12. QED
  BY <1>9, <1>10, <1>11 DEF d, n

LEMMA MovedIs ==
  ASSUME NEW f \in [SlotNames -> Slots], NEW t \in Streams
  PROVE  /\ Moved(f, t) \in [SlotNames -> Slots]
         /\ Moved(f, t)[t] = f.free /\ Moved(f, t).free = f[t]
         /\ Moved(f, t)[Other[t]] = f[Other[t]]
<1>1. /\ {t, Other[t], "free"} = SlotNames /\ t # Other[t]
      /\ t # "free" /\ Other[t] # "free"
  BY DEF SlotNames, Streams, Other
<1>2. Moved(f, t) = [[f EXCEPT ![t] = f.free] EXCEPT !["free"] = f[t]]
  BY DEF Moved
<1>3. QED
  BY <1>1, <1>2

Distinct(f) == f.even # f.odd /\ f.free \notin {f.even, f.odd}

\* Whichever stream is lifted.
LEMMA DistinctIs ==
  ASSUME NEW f, NEW t \in Streams
  PROVE  Distinct(f) <=> f[t] # f[Other[t]] /\ f.free # f[t] /\ f.free # f[Other[t]]
BY DEF Distinct, Streams, Other

LEMMA MovedDistinct ==
  ASSUME NEW f \in [SlotNames -> Slots], Distinct(f), NEW t \in Streams
  PROVE  Distinct(Moved(f, t))
<1>1. f[t] # f[Other[t]] /\ f.free # f[t] /\ f.free # f[Other[t]]
  BY DistinctIs
<1> DEFINE m == Moved(f, t)
<1>2. m[t] # m[Other[t]] /\ m.free # m[t] /\ m.free # m[Other[t]]
  BY <1>1, MovedIs
<1> HIDE DEF m
<1>3. Distinct(m)
  BY <1>2, DistinctIs
<1>4. QED
  BY <1>3 DEF m

LEMMA LiftPlaced ==
  ASSUME phase = "place", WalkOK, WalkDistinct, UNCHANGED <<job, routes, required>>,
         NEW full, IsLift(full.type), NEW output \in Stretch,
         NEW source, NEW base, NEW storage, NEW outputOffset,
         walk' = Lifted(full, output, source, base, storage, outputOffset)
  PROVE  WalkDistinct' /\ WalkOK'
<1> DEFINE t == Target(full.type)
           o == Other[t]
           r == [type |-> full.type, k |-> full.k,
                 source |-> walk.slot[o], base |-> walk.slot[t],
                 output |-> walk.slot.free, storage |-> storage,
                 sourceLength |-> Extent(walk.storage[o]),
                 baseLength |-> Extent(walk.storage[t]),
                 sourceOffset |-> Offset(o, source), baseOffset |-> Offset(t, base),
                 outputLength |-> Extent(output), outputOffset |-> outputOffset]
           elements == Larger(walk.workspace, Extent(output))
<1>1. /\ DOMAIN walk = {"slot", "storage", "routes", "workspace"}
      /\ walk.slot \in [SlotNames -> Slots] /\ walk.storage \in Needs
      /\ ChunkOK(Placed)
      /\ \A s \in Streams : Extent(walk.storage[s]) <= walk.workspace
      /\ LeftBefore(Placed, Len(walk.routes) + 1)
           = {<<walk.slot[s], Extent(walk.storage[s])>> : s \in Streams}
  BY DEF WalkOK
<1>2. t \in Streams /\ o \in Streams /\ Streams = {t, o} /\ t # o
  BY StreamOf
<1>3. /\ DOMAIN walk' = DOMAIN walk
      /\ walk'.slot = Moved(walk.slot, t)
      /\ walk'.storage = [walk.storage EXCEPT ![t] = output]
      /\ walk'.workspace = elements
      /\ walk'.routes = Append(walk.routes, r)
  BY <1>1 DEF Lifted
<1>4. Distinct(walk.slot) /\ Distinct(Moved(walk.slot, t))
  BY <1>1, <1>2, MovedDistinct DEF WalkDistinct, Distinct
<1>5. /\ walk.slot[t] # walk.slot[o] /\ walk.slot.free # walk.slot[t]
      /\ walk.slot.free # walk.slot[o]
  BY <1>2, <1>4, DistinctIs
<1>6. /\ walk'.slot \in [SlotNames -> Slots]
      /\ walk'.slot[t] = walk.slot.free /\ walk'.slot[o] = walk.slot[o]
  BY <1>1, <1>2, <1>3, MovedIs
<1>7. /\ walk'.storage \in Needs /\ walk'.storage[t] = output
      /\ walk'.storage[o] = walk.storage[o]
  BY <1>1, <1>2, <1>3 DEF Needs
<1>8. /\ walk.workspace \in Int /\ Extent(output) \in Int /\ elements \in Int
      /\ walk.workspace <= elements /\ Extent(output) <= elements
  <2>1. walk.workspace \in Int /\ Extent(output) \in Int
    BY <1>1, StretchIs DEF ChunkOK, Placed
  <2>2. QED
    BY <2>1 DEF Larger
<1>9. \A s \in Streams : Extent(walk'.storage[s]) <= walk'.workspace
  <2>1. /\ Extent(walk.storage[o]) \in Int
        /\ Extent(walk.storage[o]) <= walk.workspace
    BY <1>1, <1>2, StretchIs DEF Needs
  <2>2. Extent(walk'.storage[t]) <= walk'.workspace
    BY <1>3, <1>7, <1>8
  <2>3. Extent(walk'.storage[o]) <= walk'.workspace
    BY <1>3, <1>7, <1>8, <2>1
  <2>4. QED
    BY <1>2, <2>2, <2>3
<1>10. /\ r.type = full.type /\ DOMAIN r = PlacedFields
       /\ r.source = walk.slot[o] /\ r.base = walk.slot[t] /\ r.output = walk.slot.free
       /\ r.sourceLength = Extent(walk.storage[o])
       /\ r.baseLength = Extent(walk.storage[t])
       /\ r.outputLength = Extent(output)
  BY DEF PlacedFields
<1> DEFINE left == {<<walk.slot[s], Extent(walk.storage[s])>> : s \in Streams}
<1>11. /\ left = {<<walk.slot[t], Extent(walk.storage[t])>>,
                  <<walk.slot[o], Extent(walk.storage[o])>>}
       /\ Placed.routes = walk.routes /\ Placed.workspace = walk.workspace
  BY <1>2 DEF Placed
<1>12. Placed' = With(Placed, r, elements)
  BY <1>3 DEF Placed, With
<1> HIDE DEF r, elements, t, o
<1>13. {<<r.source, r.sourceLength>>, <<r.base, r.baseLength>>} \subseteq left
  BY <1>10, <1>11
<1>14. IsLift(r.type) /\ r.source # r.base /\ \A x \in left : x[1] # r.output
  BY <1>5, <1>10, <1>11
<1> HIDE DEF left
<1>15. left = LeftBefore(Placed, Len(Placed.routes) + 1)
  BY <1>1, <1>11 DEF left
<1>16. /\ ChunkOK(With(Placed, r, elements))
       /\ LeftBefore(With(Placed, r, elements), Len(Placed.routes) + 2) =
            {x \in left : x[1] # r.base} \union {<<r.output, r.outputLength>>}
  <2>1. /\ ChunkOK(Placed) /\ DOMAIN r = PlacedFields /\ elements \in Int
        /\ Placed.workspace <= elements
        /\ r.outputLength \in Int /\ r.outputLength <= elements
    BY <1>1, <1>8, <1>10, <1>11
  <2>2. {<<r.source, r.sourceLength>>, <<r.base, r.baseLength>>}
          \subseteq LeftBefore(Placed, Len(Placed.routes) + 1)
    BY <1>13, <1>15
  <2>3. /\ IsLift(r.type) /\ r.source # r.base
        /\ \A x \in LeftBefore(Placed, Len(Placed.routes) + 1) : x[1] # r.output
    BY <1>14, <1>15
  <2>4. QED
    BY ONLY <2>1, <2>2, <2>3, <1>15, WithRoute
<1>17. Len(walk'.routes) + 1 = Len(Placed.routes) + 2
  <2>1. IsSeq(walk.routes)
    BY <1>1 DEF ChunkOK, Placed
  <2>2. Len(walk'.routes) = Len(walk.routes) + 1 /\ Len(walk.routes) \in Nat
    BY <1>3, <2>1, AppendIsSeq, AppendElements
  <2>3. QED
    BY <1>11, <2>2
<1>18. LeftBefore(Placed', Len(walk'.routes) + 1)
         = {<<walk'.slot[s], Extent(walk'.storage[s])>> : s \in Streams}
  <2>1. {x \in left : x[1] # r.base} \union {<<r.output, r.outputLength>>}
          = {<<walk.slot[o], Extent(walk.storage[o])>>, <<walk.slot.free, Extent(output)>>}
    BY <1>5, <1>10, <1>11
  <2>2. {<<walk'.slot[s], Extent(walk'.storage[s])>> : s \in Streams}
          = {<<walk'.slot[t], Extent(walk'.storage[t])>>,
             <<walk'.slot[o], Extent(walk'.storage[o])>>}
    BY <1>2
  <2>3. QED
    BY <1>6, <1>7, <1>12, <1>16, <1>17, <2>1, <2>2
<1>19. WalkDistinct'
  BY <1>3, <1>4 DEF WalkDistinct, Distinct
<1>20. QED
  BY <1>1, <1>3, <1>6, <1>7, <1>9, <1>12, <1>16, <1>18, <1>19 DEF WalkOK

LEMMA SwapPlaced ==
  ASSUME phase = "place", WalkOK, WalkDistinct, UNCHANGED <<job, routes, required>>,
         walk' = Swapped
  PROVE  WalkDistinct' /\ WalkOK'
<1>1. /\ DOMAIN walk = {"slot", "storage", "routes", "workspace"}
      /\ walk.slot \in [SlotNames -> Slots] /\ walk.storage \in Needs
      /\ ChunkOK(Placed)
      /\ \A s \in Streams : Extent(walk.storage[s]) <= walk.workspace
      /\ LeftBefore(Placed, Len(walk.routes) + 1)
           = {<<walk.slot[s], Extent(walk.storage[s])>> : s \in Streams}
  BY DEF WalkOK
<1>2. /\ DOMAIN walk' = DOMAIN walk
      /\ walk'.slot = [walk.slot EXCEPT !.even = walk.slot.odd, !.odd = walk.slot.even]
      /\ walk'.storage = [s \in Streams |-> walk.storage[Other[s]]]
      /\ walk'.workspace = walk.workspace /\ walk'.routes = walk.routes
  BY <1>1 DEF Swapped
<1>3. /\ walk'.slot \in [SlotNames -> Slots]
      /\ walk'.slot.even = walk.slot.odd /\ walk'.slot.odd = walk.slot.even
      /\ walk'.slot.free = walk.slot.free
  BY <1>1, <1>2 DEF SlotNames
<1>4. /\ walk'.storage \in Needs
      /\ walk'.storage.even = walk.storage.odd /\ walk'.storage.odd = walk.storage.even
  BY <1>1, <1>2 DEF Needs, Streams, Other
<1>5. Placed' = Placed
  BY <1>2 DEF Placed
<1>6. \A f, g : {<<f[s], Extent(g[s])>> : s \in Streams}
                  = {<<f["even"], Extent(g["even"])>>, <<f["odd"], Extent(g["odd"])>>}
  BY DEF Streams
<1>7. {<<walk'.slot[s], Extent(walk'.storage[s])>> : s \in Streams}
        = {<<walk.slot[s], Extent(walk.storage[s])>> : s \in Streams}
  BY <1>3, <1>4, <1>6
<1>8. \A s \in Streams : Extent(walk'.storage[s]) <= walk'.workspace
  BY <1>1, <1>2, StreamOf
<1>9. WalkDistinct'
  BY <1>3 DEF WalkDistinct
<1>10. QED
  BY <1>1, <1>2, <1>3, <1>4, <1>5, <1>7, <1>8, <1>9 DEF WalkOK

\* A scale is not placed in a slot.
LEMMA ScalePlaced ==
  ASSUME phase = "place", WalkOK, WalkDistinct, UNCHANGED <<job, routes, required>>,
         NEW s \in Streams, NEW r, DOMAIN r = PlacedFields, ~IsLift(r.type),
         r.source = walk.slot[s], r.base = walk.slot[s],
         r.sourceLength = Extent(walk.storage[s]),
         r.baseLength = Extent(walk.storage[s]),
         r.outputLength \in Int, r.outputLength <= walk.workspace,
         walk' = [walk EXCEPT !.routes = Append(@, r)]
  PROVE  WalkDistinct' /\ WalkOK'
<1>1. /\ DOMAIN walk = {"slot", "storage", "routes", "workspace"}
      /\ walk.slot \in [SlotNames -> Slots] /\ walk.storage \in Needs
      /\ ChunkOK(Placed)
      /\ \A x \in Streams : Extent(walk.storage[x]) <= walk.workspace
      /\ LeftBefore(Placed, Len(walk.routes) + 1)
           = {<<walk.slot[x], Extent(walk.storage[x])>> : x \in Streams}
  BY DEF WalkOK
<1>2. /\ DOMAIN walk' = DOMAIN walk
      /\ walk'.slot = walk.slot /\ walk'.storage = walk.storage
      /\ walk'.workspace = walk.workspace /\ walk'.routes = Append(walk.routes, r)
  BY <1>1
<1>3. /\ Placed.routes = walk.routes /\ Placed.workspace = walk.workspace
      /\ Placed' = With(Placed, r, walk.workspace)
  BY <1>2 DEF Placed, With
<1>4. walk.workspace \in Int /\ walk.workspace <= walk.workspace
  BY <1>1, <1>3 DEF ChunkOK
<1>5. {<<r.source, r.sourceLength>>, <<r.base, r.baseLength>>}
        \subseteq LeftBefore(Placed, Len(Placed.routes) + 1)
  BY <1>1, <1>3
<1>6. /\ ChunkOK(With(Placed, r, walk.workspace))
      /\ LeftBefore(With(Placed, r, walk.workspace), Len(Placed.routes) + 2)
           = LeftBefore(Placed, Len(Placed.routes) + 1)
  <2>1. /\ ChunkOK(Placed) /\ Placed.workspace <= walk.workspace
        /\ r.outputLength <= walk.workspace
    BY <1>1, <1>3, <1>4
  <2>2. QED
    BY ONLY <2>1, <1>4, <1>5, WithRoute, DOMAIN r = PlacedFields, ~IsLift(r.type),
            r.outputLength \in Int
<1>7. Len(walk'.routes) + 1 = Len(Placed.routes) + 2
  <2>1. IsSeq(walk.routes)
    BY <1>1, <1>3 DEF ChunkOK
  <2>2. Len(walk'.routes) = Len(walk.routes) + 1 /\ Len(walk.routes) \in Nat
    BY <1>2, <2>1, AppendIsSeq, AppendElements
  <2>3. QED
    BY <1>3, <2>2
<1>8. LeftBefore(Placed', Len(walk'.routes) + 1)
        = {<<walk'.slot[x], Extent(walk'.storage[x])>> : x \in Streams}
  BY <1>1, <1>2, <1>3, <1>6, <1>7
<1>9. WalkDistinct'
  BY <1>2 DEF WalkDistinct
<1>10. QED
  BY <1>1, <1>2, <1>3, <1>6, <1>8, <1>9 DEF WalkOK

\* Before the first route the slots hold what was loaded.
LEMMA WalkStarted ==
  ASSUME NEW need \in Needs, \A s \in Streams : need[s].begin <= need[s].end,
         walk' = WalkFrom(need),
         required'[IF job'.inverse THEN Len(routes') ELSE 0] = need
  PROVE  WalkDistinct' /\ WalkOK'
<1>1. /\ DOMAIN walk' = {"slot", "storage", "routes", "workspace"}
      /\ walk'.slot = HomeSlots /\ walk'.storage = need /\ walk'.routes = <<>>
      /\ walk'.workspace = Larger(Extent(need.even), Extent(need.odd))
  BY DEF WalkFrom
<1>2. Placed' = [initial |-> need, routes |-> <<>>, workspace |-> walk'.workspace]
  BY <1>1 DEF Placed
<1>3. /\ HomeSlots \in [SlotNames -> Slots]
      /\ HomeSlots.even = "A" /\ HomeSlots.odd = "B" /\ HomeSlots.free = "Scratch"
  BY DEF HomeSlots, SlotNames, Slots
<1>4. /\ need.even \in Stretch /\ need.odd \in Stretch
  BY DEF Needs, Streams
<1>5. walk'.workspace \in Nat /\ \A s \in Streams : Extent(need[s]) <= walk'.workspace
  <2>1. Extent(need.even) \in Nat /\ Extent(need.odd) \in Nat
    BY <1>4 DEF Streams, Stretch, Extent
  <2>2. /\ walk'.workspace \in Nat /\ Extent(need.even) <= walk'.workspace
        /\ Extent(need.odd) <= walk'.workspace
    BY <1>1, <2>1 DEF Larger
  <2>3. QED
    BY <2>2 DEF Streams
<1>6. ChunkOK(Placed')
  <2>1. IsSeq(<<>>) /\ Len(<<>>) = 0 /\ 1 .. 0 = {}
    BY EmptyIsSeq
  <2>2. QED
    BY <1>2, <1>5, <2>1 DEF ChunkOK
<1>7. LeftBefore(Placed', Len(walk'.routes) + 1)
        = {<<walk'.slot[s], Extent(walk'.storage[s])>> : s \in Streams}
  <2>1. Len(walk'.routes) + 1 = 1
    BY <1>1, EmptyIsSeq
  <2>2. LeftBefore(Placed', 1) = {<<"A", Extent(need.even)>>, <<"B", Extent(need.odd)>>}
    BY <1>2, LeftAtFirst
  <2>3. {<<HomeSlots[s], Extent(need[s])>> : s \in Streams}
          = {<<"A", Extent(need.even)>>, <<"B", Extent(need.odd)>>}
    BY <1>3 DEF Streams
  <2>4. QED
    BY <1>1, <2>1, <2>2, <2>3
<1>8. WalkDistinct'
  BY <1>1, <1>3 DEF WalkDistinct
<1>9. QED
  BY <1>1, <1>3, <1>5, <1>6, <1>7, <1>8 DEF WalkOK

\* Nothing is being placed.
LEMMA WalkEnded ==
  ASSUME walk' = Nowhere, phase' # "place"
  PROVE  WalkDistinct' /\ WalkOK'
<1>1. DOMAIN walk' = {"slot", "storage", "routes", "workspace"} /\ walk'.slot = HomeSlots
  BY DEF Nowhere
<1>2. /\ HomeSlots \in [SlotNames -> Slots]
      /\ HomeSlots.even = "A" /\ HomeSlots.odd = "B" /\ HomeSlots.free = "Scratch"
  BY DEF HomeSlots, SlotNames, Slots
<1>3. QED
  BY <1>1, <1>2 DEF WalkDistinct, WalkOK

-----------------------------------------------------------------------------
(***************************************************************************)
(* A chunk is done.                                                        *)
(***************************************************************************)
SameRoute(r, q) ==
    /\ DOMAIN q = PlacedFields
    /\ PutAlike(q, r)
    /\ q.source = r.source
    /\ q.sourceLength = r.sourceLength /\ q.baseLength = r.baseLength

LEMMA ChunkAlike ==
  ASSUME NEW c, ChunkOK(c), NEW d, d.initial \in Needs, IsSeq(d.routes),
         Len(d.routes) = Len(c.routes), d.workspace = c.workspace,
         \A s \in Streams : Extent(d.initial[s]) = Extent(c.initial[s]),
         \A k \in 1 .. Len(c.routes) : SameRoute(c.routes[k], d.routes[k])
  PROVE  ChunkOK(d)
<1> DEFINE n == Len(c.routes)
<1>1. n \in Nat
  BY DEF ChunkOK, IsSeq
<1>2. ASSUME NEW k \in 1 .. n
      PROVE  /\ DOMAIN d.routes[k] = PlacedFields
             /\ d.routes[k].outputLength \in Int
             /\ d.routes[k].outputLength <= d.workspace
             /\ OperandsAt(d, k)
  <2>1. LeftBefore(d, k) = LeftBefore(c, k)
    <3>1. \A j \in 1 .. k - 1 : PutAlike(d.routes[j], c.routes[j])
      <4>1. \A j \in 1 .. k - 1 : j \in 1 .. n
        BY <1>1
      <4>2. QED
        BY <4>1 DEF SameRoute
    <3>2. k \in Nat
      BY <1>1
    <3>3. QED
      BY <3>1, <3>2, SameLeft
  <2> DEFINE r == c.routes[k]
             q == d.routes[k]
  <2>2. SameRoute(r, q)
    OBVIOUS
  <2>3. OperandsAt(c, k) /\ r.outputLength \in Int /\ r.outputLength <= c.workspace
    BY DEF ChunkOK
  <2>4. OperandsAt(d, k)
    BY <2>1, <2>2, <2>3 DEF OperandsAt, SameRoute, PutAlike
  <2> HIDE DEF r, q
  <2>5. /\ DOMAIN q = PlacedFields /\ q.outputLength \in Int
        /\ q.outputLength <= d.workspace
    BY <2>2, <2>3 DEF SameRoute, PutAlike
  <2>6. QED
    BY <2>4, <2>5 DEF q
<1>3. c.workspace \in Int /\ \A s \in Streams : Extent(d.initial[s]) <= d.workspace
  BY DEF ChunkOK
<1>4. QED
  BY <1>2, <1>3 DEF ChunkOK

LEMMA ChunkAdded ==
  ASSUME ChunksOK, NEW c, ChunkOK(c), chunks' = Append(chunks, c)
  PROVE  ChunksOK'
<1>1. /\ IsSeq(chunks') /\ Len(chunks') = Len(chunks) + 1 /\ Len(chunks) \in Nat
      /\ chunks'[Len(chunks) + 1] = c
      /\ \A n \in 1 .. Len(chunks) : chunks'[n] = chunks[n]
  BY AppendIsSeq, AppendElements DEF ChunksOK
<1>2. \A n \in 1 .. Len(chunks') : n \in 1 .. Len(chunks) \/ n = Len(chunks) + 1
  BY <1>1
<1>3. QED
  BY <1>1, <1>2 DEF ChunksOK

-----------------------------------------------------------------------------
(***************************************************************************)
(* The trace.                                                              *)
(***************************************************************************)
StreamType == [shift : Int, length : Nat]

LEMMA GeometryIs ==
  ASSUME NEW source \in StreamType, NEW shift \in Int, NEW k \in Nat \ {0},
         NEW base \in StreamType
  PROVE  LET geo == StepGeometry(source, shift, k, base)
         IN /\ geo.shift \in Int /\ geo.length \in Nat
            /\ geo.sourceOffset \in Nat /\ geo.baseOffset \in Nat
<1>1. /\ source.shift \in Int /\ source.length \in Nat
      /\ base.shift \in Int /\ base.length \in Nat
  BY DEF StreamType
<1> DEFINE conv == source.shift + shift + Smaller(source.length, k) - 1
           past == IF source.length >= k THEN source.length - k + 1 ELSE 0
           first == Larger(base.shift, conv)
           end == Smaller(base.shift + base.length, conv + past)
<1>2. conv \in Int /\ past \in Int
  BY <1>1 DEF Smaller
<1>3. StepGeometry(source, shift, k, base) =
        [shift |-> first, length |-> Larger(end - first, 0),
         sourceOffset |-> first - conv, baseOffset |-> first - base.shift]
  BY DEF StepGeometry
<1> HIDE DEF conv, past
<1>4. first \in Int /\ first >= conv /\ first >= base.shift /\ end \in Int
  BY <1>1, <1>2 DEF Larger, Smaller
<1> HIDE DEF first, end
<1>5. Larger(end - first, 0) \in Nat /\ first - conv \in Nat /\ first - base.shift \in Nat
  BY <1>1, <1>2, <1>4 DEF Larger
<1>6. QED
  BY <1>3, <1>4, <1>5

JobOK(j) ==
    /\ j.inverse \in BOOLEAN /\ j.tileNative \in BOOLEAN
    /\ j.length \in Nat \ {0} /\ j.cores \in Nat \ {0} /\ j.scheme.taps \in Nat \ {0}
    /\ j.budget \in Nat
    /\ j.scheme.delay.even \in Int /\ j.scheme.delay.odd \in Int
    /\ j.scheme.steps \in Seq([type : StepTypes, shift : Int, coeff : Seq(Int)])
    /\ \A i \in 1 .. Len(j.scheme.steps) :
         IsLift(j.scheme.steps[i].type) => j.scheme.steps[i].coeff # <<>>

LEMMA JobIs == \A j \in Jobs : JobOK(j)
BY JobsAssumption DEF JobOK, Streams

LEMMA PaddingIs ==
  ASSUME NEW j, JobOK(j)
  PROVE  /\ PaddedLength(j) \in Nat /\ OutputLength(j) \in Nat
         /\ CanonicalStart(j) \in Nat /\ Pad(j) \in Nat
         /\ SplitLength(j) \in [Streams -> Nat]
         /\ InitialStreams(j) \in [Streams -> StreamType]
<1>1. j.length \in Nat /\ j.scheme.taps \in Nat \ {0}
  BY DEF JobOK
<1>2. /\ PaddedLength(j) \in Nat /\ OutputLength(j) \in Nat
      /\ CanonicalStart(j) \in Nat /\ Pad(j) \in Nat
  BY <1>1 DEF PaddedLength, OutputLength, CanonicalStart, Pad
<1>3. /\ CeilDiv(PaddedLength(j), 2) \in Nat /\ PaddedLength(j) \div 2 \in Nat
  BY <1>2 DEF CeilDiv
<1>4. SplitLength(j) \in [Streams -> Nat]
  BY <1>3 DEF SplitLength, Streams
<1>5. InitialStreams(j) \in [Streams -> StreamType]
  <2>1. \A s \in Streams : j.scheme.delay[s] \in Int /\ SplitLength(j)[s] \in Nat
    BY <1>4 DEF JobOK, Streams
  <2>2. QED
    BY <2>1 DEF InitialStreams, StreamType
<1>6. QED
  BY <1>2, <1>4, <1>5

StepOK(step) ==
    /\ step.type \in StepTypes /\ step.shift \in Int /\ step.coeff \in Seq(Int)
    /\ IsLift(step.type) => step.coeff # <<>>

LEMMA StepIs ==
  ASSUME job \in Jobs, NEW i \in 1 .. Len(Steps)
  PROVE  StepOK(Steps[i])
<1>1. JobOK(job) /\ Steps = job.scheme.steps
  BY JobIs DEF Steps
<1>2. Steps[i] \in [type : StepTypes, shift : Int, coeff : Seq(Int)]
  <2> DEFINE S == [type : StepTypes, shift : Int, coeff : Seq(Int)]
  <2>1. Steps \in Seq(S)
    BY <1>1 DEF JobOK
  <2> HIDE DEF S
  <2>2. Steps[i] \in S
    BY <2>1
  <2>3. QED
    BY <2>2 DEF S
<1>3. QED
  BY <1>1, <1>2 DEF JobOK, StepOK

\* What a step makes of a trace: a route more, of the shape all have.
TracedOK(before, after) ==
    /\ after.stream \in [Streams -> StreamType]
    /\ \E r : RouteOK(r) /\ after.routes = Append(before.routes, r)

LEMMA LiftTracedIs ==
  ASSUME NEW trace, trace.stream \in [Streams -> StreamType],
         NEW step, StepOK(step), IsLift(step.type)
  PROVE  TracedOK(trace, LiftTraced(trace, step))
<1> DEFINE t == Target(step.type)
           o == Other[t]
           k == Len(step.coeff)
           geo == StepGeometry(trace.stream[o], step.shift, k, trace.stream[t])
           r == [type |-> step.type, k |-> k,
                 source |-> trace.active[o], base |-> trace.active[t],
                 output |-> trace.active.free, storage |-> "workspace",
                 sourceLength |-> trace.stream[o].length,
                 baseLength |-> trace.stream[t].length,
                 sourceOffset |-> geo.sourceOffset, baseOffset |-> geo.baseOffset,
                 outputLength |-> geo.length]
           after == LiftTraced(trace, step)
<1>1. t \in Streams /\ o \in Streams
  BY StreamOf
<1>2. trace.stream[t] \in StreamType /\ trace.stream[o] \in StreamType
  BY <1>1
<1>3. k \in Nat \ {0} /\ step.shift \in Int /\ step.type \in StepTypes
  BY DEF StepOK
<1>4. /\ after.stream = [trace.stream EXCEPT ![t] = [shift |-> geo.shift, length |-> geo.length]]
      /\ after.routes = Append(trace.routes, r)
  BY DEF LiftTraced
<1>5. /\ r.type = step.type /\ r.k = k /\ r.sourceOffset = geo.sourceOffset
      /\ r.baseOffset = geo.baseOffset /\ r.outputLength = geo.length
      /\ r.sourceLength = trace.stream[o].length
      /\ r.baseLength = trace.stream[t].length
      /\ DOMAIN r = RouteFields
  BY DEF RouteFields
<1> HIDE DEF r, t, o, k, after
<1>6. /\ geo.shift \in Int /\ geo.length \in Nat
      /\ geo.sourceOffset \in Nat /\ geo.baseOffset \in Nat
  BY <1>2, <1>3, GeometryIs
<1> HIDE DEF geo
<1>7. [shift |-> geo.shift, length |-> geo.length] \in StreamType
  BY <1>6 DEF StreamType
<1>8. after.stream \in [Streams -> StreamType]
  BY <1>4, <1>7
<1>9. trace.stream[t].length \in Nat /\ trace.stream[o].length \in Nat
  BY <1>2 DEF StreamType
<1>10. RouteOK(r)
  BY <1>3, <1>5, <1>6, <1>9 DEF RouteOK
<1>11. QED
  BY <1>4, <1>8, <1>10 DEF TracedOK, after

LEMMA ScaleTracedIs ==
  ASSUME NEW trace, trace.stream \in [Streams -> StreamType],
         DOMAIN trace = {"stream", "active", "routes"},
         NEW step, StepOK(step), ~IsLift(step.type)
  PROVE  TracedOK(trace, ScaleTraced(trace, step))
<1> DEFINE t == Target(step.type)
           len == trace.stream[t].length
           r == [type |-> step.type, k |-> 1,
                 source |-> trace.active[t], base |-> trace.active[t],
                 output |-> trace.active.free, storage |-> "workspace",
                 sourceLength |-> len, baseLength |-> len,
                 sourceOffset |-> 0, baseOffset |-> 0, outputLength |-> len]
           after == ScaleTraced(trace, step)
<1>1. len \in Nat
  BY StreamOf DEF StreamType
<1>2. after.stream = trace.stream /\ after.routes = Append(trace.routes, r)
  BY DEF ScaleTraced
<1> HIDE DEF len
<1>3. RouteOK(r)
  BY <1>1 DEF RouteOK, StepOK, RouteFields
<1>4. QED
  BY <1>2, <1>3 DEF TracedOK

LEMMA SwapTracedIs ==
  ASSUME NEW trace, trace.stream \in [Streams -> StreamType]
  PROVE  TracedOK(trace, SwapTraced(trace))
<1> DEFINE r == [type |-> "swap", k |-> 0,
                 source |-> trace.active.even, base |-> trace.active.odd,
                 output |-> trace.active.even, storage |-> "workspace",
                 sourceLength |-> trace.stream.even.length,
                 baseLength |-> trace.stream.odd.length,
                 sourceOffset |-> 0, baseOffset |-> 0, outputLength |-> 0]
           after == SwapTraced(trace)
<1>1. trace.stream.even.length \in Nat /\ trace.stream.odd.length \in Nat
  BY DEF StreamType, Streams
<1>2. /\ after.stream = [s \in Streams |-> trace.stream[Other[s]]]
      /\ after.routes = Append(trace.routes, r)
  BY DEF SwapTraced
<1>3. after.stream \in [Streams -> StreamType]
  BY <1>2, StreamOf
<1>4. RouteOK(r)
  BY <1>1 DEF RouteOK, StepTypes, IsLift, RouteFields
<1>5. QED
  BY <1>2, <1>3, <1>4 DEF TracedOK

LEMMA AppendRouteStep ==
  ASSUME TraceOK, AppendRoute
  PROVE  TraceOK'
<1> DEFINE trace == [stream |-> stream, active |-> active, routes |-> routes]
           step == Steps[Len(routes) + 1]
           after == Traced(trace, step)
<1>1. /\ Len(routes) < Len(Steps) /\ UNCHANGED <<phase, fault, job>>
      /\ stream' = after.stream /\ routes' = after.routes
  BY DEF AppendRoute
<1>2. /\ job \in Jobs /\ IsSeq(routes) /\ stream \in [Streams -> StreamType]
      /\ Len(routes) \in Nat
  BY AppendElements DEF TraceOK, StreamType
<1>3. StepOK(step)
  <2>1. Len(Steps) \in Nat
    BY <1>2, JobIs DEF JobOK, Steps
  <2>2. Len(routes) + 1 \in 1 .. Len(Steps)
    BY <1>1, <1>2, <2>1
  <2>3. QED
    BY <1>2, <2>2, StepIs
<1>4. /\ trace.stream = stream /\ trace.routes = routes
      /\ DOMAIN trace = {"stream", "active", "routes"}
  OBVIOUS
<1> HIDE DEF trace, step
<1>5. TracedOK(trace, after)
  BY <1>2, <1>3, <1>4, LiftTracedIs, ScaleTracedIs, SwapTracedIs DEF Traced
<1> HIDE DEF after
<1>6. PICK r : RouteOK(r) /\ routes' = Append(routes, r)
  BY <1>1, <1>4, <1>5 DEF TracedOK
<1>7. /\ IsSeq(routes') /\ Len(routes') = Len(routes) + 1
      /\ routes'[Len(routes) + 1] = r
      /\ \A i \in 1 .. Len(routes) : routes'[i] = routes[i]
  BY <1>2, <1>6, AppendIsSeq, AppendElements
<1>8. \A i \in 1 .. Len(routes') : RouteOK(routes'[i])
  <2>1. \A i \in 1 .. Len(routes') : i \in 1 .. Len(routes) \/ i = Len(routes) + 1
    BY <1>2, <1>7
  <2>2. QED
    BY <1>6, <1>7, <2>1 DEF TraceOK
<1>9. stream' \in [Streams -> [shift : Int, length : Nat]]
  BY <1>1, <1>5 DEF TracedOK, StreamType
<1>10. QED
  BY <1>1, <1>2, <1>7, <1>8, <1>9 DEF TraceOK

LEMMA TerminalScalesStep ==
  ASSUME TraceOK, RouteTerminalScales
  PROVE  TraceOK'
<1>1. /\ UNCHANGED <<job, stream>>
      /\ routes' = TerminalScalesRouted(routes) \/ routes' = routes
  BY DEF RouteTerminalScales
<1>2. CASE routes' = routes
  BY <1>1, <1>2 DEF TraceOK
<1>3. CASE routes' = TerminalScalesRouted(routes)
  <2> DEFINE n == Len(routes)
             q(i) == IF i > n - 2
                     THEN [routes[i] EXCEPT !.storage = FinalDram[Target(routes[i].type)]]
                     ELSE routes[i]
  <2>1. n \in Nat /\ routes' = [i \in 1 .. n |-> q(i)]
    BY <1>3, AppendElements DEF TraceOK, TerminalScalesRouted
  <2>2. ASSUME NEW i \in 1 .. n PROVE RouteOK(q(i))
    <3>1. RouteOK(routes[i])
      BY DEF TraceOK
    <3> DEFINE r == routes[i]
               a == [r EXCEPT !.storage = FinalDram[Target(r.type)]]
    <3>2. /\ DOMAIN a = DOMAIN r /\ a.type = r.type /\ a.k = r.k
          /\ a.sourceOffset = r.sourceOffset /\ a.baseOffset = r.baseOffset
          /\ a.sourceLength = r.sourceLength /\ a.baseLength = r.baseLength
          /\ a.outputLength = r.outputLength
      BY <3>1 DEF RouteOK, RouteFields
    <3> HIDE DEF a
    <3>3. RouteOK(a)
      BY <3>1, <3>2 DEF RouteOK
    <3>4. QED
      BY <3>1, <3>3 DEF a
  <2> HIDE DEF q, n
  <2>3. IsSeq(routes') /\ Len(routes') = n
    BY <2>1, FunctionIsSeq
  <2>4. \A i \in 1 .. Len(routes') : RouteOK(routes'[i])
    BY <2>1, <2>2, <2>3
  <2>5. QED
    BY <1>1, <2>3, <2>4 DEF TraceOK
<1>4. QED
  BY <1>1, <1>2, <1>3

-----------------------------------------------------------------------------
(***************************************************************************)
(* Shares, and groups of a given size.                                     *)
(***************************************************************************)
LEMMA Shares ==
  ASSUME NEW total \in Nat \ {0}, NEW parts \in 1 .. total
  PROVE  /\ ShareBegin(total, parts, 0) = 0
         /\ ShareBegin(total, parts, parts) = total
         /\ \A p \in 0 .. parts : ShareBegin(total, parts, p) \in 0 .. total
         /\ \A p \in 0 .. parts - 1 :
              /\ ShareSize(total, parts, p) \in Nat \ {0}
              /\ ShareBegin(total, parts, p + 1)
                   = ShareBegin(total, parts, p) + ShareSize(total, parts, p)
<1> DEFINE q == total \div parts
           r == total % parts
           B(p) == ShareBegin(total, parts, p)
           S(p) == ShareSize(total, parts, p)
<1>1. parts \in Nat \ {0} /\ total \in Int /\ total \in Nat
  OBVIOUS
<1>2. total = parts * q + r /\ r \in 0 .. parts - 1 /\ q \in Nat
  BY ONLY <1>1, Divided
<1>3. /\ \A p : B(p) = p * q + Smaller(p, r)
      /\ \A p : S(p) = q + (IF p < r THEN 1 ELSE 0)
  BY DEF ShareBegin, ShareSize
<1> HIDE DEF q, r, B, S
<1>4. q >= 1
  <2>1. CASE q = 0
    <3>1. parts * q = 0
      BY <1>1, <2>1, SMT
    <3>2. QED
      BY <1>2, <3>1
  <2>2. QED
    BY <1>2, <2>1
<1>5. \A p \in Nat : p * q \in Nat /\ (p + 1) * q = p * q + q
  BY <1>2, SMT
<1>6. \A p \in 0 .. parts - 1 : S(p) \in Nat \ {0} /\ B(p + 1) = B(p) + S(p)
  <2>1. ASSUME NEW p \in 0 .. parts - 1 PROVE S(p) \in Nat \ {0} /\ B(p + 1) = B(p) + S(p)
    <3>1. p \in Nat /\ p * q \in Nat /\ (p + 1) * q = p * q + q
      BY <1>1, <1>5
    <3>2. B(p) = p * q + Smaller(p, r) /\ B(p + 1) = (p + 1) * q + Smaller(p + 1, r)
      BY <1>3
    <3> DEFINE m == p * q
    <3> HIDE DEF m
    <3>3. B(p) = m + Smaller(p, r) /\ B(p + 1) = m + q + Smaller(p + 1, r) /\ m \in Nat
      BY <3>1, <3>2 DEF m
    <3>4. S(p) = q + (IF p < r THEN 1 ELSE 0)
      BY <1>3
    <3>5. QED
      BY <1>2, <1>4, <3>1, <3>3, <3>4 DEF Smaller
  <2>2. QED
    BY <2>1
<1>7. B(0) = 0
  <2>1. 0 * q = 0
    BY <1>2, SMT
  <2>2. QED
    BY <1>2, <1>3, <2>1 DEF Smaller
<1>8. B(parts) = total
  <2>1. B(parts) = parts * q + Smaller(parts, r)
    BY <1>3
  <2>2. Smaller(parts, r) = r
    BY <1>1, <1>2 DEF Smaller
  <2>3. QED
    BY <1>2, <2>1, <2>2
<1>9. \A p \in 0 .. parts : B(p) \in 0 .. total
  <2>1. ASSUME NEW p \in 0 .. parts PROVE B(p) \in 0 .. total
    <3>1. p \in Nat /\ p * q \in Nat /\ p * q <= parts * q /\ parts * q \in Nat
      BY <1>1, <1>2, SMT
    <3>2. B(p) = p * q + Smaller(p, r)
      BY <1>3
    <3> DEFINE m == p * q
               e == parts * q
    <3> HIDE DEF m, e
    <3>3. B(p) = m + Smaller(p, r) /\ m \in Nat /\ e \in Nat /\ m <= e /\ total = e + r
      BY <1>2, <3>1, <3>2 DEF m, e
    <3>4. QED
      BY <1>1, <1>2, <3>1, <3>3 DEF Smaller
  <2>2. QED
    BY <2>1
<1>10. QED
  BY <1>6, <1>7, <1>8, <1>9 DEF B, S

LEMMA Groups ==
  ASSUME NEW n \in Nat, NEW size \in Nat \ {0}
  PROVE  /\ GroupsOf(n, size) \in Nat \ {0}
         /\ n <= GroupsOf(n, size) * size
         /\ n > 0 => (GroupsOf(n, size) - 1) * size < n
<1> DEFINE a == n + size - 1
           c == a \div size
           g == GroupsOf(n, size)
<1>1. a \in Nat /\ a \in Int /\ a = n + size - 1
  OBVIOUS
<1>2. g = Larger(c, 1)
  BY DEF GroupsOf, CeilDiv
<1> HIDE DEF a
<1>3. a = size * c + (a % size) /\ a % size \in 0 .. size - 1 /\ c \in Nat
  BY ONLY <1>1, Divided, size \in Nat \ {0}
<1> HIDE DEF c, g
<1>4. g \in Nat \ {0} /\ c <= g /\ (c >= 1 => g = c)
  BY <1>2, <1>3 DEF Larger
<1>5. \A x, y \in Nat : x * y = y * x /\ x * y \in Nat
  BY SMT
<1>6. n <= c * size /\ c * size \in Nat
  <2>1. size * c = c * size /\ c * size \in Nat
    BY <1>3, <1>5
  <2>2. QED
    BY <1>1, <1>3, <2>1
<1>7. n <= g * size
  <2>1. c * size <= g * size /\ g * size \in Nat
    BY <1>3, <1>4, SMT
  <2>2. QED
    BY <1>6, <2>1
<1>8. ASSUME n > 0 PROVE (g - 1) * size < n
  <2>1. c # 0
    <3>1. CASE c = 0
      <4>1. 0 * size = 0
        BY SMT
      <4>2. QED
        BY <1>6, <1>8, <3>1, <4>1
    <3>2. QED
      BY <3>1
  <2>2. g = c
    BY <1>3, <1>4, <2>1
  <2>3. (c - 1) * size = c * size - size
    BY <1>3, SMT
  <2>4. size * c = c * size
    BY <1>3, <1>5
  <2>5. (c - 1) * size < n
    BY <1>1, <1>3, <1>6, <2>3, <2>4
  <2>6. QED
    BY <2>2, <2>5
<1>9. QED
  BY <1>4, <1>7, <1>8 DEF g

-----------------------------------------------------------------------------
(***************************************************************************)
(* The two instances of the planner use the same definitions.              *)
(***************************************************************************)
LEMMA LwtSame ==
  /\ Lwt!Streams = Streams
  /\ Lwt!Other = Other
  /\ \A a : Lwt!IsLift(a) = IsLift(a)
  /\ \A a : Lwt!Target(a) = Target(a)
  /\ \A a, b : Lwt!Smaller(a, b) = Smaller(a, b)
  /\ \A a : Lwt!Empty(a) = Empty(a)
  /\ \A a : Lwt!Extent(a) = Extent(a)
  /\ \A a, b : Lwt!Interval(a, b) = Interval(a, b)
  /\ \A a, b, c : Lwt!Translated(a, b, c) = Translated(a, b, c)
  /\ \A a, b : Lwt!Covers(a, b) = Covers(a, b)
  /\ \A a, b : Lwt!Has(a, b) = Has(a, b)
  /\ \A a, b : Lwt!Offset(a, b) = Offset(a, b)
  /\ \A a, b : Lwt!Needed(a, b) = Needed(a, b)
  /\ Lwt!Swapped = Swapped
  /\ \A a, b, c, d, e, f : Lwt!Lifted(a, b, c, d, e, f) = Lifted(a, b, c, d, e, f)
  /\ \A a : Lwt!WalkFrom(a) = WalkFrom(a)
  /\ Lwt!Nowhere = Nowhere
  /\ \A a, b, c : Lwt!Extended(a, b, c) = Extended(a, b, c)
  /\ \A a, b : Lwt!GroupsOf(a, b) = GroupsOf(a, b)
  /\ \A a : Lwt!OutputLength(a) = OutputLength(a)
  /\ \A a : Lwt!CanonicalStart(a) = CanonicalStart(a)
  /\ \A a : Lwt!SplitLength(a) = SplitLength(a)
  /\ Lwt!ScaleOf = ScaleOf
  /\ Lwt!Fits = Fits
  /\ \A a : Lwt!MoreChunks(a) = MoreChunks(a)
  /\ \A a, b, c : Lwt!ShareBegin(a, b, c) = ShareBegin(a, b, c)
  /\ \A a, b, c : Lwt!ShareSize(a, b, c) = ShareSize(a, b, c)
BY DEF Alignment, CanonicalStart, CeilDiv, Covers, Empty, Extended, Extent,
       Fits, GroupsOf, Has, HomeSlots, Hull, Interval, IsLift, IsScale,
       Larger, Lifted, LocalOffset, LongestStream, Max, MoreChunks, Moved,
       Needed, Nowhere, Offset, Other, OutputLength, Pad, PaddedLength,
       RoundUp, ScaleOf, ShareBegin, ShareSize, Smaller, SplitLength, Streams,
       Swapped, Target, Translated, WalkFrom, WorkspaceElements,
       Lwt!Alignment, Lwt!CanonicalStart, Lwt!CeilDiv, Lwt!Covers, Lwt!Empty,
       Lwt!Extended, Lwt!Extent, Lwt!Fits, Lwt!GroupsOf, Lwt!Has,
       Lwt!HomeSlots, Lwt!Hull, Lwt!Interval, Lwt!IsLift, Lwt!IsScale,
       Lwt!Larger, Lwt!Lifted, Lwt!LocalOffset, Lwt!LongestStream, Lwt!Max,
       Lwt!MoreChunks, Lwt!Moved, Lwt!Needed, Lwt!Nowhere, Lwt!Offset,
       Lwt!Other, Lwt!OutputLength, Lwt!Pad, Lwt!PaddedLength, Lwt!RoundUp,
       Lwt!ScaleOf, Lwt!ShareBegin, Lwt!ShareSize, Lwt!Smaller,
       Lwt!SplitLength, Lwt!Streams, Lwt!Swapped, Lwt!Target, Lwt!Translated,
       Lwt!WalkFrom, Lwt!WorkspaceElements

LEMMA IlwtSame ==
  /\ Ilwt!Streams = Streams
  /\ Ilwt!Other = Other
  /\ \A a : Ilwt!IsLift(a) = IsLift(a)
  /\ \A a : Ilwt!Target(a) = Target(a)
  /\ \A a, b : Ilwt!Smaller(a, b) = Smaller(a, b)
  /\ \A a : Ilwt!Empty(a) = Empty(a)
  /\ \A a : Ilwt!Extent(a) = Extent(a)
  /\ \A a, b : Ilwt!Interval(a, b) = Interval(a, b)
  /\ \A a, b, c : Ilwt!Translated(a, b, c) = Translated(a, b, c)
  /\ \A a, b : Ilwt!Covers(a, b) = Covers(a, b)
  /\ \A a, b : Ilwt!Has(a, b) = Has(a, b)
  /\ \A a, b : Ilwt!Offset(a, b) = Offset(a, b)
  /\ Ilwt!Swapped = Swapped
  /\ \A a, b, c, d, e, f : Ilwt!Lifted(a, b, c, d, e, f) = Lifted(a, b, c, d, e, f)
  /\ \A a : Ilwt!WalkFrom(a) = WalkFrom(a)
  /\ Ilwt!Nowhere = Nowhere
  /\ \A a, b, c : Ilwt!Extended(a, b, c) = Extended(a, b, c)
  /\ \A a, b : Ilwt!GroupsOf(a, b) = GroupsOf(a, b)
  /\ \A a : Ilwt!OutputLength(a) = OutputLength(a)
  /\ \A a : Ilwt!CanonicalStart(a) = CanonicalStart(a)
  /\ \A a : Ilwt!SplitLength(a) = SplitLength(a)
  /\ Ilwt!ScaleOf = ScaleOf
  /\ Ilwt!Fits = Fits
  /\ \A a : Ilwt!MoreChunks(a) = MoreChunks(a)
  /\ \A a, b, c : Ilwt!ShareBegin(a, b, c) = ShareBegin(a, b, c)
  /\ \A a, b, c : Ilwt!ShareSize(a, b, c) = ShareSize(a, b, c)
  /\ \A a, b : Ilwt!NeededAfter(a, b) = NeededAfter(a, b)
  /\ \A a, b : Ilwt!Subtracted(a, b) = Subtracted(a, b)
  /\ \A a : Ilwt!Pad(a) = Pad(a)
BY DEF Alignment, CanonicalStart, CeilDiv, Covers, Empty, Extended, Extent,
       Fits, GroupsOf, Has, HomeSlots, Hull, Interval, IsLift, IsScale,
       Larger, Lifted, LocalOffset, LongestStream, Max, MoreChunks, Moved,
       NeededAfter, Nowhere, Offset, Other, OutputLength, Pad, PaddedLength,
       RoundUp, ScaleOf, ShareBegin, ShareSize, Smaller, SplitLength, Streams,
       Subtracted, Swapped, Target, Translated, Undone, WalkFrom,
       WorkspaceElements, Ilwt!Alignment, Ilwt!CanonicalStart, Ilwt!CeilDiv,
       Ilwt!Covers, Ilwt!Empty, Ilwt!Extended, Ilwt!Extent, Ilwt!Fits,
       Ilwt!GroupsOf, Ilwt!Has, Ilwt!HomeSlots, Ilwt!Hull, Ilwt!Interval,
       Ilwt!IsLift, Ilwt!IsScale, Ilwt!Larger, Ilwt!Lifted, Ilwt!LocalOffset,
       Ilwt!LongestStream, Ilwt!Max, Ilwt!MoreChunks, Ilwt!Moved,
       Ilwt!NeededAfter, Ilwt!Nowhere, Ilwt!Offset, Ilwt!Other,
       Ilwt!OutputLength, Ilwt!Pad, Ilwt!PaddedLength, Ilwt!RoundUp,
       Ilwt!ScaleOf, Ilwt!ShareBegin, Ilwt!ShareSize, Ilwt!Smaller,
       Ilwt!SplitLength, Ilwt!Streams, Ilwt!Subtracted, Ilwt!Swapped,
       Ilwt!Target, Ilwt!Translated, Ilwt!Undone, Ilwt!WalkFrom,
       Ilwt!WorkspaceElements

LEMMA Totals ==
  ASSUME job \in Jobs
  PROVE  /\ Whole \in Nat /\ Unit \in Nat \ {0} /\ GroupTotal \in Nat \ {0}
         /\ Whole <= GroupTotal * Unit
         /\ Whole > 0 => (GroupTotal - 1) * Unit < Whole
         /\ ~job.inverse => Lwt!GroupTotal = GroupTotal
         /\ job.inverse => Ilwt!GroupTotal = GroupTotal
<1>1. JobOK(job) /\ OutputLength(job) \in Nat /\ GroupElements \in Nat \ {0}
  BY JobIs, PaddingIs, UnitsAssumption
<1>2. job.length \in Nat /\ 2 * GroupElements \in Nat \ {0}
  BY <1>1 DEF JobOK
<1>3. Whole \in Nat /\ Unit \in Nat \ {0}
  BY <1>1, <1>2 DEF Whole, Unit
<1>4. /\ GroupsOf(Whole, Unit) \in Nat \ {0}
      /\ Whole <= GroupsOf(Whole, Unit) * Unit
      /\ Whole > 0 => (GroupsOf(Whole, Unit) - 1) * Unit < Whole
  BY <1>3, Groups
<1>5. Lwt!GroupTotal = GroupsOf(OutputLength(job), GroupElements)
  BY LwtSame DEF Lwt!GroupTotal
<1>6. Ilwt!GroupTotal = GroupsOf(job.length, 2 * GroupElements)
  BY IlwtSame DEF Ilwt!GroupTotal, Ilwt!OutputGroup
<1>7. /\ ~job.inverse => Lwt!GroupTotal = GroupTotal
      /\ job.inverse => Ilwt!GroupTotal = GroupTotal
  BY <1>5, <1>6 DEF GroupTotal, Whole, Unit
<1>8. QED
  BY <1>3, <1>4, <1>7 DEF GroupTotal

LEMMA SameTotal ==
  /\ UNCHANGED job => UNCHANGED <<GroupTotal, Whole, Unit>>
  /\ UNCHANGED <<job, chunkCount>> => \A p : UNCHANGED Boundary(p)
BY DEF GroupTotal, Whole, Unit, Boundary

\* The chunks begin and end on boundaries of whole groups, none is empty, and
\* together they are all there is.
LEMMA Boundaries ==
  ASSUME job \in Jobs, chunkCount \in 1 .. GroupTotal
  PROVE  /\ Boundary(0) = 0
         /\ \A p \in 0 .. chunkCount : Boundary(p) \in Nat /\ Boundary(p) % Unit = 0
         /\ Whole > 0 => \A p \in 0 .. chunkCount - 1 :
                          Boundary(p) < Whole /\ Boundary(p) < Boundary(p + 1)
         /\ Whole <= Boundary(chunkCount)
<1> DEFINE B(p) == ShareBegin(GroupTotal, chunkCount, p)
<1>1. /\ Whole \in Nat /\ Unit \in Nat \ {0} /\ GroupTotal \in Nat \ {0}
      /\ Whole <= GroupTotal * Unit
      /\ Whole > 0 => (GroupTotal - 1) * Unit < Whole
  BY Totals
<1>2. /\ B(0) = 0 /\ B(chunkCount) = GroupTotal
      /\ \A p \in 0 .. chunkCount : B(p) \in 0 .. GroupTotal
      /\ \A p \in 0 .. chunkCount - 1 :
           /\ ShareSize(GroupTotal, chunkCount, p) \in Nat \ {0}
           /\ B(p + 1) = B(p) + ShareSize(GroupTotal, chunkCount, p)
  BY <1>1, Shares
<1>3. \A p : Boundary(p) = B(p) * Unit
  BY DEF Boundary
<1> HIDE DEF B
<1>4. Boundary(0) = 0
  BY <1>1, <1>2, <1>3
<1>5. ASSUME NEW p \in 0 .. chunkCount
      PROVE  Boundary(p) \in Nat /\ Boundary(p) % Unit = 0
  <2>1. B(p) \in Nat /\ Boundary(p) = B(p) * Unit
    BY <1>1, <1>2, <1>3
  <2> DEFINE m == B(p)
  <2> HIDE DEF m
  <2>2. m \in Nat /\ m * Unit \in Nat /\ m * Unit = Unit * m + 0
    BY <1>1, <2>1, SMT DEF m
  <2>3. (m * Unit) % Unit = 0
    BY <1>1, <2>2, Quotient
  <2>4. QED
    BY <2>1, <2>2, <2>3 DEF m
<1>6. ASSUME Whole > 0, NEW p \in 0 .. chunkCount - 1
      PROVE  Boundary(p) < Whole /\ Boundary(p) < Boundary(p + 1)
  <2>1. /\ p \in 0 .. chunkCount /\ p + 1 \in 0 .. chunkCount
    BY <1>1
  <2>2. /\ B(p) \in Nat /\ B(p + 1) \in Nat /\ B(p) + 1 <= B(p + 1)
        /\ B(p) <= GroupTotal - 1
    <3>1. B(p) \in 0 .. GroupTotal /\ B(p + 1) \in 0 .. GroupTotal
      BY <1>2, <2>1
    <3>2. \E z \in Nat \ {0} : B(p + 1) = B(p) + z
      BY <1>2
    <3>3. QED
      BY <1>1, <3>1, <3>2
  <2> DEFINE m == B(p)
             n == B(p + 1)
             l == GroupTotal - 1
  <2>3. m \in Nat /\ n \in Nat /\ l \in Nat /\ m + 1 <= n /\ m <= l
    BY <1>1, <2>2
  <2> HIDE DEF m, n, l
  <2>4. /\ m * Unit <= l * Unit /\ m * Unit + Unit <= n * Unit
        /\ m * Unit \in Nat /\ n * Unit \in Nat /\ l * Unit \in Nat
    <3>1. m * Unit <= l * Unit /\ (m + 1) * Unit <= n * Unit
      BY <1>1, <2>3, SMT
    <3>2. (m + 1) * Unit = m * Unit + Unit /\ m * Unit \in Nat /\ n * Unit \in Nat
          /\ l * Unit \in Nat
      BY <1>1, <2>3, SMT
    <3>3. QED
      BY <3>1, <3>2
  <2>5. Boundary(p) = m * Unit /\ Boundary(p + 1) = n * Unit /\ l * Unit < Whole
    BY <1>1, <1>3, <1>6 DEF m, n, l
  <2>6. QED
    BY <1>1, <2>4, <2>5
<1>7. Whole <= Boundary(chunkCount)
  BY <1>1, <1>2, <1>3
<1>8. QED
  BY <1>4, <1>5, <1>6, <1>7

-----------------------------------------------------------------------------
(***************************************************************************)
(* The steps.                                                              *)
(***************************************************************************)
LEMMA InitInv == Init => IInv
<1> SUFFICES ASSUME Init PROVE IInv
  OBVIOUS
<1>1. /\ job \in Jobs /\ phase = "trace" /\ stream = InitialStreams(job)
      /\ routes = <<>> /\ chunks = <<>> /\ walk = Nowhere
  BY DEF Init, TraceInit
<1>2. IsSeq(<<>>) /\ 1 .. Len(<<>>) = {}
  BY EmptyIsSeq
<1>3. TraceOK
  BY <1>1, <1>2, JobIs, PaddingIs DEF TraceOK, StreamType
<1>4. DOMAIN walk = {"slot", "storage", "routes", "workspace"} /\ walk.slot = HomeSlots
  BY <1>1 DEF Nowhere
<1>5. /\ HomeSlots \in [SlotNames -> Slots]
      /\ HomeSlots.even = "A" /\ HomeSlots.odd = "B" /\ HomeSlots.free = "Scratch"
  BY DEF HomeSlots, SlotNames, Slots
<1>6. WalkDistinct /\ WalkOK
  BY <1>1, <1>4, <1>5 DEF WalkDistinct, WalkOK
<1>7. RequiredOK /\ ChunksOK /\ CountOK
  BY <1>1, <1>2 DEF RequiredOK, ChunksOK, CountOK
<1>8. QED
  BY <1>1, <1>3, <1>6, <1>7 DEF IInv, Phases

\* No chunk is being worked out after the step.
LEMMA NotWorking ==
  ASSUME IInv, TraceOK', ChunksOK', CountOK',
         phase' \in Phases \ {"propagate", "place"},
         UNCHANGED walk \/ walk' = Nowhere,
         phase' = "planned" => Fits'
  PROVE  IInv'
<1>1. RequiredOK'
  BY DEF RequiredOK
<1>2. WalkDistinct' /\ WalkOK'
  <2>1. CASE UNCHANGED walk
    BY <2>1 DEF IInv, WalkDistinct, WalkOK
  <2>2. CASE walk' = Nowhere
    BY <2>2, WalkEnded
  <2>3. QED
    BY <2>1, <2>2
<1>3. QED
  BY <1>1, <1>2 DEF IInv

LEMMA TraceStep ==
  ASSUME IInv, TraceNext, UNCHANGED chunkVars
  PROVE  IInv'
<1>1. /\ phase = "trace" /\ phase' \in {"trace", "size", "refused"}
      /\ UNCHANGED <<job, chunks, walk>>
  BY DEF TraceNext, AppendRoute, RouteTerminalScales, Refuse, chunkVars
<1>2. TraceOK'
  BY AppendRouteStep, TerminalScalesStep DEF IInv, TraceNext
<1>3. ChunksOK' /\ CountOK'
  BY <1>1 DEF IInv, ChunksOK, CountOK
<1>4. QED
  BY <1>1, <1>2, <1>3, NotWorking DEF Phases

LEMMA TraceKept ==
  ASSUME TraceOK, UNCHANGED <<job, stream, routes>>
  PROVE  TraceOK'
BY DEF TraceOK

LEMMA SizeStep ==
  ASSUME IInv, Lwt!SizeChunks \/ Ilwt!SizeChunks
  PROVE  IInv'
<1>1. /\ phase = "size" /\ UNCHANGED <<job, stream, routes, chunks, walk>>
      /\ phase' = "chunks" \/ phase' = "refused"
      /\ phase' = "chunks" => chunkCount' = Smaller(GroupTotal, job.cores)
  BY Totals, LwtSame, IlwtSame DEF IInv, TraceOK, Lwt!SizeChunks, Ilwt!SizeChunks,
     Lwt!During, Ilwt!During, Lwt!Refuse, Ilwt!Refuse
<1>2. TraceOK' /\ ChunksOK'
  BY <1>1, TraceKept DEF IInv, ChunksOK
<1>3. GroupTotal \in Nat \ {0} /\ job.cores \in Nat \ {0} /\ GroupTotal' = GroupTotal
  BY <1>1, Totals, SameTotal, JobIs DEF IInv, TraceOK, JobOK
<1>4. CountOK'
  <2>1. chunks' = <<>> /\ Len(chunks') = 0
    BY <1>1, EmptyIsSeq DEF IInv, CountOK
  <2>2. phase' = "chunks" => chunkCount' \in 1 .. GroupTotal' /\ Len(chunks') <= chunkCount'
    BY <1>1, <1>3, <2>1 DEF Smaller
  <2>3. QED
    BY <1>1, <2>2 DEF CountOK
<1>5. QED
  BY <1>1, <1>2, <1>4, NotWorking DEF Phases

LEMMA JudgeStep ==
  ASSUME IInv,
         \/ Lwt!Accept \/ Ilwt!Accept
         \/ ~job.inverse /\ Lwt!TryMoreChunks(Lwt!GroupTotal)
         \/ job.inverse /\ Ilwt!TryMoreChunks(Ilwt!GroupTotal)
         \/ ~job.inverse /\ Lwt!GiveUp(Lwt!GroupTotal)
         \/ job.inverse /\ Ilwt!GiveUp(Ilwt!GroupTotal)
  PROVE  IInv'
<1>1. /\ phase = "chunks" /\ UNCHANGED <<job, stream, routes, walk>>
      /\ \/ phase' = "planned" /\ Fits /\ UNCHANGED <<chunkCount, chunks>>
         \/ phase' = "refused" /\ UNCHANGED chunks
         \/ /\ phase' = "chunks" /\ chunks' = <<>> /\ chunkCount < GroupTotal
            /\ chunkCount' = MoreChunks(GroupTotal)
  BY Totals, LwtSame, IlwtSame DEF IInv, TraceOK, Lwt!Accept, Ilwt!Accept,
     Lwt!TryMoreChunks, Ilwt!TryMoreChunks, Lwt!GiveUp, Ilwt!GiveUp,
     Lwt!Judging, Ilwt!Judging, Lwt!Refuse, Ilwt!Refuse
<1>2. TraceOK'
  BY <1>1, TraceKept DEF IInv
<1>3. GroupTotal \in Nat \ {0} /\ GroupTotal' = GroupTotal
  BY <1>1, Totals, SameTotal DEF IInv, TraceOK
<1>4. chunkCount \in 1 .. GroupTotal /\ Len(chunks) <= chunkCount
  BY <1>1 DEF IInv, CountOK
<1>5. IsSeq(<<>>) /\ Len(<<>>) = 0 /\ 1 .. 0 = {}
  BY EmptyIsSeq
<1>6. ChunksOK'
  BY <1>1, <1>5 DEF IInv, ChunksOK
<1>7. CountOK'
  <2>1. phase' = "chunks" => chunkCount' \in 1 .. GroupTotal' /\ Len(chunks') <= chunkCount'
    BY <1>1, <1>3, <1>4, <1>5 DEF MoreChunks, Smaller
  <2>2. phase' = "planned" => chunkCount' \in 1 .. GroupTotal' /\ Len(chunks') <= chunkCount'
    BY <1>1, <1>3, <1>4
  <2>3. QED
    BY <1>1, <2>1, <2>2 DEF CountOK
<1>8. phase' = "planned" => Fits'
  BY <1>1 DEF Fits, WorkspaceElements, LongestStream, Alignment
<1>9. QED
  BY <1>1, <1>2, <1>6, <1>7, <1>8, NotWorking DEF Phases

\* A chunk is being worked out after the step, or it failed.
LEMMA Working ==
  ASSUME IInv, UNCHANGED <<job, stream, routes, chunkCount, chunks>>,
         phase \in {"chunks", "propagate", "place"}, Len(chunks) < chunkCount,
         phase' \in {"propagate", "place", "refused"},
         RequiredOK', WalkDistinct', WalkOK'
  PROVE  IInv'
<1>1. TraceOK' /\ ChunksOK'
  BY TraceKept DEF IInv, ChunksOK
<1>2. CountOK'
  BY SameTotal DEF IInv, CountOK
<1>3. phase' \in Phases /\ phase' # "planned"
  BY DEF Phases
<1>4. QED
  BY <1>1, <1>2, <1>3 DEF IInv

\* Nothing has been placed yet.
LEMMA WalkKept ==
  ASSUME IInv, UNCHANGED walk, phase' # "place"
  PROVE  WalkDistinct' /\ WalkOK'
BY DEF IInv, WalkDistinct, WalkOK

\* The chunk that is next.
LEMMA ChunkAt ==
  ASSUME IInv, phase \in {"chunks", "place"}, Len(chunks) < chunkCount
  PROVE  /\ ~job.inverse =>
              /\ Lwt!ChunkBegin = Boundary(Len(chunks))
              /\ Lwt!ChunkEnd = Smaller(Boundary(Len(chunks) + 1), Whole)
         /\ job.inverse =>
              /\ Ilwt!ChunkBegin = Boundary(Len(chunks))
              /\ Ilwt!ChunkEnd = Smaller(Boundary(Len(chunks) + 1), Whole)
<1> DEFINE p == Len(chunks)
           b == ShareBegin(GroupTotal, chunkCount, p)
           z == ShareSize(GroupTotal, chunkCount, p)
<1>1. job \in Jobs /\ GroupTotal \in Nat \ {0} /\ chunkCount \in 1 .. GroupTotal
  BY Totals DEF IInv, TraceOK, CountOK
<1>2. p \in 0 .. chunkCount - 1
  BY <1>1, AppendElements DEF IInv, ChunksOK
<1>3. ShareBegin(GroupTotal, chunkCount, p + 1) = b + z
  BY <1>1, <1>2, Shares
<1>4. Boundary(p) = b * Unit /\ Boundary(p + 1) = (b + z) * Unit
  BY <1>3 DEF Boundary
<1> HIDE DEF p, b, z
<1>5. ASSUME ~job.inverse
      PROVE  /\ Lwt!ChunkBegin = b * Unit
             /\ Lwt!ChunkEnd = Smaller((b + z) * Unit, Whole)
  <2>1. Unit = GroupElements /\ Whole = OutputLength(job)
    BY <1>5 DEF Unit, Whole
  <2>2. QED
    BY <1>1, <1>5, <2>1, Totals, LwtSame DEF Lwt!ChunkBegin, Lwt!ChunkEnd, b, z, p
<1>6. ASSUME job.inverse
      PROVE  /\ Ilwt!ChunkBegin = b * Unit
             /\ Ilwt!ChunkEnd = Smaller((b + z) * Unit, Whole)
  <2>1. Unit = 2 * GroupElements /\ Whole = job.length
    BY <1>6 DEF Unit, Whole
  <2>2. QED
    BY <1>1, <1>6, <2>1, Totals, IlwtSame
       DEF Ilwt!ChunkBegin, Ilwt!ChunkEnd, Ilwt!OutputGroup, b, z, p
<1>7. QED
  BY ONLY <1>4, <1>5, <1>6 DEF p

LEMMA ChunkBounds ==
  ASSUME IInv, phase \in {"chunks", "place"}, Len(chunks) < chunkCount
  PROVE  /\ Boundary(Len(chunks)) \in Nat
         /\ Smaller(Boundary(Len(chunks) + 1), Whole) \in Nat
         /\ Whole > 0 => Boundary(Len(chunks)) < Smaller(Boundary(Len(chunks) + 1), Whole)
<1> DEFINE p == Len(chunks)
<1>1. job \in Jobs /\ GroupTotal \in Nat \ {0} /\ chunkCount \in 1 .. GroupTotal
  BY Totals DEF IInv, TraceOK, CountOK
<1>2. p \in Nat
  BY AppendElements DEF IInv, ChunksOK
<1> HIDE DEF p
<1>3. p \in 0 .. chunkCount - 1 /\ p \in 0 .. chunkCount /\ p + 1 \in 0 .. chunkCount
  BY <1>1, <1>2 DEF p
<1>4. /\ Boundary(p) \in Nat /\ Boundary(p + 1) \in Nat /\ Whole \in Nat
      /\ Whole > 0 => Boundary(p) < Whole /\ Boundary(p) < Boundary(p + 1)
  BY <1>1, <1>3, Boundaries, Totals
<1>5. QED
  BY <1>4 DEF Smaller, p

LEMMA ForwardStart ==
  ASSUME IInv, Lwt!StartChunk
  PROVE  IInv'
<1> DEFINE b == Lwt!ChunkBegin
           e == Lwt!ChunkEnd
           need == [s \in Streams |-> Interval(b + Lwt!Origin(s), e + Lwt!Origin(s))]
<1>1. /\ ~job.inverse /\ phase = "chunks" /\ Len(chunks) < chunkCount
      /\ UNCHANGED <<job, stream, routes, chunkCount, chunks, walk>>
      /\ at' = Len(routes) /\ required' = [n \in {Len(routes)} |-> need]
      /\ \/ phase' = "refused"
         \/ phase' = "propagate" /\ Lwt!AllValid(need, length')
  BY LwtSame DEF Lwt!StartChunk, Lwt!During, Lwt!Refuse
<1>2. b \in Int /\ e \in Int
  BY <1>1, ChunkAt, ChunkBounds
<1>3. \A s \in Streams : Lwt!Origin(s) \in Int
  BY LwtSame, JobIs, PaddingIs DEF IInv, TraceOK, Lwt!Origin
<1> HIDE DEF b, e
<1>4. need \in Needs
  BY <1>2, <1>3, IntervalIs DEF Needs
<1>5. Lwt!AllValid(need, length') => \A s \in Streams : need[s].begin <= need[s].end
  BY LwtSame DEF Lwt!AllValid, Lwt!ValidIn
<1>6. Len(routes) \in Nat
  BY AppendElements DEF IInv, TraceOK
<1> HIDE DEF need
<1>7. phase' = "propagate" => RequiredOK'
  <2> HAVE phase' = "propagate"
  <2>1. Len(routes) .. Len(routes) = {Len(routes)} /\ Len(routes) \in 0 .. Len(routes)
    BY <1>6
  <2>2. Known' = {Len(routes)}
    BY <1>1, <2>1 DEF Known
  <2>3. DOMAIN required' = Known' /\ required'[Len(routes)] = need
    BY <1>1, <2>2
  <2>4. QED
    BY <1>1, <1>4, <1>5, <2>1, <2>2, <2>3 DEF RequiredOK
<1>8. RequiredOK'
  BY <1>1, <1>7 DEF RequiredOK
<1>9. QED
  BY <1>1, <1>8, Working, WalkKept

LEMMA InverseStart ==
  ASSUME IInv, Ilwt!StartChunk
  PROVE  IInv'
<1> DEFINE b == Ilwt!ChunkBegin
           e == Ilwt!ChunkEnd
           need == Ilwt!SplitOf(b, e)
<1>1. /\ job.inverse /\ phase = "chunks" /\ Len(chunks) < chunkCount
      /\ UNCHANGED <<job, stream, routes, chunkCount, chunks, walk>>
      /\ at' = 0 /\ required' = [n \in {0} |-> need]
      /\ \/ phase' = "refused"
         \/ phase' = "propagate" /\ Ilwt!AllValid(need, length')
  BY IlwtSame DEF Ilwt!StartChunk, Ilwt!During, Ilwt!Refuse
<1>2. b \in Int /\ e \in Int
  BY <1>1, ChunkAt, ChunkBounds
<1>3. Pad(job) \in Nat /\ Ilwt!Pad(job) = Pad(job)
  BY JobIs, PaddingIs, IlwtSame DEF IInv, TraceOK
<1> HIDE DEF b, e
<1>4. need \in Needs
  <2>1. /\ (b + Pad(job) + 1) \div 2 \in Int /\ (e + Pad(job) + 1) \div 2 \in Int
        /\ (b + Pad(job)) \div 2 \in Int /\ (e + Pad(job)) \div 2 \in Int
    BY <1>2, <1>3
  <2>2. need = [even |-> Interval((b + Pad(job) + 1) \div 2, (e + Pad(job) + 1) \div 2),
                odd |-> Interval((b + Pad(job)) \div 2, (e + Pad(job)) \div 2)]
    BY <1>3, IlwtSame DEF Ilwt!SplitOf
  <2>3. \A x, y \in Stretch : [even |-> x, odd |-> y] \in Needs
    BY DEF Needs, Streams
  <2>4. QED
    BY <2>1, <2>2, <2>3, IntervalIs
<1>5. Ilwt!AllValid(need, length') => \A s \in Streams : need[s].begin <= need[s].end
  BY IlwtSame DEF Ilwt!AllValid, Ilwt!ValidIn
<1>6. Len(routes) \in Nat
  BY AppendElements DEF IInv, TraceOK
<1> HIDE DEF need
<1>7. phase' = "propagate" => RequiredOK'
  <2> HAVE phase' = "propagate"
  <2>1. 0 .. 0 = {0} /\ 0 \in 0 .. Len(routes)
    BY <1>6
  <2>2. Known' = {0}
    BY <1>1, <2>1 DEF Known
  <2>3. DOMAIN required' = Known' /\ required'[0] = need
    BY <1>1, <2>2
  <2>4. QED
    BY <1>1, <1>4, <1>5, <2>1, <2>2, <2>3 DEF RequiredOK
<1>8. RequiredOK'
  BY <1>1, <1>7 DEF RequiredOK
<1>9. QED
  BY <1>1, <1>8, Working, WalkKept

\* One point more is known of.
LEMMA PropagateStep ==
  ASSUME IInv, phase = "propagate",
         UNCHANGED <<job, stream, routes, chunkCount, chunks, walk>>,
         phase' \in {"propagate", "refused"},
         NEW i, NEW need \in Needs,
         phase' = "propagate" => required' = Extended(required, i, need),
         at' \in 0 .. Len(routes),
         phase' = "propagate" => \A s \in Streams : need[s].begin <= need[s].end,
         phase' = "propagate" => Known' = Known \union {i} /\ i \notin Known
  PROVE  IInv'
<1>1. /\ DOMAIN required = Known
      /\ \A n \in Known : /\ required[n] \in Needs
                          /\ \A s \in Streams : required[n][s].begin <= required[n][s].end
  BY DEF IInv, RequiredOK
<1>2. phase' = "propagate" => RequiredOK'
  <2> HAVE phase' = "propagate"
  <2>1. /\ DOMAIN required' = DOMAIN required \union {i} /\ required'[i] = need
        /\ \A n \in DOMAIN required : n # i => required'[n] = required[n]
    BY DEF Extended
  <2>2. DOMAIN required' = Known' /\ Known' = Known \union {i}
    BY <1>1, <2>1
  <2>3. ASSUME NEW n \in Known'
        PROVE  /\ required'[n] \in Needs
               /\ \A s \in Streams : required'[n][s].begin <= required'[n][s].end
    <3>1. CASE n = i
      BY <2>1, <3>1
    <3>2. CASE n # i
      <4>1. n \in Known /\ required'[n] = required[n]
        BY <1>1, <2>1, <2>2, <3>2
      <4>2. QED
        BY <1>1, <4>1
    <3>3. QED
      BY <3>1, <3>2
  <2>4. QED
    BY <2>2, <2>3 DEF RequiredOK
<1>3. RequiredOK'
  BY <1>2 DEF RequiredOK
<1>4. Len(chunks) < chunkCount
  BY DEF IInv, CountOK
<1>5. QED
  BY <1>3, <1>4, Working, WalkKept

LEMMA ForwardPropagate ==
  ASSUME IInv, Lwt!Propagate
  PROVE  IInv'
<1> DEFINE need == Needed(routes[at], required[at])
<1>1. /\ ~job.inverse /\ phase = "propagate" /\ at > 0
      /\ UNCHANGED <<job, stream, routes, chunkCount, chunks, walk>>
      /\ at' = at - 1
      /\ \/ phase' = "refused"
         \/ /\ phase' = "propagate" /\ Lwt!AllValid(need, length')
            /\ required' = Extended(required, at - 1, need)
  BY LwtSame DEF Lwt!Propagate, Lwt!During, Lwt!Refuse
<1>2. Len(routes) \in Nat /\ at \in 1 .. Len(routes) /\ RouteOK(routes[at])
  BY <1>1, AppendElements DEF IInv, TraceOK, RequiredOK
<1>3. Known = at .. Len(routes) /\ at \in Known /\ required[at] \in Needs
  BY <1>1, <1>2 DEF IInv, RequiredOK, Known
<1>4. need \in Needs
  BY <1>2, <1>3, NeededIs
<1>5. Lwt!AllValid(need, length') => \A s \in Streams : need[s].begin <= need[s].end
  BY LwtSame DEF Lwt!AllValid, Lwt!ValidIn
<1> HIDE DEF need
<1>6. /\ at - 1 .. Len(routes) = (at .. Len(routes)) \union {at - 1}
      /\ at - 1 \notin at .. Len(routes) /\ at' \in 0 .. Len(routes)
  BY <1>1, <1>2
<1>7. phase' = "propagate" => Known' = Known \union {at - 1} /\ at - 1 \notin Known
  BY <1>1, <1>3, <1>6 DEF Known
<1>8. phase' \in {"propagate", "refused"}
  BY <1>1
<1>9. QED
  BY <1>1, <1>4, <1>5, <1>6, <1>7, <1>8, PropagateStep

LEMMA InversePropagate ==
  ASSUME IInv, Ilwt!Propagate
  PROVE  IInv'
<1> DEFINE need == NeededAfter(routes[at + 1], required[at])
<1>1. /\ job.inverse /\ phase = "propagate" /\ at < Len(routes)
      /\ UNCHANGED <<job, stream, routes, chunkCount, chunks, walk>>
      /\ at' = at + 1
      /\ \/ phase' = "refused"
         \/ /\ phase' = "propagate" /\ Ilwt!AllValid(need, length')
            /\ required' = Extended(required, at + 1, need)
  BY IlwtSame DEF Ilwt!Propagate, Ilwt!During, Ilwt!Refuse
<1>2. /\ Len(routes) \in Nat /\ at \in 0 .. Len(routes) - 1
      /\ at + 1 \in 1 .. Len(routes) /\ RouteOK(routes[at + 1])
  BY <1>1, AppendElements DEF IInv, TraceOK, RequiredOK
<1>3. Known = 0 .. at /\ at \in Known /\ required[at] \in Needs
  BY <1>1, <1>2 DEF IInv, RequiredOK, Known
<1>4. need \in Needs
  BY <1>2, <1>3, NeededIs
<1>5. Ilwt!AllValid(need, length') => \A s \in Streams : need[s].begin <= need[s].end
  BY IlwtSame DEF Ilwt!AllValid, Ilwt!ValidIn
<1> HIDE DEF need
<1>6. /\ 0 .. at + 1 = (0 .. at) \union {at + 1}
      /\ at + 1 \notin 0 .. at /\ at' \in 0 .. Len(routes)
  BY <1>1, <1>2
<1>7. phase' = "propagate" => Known' = Known \union {at + 1} /\ at + 1 \notin Known
  BY <1>1, <1>3, <1>6 DEF Known
<1>8. phase' \in {"propagate", "refused"}
  BY <1>1
<1>9. QED
  BY <1>1, <1>4, <1>5, <1>6, <1>7, <1>8, PropagateStep

\* A route is placed, or the walk begins.
LEMMA PlaceStep ==
  ASSUME IInv, phase = "place",
         UNCHANGED <<job, stream, routes, chunkCount, chunks, required>>,
         phase' = "place" \/ phase' = "refused", at' \in 0 .. Len(routes),
         WalkDistinct', WalkOK'
  PROVE  IInv'
<1>1. RequiredOK'
  BY DEF IInv, RequiredOK, Known
<1>2. Len(chunks) < chunkCount
  BY DEF IInv, CountOK
<1>3. QED
  BY <1>1, <1>2, Working

LEMMA WalkStep ==
  ASSUME IInv, Lwt!StartWalk \/ Ilwt!StartWalk
  PROVE  IInv'
<1> DEFINE need == required[at]
           end == IF job.inverse THEN Len(routes) ELSE 0
<1>1. /\ phase = "propagate" /\ at = end
      /\ phase' = "place" \/ phase' = "refused"
      /\ UNCHANGED <<job, stream, routes, chunkCount, chunks, required, at>>
      /\ walk' = WalkFrom(need)
  BY LwtSame, IlwtSame DEF Lwt!StartWalk, Ilwt!StartWalk, Lwt!During, Ilwt!During,
     Lwt!Refuse, Ilwt!Refuse
<1>2. Len(routes) \in Nat /\ at \in 0 .. Len(routes)
  BY <1>1, AppendElements DEF IInv, TraceOK, RequiredOK
<1>3. /\ DOMAIN required = 0 .. Len(routes)
      /\ \A i \in 0 .. Len(routes) :
           /\ required[i] \in Needs
           /\ \A s \in Streams : required[i][s].begin <= required[i][s].end
  BY <1>1, <1>2 DEF IInv, RequiredOK, Known
<1>4. need \in Needs /\ \A s \in Streams : need[s].begin <= need[s].end
  BY <1>2, <1>3
<1>5. RequiredOK'
  BY <1>1, <1>2, <1>3 DEF RequiredOK, Known
<1>6. required'[IF job'.inverse THEN Len(routes') ELSE 0] = need
  BY <1>1
<1> HIDE DEF need
<1>7. WalkDistinct' /\ WalkOK'
  BY <1>1, <1>4, <1>6, WalkStarted
<1>8. Len(chunks) < chunkCount
  BY <1>1 DEF IInv, CountOK
<1>9. QED
  BY <1>1, <1>5, <1>7, <1>8, Working

LEMMA SwapStep ==
  ASSUME IInv, Lwt!PlaceSwap \/ Ilwt!PlaceSwap
  PROVE  IInv'
<1>1. /\ phase = "place" /\ phase' = "place" /\ walk' = Swapped
      /\ UNCHANGED <<job, stream, routes, chunkCount, chunks, required>>
      /\ \/ at < Len(routes) /\ at' = at + 1
         \/ at > 0 /\ at' = at - 1
  BY LwtSame, IlwtSame DEF Lwt!PlaceSwap, Ilwt!PlaceSwap, Lwt!Placing, Ilwt!Placing,
     Lwt!During, Ilwt!During
<1>2. at' \in 0 .. Len(routes)
  BY <1>1, AppendElements DEF IInv, TraceOK, RequiredOK
<1>3. QED
  BY <1>1, <1>2, SwapPlaced, PlaceStep DEF IInv

LEMMA ForwardLift ==
  ASSUME IInv, Lwt!PlaceLift
  PROVE  IInv'
<1>1. /\ phase = "place" /\ at < Len(routes) /\ at' = at + 1
      /\ UNCHANGED <<job, stream, routes, chunkCount, chunks, required>>
      /\ \/ phase' = "refused" /\ UNCHANGED walk
         \/ /\ phase' = "place"
            /\ \E type \in {"predict", "update"} : \E source, base, storage, outputOffset :
                 /\ routes[at + 1].type = type
                 /\ walk' = Lifted(routes[at + 1], required[at + 1][Target(type)],
                                   source, base, storage, outputOffset)
  <2>1. PICK type \in {"predict", "update"} :
          LET output == required[at + 1][Target(type)]
              inline == at + 1 = Lwt!InlineRoute(routes)
          IN /\ Lwt!Placing(type)
             /\ \/ phase' = "refused" /\ UNCHANGED walk
                \/ /\ UNCHANGED phase
                   /\ walk' = Lifted(routes[at + 1], output,
                        Translated(output, routes[at + 1].sourceOffset, routes[at + 1].k - 1),
                        Translated(output, routes[at + 1].baseOffset, 0),
                        IF inline THEN Lwt!FinalDram[Lwt!InlineResult(routes)]
                                  ELSE "workspace",
                        IF inline /\ ~Empty(output) THEN output.begin ELSE 0)
    BY LwtSame DEF Lwt!PlaceLift, Lwt!Refuse
  <2>2. QED
    BY <2>1 DEF Lwt!Placing, Lwt!During
<1>2. Len(routes) \in Nat /\ at \in 0 .. Len(routes) - 1 /\ at + 1 \in 0 .. Len(routes)
  BY <1>1, AppendElements DEF IInv, TraceOK, RequiredOK
<1>3. required[at + 1] \in Needs
  BY <1>1, <1>2 DEF IInv, RequiredOK, Known
<1>4. ASSUME phase' = "place" PROVE WalkDistinct' /\ WalkOK'
  <2>0. PICK type \in {"predict", "update"} : \E source, base, storage, outputOffset :
          /\ routes[at + 1].type = type
          /\ walk' = Lifted(routes[at + 1], required[at + 1][Target(type)],
                            source, base, storage, outputOffset)
    BY <1>1, <1>4
  <2>1. PICK source, base, storage, outputOffset :
          /\ routes[at + 1].type = type
          /\ walk' = Lifted(routes[at + 1], required[at + 1][Target(type)],
                            source, base, storage, outputOffset)
    BY <2>0
  <2> DEFINE full == routes[at + 1]
             output == required[at + 1][Target(type)]
  <2>2. output \in Stretch /\ IsLift(full.type)
    BY <1>3, <2>1, StreamOf DEF Needs, IsLift
  <2>3. walk' = Lifted(full, output, source, base, storage, outputOffset)
    BY <2>1
  <2> HIDE DEF full, output
  <2>4. phase = "place" /\ WalkOK /\ WalkDistinct /\ UNCHANGED <<job, routes, required>>
    BY <1>1 DEF IInv
  <2>5. QED
    BY ONLY <2>2, <2>3, <2>4, LiftPlaced
<1>5. WalkDistinct' /\ WalkOK'
  <2>1. CASE phase' = "refused"
    BY <1>1, <2>1, WalkKept
  <2>2. QED
    BY <1>1, <1>4, <2>1
<1>6. at' \in 0 .. Len(routes)
  BY <1>1, <1>2
<1>7. QED
  BY <1>1, <1>5, <1>6, PlaceStep

LEMMA InverseLift ==
  ASSUME IInv, Ilwt!PlaceLift
  PROVE  IInv'
<1>1. /\ phase = "place" /\ at > 0 /\ at' = at - 1
      /\ UNCHANGED <<job, stream, routes, chunkCount, chunks, required>>
      /\ \/ phase' = "refused" /\ UNCHANGED walk
         \/ /\ phase' = "place"
            /\ \E type \in {"predict", "update"} : \E source, base :
                 /\ routes[at].type = type
                 /\ walk' = Lifted(routes[at], required[at - 1][Target(type)],
                                   source, base, "workspace", 0)
  BY IlwtSame DEF Ilwt!PlaceLift, Ilwt!Placing, Ilwt!During, Ilwt!Refuse
<1>2. Len(routes) \in Nat /\ at \in 1 .. Len(routes) /\ at - 1 \in 0 .. Len(routes)
  BY <1>1, AppendElements DEF IInv, TraceOK, RequiredOK
<1>3. required[at - 1] \in Needs
  BY <1>1, <1>2 DEF IInv, RequiredOK, Known
<1>4. ASSUME phase' = "place" PROVE WalkDistinct' /\ WalkOK'
  <2>0. PICK type \in {"predict", "update"} : \E source, base :
          /\ routes[at].type = type
          /\ walk' = Lifted(routes[at], required[at - 1][Target(type)],
                            source, base, "workspace", 0)
    BY <1>1, <1>4
  <2>1. PICK source, base :
          /\ routes[at].type = type
          /\ walk' = Lifted(routes[at], required[at - 1][Target(type)],
                            source, base, "workspace", 0)
    BY <2>0
  <2> DEFINE full == routes[at]
             output == required[at - 1][Target(type)]
  <2>2. output \in Stretch /\ IsLift(full.type)
    BY <1>3, <2>1, StreamOf DEF Needs, IsLift
  <2>3. walk' = Lifted(full, output, source, base, "workspace", 0)
    BY <2>1
  <2> HIDE DEF full, output
  <2>4. phase = "place" /\ WalkOK /\ WalkDistinct /\ UNCHANGED <<job, routes, required>>
    BY <1>1 DEF IInv
  <2>5. QED
    BY ONLY <2>2, <2>3, <2>4, LiftPlaced
<1>5. WalkDistinct' /\ WalkOK'
  <2>1. CASE phase' = "refused"
    BY <1>1, <2>1, WalkKept
  <2>2. QED
    BY <1>1, <1>4, <2>1
<1>6. at' \in 0 .. Len(routes)
  BY <1>1, <1>2
<1>7. QED
  BY <1>1, <1>5, <1>6, PlaceStep

\* The scale that is placed writes no more than it reads.
LEMMA ForwardScale ==
  ASSUME IInv, Lwt!PlaceScale
  PROVE  IInv'
<1>1. PICK s \in Streams :
        LET output == required[at + 1][s]
            offset == Offset(s, output)
        IN /\ phase = "place" /\ at < Len(routes) /\ at' = at + 1
           /\ UNCHANGED <<job, stream, routes, chunkCount, chunks, required>>
           /\ \/ UNCHANGED <<phase, walk>>
              \/ /\ walk' = [walk EXCEPT !.routes = Append(@,
                      [type |-> ScaleOf[s], k |-> 1,
                       source |-> walk.slot[s], base |-> walk.slot[s],
                       output |-> walk.slot[s], storage |-> FinalDram[s],
                       sourceLength |-> Extent(walk.storage[s]),
                       baseLength |-> Extent(walk.storage[s]),
                       sourceOffset |-> offset, baseOffset |-> offset,
                       outputLength |-> Extent(output),
                       outputOffset |-> IF Empty(output) THEN 0 ELSE output.begin])]
                 /\ Has(s, output) /\ UNCHANGED phase
              \/ phase' = "refused" /\ UNCHANGED walk
  BY LwtSame DEF Lwt!PlaceScale, Lwt!Placing, Lwt!During, Lwt!Refuse, Lwt!FinalDram,
     FinalDram
<1> DEFINE output == required[at + 1][s]
           r == [type |-> ScaleOf[s], k |-> 1,
                 source |-> walk.slot[s], base |-> walk.slot[s],
                 output |-> walk.slot[s], storage |-> FinalDram[s],
                 sourceLength |-> Extent(walk.storage[s]),
                 baseLength |-> Extent(walk.storage[s]),
                 sourceOffset |-> Offset(s, output), baseOffset |-> Offset(s, output),
                 outputLength |-> Extent(output),
                 outputOffset |-> IF Empty(output) THEN 0 ELSE output.begin]
<1>2. /\ phase = "place" /\ at < Len(routes) /\ at' = at + 1
      /\ UNCHANGED <<job, stream, routes, chunkCount, chunks, required>>
      /\ phase' = "place" \/ phase' = "refused"
      /\ \/ UNCHANGED <<phase, walk>>
         \/ /\ walk' = [walk EXCEPT !.routes = Append(@, r)]
            /\ Has(s, output) /\ UNCHANGED phase
         \/ phase' = "refused" /\ UNCHANGED walk
  BY <1>1
<1>3. Len(routes) \in Nat /\ at' \in 0 .. Len(routes) /\ at + 1 \in 0 .. Len(routes)
  BY <1>2, AppendElements DEF IInv, TraceOK, RequiredOK
<1>4. output \in Stretch
  BY <1>2, <1>3 DEF IInv, RequiredOK, Known, Needs
<1>5. /\ r.source = walk.slot[s] /\ r.base = walk.slot[s]
      /\ r.sourceLength = Extent(walk.storage[s]) /\ r.baseLength = Extent(walk.storage[s])
      /\ r.outputLength = Extent(output) /\ r.type = ScaleOf[s]
      /\ DOMAIN r = PlacedFields
  BY DEF PlacedFields
<1>6. ~IsLift(r.type)
  BY <1>5 DEF IsLift, ScaleOf, Streams
<1> HIDE DEF r, output
<1>7. WalkDistinct' /\ WalkOK'
  <2>1. CASE UNCHANGED <<phase, walk>>
    <3>1. Placed' = Placed
      BY <1>2, <2>1 DEF Placed
    <3>2. QED
      BY <2>1, <3>1 DEF IInv, WalkDistinct, WalkOK
  <2>2. CASE phase' = "refused" /\ UNCHANGED walk
    BY <2>2, WalkKept
  <2>3. CASE walk' = [walk EXCEPT !.routes = Append(@, r)] /\ Has(s, output)
    <3>1. walk.storage[s] \in Stretch /\ walk.workspace \in Nat
          /\ Extent(walk.storage[s]) <= walk.workspace
      BY <1>2 DEF IInv, WalkOK, Needs, ChunkOK, Placed
    <3>2. Extent(output) = 0 \/ Extent(output) <= Extent(walk.storage[s])
      BY <1>4, <2>3, <3>1, CoversIs DEF Has
    <3>3. r.outputLength \in Int /\ r.outputLength <= walk.workspace
      <4>1. Extent(output) \in Int /\ Extent(walk.storage[s]) \in Int
        BY <1>4, <3>1, StretchIs
      <4>2. QED
        BY <1>5, <3>1, <3>2, <4>1
    <3>4. phase = "place" /\ WalkOK /\ WalkDistinct /\ UNCHANGED <<job, routes, required>>
      BY <1>2 DEF IInv
    <3>5. walk' = [walk EXCEPT !.routes = Append(@, r)] /\ s \in Streams
      BY <2>3
    <3>6. QED
      BY ONLY <1>5, <1>6, <3>3, <3>4, <3>5, ScalePlaced
  <2>4. QED
    BY <1>2, <2>1, <2>2, <2>3
<1>8. QED
  BY <1>2, <1>3, <1>7, PlaceStep

LEMMA InverseScale ==
  ASSUME IInv, Ilwt!PlaceScale
  PROVE  IInv'
<1>1. /\ phase = "place" /\ phase' = "place" /\ UNCHANGED walk /\ at > 0 /\ at' = at - 1
      /\ UNCHANGED <<job, stream, routes, chunkCount, chunks, required>>
  BY DEF Ilwt!PlaceScale, Ilwt!Placing, Ilwt!During
<1>2. at' \in 0 .. Len(routes)
  BY <1>1, AppendElements DEF IInv, TraceOK, RequiredOK
<1>3. Placed' = Placed
  BY <1>1 DEF Placed
<1>4. WalkDistinct' /\ WalkOK'
  BY <1>1, <1>3 DEF IInv, WalkDistinct, WalkOK
<1>5. QED
  BY <1>1, <1>2, <1>4, PlaceStep

\* The chunk is added as it was placed, but for offsets in DRAM.
LEMMA FinishStep ==
  ASSUME IInv, phase = "place",
         UNCHANGED <<job, stream, routes, chunkCount>>, walk' = Nowhere,
         \/ phase' = "refused" /\ UNCHANGED chunks
         \/ /\ phase' = "chunks"
            /\ \E c : ChunkOK(c) /\ chunks' = Append(chunks, c)
  PROVE  IInv'
<1>1. TraceOK'
  BY TraceKept DEF IInv
<1>2. ChunksOK'
  BY ChunkAdded DEF IInv, ChunksOK
<1>3. CountOK'
  <2>1. /\ chunkCount \in 1 .. GroupTotal /\ Len(chunks) < chunkCount
        /\ GroupTotal \in Nat \ {0} /\ GroupTotal' = GroupTotal
        /\ Len(chunks) \in Nat
    BY Totals, SameTotal, AppendElements DEF IInv, TraceOK, CountOK, ChunksOK
  <2>2. phase' = "chunks" => Len(chunks') = Len(chunks) + 1
    BY AppendIsSeq DEF IInv, ChunksOK
  <2>3. phase' = "chunks" => chunkCount' \in 1 .. GroupTotal' /\ Len(chunks') <= chunkCount'
    BY <2>1, <2>2
  <2>4. QED
    BY <2>3 DEF CountOK
<1>4. phase' \in Phases \ {"propagate", "place"} /\ phase' # "planned"
  BY DEF Phases
<1>5. QED
  BY <1>1, <1>2, <1>3, <1>4, NotWorking

LEMMA ForwardFinish ==
  ASSUME IInv, Lwt!FinishChunk
  PROVE  IInv'
<1> DEFINE built == [k \in 1 .. Len(walk.routes) |-> Lwt!FromOrigin(walk.routes[k])]
           c == [initial |-> required[0], routes |-> built, workspace |-> walk.workspace]
<1>1. /\ phase = "place" /\ ~job.inverse
      /\ UNCHANGED <<job, stream, routes, chunkCount>> /\ walk' = Nowhere
      /\ \/ phase' = "refused" /\ UNCHANGED chunks
         \/ phase' = "chunks" /\ chunks' = Append(chunks, c)
  BY LwtSame DEF Lwt!FinishChunk, Lwt!During, Lwt!Refuse
<1>2. /\ ChunkOK(Placed) /\ Placed.initial = required[0]
      /\ Placed.routes = walk.routes /\ Placed.workspace = walk.workspace
  BY <1>1 DEF IInv, WalkOK, Placed
<1>3. /\ c.initial = required[0] /\ c.routes = built /\ c.workspace = walk.workspace
  OBVIOUS
<1>4. IsSeq(built) /\ Len(built) = Len(walk.routes)
  <2>1. Len(walk.routes) \in Nat
    BY <1>2, AppendElements DEF ChunkOK
  <2>2. QED
    BY <2>1, FunctionIsSeq
<1>5. ASSUME NEW k \in 1 .. Len(walk.routes)
      PROVE  SameRoute(walk.routes[k], built[k])
  <2> DEFINE r == walk.routes[k]
  <2>1. DOMAIN r = PlacedFields
    BY <1>2 DEF ChunkOK
  <2>2. built[k] = Lwt!FromOrigin(r)
    OBVIOUS
  <2>3. ASSUME NEW x
        PROVE  SameRoute(r, [r EXCEPT !.outputOffset = x])
    BY <2>1 DEF SameRoute, PutAlike, PlacedFields
  <2>4. SameRoute(r, r)
    BY <2>1 DEF SameRoute, PutAlike
  <2> HIDE DEF r
  <2>5. SameRoute(r, Lwt!FromOrigin(r))
    BY <2>3, <2>4 DEF Lwt!FromOrigin
  <2>6. QED
    BY <2>2, <2>5 DEF r
<1> HIDE DEF c, built
<1>6. ChunkOK(c)
  <2>1. /\ c.initial \in Needs /\ IsSeq(c.routes) /\ Len(c.routes) = Len(Placed.routes)
        /\ c.workspace = Placed.workspace
        /\ \A s \in Streams : Extent(c.initial[s]) = Extent(Placed.initial[s])
        /\ \A k \in 1 .. Len(Placed.routes) : SameRoute(Placed.routes[k], c.routes[k])
    BY <1>2, <1>3, <1>4, <1>5 DEF ChunkOK
  <2>2. QED
    BY ONLY <1>2, <2>1, ChunkAlike
<1>7. QED
  BY <1>1, <1>6, FinishStep

\* Coefficients are as many in DRAM as they are of the stream.
LEMMA CanonicalIs ==
  ASSUME job \in Jobs, stream \in [Streams -> [shift : Int, length : Nat]],
         NEW s \in Streams, NEW need \in Stretch
  PROVE  /\ Ilwt!Canonical(s, need) \in Stretch
         /\ Extent(Ilwt!Canonical(s, need)) = Extent(need)
<1> DEFINE first == CanonicalStart(job) - stream[s].shift
<1>1. first \in Int
  BY JobIs, PaddingIs
<1> HIDE DEF first
<1>2. Ilwt!Canonical(s, need) =
        IF Empty(need) THEN need ELSE Interval(need.begin - first, need.end - first)
  BY IlwtSame DEF Ilwt!Canonical, first
<1>3. need.begin - first \in Int /\ need.end - first \in Int
      /\ (need.end - first) - (need.begin - first) = need.end - need.begin
  BY <1>1 DEF Stretch
<1>4. QED
  BY <1>2, <1>3, IntervalIs DEF Extent

LEMMA InverseFinish ==
  ASSUME IInv, Ilwt!FinishChunk
  PROVE  IInv'
<1> DEFINE need == required[Len(routes)]
           initial == [s \in Streams |-> Ilwt!Canonical(s, need[s])]
<1>1. /\ phase = "place" /\ job.inverse
      /\ UNCHANGED <<job, stream, routes, chunkCount>> /\ walk' = Nowhere
      /\ \/ phase' = "refused" /\ UNCHANGED chunks
         \/ /\ phase' = "chunks"
            /\ \E c : /\ c.initial = initial /\ c.routes = walk.routes
                      /\ c.workspace = walk.workspace /\ chunks' = Append(chunks, c)
  BY IlwtSame DEF Ilwt!FinishChunk, Ilwt!During, Ilwt!Refuse
<1>2. /\ ChunkOK(Placed) /\ Placed.initial = need /\ need \in Needs
      /\ Placed.routes = walk.routes /\ Placed.workspace = walk.workspace
  BY <1>1 DEF IInv, WalkOK, Placed, ChunkOK
<1>3. ASSUME NEW s \in Streams
      PROVE  initial[s] \in Stretch /\ Extent(initial[s]) = Extent(need[s])
  BY <1>2, CanonicalIs DEF IInv, TraceOK, Needs
<1>4. initial \in Needs
  BY <1>3 DEF Needs
<1> HIDE DEF initial, need
<1>5. ASSUME NEW c, c.initial = initial, c.routes = walk.routes, c.workspace = walk.workspace
      PROVE  ChunkOK(c)
  <2>1. \A k \in 1 .. Len(walk.routes) : SameRoute(walk.routes[k], walk.routes[k])
    BY <1>2 DEF ChunkOK, SameRoute, PutAlike
  <2>2. /\ c.initial \in Needs /\ IsSeq(c.routes) /\ Len(c.routes) = Len(Placed.routes)
        /\ c.workspace = Placed.workspace
        /\ \A s \in Streams : Extent(c.initial[s]) = Extent(Placed.initial[s])
        /\ \A k \in 1 .. Len(Placed.routes) : SameRoute(Placed.routes[k], c.routes[k])
    BY <1>2, <1>3, <1>4, <1>5, <2>1 DEF ChunkOK
  <2>3. QED
    BY ONLY <1>2, <2>2, ChunkAlike
<1>6. phase' = "chunks" => \E c : ChunkOK(c) /\ chunks' = Append(chunks, c)
  BY <1>1, <1>5
<1>7. QED
  BY <1>1, <1>6, FinishStep

LEMMA NextInv == IInv /\ [Next]_vars => IInv'
<1> SUFFICES ASSUME IInv, [Next]_vars PROVE IInv'
  OBVIOUS
<1>1. CASE TraceNext /\ UNCHANGED chunkVars
  BY <1>1, TraceStep
<1>2. CASE Lwt!Plan
  BY <1>2, SizeStep, ForwardStart, ForwardPropagate, WalkStep, SwapStep, ForwardLift,
     ForwardScale, ForwardFinish, JudgeStep DEF Lwt!Plan
<1>3. CASE Ilwt!Plan
  BY <1>3, SizeStep, InverseStart, InversePropagate, WalkStep, SwapStep, InverseLift,
     InverseScale, InverseFinish, JudgeStep DEF Ilwt!Plan
<1>4. CASE UNCHANGED vars
  <2>1. UNCHANGED <<phase, job, stream, routes, chunkCount, chunks, at, required, walk>>
    BY <1>4 DEF vars, traceVars, chunkVars
  <2>2. UNCHANGED <<TraceOK, RequiredOK, ChunksOK, CountOK, WalkDistinct, WalkOK, Fits>>
    BY <2>1, SameTotal DEF TraceOK, RequiredOK, Known, ChunksOK, CountOK, WalkDistinct,
       WalkOK, Placed, Fits, WorkspaceElements, LongestStream, Alignment
  <2>3. QED
    BY <2>1, <2>2 DEF IInv
<1>5. QED
  BY <1>1, <1>2, <1>3, <1>4 DEF Next

LEMMA Invariant == Spec => []IInv
BY InitInv, NextInv, PTL DEF Spec

-----------------------------------------------------------------------------
(***************************************************************************)
(* What follows for every plan.                                            *)
(***************************************************************************)
\* While a chunk is placed, its two streams and the free slot are in three
\* different slots: `slots` of build_chunk never names a slot twice.
THEOREM SlotsDistinct == Spec => []WalkDistinct
<1>1. IInv => WalkDistinct
  BY DEF IInv
<1>2. QED
  BY <1>1, Invariant, PTL

\* The routes of every chunk find their operands in the slots, with the
\* lengths in which the loads and the routes before them left the streams.
THEOREM EveryOperandKept == Spec => []OperandsKept
<1>1. IInv => OperandsKept
  <2> SUFFICES ASSUME IInv, chunks # <<>>,
                      NEW k \in 1 .. Len(Last(chunks).routes)
               PROVE  OperandsAt(Last(chunks), k)
    BY DEF OperandsKept, OperandsAt
  <2>1. IsSeq(chunks) /\ Len(chunks) \in Nat
    BY AppendElements DEF IInv, ChunksOK
  <2>2. Len(chunks) # 0
    BY <2>1, ZeroLength
  <2>3. Len(chunks) \in 1 .. Len(chunks) /\ Last(chunks) = chunks[Len(chunks)]
    BY <2>1, <2>2 DEF Last
  <2>4. QED
    BY <2>3 DEF IInv, ChunksOK, ChunkOK
<1>2. QED
  BY <1>1, Invariant, PTL

\* No chunk needs more than the longest.
LEMMA LongestIs ==
  ASSUME ChunksOK
  PROVE  /\ LongestStream \in Int
         /\ \A n \in 1 .. Len(chunks) : chunks[n].workspace <= LongestStream
<1> DEFINE size == [n \in 1 .. Len(chunks) |-> chunks[n].workspace]
           T == {0} \union {chunks[n].workspace : n \in 1 .. Len(chunks)}
<1>1. Len(chunks) \in Nat /\ DOMAIN size = 1 .. Len(chunks)
  BY AppendElements DEF ChunksOK
<1>2. {chunks[n].workspace : n \in 1 .. Len(chunks)} = {size[n] : n \in 1 .. Len(chunks)}
  OBVIOUS
<1>3. IsFiniteSet({chunks[n].workspace : n \in 1 .. Len(chunks)})
  <2> HIDE DEF size
  <2>1. IsFiniteSet({size[n] : n \in 1 .. Len(chunks)})
    BY <1>1, ImageIsFinite
  <2>2. QED
    BY <1>2, <2>1
<1>4. IsFiniteSet(T)
  BY <1>3, FS_Singleton, FS_Union
<1>5. T \subseteq Int /\ T # {}
  BY DEF ChunksOK, ChunkOK
<1>6. PICK m \in T : \A x \in T : m >= x
  <2> HIDE DEF T
  <2>1. QED
    BY <1>4, <1>5, FiniteHasGreatest
<1>7. LongestStream \in T /\ \A x \in T : LongestStream >= x
  BY <1>6 DEF LongestStream, Max
<1>8. \A n \in 1 .. Len(chunks) : chunks[n].workspace \in T
  OBVIOUS
<1> HIDE DEF T
<1>9. QED
  BY <1>5, <1>7, <1>8

LEMMA RoundUpGrows ==
  ASSUME NEW unit \in Nat \ {0}, NEW a \in Int, NEW b \in Int, a <= b
  PROVE  RoundUp(a, unit) \in Int /\ RoundUp(b, unit) \in Int
         /\ RoundUp(a, unit) <= RoundUp(b, unit)
<1> DEFINE x == a + unit - 1
           y == b + unit - 1
           p == x \div unit
           q == y \div unit
<1>1. x \in Int /\ y \in Int /\ x <= y
  OBVIOUS
<1> HIDE DEF x, y
<1>2. /\ x = unit * p + (x % unit) /\ x % unit \in 0 .. unit - 1 /\ p \in Int
      /\ y = unit * q + (y % unit) /\ y % unit \in 0 .. unit - 1 /\ q \in Int
  BY <1>1, Divided
<1> HIDE DEF p, q
<1>3. p <= q
  <2> SUFFICES ASSUME q + 1 <= p PROVE FALSE
    BY <1>2
  <2>1. unit * (q + 1) <= unit * p /\ unit * (q + 1) = unit * q + unit
        /\ unit * q \in Int /\ unit * p \in Int
    BY <1>2, SMT
  <2>2. QED
    BY <1>1, <1>2, <2>1
<1>4. p * unit <= q * unit /\ p * unit \in Int /\ q * unit \in Int
  BY <1>2, <1>3, SMT
<1>5. RoundUp(a, unit) = p * unit /\ RoundUp(b, unit) = q * unit
  BY DEF RoundUp, CeilDiv, p, q, x, y
<1>6. QED
  BY <1>4, <1>5

\* The three slots that the budget was checked for hold every stream that is
\* loaded or written, rounded up to what is written at once.
THEOREM EverySlotLargeEnough == Spec => []SlotsLargeEnough
<1>1. IInv => SlotsLargeEnough
  <2> SUFFICES ASSUME IInv, phase = "planned", NEW n \in 1 .. Len(chunks)
               PROVE  /\ \A s \in Streams :
                           3 * RoundUp(Extent(chunks[n].initial[s]), Alignment) <= job.budget
                      /\ \A k \in 1 .. Len(chunks[n].routes) :
                           3 * RoundUp(chunks[n].routes[k].outputLength, Alignment)
                             <= job.budget
    BY DEF SlotsLargeEnough
  <2>1. ChunksOK /\ ChunkOK(chunks[n]) /\ 3 * RoundUp(LongestStream, Alignment) <= job.budget
    BY DEF IInv, ChunksOK, Fits, WorkspaceElements
  <2>2. Alignment \in Nat \ {0}
    BY UnitsAssumption DEF Alignment
  <2>3. job.budget \in Int
    BY JobIs DEF IInv, TraceOK, JobOK
  <2>4. ASSUME NEW x \in Int, x <= chunks[n].workspace
        PROVE  3 * RoundUp(x, Alignment) <= job.budget
    <3>1. /\ LongestStream \in Int /\ chunks[n].workspace \in Int
          /\ chunks[n].workspace <= LongestStream
      BY <2>1, LongestIs DEF ChunkOK
    <3>2. x <= LongestStream
      BY <2>4, <3>1
    <3>3. /\ RoundUp(x, Alignment) \in Int /\ RoundUp(LongestStream, Alignment) \in Int
          /\ RoundUp(x, Alignment) <= RoundUp(LongestStream, Alignment)
      BY <2>2, <3>1, <3>2, RoundUpGrows
    <3>4. QED
      BY <2>1, <2>3, <3>3
  <2>5. \A s \in Streams : /\ Extent(chunks[n].initial[s]) \in Int
                           /\ Extent(chunks[n].initial[s]) <= chunks[n].workspace
    BY <2>1, StretchIs DEF ChunkOK, Needs
  <2>6. \A k \in 1 .. Len(chunks[n].routes) :
          /\ chunks[n].routes[k].outputLength \in Int
          /\ chunks[n].routes[k].outputLength <= chunks[n].workspace
    BY <2>1 DEF ChunkOK
  <2>7. QED
    BY <2>4, <2>5, <2>6
<1>2. QED
  BY <1>1, Invariant, PTL

-----------------------------------------------------------------------------
(***************************************************************************)
(* No length or offset of a plan ever becomes negative.                    *)
(***************************************************************************)
Naturals == [Streams -> IntervalType]

\* A forward plan got past the check of where its coefficients begin.
Sized == ~job.inverse /\ phase \in {"chunks", "propagate", "place", "planned"}

OriginsOK == Sized => \A s \in Streams : Lwt!Origin(s) >= 0

NeedsNatural == \A i \in DOMAIN required : required[i] \in Naturals

WalkNatural ==
    /\ \A i \in 1 .. Len(walk.routes) : OffsetsNatural(walk.routes[i])
    /\ phase = "place" =>
         \A s \in Streams : walk.storage[s].begin <= walk.storage[s].end

Counted == OriginsOK /\ NeedsNatural /\ WalkNatural

Faults == {"none", "scheme", "origin", "length", "dependency", "direct", "budget"}

Booked ==
    /\ fault \in Faults
    /\ phase = "refused" <=> fault # "none"
    /\ active \in [SlotNames -> Slots]
    /\ Len(routes) <= Len(Steps)
    /\ at \in 0 .. Len(routes)
    /\ chunkCount \in Nat /\ Len(chunks) <= chunkCount

LEMMA NaturalIs ==
  ASSUME NEW i \in IntervalType
  PROVE  i \in Stretch /\ i.begin \in Nat /\ i.end \in Nat
BY DEF IntervalType, Stretch

LEMMA NaturalInterval ==
  ASSUME NEW b \in Nat, NEW e \in Nat
  PROVE  Interval(b, e) \in IntervalType
BY DEF Interval, IntervalType

LEMMA TranslatedNatural ==
  ASSUME NEW i \in IntervalType, NEW o \in Nat, NEW e \in Nat
  PROVE  /\ Translated(i, o, e) \in IntervalType
         /\ CanSubtract(i, o) /\ i.begin <= i.end => Subtracted(i, o) \in IntervalType
<1>1. i.begin \in Nat /\ i.end \in Nat
  BY NaturalIs
<1>2. i.begin + o \in Nat /\ i.end + o + e \in Nat
  BY <1>1
<1>3. i.begin >= o /\ i.begin <= i.end => i.begin - o \in Nat /\ i.end - o \in Nat
  BY <1>1
<1>4. QED
  BY <1>2, <1>3, NaturalInterval DEF Translated, Subtracted, CanSubtract

LEMMA HullNatural ==
  ASSUME NEW i \in IntervalType, NEW j \in IntervalType
  PROVE  Hull(i, j) \in IntervalType
<1>1. Smaller(i.begin, j.begin) \in Nat /\ Larger(i.end, j.end) \in Nat
  BY NaturalIs DEF Smaller, Larger
<1>2. QED
  BY <1>1, NaturalInterval DEF Hull

LEMMA NeededNatural ==
  ASSUME NEW r, RouteOK(r), NEW need \in Naturals
  PROVE  /\ Needed(r, need) \in Naturals
         /\ /\ \A s \in Streams : need[s].begin <= need[s].end
            /\ IsLift(r.type) => CanSubtract(need[Target(r.type)], r.baseOffset)
            => NeededAfter(r, need) \in Naturals
<1> DEFINE t == Target(r.type)
<1>1. t \in Streams /\ Other[t] \in Streams
  BY StreamOf
<1>2. /\ r.sourceOffset \in Nat /\ r.baseOffset \in Nat /\ 0 \in Nat
      /\ IsLift(r.type) => r.k - 1 \in Nat
  BY DEF RouteOK
<1>3. need[t] \in IntervalType /\ need[Other[t]] \in IntervalType
  BY <1>1 DEF Naturals
<1>4. r.type = "swap" \/ IsScale(r.type) \/ IsLift(r.type)
  BY DEF RouteOK, StepTypes, IsScale, IsLift
<1> HIDE DEF t
<1>5. [even |-> need.odd, odd |-> need.even] \in Naturals
  BY DEF Naturals, Streams
<1>6. \A x \in IntervalType, y \in IntervalType :
        /\ [need EXCEPT ![t] = x] \in Naturals
        /\ [need EXCEPT ![t] = x, ![Other[t]] = y] \in Naturals
  BY <1>1 DEF Naturals
<1>7. /\ Translated(need[t], r.sourceOffset, 0) \in IntervalType
      /\ Translated(need[t], r.baseOffset, 0) \in IntervalType
  BY <1>2, <1>3, TranslatedNatural
<1>8. ASSUME IsLift(r.type)
      PROVE  Hull(need[Other[t]], Translated(need[t], r.sourceOffset, r.k - 1))
               \in IntervalType
  BY <1>2, <1>3, <1>8, TranslatedNatural, HullNatural
<1>9. Needed(r, need) \in Naturals
  BY <1>4, <1>5, <1>6, <1>7, <1>8 DEF Needed, t
<1>10. ASSUME \A s \in Streams : need[s].begin <= need[s].end,
              IsLift(r.type) => CanSubtract(need[t], r.baseOffset)
       PROVE  NeededAfter(r, need) \in Naturals
  <2>1. CASE IsLift(r.type)
    <3>1. Undone(r, need) \in IntervalType
      BY <1>1, <1>2, <1>3, <1>10, <2>1, TranslatedNatural DEF Undone, t
    <3>2. Hull(need[Other[t]], Translated(Undone(r, need), r.sourceOffset, r.k - 1))
            \in IntervalType
      BY <1>2, <1>3, <2>1, <3>1, TranslatedNatural, HullNatural
    <3>3. r.type # "swap" /\ ~IsScale(r.type)
      BY <2>1 DEF IsLift, IsScale
    <3>4. QED
      BY <1>6, <3>1, <3>2, <3>3 DEF NeededAfter, t
  <2>2. QED
    BY <1>4, <1>5, <2>1 DEF NeededAfter
<1>11. QED
  BY <1>9, <1>10 DEF t

LEMMA TracedActive ==
  ASSUME NEW trace, trace.active \in [SlotNames -> Slots],
         DOMAIN trace = {"stream", "active", "routes"}, NEW step
  PROVE  Traced(trace, step).active \in [SlotNames -> Slots]
<1> DEFINE t == Target(step.type)
<1>1. t \in Streams
  BY StreamOf
<1> HIDE DEF t
<1>2. Moved(trace.active, t) \in [SlotNames -> Slots]
  BY <1>1, MovedIs
<1>3. LiftTraced(trace, step).active = Moved(trace.active, t)
  BY DEF LiftTraced, t
<1>4. ScaleTraced(trace, step).active = Moved(trace.active, t)
  BY DEF ScaleTraced, t
<1>5. SwapTraced(trace).active \in [SlotNames -> Slots]
  BY DEF SwapTraced, SlotNames
<1>6. QED
  BY <1>2, <1>3, <1>4, <1>5 DEF Traced

\* The plan is not refused by the step, or it is for a reason.
Judged ==
    \/ phase' \in Phases \ {"refused"} /\ fault' = fault /\ phase # "refused"
    \/ phase' = "refused" /\ fault' \in Faults \ {"none"}

LEMMA BookedKept ==
  ASSUME IInv, Booked, Judged, UNCHANGED <<job, active, routes>>,
         at' \in 0 .. Len(routes),
         \/ UNCHANGED <<chunkCount, chunks>>
         \/ phase' # "refused" /\ phase' \notin {"trace", "size"}
  PROVE  IInv' => Booked'
<1> HAVE IInv'
<1>1. fault' \in Faults /\ (phase' = "refused" <=> fault' # "none")
  BY DEF Booked, Judged
<1>2. chunkCount' \in Nat /\ Len(chunks') <= chunkCount'
  <2>1. CASE UNCHANGED <<chunkCount, chunks>>
    BY <2>1 DEF Booked
  <2>2. CASE phase' # "refused" /\ phase' \notin {"trace", "size"}
    <3>1. phase' \in {"chunks", "propagate", "place", "planned"}
      BY <2>2 DEF IInv, Phases
    <3>2. chunkCount' \in 1 .. GroupTotal' /\ Len(chunks') <= chunkCount'
      BY <3>1 DEF IInv, CountOK
    <3>3. GroupTotal' \in Nat \ {0}
      BY Totals, SameTotal DEF IInv, TraceOK
    <3>4. QED
      BY <3>2, <3>3
  <2>3. QED
    BY <2>1, <2>2
<1>3. QED
  BY <1>1, <1>2 DEF Booked, Steps

LEMMA TraceBooked ==
  ASSUME IInv, Booked, TraceNext, UNCHANGED chunkVars
  PROVE  IInv' => Booked'
<1>1. UNCHANGED <<chunkCount, chunks, at>>
  BY DEF chunkVars
<1>2. Len(routes) \in Nat /\ IsSeq(routes)
  BY AppendElements DEF IInv, TraceOK
<1>3. CASE AppendRoute
  <2> DEFINE trace == [stream |-> stream, active |-> active, routes |-> routes]
             step == Steps[Len(routes) + 1]
             after == Traced(trace, step)
  <2>1. /\ UNCHANGED <<phase, fault, job>> /\ Len(routes) < Len(Steps)
        /\ active' = after.active /\ routes' = after.routes
    BY <1>3 DEF AppendRoute
  <2>2. /\ trace.active = active /\ trace.routes = routes
        /\ DOMAIN trace = {"stream", "active", "routes"}
    OBVIOUS
  <2>3. \E r : after.routes = Append(trace.routes, r)
    BY DEF Traced, LiftTraced, ScaleTraced, SwapTraced
  <2> HIDE DEF trace, step
  <2>4. after.active \in [SlotNames -> Slots]
    BY <2>2, TracedActive DEF Booked
  <2> HIDE DEF after
  <2>5. Len(routes') = Len(routes) + 1
    BY <1>2, <2>1, <2>2, <2>3, AppendIsSeq
  <2>6. Len(Steps) \in Nat
    BY JobIs DEF IInv, TraceOK, JobOK, Steps
  <2>7. Len(routes') <= Len(Steps) /\ at \in 0 .. Len(routes')
    BY <1>2, <2>1, <2>5, <2>6 DEF Booked
  <2>8. Steps' = Steps
    BY <2>1 DEF Steps
  <2>9. QED
    BY <1>1, <2>1, <2>4, <2>7, <2>8 DEF Booked
<1>4. CASE RouteTerminalScales
  <2>1. /\ UNCHANGED <<job, active>>
        /\ routes' = TerminalScalesRouted(routes) \/ routes' = routes
        /\ Judged
    BY <1>4 DEF RouteTerminalScales, Refuse, Judged, Phases, Faults
  <2>2. Len(routes') = Len(routes)
    <3>1. CASE routes' = TerminalScalesRouted(routes)
      <4> DEFINE q == TerminalScalesRouted(routes)
      <4>1. q = [i \in 1 .. Len(routes) |-> q[i]]
        BY DEF TerminalScalesRouted
      <4> HIDE DEF q
      <4>2. Len(q) = Len(routes)
        BY <1>2, <4>1, FunctionIsSeq
      <4>3. QED
        BY <3>1, <4>2 DEF q
    <3>2. QED
      BY <2>1, <3>1
  <2>3. fault' \in Faults /\ (phase' = "refused" <=> fault' # "none")
    BY <2>1 DEF Booked, Judged
  <2>4. QED
    BY <1>1, <2>1, <2>2, <2>3 DEF Booked, Steps
<1>5. QED
  BY <1>3, <1>4 DEF TraceNext

LEMMA ForwardBooked ==
  ASSUME IInv, Booked, Lwt!Plan
  PROVE  IInv' => Booked'
<1>1. Len(routes) \in Nat /\ at \in 0 .. Len(routes)
  BY AppendElements DEF IInv, TraceOK, Booked
<1>2. /\ UNCHANGED <<job, active, routes>>
      /\ at' \in {at, 0, Len(routes)}
           \/ (at > 0 /\ at' = at - 1) \/ (at < Len(routes) /\ at' = at + 1)
      /\ \/ UNCHANGED <<chunkCount, chunks>>
         \/ phase' # "refused" /\ phase' \notin {"trace", "size"}
      /\ Judged
  <2>1. CASE Lwt!SizeChunks \/ Lwt!StartChunk
    BY <2>1 DEF Lwt!SizeChunks, Lwt!StartChunk, Lwt!During, Lwt!Refuse, Judged, Phases,
       Faults
  <2>2. CASE Lwt!Propagate \/ Lwt!StartWalk
    BY <2>2 DEF Lwt!Propagate, Lwt!StartWalk, Lwt!During, Lwt!Refuse, Judged, Phases,
       Faults
  <2>3. CASE Lwt!PlaceSwap \/ Lwt!PlaceLift \/ Lwt!PlaceScale
    BY <2>3 DEF Lwt!PlaceSwap, Lwt!PlaceLift, Lwt!PlaceScale, Lwt!Placing, Lwt!During,
       Lwt!Refuse, Judged, Phases, Faults
  <2>4. CASE Lwt!FinishChunk
    BY <2>4 DEF Lwt!FinishChunk, Lwt!During, Lwt!Refuse, Judged, Phases, Faults
  <2>5. CASE \/ Lwt!Accept \/ Lwt!TryMoreChunks(Lwt!GroupTotal)
             \/ Lwt!GiveUp(Lwt!GroupTotal)
    BY <2>5 DEF Lwt!Accept, Lwt!TryMoreChunks, Lwt!GiveUp, Lwt!Judging, Lwt!Refuse,
       Judged, Phases, Faults
  <2>6. QED
    BY <2>1, <2>2, <2>3, <2>4, <2>5 DEF Lwt!Plan
<1>3. at' \in 0 .. Len(routes)
  BY <1>1, <1>2
<1>4. QED
  BY <1>2, <1>3, BookedKept

LEMMA InverseBooked ==
  ASSUME IInv, Booked, Ilwt!Plan
  PROVE  IInv' => Booked'
<1>1. Len(routes) \in Nat /\ at \in 0 .. Len(routes)
  BY AppendElements DEF IInv, TraceOK, Booked
<1>2. /\ UNCHANGED <<job, active, routes>>
      /\ at' \in {at, 0, Len(routes)}
           \/ (at > 0 /\ at' = at - 1) \/ (at < Len(routes) /\ at' = at + 1)
      /\ \/ UNCHANGED <<chunkCount, chunks>>
         \/ phase' # "refused" /\ phase' \notin {"trace", "size"}
      /\ Judged
  <2>1. CASE Ilwt!SizeChunks \/ Ilwt!StartChunk
    BY <2>1 DEF Ilwt!SizeChunks, Ilwt!StartChunk, Ilwt!During, Ilwt!Refuse, Judged,
       Phases, Faults
  <2>2. CASE Ilwt!Propagate \/ Ilwt!StartWalk
    BY <2>2 DEF Ilwt!Propagate, Ilwt!StartWalk, Ilwt!During, Ilwt!Refuse, Judged, Phases,
       Faults
  <2>3. CASE Ilwt!PlaceSwap \/ Ilwt!PlaceLift \/ Ilwt!PlaceScale
    BY <2>3 DEF Ilwt!PlaceSwap, Ilwt!PlaceLift, Ilwt!PlaceScale, Ilwt!Placing,
       Ilwt!During, Ilwt!Refuse, Judged, Phases, Faults
  <2>4. CASE Ilwt!FinishChunk
    BY <2>4 DEF Ilwt!FinishChunk, Ilwt!During, Ilwt!Refuse, Judged, Phases, Faults
  <2>5. CASE \/ Ilwt!Accept \/ Ilwt!TryMoreChunks(Ilwt!GroupTotal)
             \/ Ilwt!GiveUp(Ilwt!GroupTotal)
    BY <2>5 DEF Ilwt!Accept, Ilwt!TryMoreChunks, Ilwt!GiveUp, Ilwt!Judging, Ilwt!Refuse,
       Judged, Phases, Faults
  <2>6. QED
    BY <2>1, <2>2, <2>3, <2>4, <2>5 DEF Ilwt!Plan
<1>3. at' \in 0 .. Len(routes)
  BY <1>1, <1>2
<1>4. QED
  BY <1>2, <1>3, BookedKept

LEMMA OriginsKept ==
  ASSUME OriginsOK, UNCHANGED <<job, stream>>,
         \/ phase \in {"chunks", "propagate", "place", "planned"}
         \/ phase' \notin {"chunks", "propagate", "place", "planned"}
  PROVE  OriginsOK'
<1>1. \A s : Lwt!Origin(s)' = Lwt!Origin(s)
  BY DEF Lwt!Origin
<1>2. QED
  BY <1>1 DEF OriginsOK, Sized

\* Where a chunk begins in the final streams, or in the padded signal.
LEMMA StartNatural ==
  ASSUME IInv, Counted, Lwt!StartChunk \/ Ilwt!StartChunk
  PROVE  NeedsNatural'
<1>1. CASE Lwt!StartChunk
  <2> DEFINE b == Lwt!ChunkBegin
             e == Lwt!ChunkEnd
             need == [s \in Streams |-> Interval(b + Lwt!Origin(s), e + Lwt!Origin(s))]
  <2>1. /\ ~job.inverse /\ phase = "chunks" /\ Len(chunks) < chunkCount
        /\ required' = [n \in {Len(routes)} |-> need]
    BY <1>1, LwtSame DEF Lwt!StartChunk, Lwt!During
  <2>2. b \in Nat /\ e \in Nat
    BY <2>1, ChunkAt, ChunkBounds
  <2>3. \A s \in Streams : Lwt!Origin(s) \in Int
    BY LwtSame, JobIs, PaddingIs DEF IInv, TraceOK, Lwt!Origin
  <2>4. \A s \in Streams : Lwt!Origin(s) \in Nat
    BY <2>1, <2>3 DEF Counted, OriginsOK, Sized
  <2> HIDE DEF b, e
  <2>5. \A s \in Streams : Interval(b + Lwt!Origin(s), e + Lwt!Origin(s)) \in IntervalType
    BY <2>2, <2>4, NaturalInterval
  <2>6. need \in Naturals
    BY <2>5 DEF Naturals
  <2> HIDE DEF need
  <2>7. QED
    BY <2>1, <2>6 DEF NeedsNatural
<1>2. CASE Ilwt!StartChunk
  <2> DEFINE b == Ilwt!ChunkBegin
             e == Ilwt!ChunkEnd
             need == Ilwt!SplitOf(b, e)
  <2>1. /\ job.inverse /\ phase = "chunks" /\ Len(chunks) < chunkCount
        /\ required' = [n \in {0} |-> need]
    BY <1>2, IlwtSame DEF Ilwt!StartChunk, Ilwt!During
  <2>2. b \in Nat /\ e \in Nat
    BY <2>1, ChunkAt, ChunkBounds
  <2>3. Pad(job) \in Nat /\ Ilwt!Pad(job) = Pad(job)
    BY JobIs, PaddingIs, IlwtSame DEF IInv, TraceOK
  <2> HIDE DEF b, e
  <2>4. /\ (b + Pad(job) + 1) \div 2 \in Nat /\ (e + Pad(job) + 1) \div 2 \in Nat
        /\ (b + Pad(job)) \div 2 \in Nat /\ (e + Pad(job)) \div 2 \in Nat
    BY <2>2, <2>3
  <2>5. need = [even |-> Interval((b + Pad(job) + 1) \div 2, (e + Pad(job) + 1) \div 2),
                odd |-> Interval((b + Pad(job)) \div 2, (e + Pad(job)) \div 2)]
    BY <2>3, IlwtSame DEF Ilwt!SplitOf
  <2>6. \A x, y \in IntervalType : [even |-> x, odd |-> y] \in Naturals
    BY DEF Naturals, Streams
  <2>7. need \in Naturals
    BY <2>4, <2>5, <2>6, NaturalInterval
  <2> HIDE DEF need
  <2>8. QED
    BY <2>1, <2>7 DEF NeedsNatural
<1>3. QED
  BY <1>1, <1>2

LEMMA PropagateNatural ==
  ASSUME IInv, Counted, Lwt!Propagate \/ Ilwt!Propagate
  PROVE  NeedsNatural'
<1>1. CASE UNCHANGED required
  BY <1>1 DEF Counted, NeedsNatural
<1>2. ASSUME NEW i, NEW need \in Naturals, required' = Extended(required, i, need)
      PROVE  NeedsNatural'
  BY <1>2 DEF Counted, NeedsNatural, Extended
<1>3. CASE Lwt!Propagate /\ required' # required
  <2>1. /\ ~job.inverse /\ phase = "propagate" /\ at > 0
        /\ required' = Extended(required, at - 1, Needed(routes[at], required[at]))
    BY <1>3, LwtSame DEF Lwt!Propagate, Lwt!During
  <2>2. Len(routes) \in Nat /\ at \in 1 .. Len(routes) /\ RouteOK(routes[at])
    BY <2>1, AppendElements DEF IInv, TraceOK, RequiredOK
  <2>3. at \in DOMAIN required
    BY <2>1, <2>2 DEF IInv, RequiredOK, Known
  <2>4. Needed(routes[at], required[at]) \in Naturals
    BY <2>2, <2>3, NeededNatural DEF Counted, NeedsNatural
  <2>5. QED
    BY <1>2, <2>1, <2>4
<1>4. CASE Ilwt!Propagate /\ required' # required
  <2> DEFINE r == routes[at + 1]
  <2>1. /\ job.inverse /\ phase = "propagate" /\ at < Len(routes)
        /\ required' = Extended(required, at + 1, NeededAfter(r, required[at]))
        /\ Ilwt!Kept(r, required[at])
    BY <1>4, IlwtSame DEF Ilwt!Propagate, Ilwt!During
  <2>2. /\ Len(routes) \in Nat /\ at \in 0 .. Len(routes) - 1 /\ RouteOK(r)
    BY <2>1, AppendElements DEF IInv, TraceOK, RequiredOK
  <2>3. /\ at \in DOMAIN required
        /\ \A s \in Streams : required[at][s].begin <= required[at][s].end
    BY <2>1, <2>2 DEF IInv, RequiredOK, Known
  <2> HIDE DEF r
  <2>4. IsLift(r.type) => CanSubtract(required[at][Target(r.type)], r.baseOffset)
    BY <2>1, IlwtSame DEF Ilwt!Kept, Ilwt!CanSubtract, CanSubtract
  <2>5. NeededAfter(r, required[at]) \in Naturals
    <3>1. required[at] \in Naturals
      BY <2>3 DEF Counted, NeedsNatural
    <3>2. QED
      BY <2>2, <2>3, <2>4, <3>1, NeededNatural
  <2>6. QED
    BY <1>2, <2>1, <2>5
<1>5. QED
  BY <1>1, <1>3, <1>4

-----------------------------------------------------------------------------
\* One of the two operands of a route that is placed.
LEMMA OffsetNatural ==
  ASSUME NEW s \in Streams, walk.storage \in Needs,
         walk.storage[s].begin <= walk.storage[s].end,
         NEW interval \in Stretch, Has(s, interval)
  PROVE  Offset(s, interval) \in Nat /\ Extent(walk.storage[s]) \in Nat
<1>1. walk.storage[s] \in Stretch
  BY DEF Needs
<1> DEFINE i == walk.storage[s]
<1>2. i \in Stretch /\ i.begin <= i.end /\ Covers(i, interval)
  BY <1>1 DEF Has
<1> HIDE DEF i
<1>3. Extent(i) \in Nat /\ LocalOffset(i, interval) \in Nat
  BY <1>2 DEF Extent, LocalOffset, Covers, Stretch
<1>4. QED
  BY <1>3 DEF Offset, i

LEMMA RouteAdded ==
  ASSUME IInv, WalkNatural, phase = "place",
         NEW r, walk'.routes = Append(walk.routes, r), OffsetsNatural(r),
         NEW t \in Streams, NEW output \in Stretch, output.begin <= output.end,
         \/ walk'.storage = walk.storage
         \/ walk'.storage = [walk.storage EXCEPT ![t] = output]
  PROVE  WalkNatural'
<1>1. IsSeq(walk.routes) /\ walk.storage \in Needs
  BY DEF IInv, WalkOK, ChunkOK, Placed
<1>2. /\ Len(walk'.routes) = Len(walk.routes) + 1 /\ Len(walk.routes) \in Nat
      /\ walk'.routes[Len(walk.routes) + 1] = r
      /\ \A i \in 1 .. Len(walk.routes) : walk'.routes[i] = walk.routes[i]
  BY <1>1, AppendIsSeq, AppendElements
<1>3. \A i \in 1 .. Len(walk'.routes) :
        i \in 1 .. Len(walk.routes) \/ i = Len(walk.routes) + 1
  BY <1>2
<1>4. ASSUME NEW i \in 1 .. Len(walk'.routes)
      PROVE  OffsetsNatural(walk'.routes[i])
  <2>1. CASE i = Len(walk.routes) + 1
    BY <1>2, <2>1
  <2>2. CASE i \in 1 .. Len(walk.routes)
    BY <1>2, <2>2 DEF WalkNatural
  <2>3. QED
    BY <1>3, <2>1, <2>2
<1>5. \A s \in Streams : walk'.storage[s].begin <= walk'.storage[s].end
  BY <1>1 DEF WalkNatural, Needs
<1>6. QED
  BY <1>4, <1>5 DEF WalkNatural

LEMMA LiftNatural ==
  ASSUME IInv, WalkNatural, phase = "place",
         NEW full, NEW output \in Stretch, output.begin <= output.end,
         NEW source \in Stretch, NEW base \in Stretch, NEW storage, NEW outputOffset,
         Has(Other[Target(full.type)], source), Has(Target(full.type), base),
         walk' = Lifted(full, output, source, base, storage, outputOffset)
  PROVE  WalkNatural'
<1> DEFINE t == Target(full.type)
           o == Other[t]
           r == [type |-> full.type, k |-> full.k,
                 source |-> walk.slot[o], base |-> walk.slot[t],
                 output |-> walk.slot.free, storage |-> storage,
                 sourceLength |-> Extent(walk.storage[o]),
                 baseLength |-> Extent(walk.storage[t]),
                 sourceOffset |-> Offset(o, source), baseOffset |-> Offset(t, base),
                 outputLength |-> Extent(output), outputOffset |-> outputOffset]
<1>1. /\ DOMAIN walk = {"slot", "storage", "routes", "workspace"}
      /\ walk.storage \in Needs
      /\ \A s \in Streams : walk.storage[s].begin <= walk.storage[s].end
  BY DEF IInv, WalkOK, WalkNatural
<1>2. t \in Streams /\ o \in Streams
  BY StreamOf
<1>3. /\ walk'.storage = [walk.storage EXCEPT ![t] = output]
      /\ walk'.routes = Append(walk.routes, r)
  BY <1>1 DEF Lifted
<1>4. /\ r.sourceLength = Extent(walk.storage[o]) /\ r.baseLength = Extent(walk.storage[t])
      /\ r.sourceOffset = Offset(o, source) /\ r.baseOffset = Offset(t, base)
      /\ r.outputLength = Extent(output)
  OBVIOUS
<1>5. Has(o, source) /\ Has(t, base)
  OBVIOUS
<1> HIDE DEF r, t, o
<1>6. /\ Offset(o, source) \in Nat /\ Extent(walk.storage[o]) \in Nat
      /\ Offset(t, base) \in Nat /\ Extent(walk.storage[t]) \in Nat
  BY <1>1, <1>2, <1>5, OffsetNatural
<1>7. Extent(output) \in Nat
  BY DEF Extent, Stretch
<1>8. OffsetsNatural(r)
  BY <1>4, <1>6, <1>7 DEF OffsetsNatural
<1>9. QED
  BY <1>2, <1>3, <1>8, RouteAdded

LEMMA ForwardLiftNatural ==
  ASSUME IInv, WalkNatural, Lwt!PlaceLift
  PROVE  WalkNatural'
<1>1. CASE UNCHANGED walk
  BY <1>1, LwtSame DEF WalkNatural, Lwt!PlaceLift, Lwt!Placing, Lwt!During, Lwt!Refuse
<1>2. CASE ~UNCHANGED walk
  <2>1. PICK type \in {"predict", "update"} :
          LET full == routes[at + 1]
              t == Target(type)
              output == required[at + 1][t]
              source == Translated(output, full.sourceOffset, full.k - 1)
              base == Translated(output, full.baseOffset, 0)
              inline == at + 1 = Lwt!InlineRoute(routes)
          IN /\ phase = "place" /\ at < Len(routes) /\ full.type = type
             /\ Has(Other[t], source) /\ Has(t, base)
             /\ walk' = Lifted(full, output, source, base,
                         IF inline THEN Lwt!FinalDram[Lwt!InlineResult(routes)]
                                   ELSE "workspace",
                         IF inline /\ ~Empty(output) THEN output.begin ELSE 0)
    BY <1>2, LwtSame DEF Lwt!PlaceLift, Lwt!Placing, Lwt!During
  <2> DEFINE full == routes[at + 1]
             t == Target(type)
             output == required[at + 1][t]
             source == Translated(output, full.sourceOffset, full.k - 1)
             base == Translated(output, full.baseOffset, 0)
  <2>2. /\ phase = "place" /\ at < Len(routes) /\ full.type = type
        /\ Has(Other[t], source) /\ Has(t, base)
        /\ \E storage, outputOffset :
             walk' = Lifted(full, output, source, base, storage, outputOffset)
    BY <2>1
  <2>3. Len(routes) \in Nat /\ at + 1 \in 1 .. Len(routes) /\ at + 1 \in 0 .. Len(routes)
    BY <2>2, AppendElements DEF IInv, TraceOK, RequiredOK
  <2>4. output \in Stretch /\ output.begin <= output.end
    BY <2>2, <2>3, StreamOf DEF IInv, RequiredOK, Known, Needs
  <2>5. full.sourceOffset \in Int /\ full.baseOffset \in Int /\ full.k - 1 \in Int
    BY <2>3 DEF IInv, TraceOK, RouteOK
  <2>6. t = Target(full.type)
    BY <2>2
  <2> HIDE DEF full, output, t
  <2>7. source \in Stretch /\ base \in Stretch
    BY <2>4, <2>5, TranslatedIs
  <2> HIDE DEF source, base
  <2>8. QED
    BY <2>2, <2>4, <2>6, <2>7, LiftNatural
<1>3. QED
  BY <1>1, <1>2

LEMMA InverseLiftNatural ==
  ASSUME IInv, WalkNatural, Ilwt!PlaceLift
  PROVE  WalkNatural'
<1>1. CASE UNCHANGED walk
  BY <1>1, IlwtSame DEF WalkNatural, Ilwt!PlaceLift, Ilwt!Placing, Ilwt!During, Ilwt!Refuse
<1>2. CASE ~UNCHANGED walk
  <2>1. PICK type \in {"predict", "update"} :
          LET full == routes[at]
              t == Target(type)
              output == required[at - 1][t]
              target == Subtracted(output, full.baseOffset)
              source == Translated(target, full.sourceOffset, full.k - 1)
          IN /\ phase = "place" /\ at > 0 /\ full.type = type
             /\ Has(Other[t], source) /\ Has(t, target)
             /\ walk' = Lifted(full, output, source, target, "workspace", 0)
    BY <1>2, IlwtSame DEF Ilwt!PlaceLift, Ilwt!Placing, Ilwt!During
  <2> DEFINE full == routes[at]
             t == Target(type)
             output == required[at - 1][t]
             target == Subtracted(output, full.baseOffset)
             source == Translated(target, full.sourceOffset, full.k - 1)
  <2>2. /\ phase = "place" /\ at > 0 /\ full.type = type
        /\ Has(Other[t], source) /\ Has(t, target)
        /\ walk' = Lifted(full, output, source, target, "workspace", 0)
    BY <2>1
  <2>3. Len(routes) \in Nat /\ at \in 1 .. Len(routes) /\ at - 1 \in 0 .. Len(routes)
    BY <2>2, AppendElements DEF IInv, TraceOK, RequiredOK
  <2>4. output \in Stretch /\ output.begin <= output.end
    BY <2>2, <2>3, StreamOf DEF IInv, RequiredOK, Known, Needs
  <2>5. full.sourceOffset \in Int /\ full.baseOffset \in Int /\ full.k - 1 \in Int
    BY <2>3 DEF IInv, TraceOK, RouteOK
  <2>6. t = Target(full.type)
    BY <2>2
  <2> HIDE DEF full, output, t
  <2>7. target \in Stretch
    BY <2>4, <2>5, TranslatedIs
  <2> HIDE DEF target
  <2>8. source \in Stretch
    BY <2>5, <2>7, TranslatedIs
  <2> HIDE DEF source
  <2>9. QED
    BY <2>2, <2>4, <2>6, <2>7, <2>8, LiftNatural
<1>3. QED
  BY <1>1, <1>2

LEMMA ForwardScaleNatural ==
  ASSUME IInv, WalkNatural, Lwt!PlaceScale
  PROVE  WalkNatural'
<1>1. CASE UNCHANGED walk
  BY <1>1, LwtSame DEF WalkNatural, Lwt!PlaceScale, Lwt!Placing, Lwt!During, Lwt!Refuse
<1>2. CASE ~UNCHANGED walk
  <2>1. PICK s \in Streams :
          LET output == required[at + 1][s]
              offset == Offset(s, output)
          IN /\ phase = "place" /\ at < Len(routes) /\ Has(s, output)
             /\ walk' = [walk EXCEPT !.routes = Append(@,
                  [type |-> ScaleOf[s], k |-> 1,
                   source |-> walk.slot[s], base |-> walk.slot[s],
                   output |-> walk.slot[s], storage |-> FinalDram[s],
                   sourceLength |-> Extent(walk.storage[s]),
                   baseLength |-> Extent(walk.storage[s]),
                   sourceOffset |-> offset, baseOffset |-> offset,
                   outputLength |-> Extent(output),
                   outputOffset |-> IF Empty(output) THEN 0 ELSE output.begin])]
    BY <1>2, LwtSame DEF Lwt!PlaceScale, Lwt!Placing, Lwt!During, Lwt!FinalDram, FinalDram
  <2> DEFINE output == required[at + 1][s]
             r == [type |-> ScaleOf[s], k |-> 1,
                   source |-> walk.slot[s], base |-> walk.slot[s],
                   output |-> walk.slot[s], storage |-> FinalDram[s],
                   sourceLength |-> Extent(walk.storage[s]),
                   baseLength |-> Extent(walk.storage[s]),
                   sourceOffset |-> Offset(s, output), baseOffset |-> Offset(s, output),
                   outputLength |-> Extent(output),
                   outputOffset |-> IF Empty(output) THEN 0 ELSE output.begin]
  <2>2. /\ phase = "place" /\ at < Len(routes) /\ Has(s, output)
        /\ walk' = [walk EXCEPT !.routes = Append(@, r)]
    BY <2>1
  <2>3. /\ DOMAIN walk = {"slot", "storage", "routes", "workspace"}
        /\ walk.storage \in Needs
        /\ walk.storage[s].begin <= walk.storage[s].end
    BY <2>2 DEF IInv, WalkOK, WalkNatural
  <2>4. Len(routes) \in Nat /\ at + 1 \in 0 .. Len(routes)
    BY <2>2, AppendElements DEF IInv, TraceOK, RequiredOK
  <2>5. output \in Stretch /\ output.begin <= output.end
    BY <2>2, <2>4 DEF IInv, RequiredOK, Known, Needs
  <2>6. /\ r.sourceLength = Extent(walk.storage[s]) /\ r.baseLength = Extent(walk.storage[s])
        /\ r.sourceOffset = Offset(s, output) /\ r.baseOffset = Offset(s, output)
        /\ r.outputLength = Extent(output)
    OBVIOUS
  <2> HIDE DEF r, output
  <2>7. walk'.routes = Append(walk.routes, r) /\ walk'.storage = walk.storage
    BY <2>2, <2>3
  <2>8. /\ Offset(s, output) \in Nat /\ Extent(walk.storage[s]) \in Nat
        /\ Extent(output) \in Nat
    BY <2>2, <2>3, <2>5, OffsetNatural DEF Extent, Stretch
  <2>9. OffsetsNatural(r)
    BY <2>6, <2>8 DEF OffsetsNatural
  <2>10. QED
    BY <2>2, <2>5, <2>7, <2>9, RouteAdded
<1>3. QED
  BY <1>1, <1>2

LEMMA WalkStartNatural ==
  ASSUME IInv, Lwt!StartWalk \/ Ilwt!StartWalk
  PROVE  WalkNatural'
<1>1. /\ phase = "propagate"
      /\ at = IF job.inverse THEN Len(routes) ELSE 0
      /\ walk' = WalkFrom(required[at])
  BY LwtSame, IlwtSame DEF Lwt!StartWalk, Ilwt!StartWalk, Lwt!During, Ilwt!During
<1>2. Len(routes) \in Nat /\ at \in Known
  BY <1>1, AppendElements DEF IInv, TraceOK, RequiredOK, Known
<1>3. \A s \in Streams : required[at][s].begin <= required[at][s].end
  BY <1>1, <1>2 DEF IInv, RequiredOK
<1>4. walk'.storage = required[at] /\ walk'.routes = <<>>
  BY <1>1 DEF WalkFrom
<1>5. 1 .. Len(<<>>) = {}
  BY EmptyIsSeq
<1>6. QED
  BY <1>3, <1>4, <1>5 DEF WalkNatural

LEMMA SwapNatural ==
  ASSUME IInv, WalkNatural, phase = "place", walk' = Swapped
  PROVE  WalkNatural'
<1>1. DOMAIN walk = {"slot", "storage", "routes", "workspace"}
  BY DEF IInv, WalkOK
<1>2. /\ walk'.storage = [s \in Streams |-> walk.storage[Other[s]]]
      /\ walk'.routes = walk.routes
  BY <1>1 DEF Swapped
<1>3. QED
  BY <1>2, StreamOf DEF WalkNatural

LEMMA NothingPlaced ==
  ASSUME walk' = Nowhere, phase' # "place"
  PROVE  WalkNatural'
<1>1. walk'.routes = <<>> /\ 1 .. Len(<<>>) = {}
  BY EmptyIsSeq DEF Nowhere
<1>2. QED
  BY <1>1 DEF WalkNatural

LEMMA CountedKept ==
  ASSUME Counted, UNCHANGED <<job, stream, required, walk>>,
         phase' # "place",
         \/ phase \in {"chunks", "propagate", "place", "planned"}
         \/ phase' \notin {"chunks", "propagate", "place", "planned"}
  PROVE  Counted'
<1>1. OriginsOK'
  BY OriginsKept DEF Counted
<1>2. QED
  BY <1>1 DEF Counted, NeedsNatural, WalkNatural

LEMMA ForwardCounted ==
  ASSUME IInv, Counted, Lwt!Plan
  PROVE  Counted'
<1>1. CASE Lwt!SizeChunks
  <2>1. /\ phase = "size" /\ UNCHANGED <<job, stream, required, walk>>
        /\ phase' \in {"chunks", "refused"}
        /\ phase' = "chunks" => \A s \in Streams : Lwt!Origin(s) >= 0
    BY <1>1, LwtSame DEF Lwt!SizeChunks, Lwt!During, Lwt!Refuse
  <2>2. \A s : Lwt!Origin(s)' = Lwt!Origin(s)
    BY <2>1 DEF Lwt!Origin
  <2>3. OriginsOK'
    BY <2>1, <2>2 DEF OriginsOK, Sized
  <2>4. QED
    BY <2>1, <2>3 DEF Counted, NeedsNatural, WalkNatural
<1>2. CASE Lwt!StartChunk
  <2>1. /\ phase = "chunks" /\ UNCHANGED <<job, stream, walk>> /\ phase' # "place"
    BY <1>2 DEF Lwt!StartChunk, Lwt!During, Lwt!Refuse
  <2>2. OriginsOK' /\ WalkNatural'
    BY <2>1, OriginsKept DEF Counted, WalkNatural
  <2>3. QED
    BY <1>2, <2>2, StartNatural DEF Counted
<1>3. CASE Lwt!Propagate
  <2>1. /\ phase = "propagate" /\ UNCHANGED <<job, stream, walk>> /\ phase' # "place"
    BY <1>3 DEF Lwt!Propagate, Lwt!During, Lwt!Refuse
  <2>2. OriginsOK' /\ WalkNatural'
    BY <2>1, OriginsKept DEF Counted, WalkNatural
  <2>3. QED
    BY <1>3, <2>2, PropagateNatural DEF Counted
<1>4. CASE Lwt!StartWalk
  <2>1. phase = "propagate" /\ UNCHANGED <<job, stream, required>>
    BY <1>4 DEF Lwt!StartWalk, Lwt!During
  <2>2. OriginsOK' /\ NeedsNatural'
    BY <2>1, OriginsKept DEF Counted, NeedsNatural
  <2>3. QED
    BY <1>4, <2>2, WalkStartNatural DEF Counted
<1>5. CASE Lwt!PlaceSwap \/ Lwt!PlaceLift \/ Lwt!PlaceScale
  <2>1. /\ phase = "place" /\ UNCHANGED <<job, stream, required>>
        /\ Lwt!PlaceSwap => walk' = Swapped
    BY <1>5, LwtSame DEF Lwt!PlaceSwap, Lwt!PlaceLift, Lwt!PlaceScale, Lwt!Placing,
       Lwt!During
  <2>2. OriginsOK' /\ NeedsNatural'
    BY <2>1, OriginsKept DEF Counted, NeedsNatural
  <2>3. WalkNatural'
    BY <1>5, <2>1, SwapNatural, ForwardLiftNatural, ForwardScaleNatural DEF Counted
  <2>4. QED
    BY <2>2, <2>3 DEF Counted
<1>6. CASE Lwt!FinishChunk
  <2>1. /\ phase = "place" /\ UNCHANGED <<job, stream>> /\ phase' # "place"
        /\ walk' = Nowhere /\ required' = <<>>
    BY <1>6, LwtSame DEF Lwt!FinishChunk, Lwt!During, Lwt!Refuse
  <2>2. NeedsNatural'
    BY <2>1 DEF NeedsNatural
  <2>3. QED
    BY <2>1, <2>2, NothingPlaced, OriginsKept DEF Counted
<1>7. CASE \/ Lwt!Accept \/ Lwt!TryMoreChunks(Lwt!GroupTotal)
           \/ Lwt!GiveUp(Lwt!GroupTotal)
  <2>1. /\ phase = "chunks" /\ UNCHANGED <<job, stream, required, walk>> /\ phase' # "place"
    BY <1>7 DEF Lwt!Accept, Lwt!TryMoreChunks, Lwt!GiveUp, Lwt!Judging, Lwt!Refuse
  <2>2. QED
    BY <2>1, CountedKept
<1>8. QED
  BY <1>1, <1>2, <1>3, <1>4, <1>5, <1>6, <1>7 DEF Lwt!Plan

LEMMA InverseCounted ==
  ASSUME IInv, Counted, Ilwt!Plan
  PROVE  Counted'
<1>1. job.inverse /\ UNCHANGED <<job, stream>>
  BY DEF Ilwt!Plan, Ilwt!SizeChunks, Ilwt!StartChunk, Ilwt!Propagate, Ilwt!StartWalk,
     Ilwt!PlaceSwap, Ilwt!PlaceLift, Ilwt!PlaceScale, Ilwt!Placing, Ilwt!During,
     Ilwt!FinishChunk, Ilwt!Accept, Ilwt!TryMoreChunks, Ilwt!GiveUp, Ilwt!Judging
<1>2. OriginsOK'
  BY <1>1 DEF OriginsOK, Sized
<1>3. CASE \/ Ilwt!SizeChunks \/ Ilwt!Accept \/ Ilwt!TryMoreChunks(Ilwt!GroupTotal)
           \/ Ilwt!GiveUp(Ilwt!GroupTotal)
  <2>1. UNCHANGED <<required, walk>> /\ phase' # "place"
    BY <1>3 DEF Ilwt!SizeChunks, Ilwt!During, Ilwt!Accept, Ilwt!TryMoreChunks,
       Ilwt!GiveUp, Ilwt!Judging, Ilwt!Refuse
  <2>2. QED
    BY <1>2, <2>1 DEF Counted, NeedsNatural, WalkNatural
<1>4. CASE Ilwt!StartChunk \/ Ilwt!Propagate
  <2>1. UNCHANGED walk /\ phase' # "place"
    BY <1>4 DEF Ilwt!StartChunk, Ilwt!Propagate, Ilwt!During, Ilwt!Refuse
  <2>2. WalkNatural'
    BY <2>1 DEF Counted, WalkNatural
  <2>3. QED
    BY <1>2, <1>4, <2>2, StartNatural, PropagateNatural DEF Counted
<1>5. CASE Ilwt!StartWalk
  <2>1. UNCHANGED required
    BY <1>5 DEF Ilwt!StartWalk
  <2>2. QED
    BY <1>2, <1>5, <2>1, WalkStartNatural DEF Counted, NeedsNatural
<1>6. CASE Ilwt!PlaceSwap \/ Ilwt!PlaceLift \/ Ilwt!PlaceScale
  <2>1. /\ phase = "place" /\ UNCHANGED required
        /\ Ilwt!PlaceSwap => walk' = Swapped
        /\ Ilwt!PlaceScale => UNCHANGED <<phase, walk>>
    BY <1>6, IlwtSame DEF Ilwt!PlaceSwap, Ilwt!PlaceLift, Ilwt!PlaceScale, Ilwt!Placing,
       Ilwt!During
  <2>2. Ilwt!PlaceScale => WalkNatural'
    BY <2>1 DEF Counted, WalkNatural
  <2>3. WalkNatural'
    BY <1>6, <2>1, <2>2, SwapNatural, InverseLiftNatural DEF Counted
  <2>4. QED
    BY <1>2, <2>1, <2>3 DEF Counted, NeedsNatural
<1>7. CASE Ilwt!FinishChunk
  <2>1. walk' = Nowhere /\ required' = <<>> /\ phase' # "place"
    BY <1>7, IlwtSame DEF Ilwt!FinishChunk, Ilwt!During, Ilwt!Refuse
  <2>2. NeedsNatural'
    BY <2>1 DEF NeedsNatural
  <2>3. QED
    BY <1>2, <2>1, <2>2, NothingPlaced DEF Counted
<1>8. QED
  BY <1>3, <1>4, <1>5, <1>6, <1>7 DEF Ilwt!Plan

\* Every variable has its type, and every length, offset and interval that the
\* code keeps in a size_t is a natural number, for every job: the subtractions
\* of canonical_start, local_offset and subtract_offset never go below zero.
THEOREM TypesKept == Spec => []TypeOK
<1> DEFINE Inv == IInv /\ Booked /\ Counted
<1>1. Init => Inv
  <2> SUFFICES ASSUME Init PROVE Inv
    OBVIOUS
  <2>1. /\ job \in Jobs /\ phase = "trace" /\ fault = "none" /\ active = HomeSlots
        /\ routes = <<>> /\ chunkCount = 0 /\ chunks = <<>> /\ at = 0 /\ required = <<>>
        /\ walk = Nowhere
    BY DEF Init, TraceInit
  <2>2. Len(<<>>) = 0 /\ 1 .. 0 = {}
    BY EmptyIsSeq
  <2>3. HomeSlots \in [SlotNames -> Slots]
    BY DEF HomeSlots, SlotNames, Slots
  <2>4. Len(Steps) \in Nat
    BY <2>1, JobIs DEF JobOK, Steps
  <2>5. Booked
    BY <2>1, <2>2, <2>3, <2>4 DEF Booked, Faults
  <2>6. walk.routes = <<>>
    BY <2>1 DEF Nowhere
  <2>7. Counted
    BY <2>1, <2>2, <2>6 DEF Counted, OriginsOK, Sized, NeedsNatural, WalkNatural
  <2>8. QED
    BY <2>5, <2>7, InitInv
<1>2. Inv /\ [Next]_vars => Inv'
  <2> SUFFICES ASSUME Inv, [Next]_vars PROVE Inv'
    OBVIOUS
  <2>1. IInv'
    BY NextInv
  <2>2. CASE TraceNext /\ UNCHANGED chunkVars
    <3>1. Booked'
      BY <2>1, <2>2, TraceBooked
    <3>2. /\ phase = "trace" /\ phase' \in {"trace", "size", "refused"}
          /\ UNCHANGED <<job, required, walk>>
      BY <2>2 DEF TraceNext, AppendRoute, RouteTerminalScales, Refuse, chunkVars
    <3>3. Counted'
      BY <3>2 DEF Counted, OriginsOK, Sized, NeedsNatural, WalkNatural
    <3>4. QED
      BY <2>1, <3>1, <3>3
  <2>3. CASE Lwt!Plan
    BY <2>1, <2>3, ForwardBooked, ForwardCounted
  <2>4. CASE Ilwt!Plan
    BY <2>1, <2>4, InverseBooked, InverseCounted
  <2>5. CASE UNCHANGED vars
    <3>1. UNCHANGED <<phase, fault, job, stream, active, routes, chunkCount, chunks, at,
                      required, walk>>
      BY <2>5 DEF vars, traceVars, chunkVars
    <3>2. \A s : Lwt!Origin(s)' = Lwt!Origin(s)
      BY <3>1 DEF Lwt!Origin
    <3>3. Booked' /\ Counted'
      BY <3>1, <3>2 DEF Booked, Steps, Counted, OriginsOK, Sized, NeedsNatural, WalkNatural
    <3>4. QED
      BY <2>1, <3>3
  <2>6. QED
    BY <2>2, <2>3, <2>4, <2>5 DEF Next
<1>3. Inv => TypeOK
  <2> SUFFICES ASSUME Inv PROVE TypeOK
    OBVIOUS
  <2>1. \A i \in 1 .. Len(routes) : OffsetsNatural(routes[i])
    BY DEF IInv, TraceOK, RouteOK, OffsetsNatural
  <2>2. /\ phase \in Phases /\ job \in Jobs
        /\ stream \in [Streams -> [shift : Int, length : Nat]]
        /\ walk.slot \in [SlotNames -> Slots]
    BY DEF IInv, TraceOK, WalkOK
  <2>3. /\ fault \in Faults /\ (phase = "refused" <=> fault # "none")
        /\ active \in [SlotNames -> Slots] /\ Len(routes) <= Len(Steps)
        /\ at \in 0 .. Len(routes) /\ chunkCount \in Nat /\ Len(chunks) <= chunkCount
    BY DEF Booked
  <2>4. /\ \A i \in 1 .. Len(walk.routes) : OffsetsNatural(walk.routes[i])
        /\ \A i \in DOMAIN required : required[i] \in [Streams -> IntervalType]
    BY DEF Counted, NeedsNatural, WalkNatural, Naturals
  <2> HIDE DEF Inv
  <2>5. QED
    BY <2>1, <2>2, <2>3, <2>4 DEF TypeOK, Phases, Faults, SlotNames
<1>4. QED
  BY <1>1, <1>2, <1>3, PTL DEF Spec

-----------------------------------------------------------------------------
(***************************************************************************)
(* Every forward route has output, if there is a coefficient at all.       *)
(***************************************************************************)
SomeOutput == \A j \in Jobs : OutputLength(j) > 0

NeedsSome ==
    phase \in {"propagate", "place"} =>
      \A i \in Known : \A s \in Streams : required[i][s].begin < required[i][s].end

WalkProduces ==
    \A k \in 1 .. Len(walk.routes) : walk.routes[k].outputLength > 0

Producing == ~job.inverse => NeedsSome /\ WalkProduces /\ Lwt!RoutesProduce

LEMMA NeededSome ==
  ASSUME NEW r, RouteOK(r), NEW need \in Needs,
         \A s \in Streams : need[s].begin < need[s].end
  PROVE  \A s \in Streams : Needed(r, need)[s].begin < Needed(r, need)[s].end
<1> DEFINE t == Target(r.type)
           o == Other[t]
           x == need[t]
           y == need[o]
<1>1. t \in Streams /\ o \in Streams /\ Streams = {t, o} /\ t # o
  BY StreamOf
<1>2. r.sourceOffset \in Nat /\ r.baseOffset \in Nat /\ (IsLift(r.type) => r.k - 1 \in Nat)
  BY DEF RouteOK
<1>3. x \in Stretch /\ y \in Stretch /\ x.begin < x.end /\ y.begin < y.end
  BY <1>1 DEF Needs
<1>4. DOMAIN need = Streams
  BY DEF Needs
<1> HIDE DEF x, y, t, o
<1>5. x.begin \in Int /\ x.end \in Int /\ y.begin \in Int /\ y.end \in Int
  BY <1>3, StretchIs
<1>6. ASSUME NEW a \in Nat, NEW e \in Nat
      PROVE  /\ Translated(x, a, e).begin < Translated(x, a, e).end
             /\ Translated(x, a, e).begin \in Int /\ Translated(x, a, e).end \in Int
  BY <1>3, <1>5 DEF Translated, Interval, Empty
<1>7. ASSUME NEW z, z.begin \in Int, z.end \in Int, z.begin < z.end
      PROVE  Hull(y, z).begin < Hull(y, z).end
  BY <1>3, <1>5, <1>7 DEF Hull, Interval, Empty, Smaller, Larger
<1>8. CASE r.type = "swap"
  BY <1>8 DEF Needed, Streams
<1>9. CASE IsScale(r.type)
  <2>1. r.type # "swap"
    BY <1>9 DEF IsScale
  <2>2. Needed(r, need) = [need EXCEPT ![t] = Translated(x, r.sourceOffset, 0)]
    BY <1>9, <2>1 DEF Needed, t, x
  <2>3. Translated(x, r.sourceOffset, 0).begin < Translated(x, r.sourceOffset, 0).end
    BY <1>2, <1>6
  <2>4. QED
    BY <1>1, <1>4, <2>2, <2>3
<1>10. CASE IsLift(r.type)
  <2>1. r.type # "swap" /\ ~IsScale(r.type)
    BY <1>10 DEF IsScale, IsLift
  <2> DEFINE z == Translated(x, r.sourceOffset, r.k - 1)
             b == Translated(x, r.baseOffset, 0)
  <2>2. Needed(r, need) = [need EXCEPT ![t] = b, ![o] = Hull(y, z)]
    BY <2>1 DEF Needed, t, o, x, y
  <2>3. b.begin < b.end /\ z.begin < z.end /\ z.begin \in Int /\ z.end \in Int
    BY <1>2, <1>6, <1>10
  <2> HIDE DEF b, z
  <2>4. Hull(y, z).begin < Hull(y, z).end
    BY <1>7, <2>3
  <2>5. QED
    BY <1>1, <1>4, <2>2, <2>3, <2>4
<1>11. QED
  BY <1>8, <1>9, <1>10 DEF RouteOK, StepTypes, IsScale, IsLift

LEMMA StartProduces ==
  ASSUME IInv, SomeOutput, Lwt!StartChunk
  PROVE  NeedsSome'
<1> DEFINE b == Lwt!ChunkBegin
           e == Lwt!ChunkEnd
           need == [s \in Streams |-> Interval(b + Lwt!Origin(s), e + Lwt!Origin(s))]
<1>1. /\ ~job.inverse /\ phase = "chunks" /\ Len(chunks) < chunkCount
      /\ UNCHANGED <<job, routes>>
      /\ at' = Len(routes) /\ required' = [n \in {Len(routes)} |-> need]
      /\ phase' # "place"
  BY LwtSame DEF Lwt!StartChunk, Lwt!During, Lwt!Refuse
<1>2. Whole > 0
  BY <1>1 DEF Whole, SomeOutput, IInv, TraceOK
<1>3. b \in Int /\ e \in Int /\ b < e
  BY <1>1, <1>2, ChunkAt, ChunkBounds
<1>4. \A s \in Streams : Lwt!Origin(s) \in Int
  BY LwtSame, JobIs, PaddingIs DEF IInv, TraceOK, Lwt!Origin
<1> HIDE DEF b, e
<1>5. \A s \in Streams : need[s].begin < need[s].end
  BY <1>3, <1>4 DEF Interval
<1> HIDE DEF need
<1>6. Len(routes) \in Nat
  BY AppendElements DEF IInv, TraceOK
<1>7. phase' = "propagate" => Known' = {Len(routes)}
  BY <1>1, <1>6 DEF Known
<1>8. QED
  BY <1>1, <1>5, <1>7 DEF NeedsSome

LEMMA PropagateProduces ==
  ASSUME IInv, NeedsSome, Lwt!Propagate
  PROVE  NeedsSome'
<1> DEFINE need == Needed(routes[at], required[at])
<1>1. /\ ~job.inverse /\ phase = "propagate" /\ at > 0
      /\ UNCHANGED <<job, stream, routes, chunkCount, chunks, walk>>
      /\ at' = at - 1
      /\ \/ phase' = "refused"
         \/ phase' = "propagate" /\ required' = Extended(required, at - 1, need)
  BY LwtSame DEF Lwt!Propagate, Lwt!During, Lwt!Refuse
<1>2. Len(routes) \in Nat /\ at \in 1 .. Len(routes) /\ RouteOK(routes[at])
  BY <1>1, AppendElements DEF IInv, TraceOK, RequiredOK
<1>3. /\ DOMAIN required = at .. Len(routes) /\ at \in at .. Len(routes)
      /\ required[at] \in Needs /\ Known = at .. Len(routes)
  BY <1>1, <1>2 DEF IInv, RequiredOK, Known
<1>4. \A s \in Streams : need[s].begin < need[s].end
  BY <1>1, <1>2, <1>3, NeededSome DEF NeedsSome
<1> HIDE DEF need
<1>5. phase' = "propagate" => Known' = (at .. Len(routes)) \union {at - 1}
  BY <1>1, <1>2 DEF Known
<1>6. QED
  BY <1>1, <1>3, <1>4, <1>5 DEF NeedsSome, Extended

LEMMA ProducingRoute ==
  ASSUME IInv, WalkProduces, phase = "place",
         NEW r, walk'.routes = Append(walk.routes, r), r.outputLength > 0
  PROVE  WalkProduces'
<1>1. IsSeq(walk.routes)
  BY DEF IInv, WalkOK, ChunkOK, Placed
<1>2. /\ Len(walk'.routes) = Len(walk.routes) + 1 /\ Len(walk.routes) \in Nat
      /\ walk'.routes[Len(walk.routes) + 1] = r
      /\ \A i \in 1 .. Len(walk.routes) : walk'.routes[i] = walk.routes[i]
  BY <1>1, AppendIsSeq, AppendElements
<1>3. \A i \in 1 .. Len(walk'.routes) :
        i \in 1 .. Len(walk.routes) \/ i = Len(walk.routes) + 1
  BY <1>2
<1>4. QED
  BY <1>2, <1>3 DEF WalkProduces

LEMMA PlaceProduces ==
  ASSUME IInv, NeedsSome, WalkProduces,
         Lwt!PlaceSwap \/ Lwt!PlaceLift \/ Lwt!PlaceScale
  PROVE  WalkProduces'
<1>1. DOMAIN walk = {"slot", "storage", "routes", "workspace"}
  BY DEF IInv, WalkOK
<1>2. /\ phase = "place" /\ at < Len(routes) /\ ~job.inverse
  BY DEF Lwt!PlaceSwap, Lwt!PlaceLift, Lwt!PlaceScale, Lwt!Placing, Lwt!During
<1>3. Len(routes) \in Nat /\ at + 1 \in 1 .. Len(routes) /\ at + 1 \in Known
  BY <1>2, AppendElements DEF IInv, TraceOK, RequiredOK, Known
<1>4. ASSUME NEW s \in Streams PROVE Extent(required[at + 1][s]) > 0
  <2> DEFINE x == required[at + 1][s]
  <2>1. x \in Stretch /\ x.begin < x.end
    BY <1>2, <1>3 DEF IInv, RequiredOK, Needs, NeedsSome
  <2> HIDE DEF x
  <2>2. Extent(x) > 0
    BY <2>1 DEF Extent, Stretch
  <2>3. QED
    BY <2>2 DEF x
<1>5. CASE UNCHANGED walk
  BY <1>5 DEF WalkProduces
<1>6. CASE Lwt!PlaceSwap
  <2>1. walk'.routes = walk.routes
    BY <1>1, <1>6, LwtSame DEF Lwt!PlaceSwap, Swapped
  <2>2. QED
    BY <2>1 DEF WalkProduces
<1>7. CASE Lwt!PlaceLift /\ ~UNCHANGED walk
  <2>1. PICK type \in {"predict", "update"} :
          LET full == routes[at + 1]
              output == required[at + 1][Target(type)]
              source == Translated(output, full.sourceOffset, full.k - 1)
              base == Translated(output, full.baseOffset, 0)
              inline == at + 1 = Lwt!InlineRoute(routes)
          IN walk' = Lifted(full, output, source, base,
                       IF inline THEN Lwt!FinalDram[Lwt!InlineResult(routes)]
                                 ELSE "workspace",
                       IF inline /\ ~Empty(output) THEN output.begin ELSE 0)
    BY <1>7, LwtSame DEF Lwt!PlaceLift
  <2> DEFINE output == required[at + 1][Target(type)]
  <2>2. Extent(output) > 0
    BY <1>4, StreamOf
  <2>3. \E full, source, base, storage, outputOffset :
          walk' = Lifted(full, output, source, base, storage, outputOffset)
    BY <2>1
  <2> HIDE DEF output
  <2>4. PICK full, source, base, storage, outputOffset :
          walk' = Lifted(full, output, source, base, storage, outputOffset)
    BY <2>3
  <2> DEFINE t == Target(full.type)
             o == Other[t]
             r == [type |-> full.type, k |-> full.k,
                   source |-> walk.slot[o], base |-> walk.slot[t],
                   output |-> walk.slot.free, storage |-> storage,
                   sourceLength |-> Extent(walk.storage[o]),
                   baseLength |-> Extent(walk.storage[t]),
                   sourceOffset |-> Offset(o, source), baseOffset |-> Offset(t, base),
                   outputLength |-> Extent(output), outputOffset |-> outputOffset]
  <2>5. walk'.routes = Append(walk.routes, r) /\ r.outputLength = Extent(output)
    BY <1>1, <2>4 DEF Lifted
  <2> HIDE DEF r
  <2>6. QED
    BY <1>2, <2>2, <2>5, ProducingRoute
<1>8. CASE Lwt!PlaceScale /\ ~UNCHANGED walk
  <2>1. PICK s \in Streams :
          LET output == required[at + 1][s]
              offset == Offset(s, output)
          IN walk' = [walk EXCEPT !.routes = Append(@,
               [type |-> ScaleOf[s], k |-> 1,
                source |-> walk.slot[s], base |-> walk.slot[s],
                output |-> walk.slot[s], storage |-> Lwt!FinalDram[s],
                sourceLength |-> Extent(walk.storage[s]),
                baseLength |-> Extent(walk.storage[s]),
                sourceOffset |-> offset, baseOffset |-> offset,
                outputLength |-> Extent(output),
                outputOffset |-> IF Empty(output) THEN 0 ELSE output.begin])]
    BY <1>8, LwtSame DEF Lwt!PlaceScale
  <2>2. \E r : r.outputLength > 0 /\ walk'.routes = Append(walk.routes, r)
    BY <1>1, <1>4, <2>1
  <2>3. QED
    BY <1>2, <2>2, ProducingRoute
<1>9. QED
  BY <1>5, <1>6, <1>7, <1>8

LEMMA FinishProduces ==
  ASSUME IInv, WalkProduces, Lwt!RoutesProduce, Lwt!FinishChunk
  PROVE  Lwt!RoutesProduce'
<1> DEFINE built == [k \in 1 .. Len(walk.routes) |-> Lwt!FromOrigin(walk.routes[k])]
           c == [initial |-> required[0], routes |-> built, workspace |-> walk.workspace]
<1>1. /\ phase = "place" /\ ~job.inverse
      /\ UNCHANGED chunks \/ chunks' = Append(chunks, c)
  BY LwtSame DEF Lwt!FinishChunk, Lwt!During, Lwt!Refuse
<1>2. IsSeq(walk.routes) /\ IsSeq(chunks)
  BY <1>1 DEF IInv, WalkOK, ChunkOK, Placed, ChunksOK
<1>3. ASSUME NEW k \in 1 .. Len(walk.routes)
      PROVE  built[k].outputLength > 0
  <2> DEFINE r == walk.routes[k]
  <2>1. DOMAIN r = PlacedFields /\ r.outputLength > 0
    BY <1>1 DEF IInv, WalkOK, ChunkOK, Placed, WalkProduces
  <2>2. built[k] = Lwt!FromOrigin(r)
    OBVIOUS
  <2> HIDE DEF r
  <2>3. Lwt!FromOrigin(r).outputLength = r.outputLength
    BY <2>1 DEF Lwt!FromOrigin, PlacedFields
  <2>4. QED
    BY <2>1, <2>2, <2>3
<1>4. Len(built) = Len(walk.routes) /\ c.routes = built
  <2>1. Len(walk.routes) \in Nat
    BY <1>2, AppendElements
  <2>2. QED
    BY <2>1, FunctionIsSeq
<1> HIDE DEF built, c
<1>5. CASE UNCHANGED chunks
  BY <1>5 DEF Lwt!RoutesProduce
<1>6. CASE chunks' = Append(chunks, c)
  <2>1. /\ Len(chunks') = Len(chunks) + 1 /\ Len(chunks) \in Nat
        /\ chunks'[Len(chunks) + 1] = c
        /\ \A n \in 1 .. Len(chunks) : chunks'[n] = chunks[n]
    BY <1>2, <1>6, AppendIsSeq, AppendElements
  <2>2. \A n \in 1 .. Len(chunks') : n \in 1 .. Len(chunks) \/ n = Len(chunks) + 1
    BY <2>1
  <2>3. QED
    BY <1>3, <1>4, <2>1, <2>2 DEF Lwt!RoutesProduce
<1>7. QED
  BY <1>1, <1>5, <1>6

LEMMA ForwardProduces ==
  ASSUME IInv, SomeOutput, Producing, Lwt!Plan
  PROVE  Producing'
<1>1. UNCHANGED job /\ ~job.inverse
  BY DEF Lwt!Plan, Lwt!SizeChunks, Lwt!StartChunk, Lwt!Propagate, Lwt!StartWalk,
     Lwt!PlaceSwap, Lwt!PlaceLift, Lwt!PlaceScale, Lwt!Placing, Lwt!During,
     Lwt!FinishChunk, Lwt!Accept, Lwt!TryMoreChunks, Lwt!GiveUp, Lwt!Judging
<1>2. NeedsSome /\ WalkProduces /\ Lwt!RoutesProduce
  BY <1>1 DEF Producing
<1>3. CASE \/ Lwt!SizeChunks \/ Lwt!Accept \/ Lwt!TryMoreChunks(Lwt!GroupTotal)
           \/ Lwt!GiveUp(Lwt!GroupTotal)
  <2>1. /\ phase' \notin {"propagate", "place"} /\ UNCHANGED walk
        /\ UNCHANGED chunks \/ chunks' = <<>>
    BY <1>3 DEF Lwt!SizeChunks, Lwt!During, Lwt!Accept, Lwt!TryMoreChunks, Lwt!GiveUp,
       Lwt!Judging, Lwt!Refuse
  <2>2. 1 .. Len(<<>>) = {}
    BY EmptyIsSeq
  <2>3. QED
    BY <1>2, <2>1, <2>2 DEF Producing, NeedsSome, WalkProduces, Lwt!RoutesProduce
<1>4. CASE Lwt!StartChunk \/ Lwt!Propagate
  <2>1. UNCHANGED <<walk, chunks>>
    BY <1>4 DEF Lwt!StartChunk, Lwt!Propagate
  <2>2. NeedsSome'
    BY <1>2, <1>4, StartProduces, PropagateProduces
  <2>3. QED
    BY <1>2, <2>1, <2>2 DEF Producing, WalkProduces, Lwt!RoutesProduce
<1>5. CASE Lwt!StartWalk
  <2>1. /\ UNCHANGED <<chunks, required, at, routes>>
        /\ phase = "propagate" /\ at = 0 /\ walk'.routes = <<>>
    BY <1>5, LwtSame DEF Lwt!StartWalk, Lwt!During, WalkFrom
  <2>2. 1 .. Len(<<>>) = {}
    BY EmptyIsSeq
  <2>3. Known' = Known \/ phase' \notin {"propagate", "place"}
    BY <1>1, <2>1 DEF Known
  <2>4. QED
    BY <1>2, <2>1, <2>2, <2>3 DEF Producing, NeedsSome, WalkProduces, Lwt!RoutesProduce
<1>6. CASE Lwt!PlaceSwap \/ Lwt!PlaceLift \/ Lwt!PlaceScale
  <2>1. /\ UNCHANGED <<chunks, required, routes>> /\ phase = "place"
        /\ phase' \in {"place", "refused"}
    BY <1>6 DEF Lwt!PlaceSwap, Lwt!PlaceLift, Lwt!PlaceScale, Lwt!Placing, Lwt!During,
       Lwt!Refuse
  <2>2. WalkProduces'
    BY <1>2, <1>6, PlaceProduces
  <2>3. Known' = Known \/ phase' = "refused"
    BY <2>1 DEF Known
  <2>4. QED
    BY <1>2, <2>1, <2>2, <2>3 DEF Producing, NeedsSome, Lwt!RoutesProduce
<1>7. CASE Lwt!FinishChunk
  <2>1. phase' \notin {"propagate", "place"} /\ walk' = Nowhere
    BY <1>7, LwtSame DEF Lwt!FinishChunk, Lwt!During, Lwt!Refuse
  <2>2. walk'.routes = <<>> /\ 1 .. Len(<<>>) = {}
    BY <2>1, EmptyIsSeq DEF Nowhere
  <2>3. Lwt!RoutesProduce'
    BY <1>2, <1>7, FinishProduces
  <2>4. QED
    BY <2>1, <2>2, <2>3 DEF Producing, NeedsSome, WalkProduces
<1>8. QED
  BY <1>3, <1>4, <1>5, <1>6, <1>7 DEF Lwt!Plan

LEMMA ProducingAlways == SomeOutput => (Spec => []Producing)
<1> SUFFICES ASSUME SomeOutput PROVE Spec => []Producing
  OBVIOUS
<1>1. Init => Producing
  <2> SUFFICES ASSUME Init PROVE Producing
    OBVIOUS
  <2>1. phase = "trace" /\ chunks = <<>> /\ walk.routes = <<>> /\ 1 .. Len(<<>>) = {}
    BY EmptyIsSeq DEF Init, TraceInit, Nowhere
  <2>2. QED
    BY <2>1 DEF Producing, NeedsSome, WalkProduces, Lwt!RoutesProduce
<1>2. IInv /\ Producing /\ [Next]_vars => Producing'
  <2> SUFFICES ASSUME IInv, Producing, [Next]_vars PROVE Producing'
    OBVIOUS
  <2>1. CASE TraceNext /\ UNCHANGED chunkVars
    <3>1. /\ phase' \in {"trace", "size", "refused"} /\ UNCHANGED <<job, chunks, walk>>
      BY <2>1 DEF TraceNext, AppendRoute, RouteTerminalScales, Refuse, chunkVars
    <3>2. QED
      BY <3>1 DEF Producing, NeedsSome, WalkProduces, Lwt!RoutesProduce
  <2>2. CASE Lwt!Plan
    BY <2>2, ForwardProduces
  <2>3. CASE Ilwt!Plan
    <3>1. job'.inverse
      BY <2>3 DEF Ilwt!Plan, Ilwt!SizeChunks, Ilwt!StartChunk, Ilwt!Propagate,
         Ilwt!StartWalk, Ilwt!PlaceSwap, Ilwt!PlaceLift, Ilwt!PlaceScale, Ilwt!Placing,
         Ilwt!During, Ilwt!FinishChunk, Ilwt!Accept, Ilwt!TryMoreChunks, Ilwt!GiveUp,
         Ilwt!Judging
    <3>2. QED
      BY <3>1 DEF Producing
  <2>4. CASE UNCHANGED vars
    <3>1. UNCHANGED <<phase, job, routes, chunks, at, required, walk>>
      BY <2>4 DEF vars, traceVars, chunkVars
    <3>2. QED
      BY <3>1 DEF Producing, NeedsSome, Known, WalkProduces, Lwt!RoutesProduce
  <2>5. QED
    BY <2>1, <2>2, <2>3, <2>4 DEF Next
<1>3. QED
  BY <1>1, <1>2, Invariant, PTL DEF Spec

\* If a forward transform has a coefficient at all, every route of every chunk
\* has output, which is what lets the three kernels of a core take groups from
\* one another for each route.
THEOREM EveryRouteProduces == SomeOutput => (Spec => []RoutesProduce)
<1>1. Producing => RoutesProduce
  BY DEF Producing, RoutesProduce
<1>2. QED
  BY <1>1, ProducingAlways, PTL

-----------------------------------------------------------------------------
(***************************************************************************)
(* The backward and the forward analysis of a forward chunk agree.         *)
(***************************************************************************)
\* A route reads inside its operands, whatever it writes.
WithinOperands(r) ==
    /\ IsLift(r.type) /\ r.outputLength > 0 =>
         /\ r.baseOffset + r.outputLength <= r.baseLength
         /\ r.sourceOffset + (r.k - 1) + r.outputLength <= r.sourceLength
    /\ IsScale(r.type) =>
         r.sourceOffset = 0 /\ {r.sourceLength, r.baseLength} = {r.outputLength}

\* How long the two streams are at each point of the trace: f[0] at first,
\* f[n] after n routes.
Lengths(f) ==
    /\ f \in [0 .. Len(routes) -> [Streams -> Nat]]
    /\ f[0] = SplitLength(job)
    /\ f[Len(routes)] = [s \in Streams |-> stream[s].length]
    /\ \A i \in 1 .. Len(routes) :
         LengthBefore(routes[i], f[i]) = f[i - 1] /\ LeavesLengths(routes[i], f[i])

\* Going back, the planner meets the lengths of the trace, and in them what
\* it needs.
Measured ==
    /\ \A i \in 1 .. Len(routes) : WithinOperands(routes[i])
    /\ \E f : /\ Lengths(f)
              /\ ~job.inverse /\ phase = "propagate" =>
                   length = f[at] /\ AllValid(required[at], f[at])

LEMMA GeometryWithin ==
  ASSUME NEW source \in StreamType, NEW shift \in Int, NEW k \in Nat \ {0},
         NEW base \in StreamType
  PROVE  LET geo == StepGeometry(source, shift, k, base)
         IN geo.length > 0 =>
              /\ geo.baseOffset + geo.length <= base.length
              /\ geo.sourceOffset + (k - 1) + geo.length <= source.length
<1>1. /\ source.shift \in Int /\ source.length \in Nat
      /\ base.shift \in Int /\ base.length \in Nat
  BY DEF StreamType
<1> DEFINE conv == source.shift + shift + Smaller(source.length, k) - 1
           past == IF source.length >= k THEN source.length - k + 1 ELSE 0
           first == Larger(base.shift, conv)
           end == Smaller(base.shift + base.length, conv + past)
<1>2. conv \in Int /\ past \in Int
  BY <1>1 DEF Smaller
<1>3. StepGeometry(source, shift, k, base) =
        [shift |-> first, length |-> Larger(end - first, 0),
         sourceOffset |-> first - conv, baseOffset |-> first - base.shift]
  BY DEF StepGeometry
<1>4. past + (k - 1) <= source.length \/ past = 0
  BY <1>1
<1> HIDE DEF conv, past
<1>5. /\ first \in Int /\ first >= conv /\ end \in Int
      /\ end <= base.shift + base.length /\ end <= conv + past
  BY <1>1, <1>2 DEF Larger, Smaller
<1> HIDE DEF first, end
<1>6. Larger(end - first, 0) > 0 =>
        /\ Larger(end - first, 0) = end - first
        /\ first - base.shift + (end - first) <= base.length
        /\ past # 0 /\ first - conv + (end - first) <= past
  BY <1>1, <1>2, <1>5 DEF Larger
<1>7. Larger(end - first, 0) > 0 =>
        first - conv + (k - 1) + (end - first) <= source.length
  BY <1>1, <1>2, <1>4, <1>5, <1>6
<1>8. QED
  BY <1>3, <1>6, <1>7

LengthsOf(streams) == [s \in Streams |-> streams[s].length]

\* A step of the scheme makes a route that finds and leaves the lengths that
\* the streams have before and after it.
RouteMeasured(before, after) ==
    \E r : /\ after.routes = Append(before.routes, r)
           /\ WithinOperands(r)
           /\ LengthBefore(r, LengthsOf(after.stream)) = LengthsOf(before.stream)
           /\ LeavesLengths(r, LengthsOf(after.stream))

LEMMA LiftMeasured ==
  ASSUME NEW trace, trace.stream \in [Streams -> StreamType],
         NEW step, StepOK(step), IsLift(step.type)
  PROVE  RouteMeasured(trace, LiftTraced(trace, step))
<1> DEFINE t == Target(step.type)
           o == Other[t]
           k == Len(step.coeff)
           x == trace.stream[o]
           y == trace.stream[t]
           geo == StepGeometry(x, step.shift, k, y)
           r == [type |-> step.type, k |-> k,
                 source |-> trace.active[o], base |-> trace.active[t],
                 output |-> trace.active.free, storage |-> "workspace",
                 sourceLength |-> x.length, baseLength |-> y.length,
                 sourceOffset |-> geo.sourceOffset, baseOffset |-> geo.baseOffset,
                 outputLength |-> geo.length]
           after == LiftTraced(trace, step)
<1>1. t \in Streams /\ o \in Streams /\ t # o /\ Streams = {t, o}
  BY StreamOf
<1>2. x \in StreamType /\ y \in StreamType
  BY <1>1
<1>3. k \in Nat \ {0} /\ step.shift \in Int /\ step.type \in StepTypes
  BY DEF StepOK
<1>4. /\ after.stream = [trace.stream EXCEPT ![t] = [shift |-> geo.shift, length |-> geo.length]]
      /\ after.routes = Append(trace.routes, r)
  BY DEF LiftTraced
<1>5. geo.length > 0 =>
        /\ geo.baseOffset + geo.length <= y.length
        /\ geo.sourceOffset + (k - 1) + geo.length <= x.length
  BY <1>2, <1>3, GeometryWithin
<1>6. /\ r.type = step.type /\ r.k = k /\ r.sourceOffset = geo.sourceOffset
      /\ r.baseOffset = geo.baseOffset /\ r.outputLength = geo.length
      /\ r.sourceLength = x.length /\ r.baseLength = y.length
  OBVIOUS
<1>7. ~IsScale(step.type) /\ step.type # "swap"
  BY DEF IsLift, IsScale
<1>8. /\ after.stream[t].length = geo.length /\ after.stream[o].length = x.length
      /\ trace.stream[t].length = y.length /\ trace.stream[o].length = x.length
  BY <1>1, <1>4
<1>9. t = Target(r.type)
  BY <1>6
<1> HIDE DEF r, k, x, y, geo, after, t
<1>10. WithinOperands(r)
  BY <1>5, <1>6, <1>7 DEF WithinOperands
<1>11. LengthBefore(r, LengthsOf(after.stream)) = LengthsOf(trace.stream)
  <2> DEFINE len == LengthsOf(after.stream)
  <2>1. LengthBefore(r, len) = [len EXCEPT ![t] = y.length, ![o] = x.length]
    BY <1>6, <1>7, <1>9 DEF LengthBefore
  <2>2. \A s \in Streams : [len EXCEPT ![t] = y.length, ![o] = x.length][s]
                             = trace.stream[s].length
    BY <1>1, <1>8 DEF LengthsOf
  <2>3. DOMAIN [len EXCEPT ![t] = y.length, ![o] = x.length] = Streams
    BY DEF LengthsOf
  <2>4. QED
    BY <2>1, <2>2, <2>3 DEF LengthsOf
<1>12. LeavesLengths(r, LengthsOf(after.stream))
  BY <1>1, <1>6, <1>7, <1>8, <1>9 DEF LeavesLengths, LengthsOf
<1>13. QED
  BY <1>4, <1>10, <1>11, <1>12 DEF RouteMeasured, after

LEMMA ScaleMeasured ==
  ASSUME NEW trace, trace.stream \in [Streams -> StreamType],
         DOMAIN trace = {"stream", "active", "routes"},
         NEW step, IsScale(step.type)
  PROVE  RouteMeasured(trace, ScaleTraced(trace, step))
<1> DEFINE t == Target(step.type)
           n == trace.stream[t].length
           r == [type |-> step.type, k |-> 1,
                 source |-> trace.active[t], base |-> trace.active[t],
                 output |-> trace.active.free, storage |-> "workspace",
                 sourceLength |-> n, baseLength |-> n,
                 sourceOffset |-> 0, baseOffset |-> 0, outputLength |-> n]
           after == ScaleTraced(trace, step)
           len == LengthsOf(trace.stream)
<1>1. t \in Streams /\ len[t] = n /\ len = [len EXCEPT ![t] = n]
  BY StreamOf DEF LengthsOf
<1>2. after.stream = trace.stream /\ after.routes = Append(trace.routes, r)
  BY DEF ScaleTraced
<1>3. /\ r.type = step.type /\ r.sourceOffset = 0 /\ r.outputLength = n
      /\ r.sourceLength = n /\ r.baseLength = n
  OBVIOUS
<1>4. ~IsLift(step.type) /\ step.type # "swap"
  BY DEF IsLift, IsScale
<1> HIDE DEF r, n, len
<1>5. WithinOperands(r)
  BY <1>3, <1>4 DEF WithinOperands
<1>6. LengthBefore(r, len) = len /\ LeavesLengths(r, len)
  BY <1>1, <1>3, <1>4 DEF LengthBefore, LeavesLengths
<1>7. QED
  BY <1>2, <1>5, <1>6 DEF RouteMeasured, len

LEMMA SwapMeasured ==
  ASSUME NEW trace, trace.stream \in [Streams -> StreamType]
  PROVE  RouteMeasured(trace, SwapTraced(trace))
<1> DEFINE r == [type |-> "swap", k |-> 0,
                 source |-> trace.active.even, base |-> trace.active.odd,
                 output |-> trace.active.even, storage |-> "workspace",
                 sourceLength |-> trace.stream.even.length,
                 baseLength |-> trace.stream.odd.length,
                 sourceOffset |-> 0, baseOffset |-> 0, outputLength |-> 0]
           after == SwapTraced(trace)
<1>1. /\ after.stream = [s \in Streams |-> trace.stream[Other[s]]]
      /\ after.routes = Append(trace.routes, r)
  BY DEF SwapTraced
<1>2. WithinOperands(r)
  BY DEF WithinOperands, IsLift, IsScale
<1>3. LengthBefore(r, LengthsOf(after.stream)) = LengthsOf(trace.stream)
  BY DEF LengthBefore, LengthsOf, Streams
<1>4. LeavesLengths(r, LengthsOf(after.stream))
  BY <1>1 DEF LeavesLengths, LengthsOf, Streams, Other
<1>5. QED
  BY <1>1, <1>2, <1>3, <1>4 DEF RouteMeasured

LEMMA AppendMeasured ==
  ASSUME TraceOK, Measured, AppendRoute
  PROVE  Measured'
<1> DEFINE trace == [stream |-> stream, active |-> active, routes |-> routes]
           step == Steps[Len(routes) + 1]
           after == Traced(trace, step)
           n == Len(routes)
<1>1. /\ Len(routes) < Len(Steps) /\ UNCHANGED <<phase, fault, job>> /\ phase = "trace"
      /\ stream' = after.stream /\ routes' = after.routes
  BY DEF AppendRoute
<1>2. /\ job \in Jobs /\ IsSeq(routes) /\ stream \in [Streams -> StreamType]
      /\ n \in Nat
  BY AppendElements DEF TraceOK, StreamType
<1>3. StepOK(step)
  <2>1. Len(Steps) \in Nat
    BY <1>2, JobIs DEF JobOK, Steps
  <2>2. Len(routes) + 1 \in 1 .. Len(Steps)
    BY <1>1, <1>2, <2>1
  <2>3. QED
    BY <1>2, <2>2, StepIs
<1>4. /\ trace.stream = stream /\ trace.routes = routes
      /\ DOMAIN trace = {"stream", "active", "routes"}
  OBVIOUS
<1>5. stream' \in [Streams -> StreamType]
  BY <1>1, AppendRouteStep DEF TraceOK, StreamType
<1> HIDE DEF trace, step
<1>6. RouteMeasured(trace, after)
  BY <1>2, <1>3, <1>4, LiftMeasured, ScaleMeasured, SwapMeasured DEF Traced
<1> HIDE DEF after
<1>7. PICK r : /\ routes' = Append(routes, r)
               /\ WithinOperands(r)
               /\ LengthBefore(r, LengthsOf(stream')) = LengthsOf(stream)
               /\ LeavesLengths(r, LengthsOf(stream'))
  BY <1>1, <1>4, <1>6 DEF RouteMeasured
<1>8. /\ IsSeq(routes') /\ Len(routes') = n + 1 /\ routes'[n + 1] = r
      /\ \A i \in 1 .. n : routes'[i] = routes[i]
  BY <1>2, <1>7, AppendIsSeq, AppendElements
<1> HIDE DEF n
<1>9. \A i \in 1 .. n + 1 : i \in 1 .. n \/ i = n + 1
  BY <1>2
<1>10. \A i \in 1 .. Len(routes') : WithinOperands(routes'[i])
  BY <1>7, <1>8, <1>9 DEF Measured, n
<1>11. PICK f : Lengths(f)
  BY DEF Measured
<1> DEFINE h == [i \in 0 .. n + 1 |-> IF i = n + 1 THEN LengthsOf(stream') ELSE f[i]]
<1>12. /\ f \in [0 .. n -> [Streams -> Nat]] /\ f[0] = SplitLength(job)
       /\ f[n] = LengthsOf(stream)
       /\ \A i \in 1 .. n :
            LengthBefore(routes[i], f[i]) = f[i - 1] /\ LeavesLengths(routes[i], f[i])
  BY <1>11 DEF Lengths, n, LengthsOf
<1>13. LengthsOf(stream') \in [Streams -> Nat]
  BY <1>5 DEF LengthsOf, StreamType
<1>14. PICK g : /\ g \in [0 .. n + 1 -> [Streams -> Nat]] /\ g[n + 1] = LengthsOf(stream')
                /\ \A i \in 0 .. n : g[i] = f[i]
  <2>1. \A i \in 0 .. n + 1 : i \in 0 .. n \/ i = n + 1
    BY <1>2
  <2>2. \A i \in 0 .. n : i # n + 1 /\ i \in 0 .. n + 1
    BY <1>2
  <2>3. n + 1 \in 0 .. n + 1
    BY <1>2
  <2>4. /\ h \in [0 .. n + 1 -> [Streams -> Nat]] /\ h[n + 1] = LengthsOf(stream')
        /\ \A i \in 0 .. n : h[i] = f[i]
    BY <1>12, <1>13, <2>1, <2>2, <2>3
  <2> HIDE DEF h
  <2>5. QED
    BY <2>4
<1>15. g[0] = SplitLength(job)
  BY <1>2, <1>12, <1>14
<1>16. ASSUME NEW i \in 1 .. n + 1
       PROVE  /\ LengthBefore(routes'[i], g[i]) = g[i - 1]
              /\ LeavesLengths(routes'[i], g[i])
  <2>1. CASE i \in 1 .. n
    <3>1. i \in 0 .. n /\ i - 1 \in 0 .. n
      BY <1>2, <2>1
    <3>2. QED
      BY <1>8, <1>12, <1>14, <2>1, <3>1
  <2>2. CASE i = n + 1
    <3>1. i - 1 = n /\ n \in 0 .. n
      BY <1>2, <2>2
    <3>2. QED
      BY <1>7, <1>8, <1>12, <1>14, <2>2, <3>1
  <2>3. QED
    BY <1>9, <2>1, <2>2
<1>17. Lengths(g)'
  <2>1. UNCHANGED job /\ SplitLength(job)' = SplitLength(job')
    BY <1>1 DEF SplitLength, PaddedLength, Pad
  <2>2. QED
    BY <1>1, <1>8, <1>14, <1>15, <1>16 DEF Lengths, LengthsOf
<1>18. phase' # "propagate"
  BY <1>1
<1>19. QED
  BY <1>10, <1>17, <1>18 DEF Measured

\* Routing the terminal scales to DRAM does not change how long anything is.
LEMMA AlikeMeasured ==
  ASSUME NEW r, NEW q, NEW len,
         q.type = r.type, q.k = r.k, q.sourceLength = r.sourceLength,
         q.baseLength = r.baseLength, q.outputLength = r.outputLength,
         q.sourceOffset = r.sourceOffset, q.baseOffset = r.baseOffset
  PROVE  /\ WithinOperands(q) <=> WithinOperands(r)
         /\ LengthBefore(q, len) = LengthBefore(r, len)
         /\ LeavesLengths(q, len) <=> LeavesLengths(r, len)
<1>1. WithinOperands(q) <=> WithinOperands(r)
  BY DEF WithinOperands
<1>2. LengthBefore(q, len) = LengthBefore(r, len)
  BY DEF LengthBefore
<1>3. LeavesLengths(q, len) <=> LeavesLengths(r, len)
  BY DEF LeavesLengths
<1>4. QED
  BY <1>1, <1>2, <1>3

Terminal == phase \notin {"trace", "refused"} => ScalesAreTerminal(routes)

LEMMA TerminalMeasured ==
  ASSUME TraceOK, Measured, RouteTerminalScales
  PROVE  Measured' /\ Terminal'
<1> DEFINE n == Len(routes)
           q(i) == IF i > n - 2
                   THEN [routes[i] EXCEPT !.storage = FinalDram[Target(routes[i].type)]]
                   ELSE routes[i]
<1>1. /\ UNCHANGED <<job, stream>> /\ phase' \in {"size", "refused"}
      /\ \/ routes' = TerminalScalesRouted(routes) /\ ScalesAreTerminal(routes)
         \/ routes' = routes /\ phase' = "refused"
  BY DEF RouteTerminalScales, Refuse
<1>2. n \in Nat /\ IsSeq(routes)
  BY AppendElements DEF TraceOK
<1>3. ASSUME NEW i \in 1 .. n
      PROVE  /\ q(i).type = routes[i].type /\ q(i).k = routes[i].k
             /\ q(i).sourceLength = routes[i].sourceLength
             /\ q(i).baseLength = routes[i].baseLength
             /\ q(i).outputLength = routes[i].outputLength
             /\ q(i).sourceOffset = routes[i].sourceOffset
             /\ q(i).baseOffset = routes[i].baseOffset
  <2> DEFINE r == routes[i]
             a == [r EXCEPT !.storage = FinalDram[Target(r.type)]]
  <2>1. RouteOK(r)
    BY DEF TraceOK
  <2>2. /\ a.type = r.type /\ a.k = r.k
        /\ a.sourceOffset = r.sourceOffset /\ a.baseOffset = r.baseOffset
        /\ a.sourceLength = r.sourceLength /\ a.baseLength = r.baseLength
        /\ a.outputLength = r.outputLength
    BY <2>1 DEF RouteOK, RouteFields
  <2>3. q(i) = a \/ q(i) = r
    OBVIOUS
  <2> HIDE DEF a, q
  <2>4. QED
    BY <2>2, <2>3
<1>4. /\ Len(routes') = n
      /\ \A i \in 1 .. n :
           /\ routes'[i].type = routes[i].type /\ routes'[i].k = routes[i].k
           /\ routes'[i].sourceLength = routes[i].sourceLength
           /\ routes'[i].baseLength = routes[i].baseLength
           /\ routes'[i].outputLength = routes[i].outputLength
           /\ routes'[i].sourceOffset = routes[i].sourceOffset
           /\ routes'[i].baseOffset = routes[i].baseOffset
  <2>1. CASE routes' = routes
    BY <2>1
  <2>2. CASE routes' = TerminalScalesRouted(routes)
    <3>1. routes' = [i \in 1 .. n |-> q(i)]
      BY <2>2 DEF TerminalScalesRouted
    <3> HIDE DEF q, n
    <3>2. Len(routes') = n
      BY <1>2, <3>1, FunctionIsSeq
    <3>3. QED
      BY <1>3, <3>1, <3>2
  <2>3. QED
    BY <1>1, <2>1, <2>2
<1>5. PICK f : Lengths(f)
  BY DEF Measured
<1> HIDE DEF n, q
<1>6. ASSUME NEW i \in 1 .. n, NEW len
      PROVE  /\ WithinOperands(routes'[i]) <=> WithinOperands(routes[i])
             /\ LengthBefore(routes'[i], len) = LengthBefore(routes[i], len)
             /\ LeavesLengths(routes'[i], len) <=> LeavesLengths(routes[i], len)
  BY <1>4, AlikeMeasured
<1>7. Lengths(f)'
  <2>1. SplitLength(job)' = SplitLength(job)
    BY <1>1 DEF SplitLength, PaddedLength, Pad
  <2>2. QED
    BY <1>1, <1>4, <1>5, <1>6, <2>1 DEF Lengths, n
<1>8. \A i \in 1 .. Len(routes') : WithinOperands(routes'[i])
  BY <1>4, <1>6 DEF Measured, n
<1>9. Measured'
  BY <1>1, <1>7, <1>8 DEF Measured
<1>10. phase' = "size" => ScalesAreTerminal(routes')
  <2> HAVE phase' = "size"
  <2>1. ScalesAreTerminal(routes) /\ n >= 2
    BY <1>1 DEF ScalesAreTerminal, n
  <2>2. n - 1 \in 1 .. n /\ n \in 1 .. n /\ \A i \in 1 .. n - 2 : i \in 1 .. n
    BY <1>2, <2>1
  <2>3. QED
    BY <1>4, <2>1, <2>2 DEF ScalesAreTerminal, n
<1>11. QED
  BY <1>1, <1>9, <1>10 DEF Terminal

LEMMA MeasuredKept ==
  ASSUME Measured, UNCHANGED <<job, stream, routes>>, phase' # "propagate" \/ job.inverse
  PROVE  Measured'
<1>1. PICK f : Lengths(f)
  BY DEF Measured
<1>2. Lengths(f)'
  <2>1. SplitLength(job)' = SplitLength(job)
    BY DEF SplitLength, PaddedLength, Pad
  <2>2. QED
    BY <1>1, <2>1 DEF Lengths
<1>3. QED
  BY <1>2 DEF Measured

LEMMA AnalysesSame ==
  /\ \A a, b : Lwt!AllValid(a, b) = AllValid(a, b)
  /\ \A a, b : Lwt!LengthBefore(a, b) = LengthBefore(a, b)
  /\ \A a, b : Lwt!LeavesLengths(a, b) = LeavesLengths(a, b)
  /\ \A a : Lwt!CanInline(a) = CanInline(a)
  /\ \A a : Lwt!InlineRoute(a) = InlineRoute(a)
  /\ \A a : Lwt!InlineResult(a) = InlineResult(a)
  /\ Lwt!FinalDram = FinalDram
<1>1. \A a, b : Lwt!AllValid(a, b) = AllValid(a, b)
  BY LwtSame DEF AllValid, Lwt!AllValid, ValidIn, Lwt!ValidIn
<1>2. /\ \A a, b : Lwt!LengthBefore(a, b) = LengthBefore(a, b)
      /\ \A a, b : Lwt!LeavesLengths(a, b) = LeavesLengths(a, b)
  BY LwtSame DEF LengthBefore, Lwt!LengthBefore, LeavesLengths, Lwt!LeavesLengths,
     IsScale, Lwt!IsScale
<1>3. \A a : Lwt!InlineRoute(a) = InlineRoute(a)
  BY LwtSame DEF InlineRoute, Lwt!InlineRoute
<1>4. \A a : Lwt!CanInline(a) = CanInline(a)
  BY <1>3, LwtSame DEF CanInline, Lwt!CanInline, HasLift, Lwt!HasLift,
     OnlySwapsFollow, Lwt!OnlySwapsFollow
<1>5. \A a : Lwt!InlineResult(a) = InlineResult(a)
  BY <1>3, LwtSame DEF InlineResult, Lwt!InlineResult
<1>6. Lwt!FinalDram = FinalDram
  BY DEF FinalDram, Lwt!FinalDram
<1>7. QED
  BY <1>1, <1>2, <1>3, <1>4, <1>5, <1>6

\* What is needed before a route is in its operands.
LEMMA NeededValid ==
  ASSUME NEW r, RouteOK(r), WithinOperands(r), NEW need \in Naturals,
         NEW len \in [Streams -> Nat], AllValid(need, len), LeavesLengths(r, len)
  PROVE  AllValid(Needed(r, need), LengthBefore(r, len))
<1> DEFINE t == Target(r.type)
           o == Other[t]
           x == need[t]
           y == need[o]
<1>1. t \in Streams /\ o \in Streams /\ t # o /\ Streams = {t, o}
  BY StreamOf
<1>2. /\ {r.k, r.sourceOffset, r.baseOffset} \subseteq Nat
      /\ {r.sourceLength, r.baseLength, r.outputLength} \subseteq Nat
      /\ IsLift(r.type) => r.k > 0
  BY DEF RouteOK
<1>3. /\ x.begin \in Nat /\ x.end \in Nat /\ y.begin \in Nat /\ y.end \in Nat
      /\ x.begin <= x.end /\ y.begin <= y.end /\ x.end <= len[t] /\ y.end <= len[o]
  BY <1>1, NaturalIs DEF Naturals, AllValid, ValidIn
<1>4. DOMAIN need = Streams /\ DOMAIN len = Streams
  BY DEF Naturals
<1>5. CASE r.type = "swap"
  <2>1. /\ Needed(r, need) = [even |-> need.odd, odd |-> need.even]
        /\ LengthBefore(r, len) = [even |-> r.sourceLength, odd |-> r.baseLength]
        /\ len = [even |-> r.baseLength, odd |-> r.sourceLength]
    BY <1>5 DEF Needed, LengthBefore, LeavesLengths
  <2>2. QED
    BY <2>1 DEF AllValid, ValidIn, Streams
<1> HIDE DEF t, o, x, y
<1>6. CASE IsScale(r.type)
  <2>1. r.type # "swap" /\ ~IsLift(r.type)
    BY <1>6 DEF IsScale, IsLift
  <2>2. /\ Needed(r, need) = [need EXCEPT ![t] = Translated(x, r.sourceOffset, 0)]
        /\ LengthBefore(r, len) = [len EXCEPT ![t] = r.sourceLength]
        /\ len[t] = r.outputLength /\ r.sourceLength = r.outputLength /\ r.sourceOffset = 0
    BY <1>6, <2>1 DEF Needed, LengthBefore, LeavesLengths, WithinOperands, t, x
  <2>3. Translated(x, 0, 0).begin = x.begin /\ Translated(x, 0, 0).end = x.end
    BY <1>3 DEF Translated, Interval
  <2>4. QED
    BY <1>1, <1>3, <1>4, <2>2, <2>3 DEF AllValid, ValidIn, y
<1>7. CASE IsLift(r.type)
  <2>1. r.type # "swap" /\ ~IsScale(r.type)
    BY <1>7 DEF IsScale, IsLift
  <2> DEFINE z == Translated(x, r.sourceOffset, r.k - 1)
             b == Translated(x, r.baseOffset, 0)
  <2>2. /\ Needed(r, need) = [need EXCEPT ![t] = b, ![o] = Hull(y, z)]
        /\ LengthBefore(r, len) = [len EXCEPT ![t] = r.baseLength, ![o] = r.sourceLength]
        /\ len[t] = r.outputLength /\ len[o] = r.sourceLength
    BY <1>7, <2>1 DEF Needed, LengthBefore, LeavesLengths, t, o, x, y
  <2>3. r.outputLength > 0 =>
          /\ r.baseOffset + r.outputLength <= r.baseLength
          /\ r.sourceOffset + (r.k - 1) + r.outputLength <= r.sourceLength
    BY <1>7 DEF WithinOperands
  <2>4. x.end <= r.outputLength /\ y.end <= r.sourceLength
    BY <1>3, <2>2
  <2>5. b.begin <= b.end /\ b.end <= r.baseLength
    BY <1>2, <1>3, <2>3, <2>4 DEF Translated, Interval, Empty
  <2>6. /\ z.begin \in Nat /\ z.end \in Nat /\ z.begin <= z.end
        /\ z.end <= r.sourceLength
    BY <1>2, <1>3, <1>7, <2>3, <2>4 DEF Translated, Interval, Empty
  <2> HIDE DEF b, z
  <2>7. Hull(y, z).begin <= Hull(y, z).end /\ Hull(y, z).end <= r.sourceLength
    BY <1>2, <1>3, <2>4, <2>6 DEF Hull, Interval, Empty, Smaller, Larger
  <2>8. QED
    BY <1>1, <1>4, <2>2, <2>5, <2>7 DEF AllValid, ValidIn
<1>8. QED
  BY <1>5, <1>6, <1>7 DEF RouteOK, StepTypes, IsScale, IsLift

\* The coefficients of the plan are in the final streams.
Ends == Sized => \A s \in Streams : Lwt!Origin(s) + Whole <= stream[s].length

LEMMA SizeEnds ==
  ASSUME IInv, Lwt!SizeChunks
  PROVE  Ends'
<1>1. /\ UNCHANGED <<job, stream>> /\ ~job.inverse
      /\ \/ phase' = "refused"
         \/ \A s \in Streams : Lwt!Origin(s) + OutputLength(job) <= stream[s].length
  BY LwtSame DEF Lwt!SizeChunks, Lwt!During, Lwt!Refuse
<1>2. \A s \in Streams : Lwt!Origin(s)' = Lwt!Origin(s)
  BY <1>1, LwtSame DEF Lwt!Origin, Lwt!CanonicalStart, Lwt!Pad
<1>3. Whole' = OutputLength(job)
  BY <1>1 DEF Whole, OutputLength
<1>4. QED
  BY <1>1, <1>2, <1>3 DEF Ends, Sized

LEMMA EndsKept ==
  ASSUME Ends, UNCHANGED <<job, stream>>,
         \/ phase \in {"chunks", "propagate", "place", "planned"}
         \/ phase' \notin {"chunks", "propagate", "place", "planned"}
  PROVE  Ends'
<1>1. \A s \in Streams : Lwt!Origin(s)' = Lwt!Origin(s)
  BY DEF Lwt!Origin, Lwt!CanonicalStart, Lwt!Pad
<1>2. Whole' = Whole
  BY DEF Whole, OutputLength
<1>3. QED
  BY <1>1, <1>2 DEF Ends, Sized

\* None of the three steps that go back refuses a chunk.
LEMMA StartAgrees ==
  ASSUME IInv, SomeOutput, Ends, Measured, Lwt!StartChunk
  PROVE  phase' = "propagate" /\ UNCHANGED fault /\ Measured'
<1> DEFINE b == Lwt!ChunkBegin
           e == Lwt!ChunkEnd
           need == [s \in Streams |-> Interval(b + Lwt!Origin(s), e + Lwt!Origin(s))]
           len == [s \in Streams |-> stream[s].length]
<1>1. /\ ~job.inverse /\ phase = "chunks" /\ Len(chunks) < chunkCount
      /\ UNCHANGED <<job, stream, routes>> /\ length' = len
      /\ at' = Len(routes) /\ required' = [n \in {Len(routes)} |-> need]
      /\ AllValid(need, len) => phase' = "propagate" /\ UNCHANGED fault
  BY LwtSame, AnalysesSame DEF Lwt!StartChunk, Lwt!During, Lwt!Refuse
<1>2. Whole > 0
  BY <1>1 DEF Whole, SomeOutput, IInv, TraceOK
<1>3. b \in Int /\ e \in Int /\ b < e /\ e <= Whole /\ Whole \in Int
  <2>1. e = Smaller(Boundary(Len(chunks) + 1), Whole) /\ b = Boundary(Len(chunks))
    BY <1>1, ChunkAt
  <2>2. Whole \in Nat
    BY Totals DEF IInv, TraceOK
  <2>3. Boundary(Len(chunks) + 1) \in Nat
    <3>1. Len(chunks) \in Nat
      BY AppendElements DEF IInv, ChunksOK
    <3>2. Len(chunks) + 1 \in 0 .. chunkCount /\ chunkCount \in 1 .. GroupTotal
      BY <1>1, <3>1 DEF IInv, CountOK
    <3>3. QED
      BY <3>2, Boundaries DEF IInv, TraceOK
  <2> HIDE DEF b, e
  <2>4. e <= Whole
    BY <2>1, <2>2, <2>3 DEF Smaller
  <2>5. QED
    BY <1>1, <1>2, <2>1, <2>2, <2>4, ChunkBounds
<1>4. \A s \in Streams : /\ Lwt!Origin(s) \in Int /\ stream[s].length \in Nat
                         /\ Lwt!Origin(s) + Whole <= stream[s].length
  BY <1>1, LwtSame, JobIs, PaddingIs DEF IInv, TraceOK, Lwt!Origin, Ends, Sized
<1> HIDE DEF b, e
<1>5. AllValid(need, len)
  BY <1>3, <1>4 DEF AllValid, ValidIn, Interval
<1>6. PICK f : Lengths(f)
  BY DEF Measured
<1>7. Lengths(f)'
  <2>1. SplitLength(job)' = SplitLength(job)
    BY <1>1 DEF SplitLength, PaddedLength, Pad
  <2>2. QED
    BY <1>1, <1>6, <2>1 DEF Lengths
<1>8. f[Len(routes)] = len
  BY <1>6 DEF Lengths
<1> HIDE DEF need, len
<1>9. length' = f[at'] /\ AllValid(required'[at'], f[at'])
  BY <1>1, <1>5, <1>8
<1>10. QED
  BY <1>1, <1>5, <1>7, <1>9 DEF Measured, AllValid, ValidIn

LEMMA PropagateAgrees ==
  ASSUME IInv, NeedsNatural, Measured, Lwt!Propagate
  PROVE  phase' = "propagate" /\ UNCHANGED fault /\ Measured'
<1> DEFINE need == Needed(routes[at], required[at])
           before == LengthBefore(routes[at], length)
<1>1. /\ ~job.inverse /\ phase = "propagate" /\ at > 0
      /\ UNCHANGED <<job, stream, routes>>
      /\ at' = at - 1
      /\ LeavesLengths(routes[at], length) /\ AllValid(need, before) =>
           /\ phase' = "propagate" /\ UNCHANGED fault
           /\ length' = before /\ required' = Extended(required, at - 1, need)
  BY LwtSame, AnalysesSame DEF Lwt!Propagate, Lwt!During, Lwt!Refuse
<1>2. Len(routes) \in Nat /\ at \in 1 .. Len(routes) /\ RouteOK(routes[at])
  BY <1>1, AppendElements DEF IInv, TraceOK, RequiredOK
<1>3. required[at] \in Naturals
  BY <1>1, <1>2 DEF IInv, RequiredOK, Known, NeedsNatural
<1>4. PICK f : Lengths(f) /\ length = f[at] /\ AllValid(required[at], f[at])
  BY <1>1 DEF Measured
<1>5. /\ f[at] \in [Streams -> Nat] /\ LeavesLengths(routes[at], length)
      /\ before = f[at - 1] /\ WithinOperands(routes[at])
  BY <1>2, <1>4 DEF Lengths, Measured
<1>6. AllValid(need, before)
  BY <1>2, <1>3, <1>4, <1>5, NeededValid
<1>7. Lengths(f)'
  <2>1. SplitLength(job)' = SplitLength(job)
    BY <1>1 DEF SplitLength, PaddedLength, Pad
  <2>2. QED
    BY <1>1, <1>4, <2>1 DEF Lengths
<1> HIDE DEF need, before
<1>8. length' = f[at'] /\ required'[at'] = need /\ AllValid(need, f[at'])
  BY <1>1, <1>5, <1>6 DEF Extended
<1>9. \A i \in 1 .. Len(routes') : WithinOperands(routes'[i])
  BY <1>1 DEF Measured
<1>10. QED
  BY <1>1, <1>5, <1>6, <1>7, <1>8, <1>9 DEF Measured, AllValid, ValidIn

LEMMA WalkAgrees ==
  ASSUME IInv, Measured, Lwt!StartWalk
  PROVE  /\ CanInline(routes) => phase' = "place" /\ UNCHANGED fault
         /\ ~CanInline(routes) => phase' = "refused"
         /\ Measured'
<1>1. /\ ~job.inverse /\ phase = "propagate" /\ at = 0
      /\ UNCHANGED <<job, stream, routes>>
      /\ IF length = SplitLength(job) /\ CanInline(routes)
         THEN phase' = "place" /\ UNCHANGED fault
         ELSE phase' = "refused"
  BY LwtSame, AnalysesSame DEF Lwt!StartWalk, Lwt!During, Lwt!Refuse
<1>2. length = SplitLength(job)
  BY <1>1 DEF Measured, Lengths
<1>3. phase' # "propagate"
  BY <1>1
<1>4. QED
  BY <1>1, <1>2, <1>3, MeasuredKept

-----------------------------------------------------------------------------
(***************************************************************************)
(* What is needed at each point follows from what is needed at the last,   *)
(* and is placed.                                                          *)
(***************************************************************************)
\* The coefficients of the chunk being worked out, as elements of the final
\* streams.
LastNeed ==
    [s \in Streams |->
       Interval(Boundary(Len(chunks)) + Lwt!Origin(s),
                Smaller(Boundary(Len(chunks) + 1), Whole) + Lwt!Origin(s))]

Derived ==
    ~job.inverse /\ phase \in {"propagate", "place"} =>
      /\ \A i \in Known :
           i < Len(routes) => required[i] = Needed(routes[i + 1], required[i + 1])
      /\ required[Len(routes)] = LastNeed

\* The final stream that a stream is after the lift that is scaled inline:
\* swaps follow, and the two scales.
Becomes(i, s) ==
    IF i >= Len(routes) - 2 \/ (Len(routes) - 2 - i) % 2 = 0 THEN s ELSE Other[s]

\* From there on nothing more is needed than what is asked for.
AfterLift ==
    ~job.inverse /\ phase \in {"propagate", "place"} /\ CanInline(routes) =>
      \A i \in Known : i >= InlineRoute(routes) =>
        \A s \in Streams : required[i][s] = LastNeed[Becomes(i, s)]

LEMMA InlineIs ==
  ASSUME IsSeq(routes), ScalesAreTerminal(routes), CanInline(routes)
  PROVE  /\ InlineRoute(routes) \in 1 .. Len(routes) - 2
         /\ IsLift(routes[InlineRoute(routes)].type)
         /\ \A i \in InlineRoute(routes) + 1 .. Len(routes) - 2 : routes[i].type = "swap"
<1> DEFINE n == Len(routes)
           T == {i \in 1 .. n - 2 : IsLift(routes[i].type)}
<1>1. n \in Nat
  BY AppendElements
<1>2. T # {}
  <2>1. PICK i \in 1 .. n : IsLift(routes[i].type)
    BY DEF CanInline, HasLift
  <2>2. n >= 2 /\ routes[n].type \in {"scale-even", "scale-odd"}
        /\ routes[n - 1].type \in {"scale-even", "scale-odd"}
    BY DEF ScalesAreTerminal
  <2>3. i # n /\ i # n - 1
    BY <2>1, <2>2 DEF IsLift
  <2>4. i \in 1 .. n - 2
    BY <1>1, <2>3
  <2>5. QED
    BY <2>1, <2>4
<1>3. T \subseteq 1 .. n - 2 /\ n - 2 \in Int
  BY <1>1
<1>4. PICK m \in T : \A x \in T : m >= x
  <2> HIDE DEF T, n
  <2>1. 1 \in Int /\ n - 2 \in Int
    BY <1>3
  <2>2. QED
    BY ONLY <1>2, <1>3, <2>1, HasGreatest
<1>5. /\ m \in 1 .. n - 2 /\ IsLift(routes[m].type)
      /\ \A i \in m + 1 .. n - 2 : ~IsLift(routes[i].type)
  <2>1. ASSUME NEW i \in m + 1 .. n - 2 PROVE i \in 1 .. n - 2 /\ ~(m >= i)
    BY <1>1
  <2>2. QED
    BY <1>4, <2>1
<1>6. /\ InlineRoute(routes) \in 1 .. n - 2
      /\ IsLift(routes[InlineRoute(routes)].type)
  <2> DEFINE FinalLift(i) == /\ IsLift(routes[i].type)
                        /\ \A j \in i + 1 .. n - 2 : ~IsLift(routes[j].type)
  <2>1. InlineRoute(routes) = CHOOSE i \in 1 .. n - 2 : FinalLift(i)
    BY DEF InlineRoute
  <2>2. \E i \in 1 .. n - 2 : FinalLift(i)
    BY <1>5
  <2> HIDE DEF FinalLift
  <2>3. InlineRoute(routes) \in 1 .. n - 2 /\ FinalLift(InlineRoute(routes))
    BY <2>1, <2>2, Zenon
  <2>4. QED
    BY <2>3 DEF FinalLift
<1>7. QED
  BY <1>6 DEF CanInline, OnlySwapsFollow

LEMMA OriginIs ==
  ASSUME IInv, NEW s \in Streams
  PROVE  Lwt!Origin(s) \in Int
BY LwtSame, JobIs, PaddingIs DEF IInv, TraceOK, Lwt!Origin

LEMMA LastNeedKept ==
  ASSUME UNCHANGED <<job, stream, chunkCount, chunks>>
  PROVE  LastNeed' = LastNeed
<1>1. \A s \in Streams : Lwt!Origin(s)' = Lwt!Origin(s)
  BY DEF Lwt!Origin, Lwt!CanonicalStart, Lwt!Pad
<1>2. /\ Boundary(Len(chunks))' = Boundary(Len(chunks))
      /\ Boundary(Len(chunks) + 1)' = Boundary(Len(chunks) + 1) /\ Whole' = Whole
  BY SameTotal DEF Boundary
<1>3. QED
  BY <1>1, <1>2 DEF LastNeed

LEMMA StartDerived ==
  ASSUME IInv, Lwt!StartChunk
  PROVE  Derived' /\ AfterLift'
<1> DEFINE need == [s \in Streams |->
                      Interval(Lwt!ChunkBegin + Lwt!Origin(s), Lwt!ChunkEnd + Lwt!Origin(s))]
<1>1. /\ ~job.inverse /\ phase = "chunks" /\ Len(chunks) < chunkCount
      /\ UNCHANGED <<job, stream, routes, chunkCount, chunks>>
      /\ at' = Len(routes) /\ required' = [n \in {Len(routes)} |-> need]
      /\ phase' # "place"
  BY LwtSame DEF Lwt!StartChunk, Lwt!During, Lwt!Refuse
<1>2. need = LastNeed /\ LastNeed' = LastNeed
  BY <1>1, ChunkAt, LastNeedKept DEF LastNeed
<1>3. Len(routes) \in Nat
  BY AppendElements DEF IInv, TraceOK
<1>4. phase' = "propagate" => Known' = {Len(routes)}
  BY <1>1, <1>3 DEF Known
<1> HIDE DEF need
<1>5. required'[Len(routes)] = LastNeed
  BY <1>1, <1>2
<1>6. Derived'
  BY <1>1, <1>2, <1>3, <1>4, <1>5 DEF Derived
<1>7. \A s \in Streams : Becomes(Len(routes), s)' = s
  BY <1>1, <1>3 DEF Becomes
<1>8. QED
  BY <1>1, <1>2, <1>4, <1>5, <1>6, <1>7 DEF AfterLift

LEMMA SameStretch ==
  ASSUME NEW i \in Stretch
  PROVE  Translated(i, 0, 0) = i
<1>1. i.begin \in Int /\ i.end \in Int /\ i = [begin |-> i.begin, end |-> i.end]
  BY DEF Stretch
<1>2. QED
  BY <1>1 DEF Translated, Interval

\* A swap exchanges what is needed, a scale needs what it writes.
LEMMA NeededAlike ==
  ASSUME NEW r, RouteOK(r), WithinOperands(r), ~IsLift(r.type), NEW need \in Needs,
         NEW s \in Streams
  PROVE  Needed(r, need)[s] = IF r.type = "swap" THEN need[Other[s]] ELSE need[s]
<1>1. CASE r.type = "swap"
  BY <1>1 DEF Needed, Streams, Other
<1>2. CASE IsScale(r.type)
  <2> DEFINE t == Target(r.type)
  <2>1. r.type # "swap" /\ r.sourceOffset = 0 /\ t \in Streams
    BY <1>2, StreamOf DEF IsScale, WithinOperands
  <2>2. Needed(r, need) = [need EXCEPT ![t] = Translated(need[t], 0, 0)]
    BY <1>2, <2>1 DEF Needed
  <2>3. Translated(need[t], 0, 0) = need[t]
    BY <2>1, SameStretch DEF Needs
  <2> HIDE DEF t
  <2>4. QED
    BY <2>1, <2>2, <2>3 DEF Needs
<1>3. QED
  BY <1>1, <1>2 DEF RouteOK, StepTypes, IsScale, IsLift

LEMMA BecomesBefore ==
  ASSUME IsSeq(routes), ScalesAreTerminal(routes), CanInline(routes),
         NEW i \in InlineRoute(routes) .. Len(routes) - 1, NEW s \in Streams
  PROVE  /\ i + 1 \in 1 .. Len(routes) /\ ~IsLift(routes[i + 1].type)
         /\ Becomes(i, s) = Becomes(i + 1, IF routes[i + 1].type = "swap" THEN Other[s] ELSE s)
<1> DEFINE n == Len(routes)
           m == InlineRoute(routes)
<1>1. /\ n \in Nat /\ m \in 1 .. n - 2
      /\ \A j \in m + 1 .. n - 2 : routes[j].type = "swap"
  BY AppendElements, InlineIs
<1>2. /\ routes[n].type \in {"scale-even", "scale-odd"}
      /\ routes[n - 1].type \in {"scale-even", "scale-odd"}
  BY DEF ScalesAreTerminal
<1> HIDE DEF n, m
<1>3. i \in m .. n - 1
  BY DEF m, n
<1>4. CASE i >= n - 2
  <2>1. i + 1 = n \/ i + 1 = n - 1
    BY <1>1, <1>3, <1>4
  <2>2. routes[i + 1].type # "swap" /\ ~IsLift(routes[i + 1].type)
    BY <1>2, <2>1 DEF IsLift
  <2>3. i + 1 >= n - 2 /\ i + 1 \in 1 .. n
    BY <1>1, <1>3, <1>4
  <2>4. QED
    BY <1>4, <2>2, <2>3 DEF Becomes, n
<1>5. CASE i < n - 2
  <2>1. i + 1 \in m + 1 .. n - 2 /\ i + 1 \in 1 .. n
    BY <1>1, <1>3, <1>5
  <2>2. routes[i + 1].type = "swap" /\ ~IsLift("swap")
    BY <1>1, <2>1 DEF IsLift
  <2> DEFINE d == n - 2 - i
  <2>3. d \in Nat /\ d > 0 /\ n - 2 - (i + 1) = d - 1
    BY <1>1, <1>3, <1>5
  <2>4. d % 2 = 0 <=> (d - 1) % 2 # 0
    BY <2>3
  <2>5. i + 1 >= n - 2 <=> d = 1
    BY <1>1, <1>3, <1>5
  <2>6. 1 % 2 # 0 /\ Other[Other[s]] = s
    BY StreamOf
  <2>7. Becomes(i, s) = IF d % 2 = 0 THEN s ELSE Other[s]
    BY <1>5, <1>1, <1>3 DEF Becomes, n
  <2>8. Becomes(i + 1, Other[s]) = IF d = 1 \/ (d - 1) % 2 = 0 THEN Other[s] ELSE s
    BY <2>3, <2>5, <2>6 DEF Becomes, n
  <2> HIDE DEF d
  <2>9. d = 1 => d % 2 # 0
    BY <2>6
  <2>10. QED
    BY <2>1, <2>2, <2>4, <2>7, <2>8, <2>9 DEF n
<1>6. QED
  BY <1>1, <1>3, <1>4, <1>5

LEMMA PropagateDerived ==
  ASSUME IInv, Measured, Terminal, Derived, AfterLift, Lwt!Propagate
  PROVE  Derived' /\ AfterLift'
<1> DEFINE need == Needed(routes[at], required[at])
<1>1. /\ ~job.inverse /\ phase = "propagate" /\ at > 0
      /\ UNCHANGED <<job, stream, routes, chunkCount, chunks, walk>>
      /\ at' = at - 1
      /\ \/ phase' = "refused"
         \/ phase' = "propagate" /\ required' = Extended(required, at - 1, need)
  BY LwtSame DEF Lwt!Propagate, Lwt!During, Lwt!Refuse
<1>2. Len(routes) \in Nat /\ at \in 1 .. Len(routes) /\ RouteOK(routes[at])
      /\ WithinOperands(routes[at]) /\ IsSeq(routes)
  BY <1>1, AppendElements DEF IInv, TraceOK, RequiredOK, Measured
<1>3. /\ DOMAIN required = at .. Len(routes) /\ at \in at .. Len(routes)
      /\ required[at] \in Needs /\ Known = at .. Len(routes)
  BY <1>1, <1>2 DEF IInv, RequiredOK, Known
<1>4. /\ (at - 1) + 1 = at /\ at - 1 \notin at .. Len(routes) /\ at - 1 # Len(routes)
      /\ Len(routes) \in at .. Len(routes) /\ at - 1 < Len(routes)
  BY <1>2
<1>5. phase' = "propagate" =>
        /\ Known' = (at .. Len(routes)) \union {at - 1}
        /\ required'[at - 1] = need
        /\ \A i \in at .. Len(routes) : required'[i] = required[i]
  BY <1>1, <1>2, <1>3, <1>4 DEF Known, Extended
<1>6. LastNeed' = LastNeed
  BY <1>1, LastNeedKept
<1>7. Derived'
  <2> SUFFICES ASSUME phase' = "propagate"
               PROVE  /\ \A i \in Known' : i < Len(routes) =>
                           required'[i] = Needed(routes[i + 1], required'[i + 1])
                      /\ required'[Len(routes)] = LastNeed
    BY <1>1, <1>6 DEF Derived
  <2>1. required'[Len(routes)] = LastNeed
    BY <1>1, <1>4, <1>5 DEF Derived
  <2>2. ASSUME NEW i \in Known', i < Len(routes)
        PROVE  required'[i] = Needed(routes[i + 1], required'[i + 1])
    <3>1. CASE i = at - 1
      BY <1>3, <1>4, <1>5, <3>1
    <3>2. CASE i # at - 1
      <4>1. i \in at .. Len(routes) /\ i + 1 \in at .. Len(routes)
        BY <1>2, <1>5, <2>2, <3>2
      <4>2. required[i] = Needed(routes[i + 1], required[i + 1])
        BY <1>1, <1>3, <2>2, <4>1 DEF Derived
      <4>3. QED
        BY <1>5, <4>1, <4>2
    <3>3. QED
      BY <3>1, <3>2
  <2>3. QED
    BY <2>1, <2>2
<1>8. ASSUME phase' = "propagate", CanInline(routes), NEW i \in Known',
             i >= InlineRoute(routes), NEW s \in Streams
      PROVE  required'[i][s] = LastNeed[Becomes(i, s)]
  <2>1. CASE i = at - 1
    <3> DEFINE z == IF routes[at].type = "swap" THEN Other[s] ELSE s
    <3>1. ScalesAreTerminal(routes)
      BY <1>1 DEF Terminal
    <3>2. InlineRoute(routes) \in 1 .. Len(routes) - 2
      BY <1>2, <1>8, <3>1, InlineIs
    <3>3. at - 1 \in InlineRoute(routes) .. Len(routes) - 1
      BY <1>2, <1>8, <2>1, <3>2
    <3>4. ~IsLift(routes[at].type) /\ Becomes(at - 1, s) = Becomes(at, z)
      BY <1>2, <1>4, <1>8, <3>1, <3>3, BecomesBefore
    <3>5. z \in Streams
      BY StreamOf
    <3>6. need[s] = required[at][z]
      BY <1>2, <1>3, <3>4, NeededAlike
    <3> HIDE DEF z
    <3>7. at >= InlineRoute(routes)
      BY <1>2, <3>2, <3>3
    <3>8. required[at][z] = LastNeed[Becomes(at, z)]
      BY <1>1, <1>3, <1>8, <3>5, <3>7 DEF AfterLift
    <3>9. QED
      BY <1>5, <1>8, <2>1, <3>4, <3>6, <3>8
  <2>2. CASE i # at - 1
    <3>1. i \in Known /\ required'[i] = required[i]
      BY <1>3, <1>5, <1>8, <2>2
    <3>2. QED
      BY <1>1, <1>8, <3>1 DEF AfterLift
  <2>3. QED
    BY <2>1, <2>2
<1>9. \A i : \A s : Becomes(i, s)' = Becomes(i, s)
  BY <1>1 DEF Becomes
<1>10. AfterLift'
  BY <1>1, <1>6, <1>8, <1>9 DEF AfterLift
<1>11. QED
  BY <1>7, <1>10

LEMMA DerivedKept ==
  ASSUME Derived, AfterLift, phase \in {"propagate", "place"},
         UNCHANGED <<job, stream, routes, chunkCount, chunks, required>>,
         phase' \in {"propagate", "place"} => Known' = Known
  PROVE  Derived' /\ AfterLift'
<1>1. LastNeed' = LastNeed
  BY LastNeedKept
<1>2. \A i : \A s : Becomes(i, s)' = Becomes(i, s)
  BY DEF Becomes
<1>3. Derived'
  BY <1>1 DEF Derived
<1>4. AfterLift'
  BY <1>1, <1>2 DEF AfterLift
<1>5. QED
  BY <1>3, <1>4

\* What is stored of a stream covers what is needed of it.
WalkCovers ==
    ~job.inverse /\ phase = "place" =>
      \A s \in Streams : Covers(walk.storage[s], required[at][s])

\* What goes to DRAM is a stream's share of the coefficients.
Delivers(r) ==
    \/ r.storage = "workspace" /\ r.outputOffset = 0
    \/ \E s \in Streams : /\ r.storage = FinalDram[s]
                          /\ r.outputOffset = LastNeed[s].begin
                          /\ r.outputLength = Extent(LastNeed[s])

Delivered(s) == \E k \in 1 .. Len(walk.routes) : walk.routes[k].storage = FinalDram[s]

\* Route i is the one by which the coefficients of stream s go to DRAM, or
\* comes after it.
Final(i, s) ==
    \/ i = InlineRoute(routes) /\ s = InlineResult(routes)
    \/ routes[i].type = ScaleOf[s]

WalkDelivers ==
    ~job.inverse /\ phase = "place" =>
      /\ CanInline(routes)
      /\ \A k \in 1 .. Len(walk.routes) : Delivers(walk.routes[k])
      /\ \A i \in 1 .. at : \A s \in Streams : Final(i, s) => Delivered(s)

LEMMA CoversParts ==
  ASSUME NEW i \in Stretch, NEW j \in Stretch, NEW k \in Stretch,
         j.begin <= j.end, k.begin <= k.end, Covers(i, Hull(j, k))
  PROVE  Covers(i, j) /\ Covers(i, k)
<1>1. /\ i.begin \in Int /\ i.end \in Int /\ j.begin \in Int /\ j.end \in Int
      /\ k.begin \in Int /\ k.end \in Int
  BY StretchIs
<1>2. QED
  BY <1>1 DEF Covers, Hull, Interval, Empty, Smaller, Larger

LEMMA LastNeedIs ==
  ASSUME IInv, SomeOutput, ~job.inverse, phase = "place", NEW s \in Streams
  PROVE  LastNeed[s] \in Stretch /\ LastNeed[s].begin < LastNeed[s].end
<1> DEFINE b == Boundary(Len(chunks))
           e == Smaller(Boundary(Len(chunks) + 1), Whole)
<1>1. Whole > 0
  BY DEF Whole, SomeOutput, IInv, TraceOK
<1>2. b \in Int /\ e \in Int /\ b < e
  BY <1>1, ChunkBounds DEF IInv, CountOK
<1>3. Lwt!Origin(s) \in Int
  BY OriginIs
<1>4. LastNeed[s] = Interval(b + Lwt!Origin(s), e + Lwt!Origin(s))
  BY DEF LastNeed
<1> HIDE DEF b, e
<1>5. QED
  BY <1>2, <1>3, <1>4, IntervalIs

\* A route more.
LEMMA RouteDelivers ==
  ASSUME IInv, WalkDelivers, ~job.inverse, phase = "place", phase' = "place",
         UNCHANGED <<job, stream, routes, chunkCount, chunks>>, at' = at + 1,
         NEW r, walk'.routes = Append(walk.routes, r), Delivers(r),
         \A s \in Streams : Final(at + 1, s) => Delivered(s) \/ r.storage = FinalDram[s]
  PROVE  WalkDelivers'
<1>1. IsSeq(walk.routes) /\ at \in Nat
  BY DEF IInv, WalkOK, ChunkOK, Placed, RequiredOK
<1>2. /\ Len(walk'.routes) = Len(walk.routes) + 1 /\ Len(walk.routes) \in Nat
      /\ walk'.routes[Len(walk.routes) + 1] = r
      /\ \A k \in 1 .. Len(walk.routes) : walk'.routes[k] = walk.routes[k]
  BY <1>1, AppendIsSeq, AppendElements
<1>3. \A k \in 1 .. Len(walk'.routes) :
        k \in 1 .. Len(walk.routes) \/ k = Len(walk.routes) + 1
  BY <1>2
<1>4. \A q : Delivers(q)' = Delivers(q)
  BY LastNeedKept DEF Delivers
<1>5. (\A k \in 1 .. Len(walk.routes) : Delivers(walk.routes[k]))'
  <2>1. \A k \in 1 .. Len(walk.routes) : Delivers(walk.routes[k])
    BY DEF WalkDelivers
  <2>2. SUFFICES ASSUME NEW k \in 1 .. Len(walk'.routes)
                 PROVE  (Delivers(walk.routes[k]))'
    OBVIOUS
  <2>3. PICK q : q = walk'.routes[k]
    OBVIOUS
  <2>4. Delivers(q)
    BY <1>2, <1>3, <2>1, <2>3
  <2>5. Delivers(q)'
    BY <1>4, <2>4
  <2>6. QED
    BY <2>3, <2>5 DEF Delivers
<1>6. \A s \in Streams : Delivered(s) \/ r.storage = FinalDram[s] => Delivered(s)'
  <2>1. \A k \in 1 .. Len(walk.routes) : k \in 1 .. Len(walk'.routes)
    BY <1>2
  <2>2. Len(walk.routes) + 1 \in 1 .. Len(walk'.routes)
    BY <1>2
  <2>3. QED
    BY <1>2, <2>1, <2>2 DEF Delivered
<1>7. \A i \in 1 .. at + 1 : i \in 1 .. at \/ i = at + 1
  BY <1>1
<1>8. \A i \in 1 .. at + 1 : \A s \in Streams : Final(i, s) => Delivered(s)'
  BY <1>6, <1>7 DEF WalkDelivers
<1>9. \A i : \A s : Final(i, s)' = Final(i, s)
  BY DEF Final
<1>10. QED
  BY <1>5, <1>8, <1>9 DEF WalkDelivers

\* No route more.
LEMMA NothingDelivers ==
  ASSUME IInv, WalkDelivers, ~job.inverse, phase = "place", phase' = "place",
         UNCHANGED <<job, stream, routes, chunkCount, chunks>>, at' = at + 1,
         walk'.routes = walk.routes,
         \A s \in Streams : Final(at + 1, s) => Delivered(s)
  PROVE  WalkDelivers'
<1>1. at \in Nat
  BY DEF IInv, RequiredOK
<1>2. \A q : Delivers(q)' = Delivers(q)
  BY LastNeedKept DEF Delivers
<1>3. \A s : Delivered(s)' = Delivered(s)
  BY DEF Delivered
<1>4. \A i \in 1 .. at + 1 : i \in 1 .. at \/ i = at + 1
  BY <1>1
<1>5. \A i : \A s : Final(i, s)' = Final(i, s)
  BY DEF Final
<1>6. QED
  BY <1>2, <1>3, <1>4, <1>5 DEF WalkDelivers

\* What the planner has found out about a forward chunk by the time it
\* places it.
Analysed ==
    /\ NeedsSome /\ Measured /\ Terminal /\ Derived /\ AfterLift
    /\ WalkCovers /\ WalkDelivers

\* The route that is placed next, and what is needed before and after it.
LEMMA PlacingAt ==
  ASSUME IInv, Analysed, ~job.inverse, phase = "place", at < Len(routes)
  PROVE  /\ Len(routes) \in Nat /\ at \in Nat /\ IsSeq(routes)
         /\ at \in Known /\ at + 1 \in Known /\ at + 1 \in 1 .. Len(routes)
         /\ RouteOK(routes[at + 1]) /\ WithinOperands(routes[at + 1])
         /\ required[at] \in Needs /\ required[at + 1] \in Needs
         /\ \A s \in Streams : /\ required[at][s].begin < required[at][s].end
                               /\ required[at + 1][s].begin < required[at + 1][s].end
         /\ required[at] = Needed(routes[at + 1], required[at + 1])
         /\ walk.storage \in Needs
         /\ \A s \in Streams : Covers(walk.storage[s], required[at][s])
         /\ ScalesAreTerminal(routes) /\ CanInline(routes)
<1>1. Len(routes) \in Nat /\ at \in Nat /\ at + 1 \in 1 .. Len(routes) /\ IsSeq(routes)
  BY AppendElements DEF IInv, TraceOK, RequiredOK
<1>2. at \in Known /\ at + 1 \in Known
  BY <1>1 DEF Known
<1>3. RouteOK(routes[at + 1]) /\ WithinOperands(routes[at + 1])
  BY <1>1 DEF IInv, TraceOK, Analysed, Measured
<1>4. /\ required[at] \in Needs /\ required[at + 1] \in Needs
      /\ \A s \in Streams : /\ required[at][s].begin < required[at][s].end
                            /\ required[at + 1][s].begin < required[at + 1][s].end
  BY <1>2 DEF IInv, RequiredOK, Analysed, NeedsSome
<1>5. required[at] = Needed(routes[at + 1], required[at + 1])
  BY <1>2 DEF Analysed, Derived
<1>6. /\ walk.storage \in Needs
      /\ \A s \in Streams : Covers(walk.storage[s], required[at][s])
      /\ ScalesAreTerminal(routes) /\ CanInline(routes)
  BY DEF IInv, WalkOK, Analysed, WalkCovers, WalkDelivers, Terminal
<1>7. QED
  BY <1>1, <1>2, <1>3, <1>4, <1>5, <1>6

\* A stream that is as long as it needs to be covers what is needed.
LEMMA CoversItself ==
  ASSUME NEW i \in Stretch
  PROVE  Covers(i, i)
BY StretchIs DEF Covers

\* The last lift yields the coefficients of the stream its result becomes.
LEMMA InlineNeed ==
  ASSUME IInv, Analysed, ~job.inverse, phase = "place", at < Len(routes),
         at + 1 = InlineRoute(routes)
  PROVE  /\ InlineResult(routes) \in Streams
         /\ required[at + 1][Target(routes[at + 1].type)] = LastNeed[InlineResult(routes)]
<1> DEFINE t == Target(routes[at + 1].type)
           m == InlineRoute(routes)
<1>1. /\ Len(routes) \in Nat /\ IsSeq(routes) /\ at + 1 \in Known
      /\ ScalesAreTerminal(routes) /\ CanInline(routes)
  BY PlacingAt
<1>2. m \in 1 .. Len(routes) - 2
  BY <1>1, InlineIs
<1>3. t \in Streams /\ Other[t] \in Streams
  BY StreamOf
<1>4. InlineResult(routes) = IF (Len(routes) - 2 - m) % 2 = 1 THEN Other[t] ELSE t
  BY DEF InlineResult
<1>5. Becomes(m, t) = IF m >= Len(routes) - 2 \/ (Len(routes) - 2 - m) % 2 = 0
                      THEN t ELSE Other[t]
  BY DEF Becomes
<1>6. required[at + 1][t] = LastNeed[Becomes(m, t)]
  <2>1. at + 1 >= InlineRoute(routes)
    BY <1>1, <1>2 DEF m
  <2>2. QED
    BY <1>1, <1>3, <2>1 DEF Analysed, AfterLift, m
<1> HIDE DEF t, m
<1>7. /\ m >= Len(routes) - 2 => Len(routes) - 2 - m = 0
      /\ Len(routes) - 2 - m \in Nat
  BY <1>1, <1>2
<1> DEFINE d == Len(routes) - 2 - m
<1>8. d % 2 = 0 <=> d % 2 # 1
  BY <1>7
<1>9. 0 % 2 = 0
  OBVIOUS
<1> HIDE DEF d
<1>10. m >= Len(routes) - 2 => d % 2 = 0
  BY <1>7, <1>9 DEF d
<1>11. Becomes(m, t) = InlineResult(routes)
  BY <1>4, <1>5, <1>8, <1>10 DEF d
<1>12. QED
  BY <1>3, <1>4, <1>6, <1>11 DEF t

LEMMA LiftAgrees ==
  ASSUME IInv, SomeOutput, Analysed, Lwt!PlaceLift
  PROVE  phase' = "place" /\ UNCHANGED fault /\ WalkCovers' /\ WalkDelivers'
<1>1. PICK type \in {"predict", "update"} :
        LET full == routes[at + 1]
            t == Target(type)
            output == required[at + 1][t]
            source == Translated(output, full.sourceOffset, full.k - 1)
            base == Translated(output, full.baseOffset, 0)
            inline == at + 1 = InlineRoute(routes)
        IN /\ ~job.inverse /\ phase = "place" /\ at < Len(routes)
           /\ full.type = type /\ at' = at + 1
           /\ UNCHANGED <<job, stream, routes, chunkCount, chunks, required>>
           /\ Has(Other[t], source) /\ Has(t, base) =>
                /\ UNCHANGED <<phase, fault>>
                /\ walk' = Lifted(full, output, source, base,
                     IF inline THEN FinalDram[InlineResult(routes)] ELSE "workspace",
                     IF inline /\ ~Empty(output) THEN output.begin ELSE 0)
  BY LwtSame, AnalysesSame DEF Lwt!PlaceLift, Lwt!Placing, Lwt!During, Lwt!Refuse
<1> DEFINE full == routes[at + 1]
           t == Target(full.type)
           o == Other[t]
           need == required[at + 1]
           output == need[t]
           source == Translated(output, full.sourceOffset, full.k - 1)
           base == Translated(output, full.baseOffset, 0)
           inline == at + 1 = InlineRoute(routes)
           storage == IF inline THEN FinalDram[InlineResult(routes)] ELSE "workspace"
           outputOffset == IF inline /\ ~Empty(output) THEN output.begin ELSE 0
<1>2. /\ ~job.inverse /\ phase = "place" /\ at < Len(routes) /\ at' = at + 1
      /\ UNCHANGED <<job, stream, routes, chunkCount, chunks, required>>
      /\ full.type \in {"predict", "update"}
      /\ Has(o, source) /\ Has(t, base) =>
           /\ UNCHANGED <<phase, fault>>
           /\ walk' = Lifted(full, output, source, base, storage, outputOffset)
  BY <1>1
<1>3. /\ RouteOK(full) /\ need \in Needs /\ walk.storage \in Needs
      /\ required[at] = Needed(full, need)
      /\ \A s \in Streams : need[s].begin < need[s].end
      /\ \A s \in Streams : required[at][s].begin < required[at][s].end
      /\ \A s \in Streams : Covers(walk.storage[s], required[at][s])
  BY <1>2, PlacingAt
<1>4. t \in Streams /\ o \in Streams /\ t # o /\ Streams = {t, o}
  BY StreamOf
<1>5. /\ IsLift(full.type) /\ ~IsScale(full.type) /\ full.type # "swap"
      /\ full.sourceOffset \in Nat /\ full.baseOffset \in Nat /\ full.k - 1 \in Nat
  BY <1>2, <1>3 DEF RouteOK, IsLift, IsScale
<1>6. Needed(full, need) = [need EXCEPT ![t] = base, ![o] = Hull(need[o], source)]
  BY <1>5 DEF Needed
<1>7. inline => /\ InlineResult(routes) \in Streams
                /\ output = LastNeed[InlineResult(routes)]
  BY <1>2, InlineNeed
<1>8. /\ output \in Stretch /\ need[o] \in Stretch
      /\ output.begin < output.end /\ need[o].begin < need[o].end
      /\ walk.storage[t] \in Stretch /\ walk.storage[o] \in Stretch
  BY <1>3, <1>4 DEF Needs
<1>9. DOMAIN need = Streams
  BY <1>3 DEF Needs
<1> HIDE DEF full, need, t, o
<1>10. base \in Stretch /\ source \in Stretch /\ source.begin <= source.end
  <2> HIDE DEF output
  <2>1. output.begin \in Int /\ output.end \in Int
    BY <1>8, StretchIs
  <2>2. base \in Stretch /\ source \in Stretch
    BY <1>5, <1>8, TranslatedIs
  <2>3. source.begin <= source.end
    BY <1>5, <1>8, <2>1 DEF Translated, Interval, Empty
  <2>4. QED
    BY <2>2, <2>3
<1>11. required[at][t] = base /\ required[at][o] = Hull(need[o], source)
  BY <1>3, <1>4, <1>6, <1>9
<1> HIDE DEF source, base, output
<1>12. Has(t, base) /\ Has(o, source) /\ Covers(walk.storage[o], need[o])
  <2>1. Covers(walk.storage[t], base) /\ Covers(walk.storage[o], Hull(need[o], source))
    BY <1>3, <1>4, <1>11
  <2>2. need[o].begin <= need[o].end
    BY <1>8, StretchIs
  <2>3. Covers(walk.storage[o], need[o]) /\ Covers(walk.storage[o], source)
    BY <1>8, <1>10, <2>1, <2>2, CoversParts
  <2>4. QED
    BY <2>1, <2>3 DEF Has
<1>13. /\ UNCHANGED <<phase, fault>>
       /\ walk' = Lifted(full, output, source, base, storage, outputOffset)
  BY <1>2, <1>12
<1> DEFINE r == [type |-> full.type, k |-> full.k,
                 source |-> walk.slot[o], base |-> walk.slot[t],
                 output |-> walk.slot.free, storage |-> storage,
                 sourceLength |-> Extent(walk.storage[o]),
                 baseLength |-> Extent(walk.storage[t]),
                 sourceOffset |-> Offset(o, source), baseOffset |-> Offset(t, base),
                 outputLength |-> Extent(output), outputOffset |-> outputOffset]
<1>14. /\ walk'.storage = [walk.storage EXCEPT ![t] = output]
       /\ walk'.routes = Append(walk.routes, r)
  BY <1>13 DEF Lifted, t, o, IInv, WalkOK
<1>15. r.storage = storage /\ r.outputOffset = outputOffset /\ r.outputLength = Extent(output)
  OBVIOUS
<1> HIDE DEF r
<1>16. WalkCovers'
  <2>1. /\ walk'.storage[t] = output /\ walk'.storage[o] = walk.storage[o]
        /\ required'[at'] = need
    BY <1>2, <1>3, <1>4, <1>14 DEF Needs, need
  <2>2. Covers(output, output)
    BY <1>8, CoversItself DEF output
  <2>3. \A s \in Streams : Covers(walk'.storage[s], required'[at'][s])
    BY <1>4, <1>12, <2>1, <2>2 DEF output
  <2>4. QED
    BY <2>3 DEF WalkCovers
<1>17. Delivers(r)
  <2>1. CASE inline
    <3>1. ~Empty(output)
      BY <1>8, StretchIs DEF Empty, output
    <3>2. QED
      BY <1>7, <1>15, <2>1, <3>1 DEF Delivers
  <2>2. CASE ~inline
    BY <1>15, <2>2 DEF Delivers
  <2>3. QED
    BY <2>1, <2>2
<1>18. \A s \in Streams : Final(at + 1, s) => r.storage = FinalDram[s]
  <2>1. \A s \in Streams : full.type # ScaleOf[s]
    BY <1>2 DEF Streams, ScaleOf
  <2>2. QED
    BY <1>15, <2>1 DEF Final, full
<1>19. WalkDelivers /\ phase' = "place"
  BY <1>2, <1>13 DEF Analysed
<1> HIDE DEF inline, storage, outputOffset
<1>20. WalkDelivers'
  BY <1>2, <1>14, <1>17, <1>18, <1>19, RouteDelivers
<1>21. QED
  BY <1>13, <1>16, <1>19, <1>20

LEMMA SwapAgrees ==
  ASSUME IInv, Analysed, Lwt!PlaceSwap
  PROVE  phase' = "place" /\ UNCHANGED fault /\ WalkCovers' /\ WalkDelivers'
<1>1. /\ ~job.inverse /\ phase = "place" /\ at < Len(routes) /\ at' = at + 1
      /\ UNCHANGED <<job, stream, routes, chunkCount, chunks, required, phase, fault>>
      /\ routes[at + 1].type = "swap" /\ walk' = Swapped
  BY LwtSame DEF Lwt!PlaceSwap, Lwt!Placing, Lwt!During
<1> DEFINE need == required[at + 1]
<1>2. /\ required[at] = Needed(routes[at + 1], need)
      /\ \A s \in Streams : Covers(walk.storage[s], required[at][s])
      /\ IsSeq(routes) /\ ScalesAreTerminal(routes) /\ CanInline(routes)
  BY <1>1, PlacingAt
<1>3. required[at] = [even |-> need.odd, odd |-> need.even]
  BY <1>1, <1>2 DEF Needed
<1> HIDE DEF need
<1>4. /\ walk'.storage = [s \in Streams |-> walk.storage[Other[s]]]
      /\ walk'.routes = walk.routes
  BY <1>1 DEF Swapped, IInv, WalkOK
<1>5. \A s \in Streams : Covers(walk'.storage[s], need[s])
  <2>1. /\ walk'.storage["even"] = walk.storage["odd"]
        /\ walk'.storage["odd"] = walk.storage["even"]
    BY <1>4 DEF Streams, Other
  <2>2. Covers(walk.storage["even"], need.odd) /\ Covers(walk.storage["odd"], need.even)
    BY <1>2, <1>3 DEF Streams
  <2>3. QED
    BY <2>1, <2>2 DEF Streams
<1>6. WalkCovers'
  BY <1>1, <1>5 DEF WalkCovers, need
<1>7. \A s \in Streams : ~Final(at + 1, s)
  <2>1. \A s \in Streams : routes[at + 1].type # ScaleOf[s]
    BY <1>1 DEF Streams, ScaleOf
  <2>2. at + 1 # InlineRoute(routes)
    BY <1>1, <1>2, InlineIs DEF IsLift
  <2>3. QED
    BY <2>1, <2>2 DEF Final
<1>8. WalkDelivers /\ phase' = "place"
  BY <1>1 DEF Analysed
<1>9. WalkDelivers'
  BY <1>1, <1>4, <1>7, <1>8, NothingDelivers
<1>10. QED
  BY <1>1, <1>6, <1>8, <1>9

\* Where the two scales are.
LEMMA ScaleAt ==
  ASSUME IsSeq(routes), ScalesAreTerminal(routes)
  PROVE  /\ \A i \in 1 .. Len(routes) : \A s \in Streams :
              routes[i].type = ScaleOf[s] => i > Len(routes) - 2
         /\ \A s \in Streams : \E i \in 1 .. Len(routes) : routes[i].type = ScaleOf[s]
<1>1. Len(routes) \in Nat
  BY AppendElements
<1> DEFINE n == Len(routes)
<1>2. /\ n >= 2 /\ \A i \in 1 .. n - 2 : ~IsScale(routes[i].type)
      /\ {routes[n - 1].type, routes[n].type} = {"scale-even", "scale-odd"}
  BY DEF ScalesAreTerminal
<1> HIDE DEF n
<1>3. \A s \in Streams : ScaleOf[s] \in {"scale-even", "scale-odd"} /\ IsScale(ScaleOf[s])
  BY DEF ScaleOf, Streams, IsScale
<1>4. n - 1 \in 1 .. n /\ n \in 1 .. n
  BY <1>1, <1>2 DEF n
<1>5. \A i \in 1 .. n : i \in 1 .. n - 2 \/ i > n - 2
  BY <1>1 DEF n
<1>6. \A i \in 1 .. n : \A s \in Streams : routes[i].type = ScaleOf[s] => i > n - 2
  BY <1>2, <1>3, <1>5
<1>7. \A s \in Streams : \E i \in 1 .. n : routes[i].type = ScaleOf[s]
  BY <1>2, <1>3, <1>4
<1>8. QED
  BY <1>6, <1>7 DEF n

LEMMA ScaleAgrees ==
  ASSUME IInv, SomeOutput, Analysed, Lwt!PlaceScale
  PROVE  phase' = "place" /\ UNCHANGED fault /\ WalkCovers' /\ WalkDelivers'
<1>1. PICK s \in Streams :
        LET output == required[at + 1][s]
            offset == Offset(s, output)
        IN /\ ~job.inverse /\ phase = "place" /\ at < Len(routes) /\ at' = at + 1
           /\ UNCHANGED <<job, stream, routes, chunkCount, chunks, required>>
           /\ routes[at + 1].type = ScaleOf[s]
           /\ s = InlineResult(routes) => UNCHANGED <<phase, fault, walk>>
           /\ s # InlineResult(routes) /\ Has(s, output) =>
                /\ walk' = [walk EXCEPT !.routes = Append(@,
                     [type |-> ScaleOf[s], k |-> 1,
                      source |-> walk.slot[s], base |-> walk.slot[s],
                      output |-> walk.slot[s], storage |-> FinalDram[s],
                      sourceLength |-> Extent(walk.storage[s]),
                      baseLength |-> Extent(walk.storage[s]),
                      sourceOffset |-> offset, baseOffset |-> offset,
                      outputLength |-> Extent(output),
                      outputOffset |-> IF Empty(output) THEN 0 ELSE output.begin])]
                /\ UNCHANGED <<phase, fault>>
  BY LwtSame, AnalysesSame DEF Lwt!PlaceScale, Lwt!Placing, Lwt!During, Lwt!Refuse
<1> DEFINE need == required[at + 1]
           output == need[s]
           r == [type |-> ScaleOf[s], k |-> 1,
                 source |-> walk.slot[s], base |-> walk.slot[s],
                 output |-> walk.slot[s], storage |-> FinalDram[s],
                 sourceLength |-> Extent(walk.storage[s]),
                 baseLength |-> Extent(walk.storage[s]),
                 sourceOffset |-> Offset(s, output), baseOffset |-> Offset(s, output),
                 outputLength |-> Extent(output),
                 outputOffset |-> IF Empty(output) THEN 0 ELSE output.begin]
<1>2. /\ ~job.inverse /\ phase = "place" /\ at < Len(routes) /\ at' = at + 1
      /\ UNCHANGED <<job, stream, routes, chunkCount, chunks, required>>
      /\ routes[at + 1].type = ScaleOf[s]
      /\ s = InlineResult(routes) => UNCHANGED <<phase, fault, walk>>
      /\ s # InlineResult(routes) /\ Has(s, output) =>
           walk' = [walk EXCEPT !.routes = Append(@, r)] /\ UNCHANGED <<phase, fault>>
  BY <1>1
<1>3. /\ Len(routes) \in Nat /\ at \in Nat /\ IsSeq(routes)
      /\ at + 1 \in Known /\ at + 1 \in 1 .. Len(routes)
      /\ RouteOK(routes[at + 1]) /\ WithinOperands(routes[at + 1])
      /\ need \in Needs /\ \A x \in Streams : need[x].begin < need[x].end
      /\ required[at] = Needed(routes[at + 1], need)
      /\ \A x \in Streams : Covers(walk.storage[x], required[at][x])
      /\ ScalesAreTerminal(routes) /\ CanInline(routes)
  BY <1>2, PlacingAt
<1>4. ~IsLift(routes[at + 1].type) /\ routes[at + 1].type # "swap"
  BY <1>2 DEF IsLift, ScaleOf, Streams
<1>5. \A x \in Streams : Covers(walk.storage[x], need[x])
  <2> HIDE DEF need
  <2>1. \A x \in Streams : Needed(routes[at + 1], need)[x] = need[x]
    BY <1>3, <1>4, NeededAlike
  <2>2. QED
    BY <1>3, <2>1
<1>6. InlineRoute(routes) \in 1 .. Len(routes) - 2 /\ IsLift(routes[InlineRoute(routes)].type)
  BY <1>3, InlineIs
<1>7. at + 1 > Len(routes) - 2
  BY <1>2, <1>3, ScaleAt
<1>8. \A x \in Streams : Final(at + 1, x) <=> x = s
  <2>1. \A x \in Streams : ScaleOf[x] = ScaleOf[s] <=> x = s
    BY DEF ScaleOf, Streams
  <2>2. at + 1 # InlineRoute(routes)
    BY <1>4, <1>6
  <2>3. QED
    BY <1>2, <2>1, <2>2 DEF Final
<1>9. WalkDelivers
  BY DEF Analysed
<1>10. CASE s = InlineResult(routes)
  <2>1. UNCHANGED <<phase, fault, walk>>
    BY <1>2, <1>10
  <2>2. WalkCovers'
    BY <1>2, <1>5, <2>1 DEF WalkCovers
  <2>3. Delivered(s)
    <3>1. InlineRoute(routes) \in 1 .. at
      BY <1>3, <1>6, <1>7
    <3>2. Final(InlineRoute(routes), s)
      BY <1>10 DEF Final
    <3>3. QED
      BY <1>2, <1>9, <3>1, <3>2 DEF WalkDelivers
  <2>4. \A x \in Streams : Final(at + 1, x) => Delivered(x)
    BY <1>8, <2>3
  <2>5. walk'.routes = walk.routes /\ phase' = "place"
    BY <1>2, <2>1
  <2>6. WalkDelivers'
    BY <1>2, <1>9, <2>4, <2>5, NothingDelivers
  <2>7. QED
    BY <2>1, <2>2, <2>5, <2>6
<1>11. CASE s # InlineResult(routes)
  <2>1. Has(s, output)
    BY <1>5 DEF Has
  <2>2. walk' = [walk EXCEPT !.routes = Append(@, r)] /\ UNCHANGED <<phase, fault>>
    BY <1>2, <1>11, <2>1
  <2>3. output \in Stretch /\ ~Empty(output)
    <3>1. output \in Stretch /\ output.begin < output.end
      BY <1>3 DEF Needs
    <3> HIDE DEF output
    <3>2. ~Empty(output)
      BY <3>1, StretchIs DEF Empty
    <3>3. QED
      BY <3>1, <3>2
  <2>4. output = LastNeed[s]
    <3>1. at + 1 >= InlineRoute(routes) /\ at + 1 >= Len(routes) - 2
      BY <1>3, <1>6, <1>7
    <3>2. Becomes(at + 1, s) = s
      BY <3>1 DEF Becomes
    <3>3. QED
      BY <1>2, <1>3, <3>1, <3>2 DEF Analysed, AfterLift
  <2>5. /\ r.storage = FinalDram[s] /\ r.outputOffset = output.begin
        /\ r.outputLength = Extent(output)
    BY <2>3
  <2> HIDE DEF r, output
  <2>6. walk'.routes = Append(walk.routes, r) /\ walk'.storage = walk.storage
    BY <2>2 DEF IInv, WalkOK
  <2>7. Delivers(r)
    BY <2>4, <2>5 DEF Delivers
  <2>8. WalkCovers'
    BY <1>2, <1>5, <2>6 DEF WalkCovers
  <2>9. phase' = "place" /\ \A x \in Streams : Final(at + 1, x) => r.storage = FinalDram[x]
    BY <1>2, <1>8, <2>2, <2>5
  <2>10. WalkDelivers'
    BY <1>2, <1>9, <2>6, <2>7, <2>9, RouteDelivers
  <2>11. QED
    BY <2>2, <2>8, <2>9, <2>10
<1>12. QED
  BY <1>10, <1>11

LEMMA StartDelivers ==
  ASSUME IInv, NeedsSome, Measured, Lwt!StartWalk
  PROVE  WalkCovers' /\ WalkDelivers'
<1>1. /\ ~job.inverse /\ phase = "propagate" /\ at = 0
      /\ UNCHANGED <<routes, required, at, job>> /\ walk' = WalkFrom(required[0])
  BY LwtSame DEF Lwt!StartWalk, Lwt!During
<1>2. walk'.storage = required[0] /\ walk'.routes = <<>>
  BY <1>1 DEF WalkFrom
<1>3. phase' = "place" => CanInline(routes)
  BY WalkAgrees
<1>4. required[0] \in Needs
  BY <1>1 DEF IInv, RequiredOK, Known
<1>5. WalkCovers'
  BY <1>1, <1>2, <1>4, CoversItself DEF WalkCovers, Needs
<1>6. 1 .. Len(<<>>) = {} /\ 1 .. 0 = {}
  BY EmptyIsSeq
<1>7. WalkDelivers'
  BY <1>1, <1>2, <1>3, <1>6 DEF WalkDelivers
<1>8. QED
  BY <1>5, <1>7

-----------------------------------------------------------------------------
(***************************************************************************)
(* Chunk n writes its share of the coefficients of either kind, no more    *)
(* and no less.                                                            *)
(***************************************************************************)
Writes(c, n) ==
    \A s \in Streams :
      /\ \E k \in 1 .. Len(c.routes) : c.routes[k].storage = FinalDram[s]
      /\ \A k \in 1 .. Len(c.routes) :
           c.routes[k].storage = FinalDram[s] =>
             /\ c.routes[k].outputOffset = Boundary(n - 1)
             /\ c.routes[k].outputLength = Smaller(Boundary(n), Whole) - Boundary(n - 1)

Tiles ==
    ~job.inverse =>
      /\ phase \in {"chunks", "propagate", "place", "planned"} =>
           \A n \in 1 .. Len(chunks) : Writes(chunks[n], n)
      /\ phase = "planned" => Len(chunks) = chunkCount

\* A route that is sent to DRAM, with its offset from coefficient 0.
LEMMA FromOriginIs ==
  ASSUME IInv, SomeOutput, ~job.inverse, phase = "place",
         NEW r, DOMAIN r = PlacedFields, Delivers(r)
  PROVE  LET q == Lwt!FromOrigin(r)
             b == Boundary(Len(chunks))
             e == Smaller(Boundary(Len(chunks) + 1), Whole)
         IN /\ q.storage = r.storage
            /\ q.storage = "workspace" => q.outputOffset = 0
            /\ q.storage # "workspace" => q.outputOffset = b /\ q.outputLength = e - b
            /\ q.outputOffset >= 0
<1> DEFINE q == Lwt!FromOrigin(r)
           b == Boundary(Len(chunks))
           e == Smaller(Boundary(Len(chunks) + 1), Whole)
<1>1. b \in Nat /\ e \in Nat
  BY ChunkBounds DEF IInv, CountOK
<1>2. CASE r.storage = "workspace" /\ r.outputOffset = 0
  BY <1>2 DEF Lwt!FromOrigin
<1>3. ASSUME NEW s \in Streams, r.storage = FinalDram[s],
             r.outputOffset = LastNeed[s].begin, r.outputLength = Extent(LastNeed[s])
      PROVE  q.storage = r.storage /\ q.outputOffset = b /\ q.outputLength = e - b
  <2>1. r.storage # "workspace"
    BY <1>3 DEF FinalDram, Streams
  <2> DEFINE x == CHOOSE x \in Streams : FinalDram[x] = r.storage
  <2>2. x = s
    <3> DEFINE P(z) == FinalDram[z] = r.storage
    <3>1. \A z \in Streams : P(z) <=> z = s
      BY <1>3 DEF FinalDram, Streams
    <3>2. x = CHOOSE z \in Streams : P(z)
      OBVIOUS
    <3> HIDE DEF P, x
    <3>3. x \in Streams /\ P(x)
      BY <3>1, <3>2, Zenon
    <3>4. QED
      BY <3>1, <3>3
  <2>3. q = [r EXCEPT !.outputOffset = @ - Lwt!Origin(x)]
    BY <2>1, LwtSame, AnalysesSame DEF Lwt!FromOrigin
  <2> HIDE DEF q, x
  <2>4. /\ q.storage = r.storage /\ q.outputLength = r.outputLength
        /\ q.outputOffset = r.outputOffset - Lwt!Origin(s)
    BY <2>2, <2>3 DEF PlacedFields
  <2>5. Lwt!Origin(s) \in Int
    BY OriginIs
  <2>6. LastNeed[s] = Interval(b + Lwt!Origin(s), e + Lwt!Origin(s))
    BY DEF LastNeed
  <2> HIDE DEF b, e
  <2>7. /\ LastNeed[s].begin = b + Lwt!Origin(s)
        /\ Extent(LastNeed[s]) = (e + Lwt!Origin(s)) - (b + Lwt!Origin(s))
    BY <2>6 DEF Interval, Extent
  <2>8. QED
    BY <1>1, <1>3, <2>4, <2>5, <2>7
<1>4. ASSUME NEW s \in Streams PROVE FinalDram[s] # "workspace"
  BY DEF FinalDram, Streams
<1> HIDE DEF q, b, e
<1>5. /\ q.storage = r.storage /\ q.outputOffset >= 0
      /\ q.storage = "workspace" => q.outputOffset = 0
      /\ q.storage # "workspace" => q.outputOffset = b /\ q.outputLength = e - b
  <2>1. CASE r.storage = "workspace" /\ r.outputOffset = 0
    <3>1. q = r
      BY <2>1 DEF q, Lwt!FromOrigin
    <3>2. QED
      BY <2>1, <3>1
  <2>2. ASSUME NEW s \in Streams, r.storage = FinalDram[s],
               r.outputOffset = LastNeed[s].begin, r.outputLength = Extent(LastNeed[s])
        PROVE  /\ q.storage = r.storage /\ q.outputOffset >= 0
               /\ q.storage = "workspace" => q.outputOffset = 0
               /\ q.storage # "workspace" => q.outputOffset = b /\ q.outputLength = e - b
    BY <1>1, <1>3, <1>4, <2>2
  <2>3. QED
    BY <2>1, <2>2 DEF Delivers
<1>6. QED
  BY <1>5 DEF q, b, e

\* When every route has been placed, both kinds of coefficients go to DRAM.
LEMMA BothDelivered ==
  ASSUME IInv, Analysed, ~job.inverse, phase = "place", at = Len(routes)
  PROVE  \A s \in Streams : Delivered(s)
<1>1. IsSeq(routes) /\ ScalesAreTerminal(routes)
  BY DEF IInv, TraceOK, Analysed, Terminal
<1>2. ASSUME NEW s \in Streams PROVE \E i \in 1 .. at : Final(i, s)
  <2>1. PICK i \in 1 .. Len(routes) : routes[i].type = ScaleOf[s]
    BY <1>1, ScaleAt
  <2>2. QED
    BY <2>1 DEF Final
<1>3. QED
  BY <1>2 DEF Analysed, WalkDelivers

LEMMA FinishAgrees ==
  ASSUME IInv, SomeOutput, Analysed, Tiles, Lwt!FinishChunk
  PROVE  phase' = "chunks" /\ UNCHANGED fault /\ Tiles'
<1> DEFINE built == [k \in 1 .. Len(walk.routes) |-> Lwt!FromOrigin(walk.routes[k])]
           c == [initial |-> required[0], routes |-> built, workspace |-> walk.workspace]
           b == Boundary(Len(chunks))
           e == Smaller(Boundary(Len(chunks) + 1), Whole)
<1>1. /\ phase = "place" /\ ~job.inverse /\ at = Len(routes)
      /\ UNCHANGED <<job, chunkCount>>
      /\ (\A k \in 1 .. Len(built) : built[k].outputOffset >= 0) =>
           chunks' = Append(chunks, c) /\ phase' = "chunks" /\ UNCHANGED fault
  BY LwtSame DEF Lwt!FinishChunk, Lwt!During, Lwt!Refuse
<1>2. IsSeq(walk.routes) /\ IsSeq(chunks)
  BY <1>1 DEF IInv, WalkOK, ChunkOK, Placed, ChunksOK
<1>3. Len(built) = Len(walk.routes) /\ c.routes = built
  <2>1. Len(walk.routes) \in Nat
    BY <1>2, AppendElements
  <2>2. QED
    BY <2>1, FunctionIsSeq
<1>4. ASSUME NEW k \in 1 .. Len(walk.routes)
      PROVE  /\ built[k].storage = walk.routes[k].storage
             /\ built[k].storage # "workspace" =>
                  built[k].outputOffset = b /\ built[k].outputLength = e - b
             /\ built[k].outputOffset >= 0
  <2> DEFINE r == walk.routes[k]
  <2>1. DOMAIN r = PlacedFields /\ Delivers(r)
    BY <1>1 DEF IInv, WalkOK, ChunkOK, Placed, Analysed, WalkDelivers
  <2>2. built[k] = Lwt!FromOrigin(r)
    OBVIOUS
  <2> HIDE DEF built, r
  <2>3. QED
    BY <1>1, <2>1, <2>2, FromOriginIs DEF r
<1>5. \A s \in Streams : \E k \in 1 .. Len(walk.routes) : walk.routes[k].storage = FinalDram[s]
  BY <1>1, BothDelivered DEF Delivered
<1>6. \A s \in Streams : FinalDram[s] # "workspace"
  BY DEF FinalDram, Streams
<1> HIDE DEF built, b, e
<1>7. chunks' = Append(chunks, c) /\ phase' = "chunks" /\ UNCHANGED fault
  BY <1>1, <1>3, <1>4
<1> HIDE DEF c
<1>8. /\ Len(chunks') = Len(chunks) + 1 /\ Len(chunks) \in Nat
      /\ chunks'[Len(chunks) + 1] = c
      /\ \A n \in 1 .. Len(chunks) : chunks'[n] = chunks[n]
  BY <1>2, <1>7, AppendIsSeq, AppendElements
<1>9. Writes(c, Len(chunks) + 1)
  <2>1. Len(chunks) + 1 - 1 = Len(chunks)
    BY <1>8
  <2>2. \A s \in Streams :
          /\ \E k \in 1 .. Len(c.routes) : c.routes[k].storage = FinalDram[s]
          /\ \A k \in 1 .. Len(c.routes) : c.routes[k].storage = FinalDram[s] =>
               c.routes[k].outputOffset = b /\ c.routes[k].outputLength = e - b
    BY <1>3, <1>4, <1>5, <1>6
  <2>3. QED
    BY <2>1, <2>2 DEF Writes, b, e
<1>10. \A x, n : Writes(x, n)' <=> Writes(x, n)
  BY <1>1, SameTotal DEF Writes
<1>11. \A n \in 1 .. Len(chunks') : n \in 1 .. Len(chunks) \/ n = Len(chunks) + 1
  BY <1>8
<1>12. \A n \in 1 .. Len(chunks') : Writes(chunks'[n], n)
  BY <1>1, <1>8, <1>9, <1>11 DEF Tiles
<1>13. Tiles'
  BY <1>7, <1>10, <1>12 DEF Tiles
<1>14. QED
  BY <1>7, <1>13

LEMMA TilesKept ==
  ASSUME Tiles, UNCHANGED <<job, chunkCount, chunks>>,
         \/ phase \in {"chunks", "propagate", "place", "planned"}
         \/ phase' \notin {"chunks", "propagate", "place", "planned"},
         phase' # "planned" \/ Len(chunks) = chunkCount
  PROVE  Tiles'
<1>1. \A x, n : Writes(x, n)' <=> Writes(x, n)
  BY SameTotal DEF Writes
<1>2. QED
  BY <1>1 DEF Tiles

\* What chunks there are of an accepted plan are all there is.
LEMMA TiledWhole ==
  ASSUME IInv, SomeOutput, Tiles
  PROVE  ~job.inverse => Lwt!CoefficientsTiled
<1> SUFFICES ASSUME ~job.inverse, phase = "planned"
             PROVE  Lwt!CoefficientsTiled
  BY DEF Lwt!CoefficientsTiled
<1>1. /\ job \in Jobs /\ chunkCount \in 1 .. GroupTotal /\ Len(chunks) = chunkCount
      /\ \A n \in 1 .. Len(chunks) : Writes(chunks[n], n)
  BY DEF IInv, TraceOK, CountOK, Tiles
<1>2. Whole \in Nat /\ Whole > 0 /\ Whole = OutputLength(job) /\ Unit = GroupElements
      /\ GroupTotal \in Nat
  BY <1>1, Totals DEF Whole, Unit, SomeOutput
<1> DEFINE K == Len(chunks)
           First(n, s) == chunks[n].routes[Lwt!FinalRoute(chunks[n], s)].outputOffset
           Past(n, s) == First(n, s)
             + chunks[n].routes[Lwt!FinalRoute(chunks[n], s)].outputLength
<1>3. /\ Boundary(0) = 0 /\ Whole <= Boundary(K)
      /\ \A p \in 0 .. K : Boundary(p) \in Nat /\ Boundary(p) % GroupElements = 0
      /\ \A p \in 0 .. K - 1 : Boundary(p) < Whole
  BY <1>1, <1>2, Boundaries
<1>4. K \in Nat \ {0}
  BY <1>1, <1>2
<1>5. ASSUME NEW n \in 1 .. K, NEW s \in Streams
      PROVE  /\ First(n, s) = Boundary(n - 1)
             /\ Past(n, s) = Smaller(Boundary(n), Whole)
  <2> DEFINE c == chunks[n]
             F(k) == c.routes[k].storage = FinalDram[s]
             k == Lwt!FinalRoute(c, s)
  <2>1. Writes(c, n)
    BY <1>1
  <2>2. \E j \in 1 .. Len(c.routes) : F(j)
    BY <2>1 DEF Writes
  <2>3. k = CHOOSE j \in 1 .. Len(c.routes) : F(j)
    BY AnalysesSame DEF Lwt!FinalRoute
  <2> HIDE DEF F, k
  <2>4. k \in 1 .. Len(c.routes) /\ F(k)
    BY <2>2, <2>3, Zenon
  <2>5. /\ c.routes[k].outputOffset = Boundary(n - 1)
        /\ c.routes[k].outputLength = Smaller(Boundary(n), Whole) - Boundary(n - 1)
    BY <2>1, <2>4 DEF Writes, F
  <2>6. Boundary(n - 1) \in Nat /\ Boundary(n) \in Nat
    <3>1. n - 1 \in 0 .. K /\ n \in 0 .. K
      BY <1>4
    <3>2. QED
      BY <1>3, <3>1
  <2>7. Smaller(Boundary(n), Whole) \in Nat
    BY <1>2, <2>6 DEF Smaller
  <2>8. First(n, s) = c.routes[k].outputOffset
        /\ Past(n, s) = c.routes[k].outputOffset + c.routes[k].outputLength
    BY DEF k
  <2> HIDE DEF First, Past, c
  <2>9. QED
    BY <2>5, <2>6, <2>7, <2>8
<1> HIDE DEF First, Past, K
<1>6. ASSUME NEW s \in Streams PROVE First(1, s) = 0 /\ Past(K, s) = OutputLength(job)
  <2>1. 1 \in 1 .. K /\ K \in 1 .. K /\ 1 - 1 = 0
    BY <1>4
  <2>2. First(1, s) = Boundary(0) /\ Past(K, s) = Smaller(Boundary(K), Whole)
    BY <1>5, <2>1
  <2>3. Boundary(K) \in Nat
    BY <1>3, <1>4
  <2>4. QED
    BY <1>2, <1>3, <2>2, <2>3 DEF Smaller
<1>7. ASSUME NEW s \in Streams, NEW n \in 1 .. K - 1
      PROVE  First(n + 1, s) = Past(n, s) /\ Past(n, s) % GroupElements = 0
  <2>1. n \in 1 .. K /\ n + 1 \in 1 .. K /\ (n + 1) - 1 = n /\ n \in 0 .. K - 1
        /\ n \in 0 .. K
    BY <1>4
  <2>2. First(n + 1, s) = Boundary(n) /\ Past(n, s) = Smaller(Boundary(n), Whole)
    BY <1>5, <2>1
  <2>3. Boundary(n) < Whole /\ Boundary(n) \in Nat /\ Boundary(n) % GroupElements = 0
    BY <1>3, <2>1
  <2>4. Smaller(Boundary(n), Whole) = Boundary(n)
    BY <1>2, <2>3 DEF Smaller
  <2>5. QED
    BY <2>2, <2>3, <2>4
<1>8. Lwt!OutputLength(job) = OutputLength(job) /\ Lwt!Streams = Streams
  BY LwtSame
<1>9. QED
  BY <1>6, <1>7, <1>8 DEF Lwt!CoefficientsTiled, First, Past, K

-----------------------------------------------------------------------------
(***************************************************************************)
(* What a forward plan can be refused for, and what an accepted one        *)
(* writes.                                                                 *)
(***************************************************************************)
OnlyShapeRefused ==
    ~job.inverse =>
      \/ fault \in {"none", "scheme", "origin", "budget"}
      \/ fault = "dependency" /\ ~CanInline(routes)

Agreeing ==
    /\ Ends /\ Measured /\ Terminal /\ Derived /\ AfterLift
    /\ WalkCovers /\ WalkDelivers /\ Tiles /\ OnlyShapeRefused

LEMMA InitAgreeing == Init => Agreeing
<1> SUFFICES ASSUME Init PROVE Agreeing
  OBVIOUS
<1>1. /\ job \in Jobs /\ phase = "trace" /\ fault = "none" /\ routes = <<>>
      /\ stream = InitialStreams(job)
  BY DEF Init, TraceInit
<1>2. Len(<<>>) = 0 /\ 1 .. 0 = {}
  BY EmptyIsSeq
<1>3. SplitLength(job) \in [Streams -> Nat]
  BY <1>1, JobIs, PaddingIs
<1>4. SplitLength(job) = [s \in Streams |-> stream[s].length]
  BY <1>1, <1>3 DEF InitialStreams
<1>5. Lengths([n \in {0} |-> SplitLength(job)])
  <2> DEFINE f == [n \in {0} |-> SplitLength(job)]
  <2>1. f[0] = SplitLength(job) /\ f \in [{0} -> [Streams -> Nat]]
    BY <1>3
  <2>2. 0 .. 0 = {0}
    OBVIOUS
  <2> HIDE DEF f
  <2>3. f[0] = [s \in Streams |-> stream[s].length]
    BY <1>4, <2>1
  <2>4. Lengths(f)
    BY <1>1, <1>2, <2>1, <2>2, <2>3 DEF Lengths
  <2>5. QED
    BY <2>4 DEF f
<1>6. Measured
  BY <1>1, <1>2, <1>5 DEF Measured
<1>7. QED
  BY <1>1, <1>6 DEF Agreeing, Ends, Sized, Terminal, Derived, AfterLift, WalkCovers,
     WalkDelivers, Tiles, OnlyShapeRefused

LEMMA TraceAgrees ==
  ASSUME IInv, TypeOK, Agreeing, TraceNext
  PROVE  Agreeing'
<1>1. /\ phase = "trace" /\ phase' \in {"trace", "size", "refused"}
      /\ UNCHANGED job /\ (fault' = fault \/ fault' = "scheme")
  BY DEF TraceNext, AppendRoute, RouteTerminalScales, Refuse
<1>2. Measured' /\ Terminal'
  <2>1. CASE AppendRoute
    <3>1. phase' = "trace"
      BY <1>1, <2>1 DEF AppendRoute
    <3>2. Measured'
      BY <2>1, AppendMeasured DEF IInv, Agreeing
    <3>3. QED
      BY <3>1, <3>2 DEF Terminal
  <2>2. CASE RouteTerminalScales
    BY <2>2, TerminalMeasured DEF IInv, Agreeing
  <2>3. QED
    BY <2>1, <2>2 DEF TraceNext
<1>3. OnlyShapeRefused'
  <2>1. fault = "none"
    BY <1>1 DEF TypeOK
  <2>2. QED
    BY <1>1, <2>1 DEF OnlyShapeRefused
<1>4. QED
  BY <1>1, <1>2, <1>3 DEF Agreeing, Ends, Sized, Derived, AfterLift, WalkCovers,
     WalkDelivers, Tiles

LEMMA ForwardAgrees ==
  ASSUME IInv, TypeOK, SomeOutput, Producing, Agreeing, Lwt!Plan
  PROVE  Agreeing'
<1>1. UNCHANGED <<job, stream, routes>> /\ ~job.inverse
  BY DEF Lwt!Plan, Lwt!SizeChunks, Lwt!StartChunk, Lwt!Propagate, Lwt!StartWalk,
     Lwt!PlaceSwap, Lwt!PlaceLift, Lwt!PlaceScale, Lwt!Placing, Lwt!During,
     Lwt!FinishChunk, Lwt!Accept, Lwt!TryMoreChunks, Lwt!GiveUp, Lwt!Judging
<1>2. /\ phase \in {"size", "chunks", "propagate", "place"}
      /\ phase' \in {"chunks", "propagate", "place", "planned", "refused"}
      /\ phase = "size" => phase' \in {"chunks", "refused"}
  BY LwtSame
  DEF Lwt!Plan, Lwt!SizeChunks, Lwt!StartChunk, Lwt!Propagate, Lwt!StartWalk,
     Lwt!PlaceSwap, Lwt!PlaceLift, Lwt!PlaceScale, Lwt!Placing, Lwt!During,
     Lwt!FinishChunk, Lwt!Accept, Lwt!TryMoreChunks, Lwt!GiveUp, Lwt!Judging, Lwt!Refuse
<1>3. fault = "none"
  BY <1>2 DEF TypeOK
<1>4. Terminal'
  BY <1>1, <1>2 DEF Agreeing, Terminal
<1>5. phase # "size" => Ends'
  BY <1>1, <1>2, EndsKept DEF Agreeing
<1>6. phase' # "propagate" => Measured'
  BY <1>1, MeasuredKept DEF Agreeing
<1>7. phase' \notin {"propagate", "place"} => Derived' /\ AfterLift'
  BY DEF Derived, AfterLift
<1>8. phase' # "place" => WalkCovers' /\ WalkDelivers'
  BY DEF WalkCovers, WalkDelivers
<1>9. /\ IInv /\ NeedsNatural
      /\ phase \in {"propagate", "place"} => NeedsSome
      /\ Ends /\ Measured /\ Terminal /\ Derived /\ AfterLift
      /\ WalkCovers /\ WalkDelivers /\ Tiles
  BY <1>1 DEF Producing, Agreeing, TypeOK, NeedsNatural, Naturals
<1>10. fault' \in {"none", "scheme", "origin", "budget"} => OnlyShapeRefused'
  BY DEF OnlyShapeRefused
<1>11. CASE Lwt!SizeChunks
  <2>1. /\ phase = "size" /\ phase' \in {"chunks", "refused"} /\ UNCHANGED chunks
        /\ fault' \in {fault, "origin"}
    BY <1>11 DEF Lwt!SizeChunks, Lwt!During, Lwt!Refuse
  <2>2. Ends'
    BY <1>11, SizeEnds
  <2>3. 1 .. Len(<<>>) = {}
    BY EmptyIsSeq
  <2>4. chunks' = <<>>
    BY <2>1 DEF IInv, CountOK
  <2>5. Tiles'
    BY <2>1, <2>3, <2>4 DEF Tiles
  <2>6. QED
    BY <1>3, <1>4, <1>6, <1>7, <1>8, <1>10, <2>1, <2>2, <2>5 DEF Agreeing
<1>12. CASE Lwt!StartChunk
  <2>1. phase = "chunks" /\ UNCHANGED <<chunkCount, chunks>>
    BY <1>12 DEF Lwt!StartChunk, Lwt!During
  <2>2. phase' = "propagate" /\ UNCHANGED fault /\ Measured'
    BY <1>9, <1>12, StartAgrees
  <2>3. Derived' /\ AfterLift'
    BY <1>12, StartDerived
  <2>4. Tiles'
    BY <1>1, <1>9, <2>1, <2>2, TilesKept
  <2>5. QED
    BY <1>3, <1>4, <1>5, <1>8, <1>10, <2>1, <2>2, <2>3, <2>4 DEF Agreeing
<1>13. CASE Lwt!Propagate
  <2>1. phase = "propagate" /\ UNCHANGED <<chunkCount, chunks>>
    BY <1>13 DEF Lwt!Propagate, Lwt!During
  <2>2. phase' = "propagate" /\ UNCHANGED fault /\ Measured'
    BY <1>9, <1>13, PropagateAgrees
  <2>3. Derived' /\ AfterLift'
    BY <1>9, <1>13, PropagateDerived
  <2>4. Tiles'
    BY <1>1, <1>9, <2>1, <2>2, TilesKept
  <2>5. QED
    BY <1>3, <1>4, <1>5, <1>8, <1>10, <2>1, <2>2, <2>3, <2>4 DEF Agreeing
<1>14. CASE Lwt!StartWalk
  <2>1. /\ phase = "propagate" /\ phase' \in {"place", "refused"} /\ at = 0
        /\ UNCHANGED <<chunkCount, chunks, required, at>>
        /\ fault' \in {fault, "dependency"}
    BY <1>14 DEF Lwt!StartWalk, Lwt!During, Lwt!Refuse
  <2>2. CanInline(routes) => UNCHANGED fault
    BY <1>9, <1>14, WalkAgrees
  <2>3. phase' \in {"propagate", "place"} => Known' = Known
    BY <1>1, <2>1 DEF Known
  <2>4. Derived' /\ AfterLift'
    BY <1>1, <1>9, <2>1, <2>3, DerivedKept
  <2>5. WalkCovers' /\ WalkDelivers'
    BY <1>9, <1>14, <2>1, StartDelivers
  <2>6. Tiles'
    BY <1>1, <1>9, <2>1, TilesKept
  <2>7. OnlyShapeRefused'
    BY <1>1, <1>3, <2>1, <2>2 DEF OnlyShapeRefused
  <2>8. QED
    BY <1>4, <1>5, <1>6, <2>1, <2>4, <2>5, <2>6, <2>7 DEF Agreeing
<1>15. CASE Lwt!PlaceSwap \/ Lwt!PlaceLift \/ Lwt!PlaceScale
  <2>1. phase = "place" /\ UNCHANGED <<chunkCount, chunks, required>>
    BY <1>15 DEF Lwt!PlaceSwap, Lwt!PlaceLift, Lwt!PlaceScale, Lwt!Placing, Lwt!During
  <2>2. Analysed
    BY <1>9, <2>1 DEF Analysed
  <2>3. phase' = "place" /\ UNCHANGED fault /\ WalkCovers' /\ WalkDelivers'
    BY <1>15, <2>2, SwapAgrees, LiftAgrees, ScaleAgrees
  <2>4. Known' = Known
    BY <1>1, <2>1, <2>3 DEF Known
  <2>5. Derived' /\ AfterLift'
    BY <1>1, <1>9, <2>1, <2>4, DerivedKept
  <2>6. Tiles'
    BY <1>1, <1>9, <2>1, <2>3, TilesKept
  <2>7. QED
    BY <1>3, <1>4, <1>5, <1>6, <1>10, <2>1, <2>3, <2>5, <2>6 DEF Agreeing
<1>16. CASE Lwt!FinishChunk
  <2>1. phase = "place"
    BY <1>16 DEF Lwt!FinishChunk, Lwt!During
  <2>2. Analysed
    BY <1>9, <2>1 DEF Analysed
  <2>3. phase' = "chunks" /\ UNCHANGED fault /\ Tiles'
    BY <1>9, <1>16, <2>2, FinishAgrees
  <2>4. QED
    BY <1>3, <1>4, <1>5, <1>6, <1>7, <1>8, <1>10, <2>1, <2>3 DEF Agreeing
<1>17. CASE Lwt!Accept \/ Lwt!GiveUp(Lwt!GroupTotal)
  <2>1. /\ phase = "chunks" /\ phase' \in {"planned", "refused"}
        /\ UNCHANGED <<chunkCount, chunks>> /\ Len(chunks) = chunkCount
        /\ fault' \in {fault, "budget"}
    BY <1>17 DEF Lwt!Accept, Lwt!GiveUp, Lwt!Judging, Lwt!Refuse
  <2>2. Tiles'
    BY <1>1, <1>9, <2>1, TilesKept
  <2>3. QED
    BY <1>3, <1>4, <1>5, <1>6, <1>7, <1>8, <1>10, <2>1, <2>2 DEF Agreeing
<1>18. CASE Lwt!TryMoreChunks(Lwt!GroupTotal)
  <2>1. phase = "chunks" /\ UNCHANGED <<phase, fault>> /\ chunks' = <<>>
    BY <1>18 DEF Lwt!TryMoreChunks, Lwt!Judging
  <2>2. 1 .. Len(<<>>) = {}
    BY EmptyIsSeq
  <2>3. Tiles'
    BY <2>1, <2>2 DEF Tiles
  <2>4. QED
    BY <1>3, <1>4, <1>5, <1>6, <1>7, <1>8, <1>10, <2>1, <2>3 DEF Agreeing
<1>19. QED
  BY <1>11, <1>12, <1>13, <1>14, <1>15, <1>16, <1>17, <1>18 DEF Lwt!Plan

LEMMA AgreeingAlways == SomeOutput => (Spec => []Agreeing)
<1> SUFFICES ASSUME SomeOutput PROVE Spec => []Agreeing
  OBVIOUS
<1>1. IInv /\ TypeOK /\ Producing /\ Agreeing /\ [Next]_vars => Agreeing'
  <2> SUFFICES ASSUME IInv, TypeOK, Producing, Agreeing, [Next]_vars PROVE Agreeing'
    OBVIOUS
  <2>1. CASE TraceNext /\ UNCHANGED chunkVars
    BY <2>1, TraceAgrees
  <2>2. CASE Lwt!Plan
    BY <2>2, ForwardAgrees
  <2>3. CASE Ilwt!Plan
    <3>1. /\ job.inverse /\ UNCHANGED <<job, stream, routes>>
          /\ phase \notin {"trace", "refused"}
      BY <2>3, IlwtSame
      DEF Ilwt!Plan, Ilwt!SizeChunks, Ilwt!StartChunk, Ilwt!Propagate,
         Ilwt!StartWalk, Ilwt!PlaceSwap, Ilwt!PlaceLift, Ilwt!PlaceScale, Ilwt!Placing,
         Ilwt!During, Ilwt!FinishChunk, Ilwt!Accept, Ilwt!TryMoreChunks, Ilwt!GiveUp,
         Ilwt!Judging
    <3>2. Measured'
      BY <3>1, MeasuredKept DEF Agreeing
    <3>3. Terminal'
      BY <3>1 DEF Agreeing, Terminal
    <3>4. QED
      BY <3>1, <3>2, <3>3 DEF Agreeing, Ends, Sized, Derived, AfterLift, WalkCovers,
         WalkDelivers, Tiles, OnlyShapeRefused
  <2>4. CASE UNCHANGED vars
    <3>1. UNCHANGED <<phase, fault, job, stream, active, routes, chunkCount, chunks, at,
                      required, length, walk>>
      BY <2>4 DEF vars, traceVars, chunkVars
    <3>2. Ends'
      BY <3>1, EndsKept DEF Agreeing
    <3>3. Measured'
      <4>1. PICK f : /\ Lengths(f)
                     /\ ~job.inverse /\ phase = "propagate" =>
                          length = f[at] /\ AllValid(required[at], f[at])
        BY DEF Agreeing, Measured
      <4>2. SplitLength(job)' = SplitLength(job)
        BY <3>1 DEF SplitLength, PaddedLength, Pad
      <4>3. Lengths(f)'
        BY <3>1, <4>1, <4>2 DEF Lengths
      <4>4. QED
        BY <3>1, <4>1, <4>3 DEF Agreeing, Measured
    <3>4. /\ LastNeed' = LastNeed /\ Known' = Known
          /\ \A i, s : Becomes(i, s)' = Becomes(i, s)
      BY <3>1, LastNeedKept DEF Known, Becomes
    <3>5. Derived' /\ AfterLift'
      BY <3>1, <3>4 DEF Agreeing, Derived, AfterLift
    <3>6. Terminal' /\ WalkCovers' /\ OnlyShapeRefused'
      BY <3>1 DEF Agreeing, Terminal, WalkCovers, OnlyShapeRefused
    <3>7. WalkDelivers'
      <4>1. \A r : Delivers(r)' <=> Delivers(r)
        BY <3>4 DEF Delivers
      <4>2. \A i, s : (Final(i, s)' <=> Final(i, s)) /\ (Delivered(s)' <=> Delivered(s))
        BY <3>1 DEF Final, Delivered
      <4>3. QED
        BY <3>1, <4>1, <4>2 DEF Agreeing, WalkDelivers
    <3>8. Tiles'
      <4>1. \A c, n : Writes(c, n)' <=> Writes(c, n)
        BY <3>1, SameTotal DEF Writes
      <4>2. QED
        BY <3>1, <4>1 DEF Agreeing, Tiles
    <3>9. QED
      BY <3>2, <3>3, <3>5, <3>6, <3>7, <3>8 DEF Agreeing
  <2>5. QED
    BY <2>1, <2>2, <2>3, <2>4 DEF Next
<1>2. QED
  BY InitAgreeing, <1>1, Invariant, TypesKept, ProducingAlways, PTL DEF Spec

\* A forward plan is refused for what was asked for and for nothing else: the
\* scheme has not the shape of a lifting scheme, or nothing to scale inline,
\* its coefficients are not where canonical_start says they are, or the budget
\* is too small.  No TT_FATAL of backpropagate_requirements, local_offset or
\* build_chunk is reached otherwise: the backward and the forward analysis of a
\* chunk agree, for every length, number of cores and division into chunks.
THEOREM ForwardRefusals == SomeOutput => (Spec => []OnlyShapeRefused)
<1>1. Agreeing => OnlyShapeRefused
  BY DEF Agreeing
<1>2. QED
  BY <1>1, AgreeingAlways, PTL

\* The chunks of an accepted forward plan write every coefficient of both
\* kinds, each from exactly one chunk, and meet on boundaries of groups.
THEOREM EveryCoefficientOnce ==
  SomeOutput => (Spec => [](~job.inverse => Lwt!CoefficientsTiled))
<1> SUFFICES ASSUME SomeOutput PROVE Spec => [](~job.inverse => Lwt!CoefficientsTiled)
  OBVIOUS
<1>1. IInv /\ Agreeing => (~job.inverse => Lwt!CoefficientsTiled)
  BY TiledWhole DEF Agreeing
<1>2. QED
  BY <1>1, Invariant, AgreeingAlways, PTL

-----------------------------------------------------------------------------
(***************************************************************************)
(* The chunks of an inverse transform divide the samples in the same way.  *)
(***************************************************************************)
Spans(c, n) == c.begin = Boundary(n - 1) /\ c.end = Smaller(Boundary(n), Whole)

Spanned ==
    job.inverse =>
      /\ phase \in {"chunks", "propagate", "place", "planned"} =>
           \A n \in 1 .. Len(chunks) : Spans(chunks[n], n)
      /\ phase = "planned" => Len(chunks) = chunkCount

LEMMA FinishSpanned ==
  ASSUME IInv, Spanned, Ilwt!FinishChunk
  PROVE  Spanned'
<1>1. /\ phase = "place" /\ job.inverse /\ UNCHANGED <<job, chunkCount>>
      /\ phase' \in {"chunks", "refused"}
      /\ phase' = "chunks" =>
           \E c : chunks' = Append(chunks, c)
                    /\ c.begin = Ilwt!ChunkBegin /\ c.end = Ilwt!ChunkEnd
  BY IlwtSame DEF Ilwt!FinishChunk, Ilwt!During, Ilwt!Refuse
<1>0. \A x, n : Spans(x, n)' <=> Spans(x, n)
  BY <1>1, SameTotal DEF Spans
<1>2. SUFFICES ASSUME phase' = "chunks"
               PROVE  \A n \in 1 .. Len(chunks') : Spans(chunks'[n], n)
  BY <1>0, <1>1 DEF Spanned
<1>3. PICK c : /\ chunks' = Append(chunks, c)
               /\ c.begin = Ilwt!ChunkBegin /\ c.end = Ilwt!ChunkEnd
  BY <1>1, <1>2
<1>4. IsSeq(chunks) /\ Len(chunks) < chunkCount
  BY <1>1 DEF IInv, ChunksOK, CountOK
<1>5. /\ Len(chunks') = Len(chunks) + 1 /\ Len(chunks) \in Nat
      /\ chunks'[Len(chunks) + 1] = c
      /\ \A n \in 1 .. Len(chunks) : chunks'[n] = chunks[n]
  BY <1>3, <1>4, AppendIsSeq, AppendElements
<1>6. Spans(c, Len(chunks) + 1)
  <2>1. Len(chunks) + 1 - 1 = Len(chunks)
    BY <1>5
  <2>2. /\ c.begin = Boundary(Len(chunks))
        /\ c.end = Smaller(Boundary(Len(chunks) + 1), Whole)
    BY <1>1, <1>3, <1>4, ChunkAt
  <2>3. QED
    BY <2>1, <2>2 DEF Spans
<1>7. \A n \in 1 .. Len(chunks') : n \in 1 .. Len(chunks) \/ n = Len(chunks) + 1
  BY <1>5
<1>8. QED
  BY <1>1, <1>5, <1>6, <1>7 DEF Spanned

LEMMA NextSpanned ==
  ASSUME IInv, Spanned, [Next]_vars
  PROVE  Spanned'
<1>1. ASSUME UNCHANGED <<job, chunkCount, chunks>>,
             \/ phase \in {"chunks", "propagate", "place", "planned"}
             \/ phase' \notin {"chunks", "propagate", "place", "planned"}
             \/ chunks = <<>>,
             phase' # "planned" \/ Len(chunks) = chunkCount
      PROVE  Spanned'
  <2>1. \A x, n : Spans(x, n)' <=> Spans(x, n)
    BY <1>1, SameTotal DEF Spans
  <2>2. 1 .. Len(<<>>) = {}
    BY EmptyIsSeq
  <2>3. QED
    BY <1>1, <2>1, <2>2 DEF Spanned
<1>2. CASE TraceNext /\ UNCHANGED chunkVars
  <2>1. phase' \in {"trace", "size", "refused"}
    BY <1>2 DEF TraceNext, AppendRoute, RouteTerminalScales, Refuse
  <2>2. QED
    BY <2>1 DEF Spanned
<1>3. CASE Lwt!Plan
  <2>1. ~job'.inverse
    BY <1>3 DEF Lwt!Plan, Lwt!SizeChunks, Lwt!StartChunk, Lwt!Propagate, Lwt!StartWalk,
       Lwt!PlaceSwap, Lwt!PlaceLift, Lwt!PlaceScale, Lwt!Placing, Lwt!During,
       Lwt!FinishChunk, Lwt!Accept, Lwt!TryMoreChunks, Lwt!GiveUp, Lwt!Judging
  <2>2. QED
    BY <2>1 DEF Spanned
<1>4. CASE Ilwt!SizeChunks
  <2>1. /\ phase = "size" /\ phase' # "planned" /\ UNCHANGED <<job, chunks>>
    BY <1>4, IlwtSame DEF Ilwt!SizeChunks, Ilwt!During, Ilwt!Refuse
  <2>2. chunks' = <<>> /\ 1 .. Len(<<>>) = {}
    BY <2>1, EmptyIsSeq DEF IInv, CountOK
  <2>3. QED
    BY <2>1, <2>2 DEF Spanned
<1>5. CASE Ilwt!StartChunk \/ Ilwt!Propagate \/ Ilwt!StartWalk
  <2>1. /\ UNCHANGED <<job, chunkCount, chunks>> /\ phase' # "planned"
        /\ phase \in {"chunks", "propagate"}
    BY <1>5 DEF Ilwt!StartChunk, Ilwt!Propagate, Ilwt!StartWalk, Ilwt!During, Ilwt!Refuse
  <2>2. QED
    BY <1>1, <2>1
<1>6. CASE Ilwt!PlaceSwap \/ Ilwt!PlaceLift \/ Ilwt!PlaceScale
  <2>1. /\ UNCHANGED <<job, chunkCount, chunks>> /\ phase' # "planned"
        /\ phase = "place"
    BY <1>6 DEF Ilwt!PlaceSwap, Ilwt!PlaceLift, Ilwt!PlaceScale, Ilwt!Placing,
       Ilwt!During, Ilwt!Refuse
  <2>2. QED
    BY <1>1, <2>1
<1>7. CASE Ilwt!FinishChunk
  BY <1>7, FinishSpanned
<1>8. CASE Ilwt!Accept \/ Ilwt!GiveUp(Ilwt!GroupTotal)
  <2>1. /\ UNCHANGED <<job, chunkCount, chunks>> /\ Len(chunks) = chunkCount
        /\ phase = "chunks"
    BY <1>8 DEF Ilwt!Accept, Ilwt!GiveUp, Ilwt!Judging
  <2>2. QED
    BY <1>1, <2>1
<1>9. CASE Ilwt!TryMoreChunks(Ilwt!GroupTotal)
  <2>1. phase' # "planned" /\ chunks' = <<>>
    BY <1>9 DEF Ilwt!TryMoreChunks, Ilwt!Judging
  <2>2. 1 .. Len(<<>>) = {}
    BY EmptyIsSeq
  <2>3. QED
    BY <2>1, <2>2 DEF Spanned
<1>10. CASE UNCHANGED vars
  <2>1. UNCHANGED <<phase, job, chunkCount, chunks>>
    BY <1>10 DEF vars, traceVars, chunkVars
  <2>2. \A x, n : Spans(x, n)' <=> Spans(x, n)
    BY <2>1, SameTotal DEF Spans
  <2>3. QED
    BY <2>1, <2>2 DEF Spanned
<1>11. QED
  BY <1>2, <1>3, <1>4, <1>5, <1>6, <1>7, <1>8, <1>9, <1>10 DEF Next, Ilwt!Plan

LEMMA SpannedWhole ==
  ASSUME IInv, Spanned, job.inverse
  PROVE  Ilwt!SamplesTiled
<1> SUFFICES ASSUME phase = "planned"
             PROVE  Ilwt!SamplesTiled
  BY DEF Ilwt!SamplesTiled
<1>1. /\ job \in Jobs /\ chunkCount \in 1 .. GroupTotal /\ Len(chunks) = chunkCount
      /\ \A n \in 1 .. Len(chunks) : Spans(chunks[n], n)
  BY DEF IInv, TraceOK, CountOK, Spanned
<1>2. /\ Whole = job.length /\ Whole \in Nat /\ Whole > 0 /\ GroupTotal \in Nat
      /\ Unit = Ilwt!OutputGroup
  BY <1>1, Totals, JobIs DEF Whole, Unit, JobOK, Ilwt!OutputGroup
<1> DEFINE K == Len(chunks)
<1>3. /\ Boundary(0) = 0 /\ Whole <= Boundary(K)
      /\ \A p \in 0 .. K : Boundary(p) \in Nat /\ Boundary(p) % Unit = 0
      /\ \A p \in 0 .. K - 1 : Boundary(p) < Whole
  BY <1>1, <1>2, Boundaries
<1>4. K \in Nat \ {0}
  BY <1>1, <1>2
<1>5. \A n \in 1 .. K : /\ chunks[n].begin = Boundary(n - 1)
                        /\ chunks[n].end = Smaller(Boundary(n), Whole)
  BY <1>1 DEF Spans
<1> HIDE DEF K
<1>6. chunks[1].begin = 0 /\ chunks[K].end = job.length
  <2>1. 1 \in 1 .. K /\ K \in 1 .. K /\ 1 - 1 = 0 /\ K \in 0 .. K
    BY <1>4
  <2>2. chunks[1].begin = Boundary(0) /\ chunks[K].end = Smaller(Boundary(K), Whole)
    BY <1>5, <2>1
  <2>3. QED
    BY <1>2, <1>3, <2>1, <2>2 DEF Smaller
<1>7. ASSUME NEW n \in 1 .. K - 1
      PROVE  /\ chunks[n].end = chunks[n + 1].begin
             /\ chunks[n].end % Ilwt!OutputGroup = 0
  <2>1. n \in 1 .. K /\ n + 1 \in 1 .. K /\ (n + 1) - 1 = n /\ n \in 0 .. K - 1
        /\ n \in 0 .. K
    BY <1>4
  <2>2. chunks[n + 1].begin = Boundary(n) /\ chunks[n].end = Smaller(Boundary(n), Whole)
    BY <1>5, <2>1
  <2>3. Boundary(n) < Whole /\ Boundary(n) \in Nat /\ Boundary(n) % Unit = 0
    BY <1>3, <2>1
  <2>4. Smaller(Boundary(n), Whole) = Boundary(n)
    BY <1>2, <2>3 DEF Smaller
  <2>5. QED
    BY <1>2, <2>2, <2>3, <2>4
<1>8. QED
  BY <1>6, <1>7 DEF Ilwt!SamplesTiled, K

\* The chunks of an accepted inverse plan follow one another from sample 0 to
\* the last one and meet on boundaries of output groups: no sample is written
\* by two cores, and none by no core.
THEOREM EverySampleOnce == Spec => [](job.inverse => Ilwt!SamplesTiled)
<1>1. Init => Spanned
  <2> SUFFICES ASSUME Init PROVE Spanned
    OBVIOUS
  <2>1. phase = "trace"
    BY DEF Init, TraceInit
  <2>2. QED
    BY <2>1 DEF Spanned
<1>2. IInv /\ Spanned /\ [Next]_vars => Spanned'
  BY NextSpanned
<1>3. IInv /\ Spanned => (job.inverse => Ilwt!SamplesTiled)
  BY SpannedWhole
<1>4. QED
  BY <1>1, <1>2, <1>3, Invariant, PTL DEF Spec

-----------------------------------------------------------------------------
(***************************************************************************)
(* Placing the routes of an inverse chunk finds what was worked out to be  *)
(* needed.                                                                 *)
(***************************************************************************)
\* What is needed after route i follows from what is needed before it.
Undoing(i) ==
    /\ required[i] = NeededAfter(routes[i], required[i - 1])
    /\ IsLift(routes[i].type) =>
         CanSubtract(required[i - 1][Target(routes[i].type)], routes[i].baseOffset)

UndoneInOrder ==
    job.inverse /\ phase \in {"propagate", "place"} =>
      \A i \in Known : i > 0 => Undoing(i)

UndoneCovers ==
    job.inverse /\ phase = "place" =>
      \A s \in Streams : Covers(walk.storage[s], required[at][s])

UndoAgrees == UndoneInOrder /\ UndoneCovers

LEMMA InversePropagated ==
  ASSUME IInv, UndoAgrees, Ilwt!Propagate
  PROVE  UndoAgrees'
<1> DEFINE r == routes[at + 1]
           need == NeededAfter(r, required[at])
<1>1. /\ job.inverse /\ phase = "propagate" /\ at < Len(routes) /\ at' = at + 1
      /\ UNCHANGED <<job, routes>>
      /\ \/ phase' = "refused"
         \/ /\ phase' = "propagate" /\ required' = Extended(required, at + 1, need)
            /\ IsLift(r.type) => CanSubtract(required[at][Target(r.type)], r.baseOffset)
  BY IlwtSame
  DEF Ilwt!Propagate, Ilwt!During, Ilwt!Refuse, Ilwt!Kept, Ilwt!CanSubtract, CanSubtract
<1>2. Len(routes) \in Nat /\ at \in 0 .. Len(routes) - 1
  BY <1>1, AppendElements DEF IInv, TraceOK, RequiredOK
<1>3. DOMAIN required = 0 .. at /\ Known = 0 .. at
  BY <1>1 DEF IInv, RequiredOK, Known
<1>4. UndoneCovers'
  BY <1>1 DEF UndoneCovers
<1>5. CASE phase' = "refused"
  BY <1>4, <1>5 DEF UndoAgrees, UndoneInOrder
<1>6. CASE phase' = "propagate"
  <2>1. /\ required' = Extended(required, at + 1, need)
        /\ IsLift(r.type) => CanSubtract(required[at][Target(r.type)], r.baseOffset)
    BY <1>1, <1>6
  <2>2. Known' = 0 .. at + 1
    BY <1>1, <1>6 DEF Known
  <2>3. /\ required'[at + 1] = need
        /\ \A i \in 0 .. at : required'[i] = required[i]
    BY <1>2, <1>3, <2>1 DEF Extended
  <2>4. ASSUME NEW i \in 0 .. at + 1, i > 0
        PROVE  /\ required'[i] = NeededAfter(routes[i], required'[i - 1])
               /\ IsLift(routes[i].type) =>
                    CanSubtract(required'[i - 1][Target(routes[i].type)],
                                routes[i].baseOffset)
    <3>1. CASE i = at + 1
      <4>1. i - 1 = at /\ at \in 0 .. at
        BY <1>2, <3>1
      <4>2. required'[i - 1] = required[at] /\ required'[i] = need /\ routes[i] = r
        BY <2>3, <3>1, <4>1
      <4>3. QED
        BY <2>1, <4>2
    <3>2. CASE i # at + 1
      <4>1. i \in 0 .. at /\ i - 1 \in 0 .. at
        BY <1>2, <2>4, <3>2
      <4>2. Undoing(i)
        BY <1>1, <1>3, <2>4, <4>1 DEF UndoAgrees, UndoneInOrder
      <4>3. QED
        BY <2>3, <4>1, <4>2 DEF Undoing
    <3>3. QED
      BY <3>1, <3>2
  <2>5. UndoneInOrder'
    BY <1>1, <2>2, <2>4 DEF UndoneInOrder, Undoing
  <2>6. QED
    BY <1>4, <2>5 DEF UndoAgrees
<1>7. QED
  BY <1>1, <1>5, <1>6

\* The route that is undone next, and what is needed before and after it.
LEMMA UndoingAt ==
  ASSUME IInv, UndoAgrees, job.inverse, phase = "place", at > 0
  PROVE  /\ at \in Nat /\ at \in Known /\ at - 1 \in Known /\ RouteOK(routes[at])
         /\ required[at - 1] \in Needs /\ walk.storage \in Needs
         /\ \A s \in Streams : required[at - 1][s].begin <= required[at - 1][s].end
         /\ Undoing(at)
         /\ \A s \in Streams : Covers(walk.storage[s], required[at][s])
<1>1. Len(routes) \in Nat /\ at \in Nat /\ at \in 1 .. Len(routes)
  BY AppendElements DEF IInv, TraceOK, RequiredOK
<1>2. at \in Known /\ at - 1 \in Known
  BY <1>1 DEF Known
<1>3. QED
  BY <1>1, <1>2 DEF IInv, TraceOK, RequiredOK, WalkOK, UndoAgrees, UndoneInOrder,
     UndoneCovers

LEMMA UndoneKept ==
  ASSUME UndoneInOrder, phase \in {"propagate", "place"},
         UNCHANGED <<job, routes, required>>,
         phase' \in {"propagate", "place"} => Known' = Known
  PROVE  UndoneInOrder'
<1>1. \A i : Undoing(i)' <=> Undoing(i)
  BY DEF Undoing
<1>2. QED
  BY <1>1 DEF UndoneInOrder

LEMMA InverseLiftAgrees ==
  ASSUME IInv, UndoAgrees, Ilwt!PlaceLift
  PROVE  phase' = "place" /\ UndoneCovers'
<1>1. PICK type \in {"predict", "update"} :
        LET full == routes[at]
            t == Target(type)
            output == required[at - 1][t]
            target == Subtracted(output, full.baseOffset)
            source == Translated(target, full.sourceOffset, full.k - 1)
        IN /\ job.inverse /\ phase = "place" /\ at > 0
           /\ full.type = type /\ at' = at - 1 /\ UNCHANGED <<job, routes, required>>
           /\ /\ CanSubtract(output, full.baseOffset)
              /\ Has(Other[t], source) /\ Has(t, target)
              => /\ UNCHANGED phase
                 /\ walk' = Lifted(full, output, source, target, "workspace", 0)
  BY IlwtSame DEF Ilwt!PlaceLift, Ilwt!Placing, Ilwt!During, Ilwt!Refuse,
     Ilwt!CanSubtract, CanSubtract
<1> DEFINE full == routes[at]
           t == Target(full.type)
           o == Other[t]
           need == required[at - 1]
           output == need[t]
           target == Subtracted(output, full.baseOffset)
           source == Translated(target, full.sourceOffset, full.k - 1)
<1>2. /\ job.inverse /\ phase = "place" /\ at > 0 /\ at' = at - 1
      /\ UNCHANGED <<job, routes, required>>
      /\ full.type \in {"predict", "update"}
      /\ CanSubtract(output, full.baseOffset) /\ Has(o, source) /\ Has(t, target) =>
           /\ UNCHANGED phase
           /\ walk' = Lifted(full, output, source, target, "workspace", 0)
  BY <1>1
<1>3. /\ RouteOK(full) /\ need \in Needs /\ walk.storage \in Needs
      /\ \A s \in Streams : need[s].begin <= need[s].end
      /\ Undoing(at)
      /\ \A s \in Streams : Covers(walk.storage[s], required[at][s])
  BY <1>2, UndoingAt
<1>4. t \in Streams /\ o \in Streams /\ t # o /\ Streams = {t, o}
  BY StreamOf
<1>5. /\ IsLift(full.type) /\ ~IsScale(full.type) /\ full.type # "swap"
      /\ full.sourceOffset \in Nat /\ full.baseOffset \in Nat /\ full.k - 1 \in Nat
  BY <1>2, <1>3 DEF RouteOK, IsLift, IsScale
<1>6. NeededAfter(full, need) = [need EXCEPT ![t] = target, ![o] = Hull(need[o], source)]
  BY <1>5 DEF NeededAfter, Undone
<1>7. CanSubtract(output, full.baseOffset) /\ required[at] = NeededAfter(full, need)
  BY <1>3, <1>5 DEF Undoing
<1>8. /\ output \in Stretch /\ need[o] \in Stretch
      /\ output.begin <= output.end /\ need[o].begin <= need[o].end
      /\ walk.storage[t] \in Stretch /\ walk.storage[o] \in Stretch
      /\ DOMAIN need = Streams
  BY <1>3, <1>4 DEF Needs
<1> HIDE DEF full, need, t, o
<1>9. target \in Stretch /\ source \in Stretch /\ source.begin <= source.end
  <2> HIDE DEF output
  <2>1. output.begin \in Int /\ output.end \in Int
    BY <1>8, StretchIs
  <2>2. target \in Stretch
    BY <1>5, <1>8, TranslatedIs, full.baseOffset \in Int, full.k - 1 \in Int
  <2>3. target.begin <= target.end
    BY <1>5, <1>8, <2>1 DEF Subtracted, Interval, Empty
  <2> HIDE DEF target
  <2>4. source \in Stretch
    BY <1>5, <2>2, TranslatedIs
  <2>5. source.begin <= source.end
    BY <1>5, <2>2, <2>3, StretchIs DEF Translated, Interval, Empty
  <2>6. QED
    BY <2>2, <2>4, <2>5
<1>10. required[at][t] = target /\ required[at][o] = Hull(need[o], source)
  BY <1>4, <1>6, <1>7, <1>8
<1> HIDE DEF target, source, output
<1>11. Has(t, target) /\ Has(o, source) /\ Covers(walk.storage[o], need[o])
  <2>1. Covers(walk.storage[t], target) /\ Covers(walk.storage[o], Hull(need[o], source))
    BY <1>3, <1>4, <1>10
  <2>2. Covers(walk.storage[o], need[o]) /\ Covers(walk.storage[o], source)
    BY <1>8, <1>9, <2>1, CoversParts
  <2>3. QED
    BY <2>1, <2>2 DEF Has
<1>12. phase' = "place" /\ walk' = Lifted(full, output, source, target, "workspace", 0)
  BY <1>2, <1>7, <1>11
<1>13. walk'.storage = [walk.storage EXCEPT ![t] = output]
  BY <1>12 DEF Lifted, t, IInv, WalkOK
<1>14. /\ walk'.storage[t] = output /\ walk'.storage[o] = walk.storage[o]
       /\ required'[at'] = need
  BY <1>2, <1>3, <1>4, <1>13 DEF Needs, need
<1>15. Covers(output, output)
  BY <1>8, CoversItself
<1>16. \A s \in Streams : Covers(walk'.storage[s], required'[at'][s])
  BY <1>4, <1>11, <1>14, <1>15 DEF output
<1>17. QED
  BY <1>12, <1>16 DEF UndoneCovers

LEMMA InverseAloneAgrees ==
  ASSUME IInv, UndoAgrees, Ilwt!PlaceSwap \/ Ilwt!PlaceScale
  PROVE  phase' = "place" /\ UndoneCovers'
<1> DEFINE need == required[at - 1]
<1>1. /\ job.inverse /\ phase = "place" /\ at > 0 /\ at' = at - 1
      /\ UNCHANGED <<job, routes, required, phase>>
      /\ \/ routes[at].type = "swap" /\ walk' = Swapped
         \/ routes[at].type \in {"scale-even", "scale-odd"} /\ UNCHANGED walk
  BY IlwtSame DEF Ilwt!PlaceSwap, Ilwt!PlaceScale, Ilwt!Placing, Ilwt!During, Streams,
     ScaleOf
<1>2. /\ required[at] = NeededAfter(routes[at], need)
      /\ \A s \in Streams : Covers(walk.storage[s], required[at][s])
  BY <1>1, UndoingAt DEF Undoing
<1>3. CASE routes[at].type = "swap" /\ walk' = Swapped
  <2>1. required[at] = [even |-> need.odd, odd |-> need.even]
    BY <1>2, <1>3 DEF NeededAfter
  <2> HIDE DEF need
  <2>2. walk'.storage = [s \in Streams |-> walk.storage[Other[s]]]
    BY <1>1, <1>3 DEF Swapped, IInv, WalkOK
  <2>3. /\ walk'.storage["even"] = walk.storage["odd"]
        /\ walk'.storage["odd"] = walk.storage["even"]
    BY <2>2 DEF Streams, Other
  <2>4. Covers(walk.storage["even"], need.odd) /\ Covers(walk.storage["odd"], need.even)
    BY <1>2, <2>1 DEF Streams
  <2>5. \A s \in Streams : Covers(walk'.storage[s], need[s])
    BY <2>3, <2>4 DEF Streams
  <2>6. QED
    BY <1>1, <2>5 DEF UndoneCovers, need
<1>4. CASE routes[at].type \in {"scale-even", "scale-odd"} /\ UNCHANGED walk
  <2>1. required[at] = need
    BY <1>2, <1>4 DEF NeededAfter, IsScale
  <2>2. QED
    BY <1>1, <1>2, <1>4, <2>1 DEF UndoneCovers
<1>5. QED
  BY <1>1, <1>3, <1>4

LEMMA InverseFinishAgrees ==
  ASSUME IInv, UndoAgrees, Ilwt!FinishChunk
  PROVE  phase' = "chunks"
<1>1. /\ phase = "place" /\ job.inverse /\ at = 0
      /\ (\A s \in Streams : Has(s, required[0][s])) => phase' = "chunks"
  BY IlwtSame DEF Ilwt!FinishChunk, Ilwt!During, Ilwt!Refuse
<1>2. QED
  BY <1>1 DEF UndoAgrees, UndoneCovers, Has

LEMMA ForwardPlaces ==
  ASSUME IInv, SomeOutput, Producing, Agreeing, Lwt!Plan, phase = "place"
  PROVE  phase' # "refused"
<1>1. /\ Lwt!PlaceSwap \/ Lwt!PlaceLift \/ Lwt!PlaceScale \/ Lwt!FinishChunk
      /\ ~job.inverse
  BY DEF Lwt!Plan, Lwt!SizeChunks, Lwt!StartChunk, Lwt!Propagate, Lwt!StartWalk,
     Lwt!During, Lwt!Accept, Lwt!TryMoreChunks, Lwt!GiveUp, Lwt!Judging, Lwt!Placing,
     Lwt!PlaceSwap, Lwt!PlaceLift, Lwt!PlaceScale, Lwt!FinishChunk
<1>2. Analysed /\ Tiles
  BY <1>1 DEF Producing, Agreeing, Analysed
<1>3. QED
  BY <1>1, <1>2, SwapAgrees, LiftAgrees, ScaleAgrees, FinishAgrees

LEMMA InverseAgrees ==
  ASSUME IInv, UndoAgrees, Ilwt!Plan
  PROVE  UndoAgrees' /\ (phase = "place" => phase' # "refused")
<1>1. phase' \notin {"propagate", "place"} => UndoAgrees'
  BY DEF UndoAgrees, UndoneInOrder, UndoneCovers
<1>2. CASE \/ Ilwt!SizeChunks \/ Ilwt!Accept \/ Ilwt!TryMoreChunks(Ilwt!GroupTotal)
           \/ Ilwt!GiveUp(Ilwt!GroupTotal)
  <2>1. phase # "place" /\ phase' \notin {"propagate", "place"}
    BY <1>2 DEF Ilwt!SizeChunks, Ilwt!During, Ilwt!Accept, Ilwt!TryMoreChunks,
       Ilwt!GiveUp, Ilwt!Judging, Ilwt!Refuse
  <2>2. QED
    BY <1>1, <2>1
<1>3. CASE Ilwt!StartChunk
  <2>1. /\ job.inverse /\ phase = "chunks" /\ at' = 0 /\ UNCHANGED job
        /\ phase' \in {"propagate", "refused"}
    BY <1>3 DEF Ilwt!StartChunk, Ilwt!During, Ilwt!Refuse
  <2>2. phase' = "propagate" => \A i \in Known' : ~(i > 0)
    BY <2>1 DEF Known
  <2>3. QED
    BY <1>1, <2>1, <2>2 DEF UndoAgrees, UndoneInOrder, UndoneCovers
<1>4. CASE Ilwt!Propagate
  <2>1. phase = "propagate"
    BY <1>4 DEF Ilwt!Propagate, Ilwt!During
  <2>2. QED
    BY <1>4, <2>1, InversePropagated
<1>5. CASE Ilwt!StartWalk
  <2>1. /\ job.inverse /\ phase = "propagate" /\ phase' \in {"place", "refused"}
        /\ at = Len(routes) /\ UNCHANGED <<job, routes, required, at>>
        /\ walk' = WalkFrom(required[at])
    BY <1>5, IlwtSame DEF Ilwt!StartWalk, Ilwt!During, Ilwt!Refuse
  <2>2. Known' = Known
    BY <2>1 DEF Known
  <2>3. UndoneInOrder'
    BY <2>1, <2>2, UndoneKept DEF UndoAgrees
  <2>4. Len(routes) \in Nat /\ required[at] \in Needs
    BY <2>1, AppendElements DEF IInv, TraceOK, RequiredOK, Known
  <2>5. walk'.storage = required[at]
    BY <2>1 DEF WalkFrom
  <2>6. UndoneCovers'
    BY <2>1, <2>4, <2>5, CoversItself DEF UndoneCovers, Needs
  <2>7. QED
    BY <2>1, <2>3, <2>6 DEF UndoAgrees
<1>6. CASE Ilwt!PlaceSwap \/ Ilwt!PlaceLift \/ Ilwt!PlaceScale
  <2>1. /\ phase = "place" /\ UNCHANGED <<job, routes, required>>
    BY <1>6 DEF Ilwt!PlaceSwap, Ilwt!PlaceLift, Ilwt!PlaceScale, Ilwt!Placing,
       Ilwt!During
  <2>2. phase' = "place" /\ UndoneCovers'
    BY <1>6, InverseLiftAgrees, InverseAloneAgrees
  <2>3. Known' = Known
    BY <2>1, <2>2 DEF Known
  <2>4. UndoneInOrder'
    BY <2>1, <2>3, UndoneKept DEF UndoAgrees
  <2>5. QED
    BY <2>2, <2>4 DEF UndoAgrees
<1>7. CASE Ilwt!FinishChunk
  BY <1>1, <1>7, InverseFinishAgrees
<1>8. QED
  BY <1>2, <1>3, <1>4, <1>5, <1>6, <1>7 DEF Ilwt!Plan

\* Once the routes of a chunk are being placed, the plan is not refused any
\* more before the chunk is done: every local_offset and subtract_offset of
\* build_chunk finds its data in what is stored, whichever way the transform
\* goes, because the other pass has worked out what is needed.
THEOREM PlacingSucceeds ==
  SomeOutput => (Spec => [][phase = "place" => phase' # "refused"]_vars)
<1> SUFFICES ASSUME SomeOutput
             PROVE  Spec => [][phase = "place" => phase' # "refused"]_vars
  OBVIOUS
<1>1. Init => UndoAgrees
  BY DEF Init, TraceInit, UndoAgrees, UndoneInOrder, UndoneCovers
<1>2. IInv /\ TypeOK /\ Producing /\ Agreeing /\ UndoAgrees /\ [Next]_vars =>
        UndoAgrees' /\ (UNCHANGED vars \/ (phase = "place" => phase' # "refused"))
  <2> SUFFICES ASSUME IInv, TypeOK, Producing, Agreeing, UndoAgrees, [Next]_vars
               PROVE  /\ UndoAgrees'
                      /\ UNCHANGED vars \/ (phase = "place" => phase' # "refused")
    OBVIOUS
  <2>1. CASE TraceNext /\ UNCHANGED chunkVars
    <3>1. phase = "trace" /\ phase' \in {"trace", "size", "refused"}
      BY <2>1 DEF TraceNext, AppendRoute, RouteTerminalScales, Refuse
    <3>2. QED
      BY <3>1 DEF UndoAgrees, UndoneInOrder, UndoneCovers
  <2>2. CASE Lwt!Plan
    <3>1. ~job'.inverse
      BY <2>2 DEF Lwt!Plan, Lwt!SizeChunks, Lwt!StartChunk, Lwt!Propagate,
         Lwt!StartWalk, Lwt!PlaceSwap, Lwt!PlaceLift, Lwt!PlaceScale, Lwt!Placing,
         Lwt!During, Lwt!FinishChunk, Lwt!Accept, Lwt!TryMoreChunks, Lwt!GiveUp,
         Lwt!Judging
    <3>2. UndoAgrees'
      BY <3>1 DEF UndoAgrees, UndoneInOrder, UndoneCovers
    <3>3. phase = "place" => phase' # "refused"
      BY <2>2, ForwardPlaces
    <3>4. QED
      BY <3>2, <3>3
  <2>3. CASE Ilwt!Plan
    BY <2>3, InverseAgrees
  <2>4. CASE UNCHANGED vars
    <3>1. UNCHANGED <<phase, job, routes, at, required, walk>>
      BY <2>4 DEF vars, traceVars, chunkVars
    <3>2. \A i : Undoing(i)' <=> Undoing(i)
      BY <3>1 DEF Undoing
    <3>3. UndoAgrees'
      BY <3>1, <3>2 DEF UndoAgrees, UndoneInOrder, UndoneCovers, Known
    <3>4. QED
      BY <2>4, <3>3
  <2>5. QED
    BY <2>1, <2>2, <2>3, <2>4 DEF Next
<1>3. QED
  BY <1>1, <1>2, Invariant, TypesKept, ProducingAlways, AgreeingAlways, PTL DEF Spec
=============================================================================
