-------------------------- MODULE Planner2DProofs --------------------------
(***************************************************************************)
(* Theorems about the 2D planners (Planner2D), for every scheme, image and *)
(* budget: types, the schedule of every chunk and the planes it runs in,   *)
(* and the tiling of the output.                                           *)
(*                                                                         *)
(* The proofs follow the model from below.  The traces of the two axes     *)
(* have natural lengths and offsets.  A valid cone, forward or inverse,    *)
(* is a chain of needs around the routes (ConeFits) in which every route   *)
(* reads what is there.  A pass keeps its three slots apart, and leaves    *)
(* what is needed of its two streams in the planes (Serves), step by step; *)
(* four passes on the planes of one another make a schedule (FourServe).   *)
(* So every chunk of a candidate runs (RunsWell); whatever it stores is    *)
(* one of its finitely many uses, and the planes are as large as the       *)
(* largest of these.  Last comes the inductive invariant of the planner    *)
(* (PlanKept): the best candidate is one that passed all checks.           *)
(***************************************************************************)
EXTENDS Planner2D, AnySequences

(***************************************************************************)
(* The greatest and the least of a bounded set of integers.                *)
(***************************************************************************)
LEMMA MaxIs ==
  ASSUME NEW m \in Int, NEW n \in Int, NEW s \in SUBSET (m .. n), s # {}
  PROVE  Max(s) \in s /\ \A y \in s : y <= Max(s)
<1> DEFINE P(x) == x \in s /\ \A y \in s : x >= y
<1>1. PICK x \in s : \A y \in s : y <= x
  BY HasGreatest
<1>2. \E z : P(z)
  BY <1>1
<1>3. Max(s) = CHOOSE z : P(z)
  BY DEF Max
<1>4. P(Max(s))
  <2> HIDE DEF P
  <2>1. QED
    BY <1>2, <1>3, Zenon
<1>5. QED
  BY <1>4

LEMMA MinIs ==
  ASSUME NEW m \in Int, NEW n \in Int, NEW s \in SUBSET (m .. n), s # {}
  PROVE  Min(s) \in s /\ \A y \in s : Min(s) <= y
<1> DEFINE P(x) == x \in s /\ \A y \in s : x =< y
<1>1. PICK x \in s : \A y \in s : x <= y
  BY HasLeast
<1>2. \E z : P(z)
  BY <1>1
<1>3. Min(s) = CHOOSE z : P(z)
  BY DEF Min
<1>4. P(Min(s))
  <2> HIDE DEF P
  <2>1. QED
    BY <1>2, <1>3, Zenon
<1>5. QED
  BY <1>4

(***************************************************************************)
(* Induction over a number that is given as data: a set of numbers up to n *)
(* that holds the first one and with each the next one holds them all.     *)
(***************************************************************************)
LEMMA AllReached ==
  ASSUME NEW n \in Nat, NEW T, 0 \in T, \A k \in 0 .. n - 1 : k \in T => k + 1 \in T
  PROVE  \A k \in 0 .. n : k \in T
<1> DEFINE Bad == {k \in 0 .. n : k \notin T}
<1>1. SUFFICES ASSUME Bad # {} PROVE FALSE
  OBVIOUS
<1>2. PICK m \in Bad : \A x \in Bad : m <= x
  <2> HIDE DEF Bad
  <2>1. Bad \subseteq 0 .. n
    BY DEF Bad
  <2>2. 0 \in Int /\ n \in Int
    OBVIOUS
  <2>3. QED
    BY ONLY <1>1, <2>1, <2>2, HasLeast
<1>3. m \in 0 .. n /\ m # 0 /\ m \notin T
  OBVIOUS
<1>4. m - 1 \in 0 .. n - 1 /\ m - 1 \in 0 .. n /\ ~(m <= m - 1) /\ (m - 1) + 1 = m
  BY <1>3
<1>5. m - 1 \in T
  BY <1>2, <1>4
<1>6. QED
  BY <1>3, <1>4, <1>5

(***************************************************************************)
(* Folds are defined by recursion over sets of indices; this says that the *)
(* recursion has a solution.  A step of a fold is a function here: of the  *)
(* index, and of the value so far.                                         *)
(***************************************************************************)
Steps(n, S, step) == step \in [(1 .. n) \X S -> S]

SolvesLeft(n, S, base, step, f) ==
  /\ f \in [SUBSET (1 .. n) -> S]
  /\ \A s \in SUBSET (1 .. n) :
       f[s] = IF s = {} THEN base ELSE step[<<Max(s), f[s \ {Max(s)}]>>]

LEMMA LeftUnfolds ==
  ASSUME NEW n \in Nat, NEW S, NEW base \in S, NEW step, Steps(n, S, step)
  PROVE  \E f : SolvesLeft(n, S, base, step, f)
<1>0. step \in [(1 .. n) \X S -> S]
  BY DEF Steps
<1> DEFINE Up(m) ==
             \E f \in [SUBSET (1 .. m) -> S] :
               \A s \in SUBSET (1 .. m) :
                 f[s] = IF s = {} THEN base ELSE step[<<Max(s), f[s \ {Max(s)}]>>]
           T == {m \in 0 .. n : Up(m)}
<1>1. 0 \in T
  <2> DEFINE f == [s \in SUBSET (1 .. 0) |-> base]
  <2>1. /\ f \in [SUBSET (1 .. 0) -> S]
        /\ \A s \in SUBSET (1 .. 0) : f[s] = IF s = {} THEN base ELSE step[<<Max(s), f[s \ {Max(s)}]>>]
    <3>1. \A s \in SUBSET (1 .. 0) : s = {} /\ f[s] = base
      OBVIOUS
    <3>2. QED
      BY <3>1
  <2> HIDE DEF f
  <2>2. Up(0)
    BY <2>1
  <2> HIDE DEF Up
  <2>3. QED
    BY <2>2
<1>2. ASSUME NEW m \in 0 .. n - 1, m \in T PROVE m + 1 \in T
  <2>1. PICK f \in [SUBSET (1 .. m) -> S] :
          \A s \in SUBSET (1 .. m) :
            f[s] = IF s = {} THEN base ELSE step[<<Max(s), f[s \ {Max(s)}]>>]
    BY <1>2
  <2> DEFINE g == [s \in SUBSET (1 .. m + 1) |->
                     IF m + 1 \in s THEN step[<<m + 1, f[s \ {m + 1}]>>] ELSE f[s]]
  <2>2. ASSUME NEW s \in SUBSET (1 .. m + 1)
        PROVE  /\ g[s] \in S
               /\ g[s] = IF s = {} THEN base ELSE step[<<Max(s), g[s \ {Max(s)}]>>]
    <3>1. CASE m + 1 \in s
      <4>1. Max(s) = m + 1
        <5>1. s # {} /\ m + 1 \in Int /\ 1 \in Int /\ s \in SUBSET (1 .. m + 1)
          BY <3>1
        <5>2. Max(s) \in s /\ \A y \in s : y <= Max(s)
          BY ONLY <5>1, MaxIs
        <5>3. Max(s) \in 1 .. m + 1 /\ m + 1 <= Max(s)
          BY <3>1, <5>2
        <5>4. QED
          BY <5>1, <5>3
      <4>2. s \ {m + 1} \in SUBSET (1 .. m) /\ s \ {m + 1} \in SUBSET (1 .. m + 1)
        OBVIOUS
      <4>3. g[s] = step[<<m + 1, f[s \ {m + 1}]>>] /\ g[s \ {m + 1}] = f[s \ {m + 1}]
        BY <3>1, <4>2
      <4>4. f[s \ {m + 1}] \in S /\ m + 1 \in 1 .. n
        BY <4>2
      <4>5. QED
        BY <1>0, <3>1, <4>1, <4>3, <4>4
    <3>2. CASE m + 1 \notin s
      <4>1. s \in SUBSET (1 .. m)
        BY <3>2
      <4>2. g[s] = f[s]
        BY <3>2
      <4>3. ASSUME s # {} PROVE g[s \ {Max(s)}] = f[s \ {Max(s)}]
        <5>1. s \ {Max(s)} \in SUBSET (1 .. m + 1) /\ m + 1 \notin s \ {Max(s)}
          BY <3>2
        <5>2. QED
          BY <5>1
      <4>4. QED
        BY <2>1, <4>1, <4>2, <4>3
    <3>3. QED
      BY <3>1, <3>2
  <2>3. g \in [SUBSET (1 .. m + 1) -> S]
    <3>1. \A s \in SUBSET (1 .. m + 1) : g[s] \in S
      BY <2>2
    <3>2. QED
      BY <3>1
  <2> HIDE DEF g
  <2>4. Up(m + 1)
    BY <2>2, <2>3
  <2> HIDE DEF Up
  <2>5. QED
    BY <2>4
<1> HIDE DEF Up
<1>3. n \in T
  <2> HIDE DEF T
  <2>1. \A k \in 0 .. n : k \in T
    BY <1>1, <1>2, AllReached
  <2>2. QED
    BY <2>1
<1>4. QED
  BY <1>3 DEF Up, SolvesLeft

SolvesRight(n, S, base, step, f) ==
  /\ f \in [SUBSET (1 .. n) -> S]
  /\ \A s \in SUBSET (1 .. n) :
       f[s] = IF s = {} THEN base ELSE step[<<Min(s), f[s \ {Min(s)}]>>]

LEMMA RightUnfolds ==
  ASSUME NEW n \in Nat, NEW S, NEW base \in S, NEW step, Steps(n, S, step)
  PROVE  \E f : SolvesRight(n, S, base, step, f)
<1>0. step \in [(1 .. n) \X S -> S]
  BY DEF Steps
<1> DEFINE Up(m) ==
             \E f \in [SUBSET (n + 1 - m .. n) -> S] :
               \A s \in SUBSET (n + 1 - m .. n) :
                 f[s] = IF s = {} THEN base ELSE step[<<Min(s), f[s \ {Min(s)}]>>]
           T == {m \in 0 .. n : Up(m)}
<1>1. 0 \in T
  <2> DEFINE f == [s \in SUBSET (n + 1 - 0 .. n) |-> base]
  <2>1. /\ f \in [SUBSET (n + 1 - 0 .. n) -> S]
        /\ \A s \in SUBSET (n + 1 - 0 .. n) : f[s] = IF s = {} THEN base ELSE step[<<Min(s), f[s \ {Min(s)}]>>]
    <3>1. \A s \in SUBSET (n + 1 - 0 .. n) : s = {} /\ f[s] = base
      OBVIOUS
    <3>2. QED
      BY <3>1
  <2> HIDE DEF f
  <2>2. Up(0)
    BY <2>1
  <2> HIDE DEF Up
  <2>3. QED
    BY <2>2
<1>2. ASSUME NEW m \in 0 .. n - 1, m \in T PROVE m + 1 \in T
  <2> DEFINE i == n - m
  <2>0. i \in 1 .. n /\ i \in Int /\ n + 1 - m = i + 1 /\ n + 1 - (m + 1) = i
    OBVIOUS
  <2> HIDE DEF i
  <2>1. PICK f \in [SUBSET (i + 1 .. n) -> S] :
          \A s \in SUBSET (i + 1 .. n) :
            f[s] = IF s = {} THEN base ELSE step[<<Min(s), f[s \ {Min(s)}]>>]
    BY <1>2, <2>0
  <2> DEFINE g == [s \in SUBSET (i .. n) |->
                     IF i \in s THEN step[<<i, f[s \ {i}]>>] ELSE f[s]]
  <2>2. ASSUME NEW s \in SUBSET (i .. n)
        PROVE  /\ g[s] \in S
               /\ g[s] = IF s = {} THEN base ELSE step[<<Min(s), g[s \ {Min(s)}]>>]
    <3>1. CASE i \in s
      <4>1. Min(s) = i
        <5>1. s # {} /\ i \in Int /\ n \in Int /\ s \in SUBSET (i .. n)
          BY <2>0, <3>1
        <5>2. Min(s) \in s /\ \A y \in s : Min(s) <= y
          BY ONLY <5>1, MinIs
        <5>3. Min(s) \in i .. n /\ Min(s) <= i
          BY <3>1, <5>2
        <5>4. QED
          BY <5>1, <5>3
      <4>2. s \ {i} \in SUBSET (i + 1 .. n) /\ s \ {i} \in SUBSET (i .. n)
        BY <2>0
      <4>3. g[s] = step[<<i, f[s \ {i}]>>] /\ g[s \ {i}] = f[s \ {i}]
        BY <3>1, <4>2
      <4>4. f[s \ {i}] \in S
        BY <4>2
      <4>5. QED
        BY <1>0, <2>0, <3>1, <4>1, <4>3, <4>4
    <3>2. CASE i \notin s
      <4>1. s \in SUBSET (i + 1 .. n)
        BY <2>0, <3>2
      <4>2. g[s] = f[s]
        BY <3>2
      <4>3. ASSUME s # {} PROVE g[s \ {Min(s)}] = f[s \ {Min(s)}]
        <5>1. s \ {Min(s)} \in SUBSET (i .. n) /\ i \notin s \ {Min(s)}
          BY <3>2
        <5>2. QED
          BY <5>1
      <4>4. QED
        BY <2>1, <4>1, <4>2, <4>3
    <3>3. QED
      BY <3>1, <3>2
  <2>3. g \in [SUBSET (i .. n) -> S]
    <3>1. \A s \in SUBSET (i .. n) : g[s] \in S
      BY <2>2
    <3>2. QED
      BY <3>1
  <2> HIDE DEF g
  <2>4. Up(m + 1)
    BY <2>0, <2>2, <2>3
  <2> HIDE DEF Up
  <2>5. QED
    BY <2>4
<1> HIDE DEF Up
<1>3. n \in T
  <2> HIDE DEF T
  <2>1. \A k \in 0 .. n : k \in T
    BY <1>1, <1>2, AllReached
  <2>2. QED
    BY <2>1
<1>4. Up(n)
  BY <1>3
<1>5. QED
  <2>1. n + 1 - n = 1
    OBVIOUS
  <2>2. QED
    BY <1>4, <2>1 DEF Up, SolvesRight

LEMMA FrontIs ==
  ASSUME NEW n \in Nat, NEW k \in 1 .. n
  PROVE  /\ (1 .. k) \in SUBSET (1 .. n) /\ (1 .. k) # {} /\ k - 1 \in 0 .. n
         /\ (1 .. k) \ {k} = 1 .. k - 1 /\ Max(1 .. k) = k /\ k \in 0 .. n
<1>1. k \in Int /\ 1 \in Int /\ (1 .. k) \in SUBSET (1 .. k) /\ (1 .. k) # {}
  OBVIOUS
<1>2. Max(1 .. k) \in 1 .. k /\ \A y \in 1 .. k : y <= Max(1 .. k)
  BY ONLY <1>1, MaxIs
<1>3. k \in 1 .. k
  OBVIOUS
<1>4. Max(1 .. k) = k
  BY <1>2, <1>3
<1>5. (1 .. k) \ {k} = 1 .. k - 1
  OBVIOUS
<1>6. (1 .. k) \in SUBSET (1 .. n) /\ k - 1 \in 0 .. n /\ k \in 0 .. n
  OBVIOUS
<1>7. QED
  BY ONLY <1>1, <1>4, <1>5, <1>6

LEMMA RearIs ==
  ASSUME NEW n \in Nat, NEW k \in 1 .. n
  PROVE  /\ (k .. n) \in SUBSET (1 .. n) /\ (k .. n) # {} /\ k + 1 \in 1 .. n + 1
         /\ (k .. n) \ {k} = k + 1 .. n /\ Min(k .. n) = k
<1>1. k \in Int /\ n \in Int /\ (k .. n) \in SUBSET (k .. n) /\ (k .. n) # {}
  OBVIOUS
<1>2. Min(k .. n) \in k .. n /\ \A y \in k .. n : Min(k .. n) <= y
  BY ONLY <1>1, MinIs
<1>3. k \in k .. n
  OBVIOUS
<1>4. Min(k .. n) = k
  BY <1>2, <1>3
<1>5. (k .. n) \ {k} = k + 1 .. n
  OBVIOUS
<1>6. (k .. n) \in SUBSET (1 .. n) /\ k + 1 \in 1 .. n + 1
  OBVIOUS
<1>7. QED
  BY ONLY <1>1, <1>4, <1>5, <1>6

-----------------------------------------------------------------------------
(***************************************************************************)
(* Intervals.                                                              *)
(***************************************************************************)
Stretch == [begin : Int, end : Int]

Needs == [Streams -> Stretch]

LEMMA IntervalIs ==
  ASSUME NEW b \in Int, NEW e \in Int
  PROVE  Interval(b, e) \in Stretch /\ Interval(b, e).begin = b /\ Interval(b, e).end = e
BY DEF Interval, Stretch

LEMMA TranslatedIs ==
  ASSUME NEW i \in Stretch, NEW o \in Int, NEW e \in Int
  PROVE  Translated(i, o, e) \in Stretch /\ Subtracted(i, o) \in Stretch
<1>1. /\ i.begin + o \in Int /\ i.end + o + e \in Int
      /\ i.begin - o \in Int /\ i.end - o \in Int
  BY DEF Stretch
<1>2. QED
  BY <1>1, IntervalIs DEF Translated, Subtracted

LEMMA HullIs ==
  ASSUME NEW i \in Stretch, NEW j \in Stretch
  PROVE  Hull(i, j) \in Stretch
<1>1. Smaller(i.begin, j.begin) \in Int /\ Larger(i.end, j.end) \in Int
  BY DEF Stretch, Smaller, Larger
<1>2. QED
  BY <1>1, IntervalIs DEF Hull

LEMMA StreamOf ==
  /\ \A type : Target(type) \in Streams
  /\ \A s \in Streams : Other[s] \in Streams /\ Other[s] # s /\ Other[Other[s]] = s
                        /\ Streams = {s, Other[s]}
BY DEF Target, Streams, Other

-----------------------------------------------------------------------------
(***************************************************************************)
(* The trace of an axis: a route for every step.                           *)
(***************************************************************************)
SlotNames == {"even", "odd", "free"}

StreamType == [shift : Int, length : Nat]

StepSet == [type : StepTypes, shift : Int, coeff : Seq(Int)]

RouteSet ==
    [type : StepTypes, k : Nat, source : Slots, base : Slots, output : Slots,
     storage : {"workspace"}, sourceLength : Nat, baseLength : Nat,
     sourceOffset : Nat, baseOffset : Nat, outputLength : Nat]

RouteOK(r) ==
    /\ r.type \in StepTypes
    /\ {r.k, r.sourceOffset, r.baseOffset} \subseteq Nat
    /\ {r.sourceLength, r.baseLength, r.outputLength} \subseteq Nat
    /\ IsLift(r.type) => r.k > 0
    /\ IsScale(r.type) => r.k = 1 /\ r.sourceOffset = 0 /\ r.baseOffset = 0

TraceSet ==
    [stream : [Streams -> StreamType], active : [SlotNames -> Slots],
     routes : Seq({r \in RouteSet : RouteOK(r)})]

\* The job of an axis.
AxisOK(j) ==
    /\ j.length \in Nat \ {0} /\ j.scheme.taps \in Nat \ {0}
    /\ j.scheme.delay \in [Streams -> Int]
    /\ j.scheme.steps \in Seq(StepSet)
    /\ \A i \in 1 .. Len(j.scheme.steps) :
         IsLift(j.scheme.steps[i].type) => j.scheme.steps[i].coeff # <<>>

LEMMA PaddingIs ==
  ASSUME NEW j, AxisOK(j)
  PROVE  /\ PaddedLength(j) \in Nat /\ OutputLength(j) \in Nat
         /\ CanonicalStart(j) \in Nat /\ Pad(j) \in Nat
         /\ SplitLength(j) \in [Streams -> Nat]
         /\ InitialStreams(j) \in [Streams -> StreamType]
<1>1. j.length \in Nat /\ j.scheme.taps \in Nat \ {0}
  BY DEF AxisOK
<1>2. /\ PaddedLength(j) \in Nat /\ OutputLength(j) \in Nat
      /\ CanonicalStart(j) \in Nat /\ Pad(j) \in Nat
  BY <1>1 DEF PaddedLength, OutputLength, CanonicalStart, Pad
<1>3. /\ CeilDiv(PaddedLength(j), 2) \in Nat /\ PaddedLength(j) \div 2 \in Nat
  BY <1>2 DEF CeilDiv
<1>4. SplitLength(j) \in [Streams -> Nat]
  BY <1>3 DEF SplitLength, Streams
<1>5. InitialStreams(j) \in [Streams -> StreamType]
  <2>1. \A s \in Streams : j.scheme.delay[s] \in Int /\ SplitLength(j)[s] \in Nat
    BY <1>4 DEF AxisOK
  <2>2. QED
    BY <2>1 DEF InitialStreams, StreamType
<1>6. QED
  BY <1>2, <1>4, <1>5

LEMMA GeometryIs ==
  ASSUME NEW source \in StreamType, NEW shift \in Int, NEW k \in Nat \ {0},
         NEW base \in StreamType
  PROVE  LET geo == StepGeometry(source, shift, k, base)
         IN /\ geo.shift \in Int /\ geo.length \in Nat
            /\ geo.sourceOffset \in Nat /\ geo.baseOffset \in Nat
<1>1. /\ source.shift \in Int /\ source.length \in Nat
      /\ base.shift \in Int /\ base.length \in Nat
  BY DEF StreamType
<1> DEFINE conv == source.shift + shift + Smaller(source.length, k) - 1
           past == IF source.length >= k THEN source.length - k + 1 ELSE 0
           first == Larger(base.shift, conv)
           end == Smaller(base.shift + base.length, conv + past)
<1>2. conv \in Int /\ past \in Int
  BY <1>1 DEF Smaller
<1>3. StepGeometry(source, shift, k, base) =
        [shift |-> first, length |-> Larger(end - first, 0),
         sourceOffset |-> first - conv, baseOffset |-> first - base.shift]
  BY DEF StepGeometry
<1> HIDE DEF conv, past
<1>4. first \in Int /\ first >= conv /\ first >= base.shift /\ end \in Int
  BY <1>1, <1>2 DEF Larger, Smaller
<1> HIDE DEF first, end
<1>5. Larger(end - first, 0) \in Nat /\ first - conv \in Nat /\ first - base.shift \in Nat
  BY <1>1, <1>2, <1>4 DEF Larger
<1>6. QED
  BY <1>3, <1>4, <1>5

LEMMA MovedIs ==
  ASSUME NEW X, NEW f \in [SlotNames -> X], NEW t \in Streams
  PROVE  /\ Moved(f, t) \in [SlotNames -> X]
         /\ Moved(f, t)[t] = f.free /\ Moved(f, t).free = f[t]
         /\ Moved(f, t)[Other[t]] = f[Other[t]]
<1>1. /\ {t, Other[t], "free"} = SlotNames /\ t # Other[t]
      /\ t # "free" /\ Other[t] # "free"
  BY DEF SlotNames, Streams, Other
<1>2. Moved(f, t) = [[f EXCEPT ![t] = f.free] EXCEPT !["free"] = f[t]]
  BY DEF Moved
<1>3. QED
  BY <1>1, <1>2

\* What a step makes of a trace: a route more, of the shape all have.
TracedOK(before, step, after) ==
    /\ after \in TraceSet
    /\ \E r \in RouteSet :
         /\ RouteOK(r) /\ r.type = step.type
         /\ after.routes = Append(before.routes, r)

StepOK(step) == step \in StepSet /\ (IsLift(step.type) => step.coeff # <<>>)

LEMMA TraceGrows ==
  ASSUME NEW trace \in TraceSet, NEW r \in RouteSet, RouteOK(r),
         NEW stream \in [Streams -> StreamType], NEW active \in [SlotNames -> Slots]
  PROVE  [stream |-> stream, active |-> active, routes |-> Append(trace.routes, r)] \in TraceSet
<1> DEFINE R == {q \in RouteSet : RouteOK(q)}
<1>1. trace.routes \in Seq(R) /\ r \in R
  BY DEF TraceSet
<1> HIDE DEF R
<1>2. Append(trace.routes, r) \in Seq(R)
  BY <1>1
<1>3. QED
  BY <1>2 DEF TraceSet, R

LEMMA LiftTracedIs ==
  ASSUME NEW trace \in TraceSet, NEW step, StepOK(step), IsLift(step.type)
  PROVE  TracedOK(trace, step, LiftTraced(trace, step))
<1> DEFINE t == Target(step.type)
           o == Other[t]
           k == Len(step.coeff)
           geo == StepGeometry(trace.stream[o], step.shift, k, trace.stream[t])
           r == [type |-> step.type, k |-> k,
                 source |-> trace.active[o], base |-> trace.active[t],
                 output |-> trace.active.free, storage |-> "workspace",
                 sourceLength |-> trace.stream[o].length,
                 baseLength |-> trace.stream[t].length,
                 sourceOffset |-> geo.sourceOffset, baseOffset |-> geo.baseOffset,
                 outputLength |-> geo.length]
           stream == [trace.stream EXCEPT ![t] = [shift |-> geo.shift, length |-> geo.length]]
<1>1. t \in Streams /\ o \in Streams
  BY StreamOf
<1>2. /\ trace.stream \in [Streams -> StreamType] /\ trace.active \in [SlotNames -> Slots]
      /\ trace.stream[t] \in StreamType /\ trace.stream[o] \in StreamType
  BY <1>1 DEF TraceSet
<1>3. k \in Nat \ {0} /\ step.shift \in Int /\ step.type \in StepTypes
  BY DEF StepOK, StepSet
<1>4. LiftTraced(trace, step) =
        [stream |-> stream, active |-> Moved(trace.active, t),
         routes |-> Append(trace.routes, r)]
  BY DEF LiftTraced
<1>5. /\ r.type = step.type /\ r.k = k /\ r.sourceOffset = geo.sourceOffset
      /\ r.baseOffset = geo.baseOffset /\ r.outputLength = geo.length
      /\ r.sourceLength = trace.stream[o].length
      /\ r.baseLength = trace.stream[t].length
  OBVIOUS
<1>6. /\ trace.active[o] \in Slots /\ trace.active[t] \in Slots
      /\ trace.active.free \in Slots /\ Moved(trace.active, t) \in [SlotNames -> Slots]
  BY <1>1, <1>2, MovedIs DEF SlotNames, Streams
<1> HIDE DEF t, o, k
<1>7. /\ geo.shift \in Int /\ geo.length \in Nat
      /\ geo.sourceOffset \in Nat /\ geo.baseOffset \in Nat
  BY <1>2, <1>3, GeometryIs
<1> HIDE DEF geo
<1>8. stream \in [Streams -> StreamType]
  <2>1. [shift |-> geo.shift, length |-> geo.length] \in StreamType
    BY <1>7 DEF StreamType
  <2>2. QED
    BY <1>2, <2>1
<1>9. trace.stream[t].length \in Nat /\ trace.stream[o].length \in Nat
  BY <1>2 DEF StreamType
<1>10. r \in RouteSet
  BY <1>3, <1>6, <1>7, <1>9 DEF RouteSet
<1> HIDE DEF r, stream
<1>11. RouteOK(r)
  BY <1>3, <1>5, <1>7, <1>9 DEF RouteOK, IsLift, IsScale
<1>12. QED
  BY <1>4, <1>5, <1>6, <1>8, <1>10, <1>11, TraceGrows DEF TracedOK

LEMMA ScaleTracedIs ==
  ASSUME NEW trace \in TraceSet, NEW step, StepOK(step), ~IsLift(step.type)
  PROVE  TracedOK(trace, step, ScaleTraced(trace, step))
<1> DEFINE t == Target(step.type)
           len == trace.stream[t].length
           r == [type |-> step.type, k |-> 1,
                 source |-> trace.active[t], base |-> trace.active[t],
                 output |-> trace.active.free, storage |-> "workspace",
                 sourceLength |-> len, baseLength |-> len,
                 sourceOffset |-> 0, baseOffset |-> 0, outputLength |-> len]
           stream == trace.stream
           active == Moved(trace.active, t)
<1>1. t \in Streams /\ step.type \in StepTypes
  BY StreamOf DEF StepOK, StepSet
<1>2. /\ trace.stream \in [Streams -> StreamType] /\ trace.active \in [SlotNames -> Slots]
      /\ len \in Nat
  BY <1>1 DEF TraceSet, StreamType
<1>3. ScaleTraced(trace, step) =
        [stream |-> stream, active |-> active, routes |-> Append(trace.routes, r)]
  <2>1. trace = [stream |-> trace.stream, active |-> trace.active, routes |-> trace.routes]
    BY DEF TraceSet
  <2>2. ScaleTraced(trace, step) =
          [trace EXCEPT !.active = active, !.routes = Append(trace.routes, r)]
    BY DEF ScaleTraced
  <2> HIDE DEF active, r
  <2>3. QED
    BY <2>1, <2>2
<1>4. /\ trace.active[t] \in Slots /\ trace.active.free \in Slots
      /\ active \in [SlotNames -> Slots] /\ stream \in [Streams -> StreamType]
  BY <1>1, <1>2, MovedIs DEF SlotNames, Streams
<1> HIDE DEF t, len, stream, active
<1>5. r \in RouteSet /\ r.type = step.type
  BY <1>1, <1>2, <1>4 DEF RouteSet
<1>6. RouteOK(r)
  BY <1>1, <1>2 DEF RouteOK, IsLift, IsScale
<1> HIDE DEF r
<1>7. QED
  BY <1>3, <1>4, <1>5, <1>6, TraceGrows DEF TracedOK

LEMMA SwapTracedIs ==
  ASSUME NEW trace \in TraceSet, NEW step, StepOK(step), step.type = "swap"
  PROVE  TracedOK(trace, step, SwapTraced(trace))
<1> DEFINE r == [type |-> "swap", k |-> 0,
                 source |-> trace.active.even, base |-> trace.active.odd,
                 output |-> trace.active.even, storage |-> "workspace",
                 sourceLength |-> trace.stream.even.length,
                 baseLength |-> trace.stream.odd.length,
                 sourceOffset |-> 0, baseOffset |-> 0, outputLength |-> 0]
           stream == [s \in Streams |-> trace.stream[Other[s]]]
           active == [trace.active EXCEPT !.even = trace.active.odd,
                                          !.odd = trace.active.even]
<1>1. /\ trace.stream \in [Streams -> StreamType] /\ trace.active \in [SlotNames -> Slots]
  BY DEF TraceSet
<1>2. trace.stream.even.length \in Nat /\ trace.stream.odd.length \in Nat
  BY <1>1 DEF StreamType, Streams
<1>3. SwapTraced(trace) =
        [stream |-> stream, active |-> active, routes |-> Append(trace.routes, r)]
  BY DEF SwapTraced
<1>4. trace.active.even \in Slots /\ trace.active.odd \in Slots
  BY <1>1 DEF SlotNames
<1>5. stream \in [Streams -> StreamType]
  BY <1>1, StreamOf
<1>6. active \in [SlotNames -> Slots]
  BY <1>1, <1>4
<1>7. r \in RouteSet /\ r.type = step.type
  BY <1>2, <1>4 DEF RouteSet, StepTypes
<1>8. RouteOK(r)
  BY <1>2 DEF RouteOK, StepTypes, IsLift, IsScale
<1> HIDE DEF r, stream, active
<1>9. QED
  BY <1>3, <1>5, <1>6, <1>7, <1>8, TraceGrows DEF TracedOK

LEMMA TracedIs ==
  ASSUME NEW trace \in TraceSet, NEW step, StepOK(step)
  PROVE  TracedOK(trace, step, Traced(trace, step))
<1>1. step.type \in StepTypes
  BY DEF StepOK, StepSet
<1>2. IsLift(step.type) \/ IsScale(step.type) \/ step.type = "swap"
  BY <1>1 DEF StepTypes, IsLift, IsScale
<1>3. IsScale(step.type) => ~IsLift(step.type)
  BY DEF IsScale, IsLift
<1>4. step.type = "swap" => ~IsLift(step.type) /\ ~IsScale(step.type)
  BY DEF IsScale, IsLift
<1>5. QED
  BY <1>2, <1>3, <1>4, LiftTracedIs, ScaleTracedIs, SwapTracedIs DEF Traced

(***************************************************************************)
(* The traces after so many steps, of which the fold is the last.          *)
(***************************************************************************)
LEMMA TraceChain ==
  ASSUME NEW j, AxisOK(j)
  PROVE  LET steps == j.scheme.steps
             n == Len(steps)
         IN \E f \in [0 .. n -> TraceSet] :
              /\ f[0] = EmptyTrace(j)
              /\ \A k \in 1 .. n : f[k] = Traced(f[k - 1], steps[k])
              /\ FoldLeft(Traced, EmptyTrace(j), steps) = f[n]
<1> DEFINE steps == j.scheme.steps
           n == Len(steps)
           base == EmptyTrace(j)
           step == [x \in (1 .. n) \X TraceSet |-> Traced(x[2], steps[x[1]])]
           P(iter) == iter = [s \in SUBSET (1 .. n) |->
                                IF s = {} THEN base
                                ELSE Traced(iter[s \ {Max(s)}], steps[Max(s)])]
           c == CHOOSE iter : P(iter)
           f == [k \in 0 .. n |-> c[1 .. k]]
<1>1. /\ n \in Nat /\ DOMAIN steps = 1 .. n
      /\ \A i \in 1 .. n : StepOK(steps[i])
  <2>1. steps \in Seq(StepSet)
    BY DEF AxisOK
  <2>2. \A i \in 1 .. n : IsLift(steps[i].type) => steps[i].coeff # <<>>
    BY DEF AxisOK
  <2> HIDE DEF steps
  <2>3. QED
    BY <2>1, <2>2 DEF StepOK
<1>2. base \in TraceSet
  <2>1. InitialStreams(j) \in [Streams -> StreamType]
    BY PaddingIs
  <2>2. HomeSlots \in [SlotNames -> Slots]
    BY DEF HomeSlots, SlotNames, Slots
  <2> DEFINE R == {r \in RouteSet : RouteOK(r)}
  <2>3. <<>> \in Seq(R)
    OBVIOUS
  <2> HIDE DEF R
  <2>4. QED
    BY <2>1, <2>2, <2>3 DEF TraceSet, EmptyTrace, R
<1>3. \A i \in 1 .. n, t \in TraceSet : Traced(t, steps[i]) \in TraceSet
  BY <1>1, TracedIs DEF TracedOK
<1>4. FoldLeft(Traced, base, steps) = c[1 .. n]
  BY <1>1 DEF FoldLeft, MapThenFoldSet
<1> HIDE DEF steps, n, base
<1>5. step \in [(1 .. n) \X TraceSet -> TraceSet]
  BY <1>3
<1>6. \A k \in 1 .. n, t \in TraceSet : step[<<k, t>>] = Traced(t, steps[k])
  OBVIOUS
<1> HIDE DEF step
<1>7. \E iter : P(iter)
  <2>1. PICK iter : SolvesLeft(n, TraceSet, base, step, iter)
    <3>1. n \in Nat /\ Steps(n, TraceSet, step)
      BY <1>1, <1>5 DEF Steps
    <3>2. QED
      BY ONLY <3>1, <1>2, LeftUnfolds
  <2>2. \A s \in SUBSET (1 .. n) :
          iter[s] = IF s = {} THEN base ELSE Traced(iter[s \ {Max(s)}], steps[Max(s)])
    <3>1. TAKE s \in SUBSET (1 .. n)
    <3>2. ASSUME s # {} PROVE step[<<Max(s), iter[s \ {Max(s)}]>>]
                                = Traced(iter[s \ {Max(s)}], steps[Max(s)])
      <4>1. Max(s) \in s
        <5>1. 1 \in Int /\ n \in Int
          BY <1>1
        <5>2. QED
          BY ONLY <5>1, <3>2, s \in SUBSET (1 .. n), MaxIs
      <4>2. Max(s) \in 1 .. n /\ s \ {Max(s)} \in SUBSET (1 .. n)
        BY <4>1
      <4>3. iter[s \ {Max(s)}] \in TraceSet
        BY <2>1, <4>2 DEF SolvesLeft
      <4>4. QED
        BY <1>6, <4>2, <4>3
    <3>3. QED
      BY <2>1, <3>2 DEF SolvesLeft
  <2>3. QED
    BY <2>1, <2>2 DEF SolvesLeft
<1>8. P(c)
  <2> HIDE DEF P
  <2>1. QED
    BY <1>7, Zenon
<1> HIDE DEF c
<1>9. c[1 .. 0] = base /\ \A k \in 1 .. n : c[1 .. k] = Traced(c[1 .. k - 1], steps[k])
  <2>1. \A s \in SUBSET (1 .. n) :
          c[s] = IF s = {} THEN base ELSE Traced(c[s \ {Max(s)}], steps[Max(s)])
    BY <1>8
  <2>2. c[1 .. 0] = base
    <3>1. (1 .. 0) = {} /\ (1 .. 0) \in SUBSET (1 .. n)
      OBVIOUS
    <3>2. QED
      BY <2>1, <3>1
  <2>3. ASSUME NEW k \in 1 .. n PROVE c[1 .. k] = Traced(c[1 .. k - 1], steps[k])
    BY <1>1, <2>1, FrontIs
  <2>4. QED
    BY <2>2, <2>3
<1>10. f[0] = base /\ \A k \in 1 .. n : f[k] = Traced(f[k - 1], steps[k])
  <2>1. \A k \in 1 .. n : k - 1 \in 0 .. n /\ k \in 0 .. n
    BY <1>1
  <2>2. QED
    BY <1>1, <1>9, <2>1
<1>11. f[n] = c[1 .. n]
  BY <1>1
<1> DEFINE T == {k \in 0 .. n : f[k] \in TraceSet}
<1>12. DOMAIN f = 0 .. n /\ f = [k \in 0 .. n |-> f[k]]
  OBVIOUS
<1> HIDE DEF f
<1>13. \A k \in 0 .. n : k \in T
  <2>1. 0 \in T
    BY <1>1, <1>2, <1>10
  <2>2. \A k \in 0 .. n - 1 : k \in T => k + 1 \in T
    <3>1. TAKE k \in 0 .. n - 1
    <3>2. k + 1 \in 1 .. n /\ k + 1 \in 0 .. n /\ (k + 1) - 1 = k
      BY <1>1
    <3>3. f[k + 1] = Traced(f[k], steps[k + 1])
      BY <1>10, <3>2
    <3>4. QED
      BY <1>3, <3>2, <3>3
  <2> HIDE DEF T
  <2>3. QED
    BY <1>1, <2>1, <2>2, AllReached
<1>14. f \in [0 .. n -> TraceSet]
  BY <1>12, <1>13
<1>15. QED
  BY <1>4, <1>10, <1>11, <1>14 DEF steps, n, base

\* Routes of the trace: those of the steps, of which two are sent elsewhere.
SameRoute(r, q) ==
    /\ r.type = q.type /\ r.k = q.k
    /\ r.sourceLength = q.sourceLength /\ r.baseLength = q.baseLength
    /\ r.sourceOffset = q.sourceOffset /\ r.baseOffset = q.baseOffset
    /\ r.outputLength = q.outputLength

TraceSteps(j, f) ==
    LET steps == j.scheme.steps
        n == Len(steps)
        R == AxisTrace(j).routes
    IN /\ f \in [0 .. n -> TraceSet] /\ f[0] = EmptyTrace(j)
       /\ \A k \in 1 .. n :
            /\ StepOK(steps[k]) /\ f[k] = Traced(f[k - 1], steps[k])
            /\ Len(f[k].routes) = k /\ SameRoute(R[k], f[k].routes[k])
            /\ RouteOK(R[k]) /\ R[k].type = steps[k].type
       /\ AxisTrace(j).stream = f[n].stream
       /\ IsSeq(R) /\ Len(R) = n /\ n \in Nat

LEMMA AxisTraceIs ==
  ASSUME NEW j, AxisOK(j)
  PROVE  \E f : TraceSteps(j, f)
<1> DEFINE steps == j.scheme.steps
           n == Len(steps)
           trace == AxisTrace(j)
           R == trace.routes
<1>1. PICK f \in [0 .. n -> TraceSet] :
         /\ f[0] = EmptyTrace(j)
         /\ \A k \in 1 .. n : f[k] = Traced(f[k - 1], steps[k])
         /\ FoldLeft(Traced, EmptyTrace(j), steps) = f[n]
  BY TraceChain
<1>2. n \in Nat /\ \A i \in 1 .. n : StepOK(steps[i])
  <2>1. steps \in Seq(StepSet)
    BY DEF AxisOK
  <2>2. \A i \in 1 .. n : IsLift(steps[i].type) => steps[i].coeff # <<>>
    BY DEF AxisOK
  <2> HIDE DEF steps
  <2>3. QED
    BY <2>1, <2>2 DEF StepOK
<1>3. trace = [f[n] EXCEPT !.routes = TerminalScalesRouted(f[n].routes)]
  <2>1. trace = [FoldLeft(Traced, EmptyTrace(j), steps)
                   EXCEPT !.routes = TerminalScalesRouted(@)]
    BY DEF AxisTrace
  <2>2. QED
    BY <1>1, <2>1, Zenon
<1> HIDE DEF steps, n, trace
<1> DEFINE RR == {q \in RouteSet : RouteOK(q)}
<1>4. \A k \in 0 .. n : f[k] \in TraceSet /\ f[k].routes \in Seq(RR)
  <2>1. \A k \in 0 .. n : f[k] \in TraceSet
    BY <1>1
  <2>2. QED
    BY <2>1 DEF TraceSet
<1>5. \A k \in 1 .. n : \E r \in RR :
        r.type = steps[k].type /\ f[k].routes = Append(f[k - 1].routes, r)
  <2>1. TAKE k \in 1 .. n
  <2>2. k - 1 \in 0 .. n
    BY <1>2
  <2>3. f[k - 1] \in TraceSet
    BY <1>4, <2>2
  <2>4. TracedOK(f[k - 1], steps[k], f[k])
    BY <1>1, <1>2, <2>3, TracedIs
  <2>5. QED
    BY <2>4 DEF TracedOK
<1> HIDE DEF RR
\* So many routes after so many steps, and those before stay.
<1> DEFINE T == {k \in 0 .. n : Len(f[k].routes) = k}
<1>6. \A k \in 0 .. n : Len(f[k].routes) = k
  <2>1. 0 \in T
    BY <1>1, <1>2 DEF EmptyTrace
  <2>2. \A k \in 0 .. n - 1 : k \in T => k + 1 \in T
    <3>1. TAKE k \in 0 .. n - 1
    <3>2. k \in 0 .. n /\ k + 1 \in 1 .. n /\ k + 1 \in 0 .. n /\ (k + 1) - 1 = k
      BY <1>2
    <3>3. PICK r \in RR : f[k + 1].routes = Append(f[k].routes, r)
      BY <1>5, <3>2
    <3>4. f[k].routes \in Seq(RR)
      BY <1>4, <3>2
    <3>5. Len(f[k + 1].routes) = Len(f[k].routes) + 1
      BY <3>3, <3>4
    <3>6. QED
      BY <3>2, <3>5
  <2>3. n \in Nat
    BY <1>2
  <2> HIDE DEF T
  <2>4. \A k \in 0 .. n : k \in T
    BY ONLY <2>1, <2>2, <2>3, AllReached
  <2>5. QED
    BY <2>4 DEF T
<1>7. \A k \in 1 .. n : /\ f[k].routes[k] \in RR /\ f[k].routes[k].type = steps[k].type
                        /\ \A i \in 1 .. k - 1 : f[k].routes[i] = f[k - 1].routes[i]
  <2>1. TAKE k \in 1 .. n
  <2>2. k - 1 \in 0 .. n /\ (k - 1) + 1 = k
    BY <1>2
  <2>3. PICK r \in RR : r.type = steps[k].type /\ f[k].routes = Append(f[k - 1].routes, r)
    BY <1>5
  <2>4. f[k - 1].routes \in Seq(RR) /\ Len(f[k - 1].routes) = k - 1
    BY <1>4, <1>6, <2>2
  <2>5. QED
    BY <2>2, <2>3, <2>4
<1> DEFINE Q == f[n].routes
           U == {m \in 0 .. n : \A i \in 1 .. m : f[m].routes[i] = f[i].routes[i]}
<1>8. \A i \in 1 .. n : Q[i] = f[i].routes[i]
  <2>1. 0 \in U
    BY <1>2
  <2>2. \A k \in 0 .. n - 1 : k \in U => k + 1 \in U
    <3>1. TAKE k \in 0 .. n - 1
    <3>2. k + 1 \in 1 .. n /\ k + 1 \in 0 .. n /\ (k + 1) - 1 = k
      BY <1>2
    <3>3. \A i \in 1 .. k : f[k + 1].routes[i] = f[k].routes[i]
      BY <1>7, <3>2
    <3>4. \A i \in 1 .. k + 1 : i \in 1 .. k \/ i = k + 1
      OBVIOUS
    <3>5. QED
      BY <3>2, <3>3, <3>4
  <2>3. n \in Nat
    BY <1>2
  <2> HIDE DEF U
  <2>4. \A k \in 0 .. n : k \in U
    BY ONLY <2>1, <2>2, <2>3, AllReached
  <2>5. n \in U
    BY <2>3, <2>4
  <2>6. QED
    BY <2>5 DEF U
<1>9. Q \in Seq(RR) /\ Len(Q) = n
  BY <1>2, <1>4, <1>6
<1>10. trace.stream = f[n].stream /\ R = TerminalScalesRouted(Q)
  <2>1. n \in 0 .. n
    BY <1>2
  <2>2. f[n] \in [stream : [Streams -> StreamType], active : [SlotNames -> Slots],
                  routes : Seq({r \in RouteSet : RouteOK(r)})]
    BY <1>4, <2>1 DEF TraceSet
  <2>3. QED
    BY <1>3, <2>2
<1> HIDE DEF Q, R
<1>11. R = [i \in 1 .. n |-> R[i]] /\ IsSeq(R) /\ Len(R) = n
  <2>1. R = [i \in 1 .. n |->
               IF i > n - 2
               THEN [Q[i] EXCEPT !.storage = FinalDram[Target(Q[i].type)]]
               ELSE Q[i]]
    BY <1>9, <1>10 DEF TerminalScalesRouted
  <2>2. R = [i \in 1 .. n |-> R[i]]
    BY <2>1
  <2>3. QED
    BY ONLY <1>2, <2>2, FunctionIsSeq
<1>12. \A i \in 1 .. n : SameRoute(R[i], Q[i])
  <2>1. TAKE i \in 1 .. n
  <2>2. R[i] = IF i > n - 2
               THEN [Q[i] EXCEPT !.storage = FinalDram[Target(Q[i].type)]]
               ELSE Q[i]
    BY <1>9, <1>10 DEF TerminalScalesRouted
  <2>3. Q[i] \in RouteSet
    BY <1>9 DEF RR
  <2>4. QED
    BY <2>2, <2>3 DEF RouteSet, SameRoute
<1>13. \A i \in 1 .. n : RouteOK(Q[i]) /\ Q[i].type = steps[i].type
  BY <1>7, <1>8 DEF RR
<1>14. \A i \in 1 .. n : RouteOK(R[i]) /\ R[i].type = steps[i].type
  BY <1>12, <1>13 DEF SameRoute, RouteOK
<1>15. TraceSteps(j, f)
  <2>1. \A k \in 1 .. n :
            /\ StepOK(steps[k]) /\ f[k] = Traced(f[k - 1], steps[k])
            /\ Len(f[k].routes) = k /\ SameRoute(R[k], f[k].routes[k])
            /\ RouteOK(R[k]) /\ R[k].type = steps[k].type
    BY <1>1, <1>2, <1>6, <1>8, <1>12, <1>14
  <2>2. /\ f \in [0 .. n -> TraceSet] /\ f[0] = EmptyTrace(j)
        /\ trace.stream = f[n].stream /\ IsSeq(R) /\ Len(R) = n /\ n \in Nat
    BY <1>1, <1>2, <1>10, <1>11
  <2>3. QED
    BY <2>1, <2>2 DEF TraceSteps, steps, n, R, trace
<1>16. QED
  BY <1>15

\* What the cones need to know of it.
LEMMA RoutesAre ==
  ASSUME NEW j, AxisOK(j)
  PROVE  LET trace == AxisTrace(j)
         IN /\ IsSeq(trace.routes) /\ Len(trace.routes) \in Nat
            /\ \A i \in 1 .. Len(trace.routes) : RouteOK(trace.routes[i])
            /\ trace.stream \in [Streams -> StreamType]
<1>1. PICK f : TraceSteps(j, f)
  BY AxisTraceIs
<1>2. \A t \in TraceSet : t.stream \in [Streams -> StreamType]
  BY DEF TraceSet
<1>3. QED
  BY <1>1, <1>2 DEF TraceSteps

LEMMA AxisJobs ==
  ASSUME NEW j \in Jobs, NEW a \in Axes
  PROVE  AxisOK(AxisJob(j, a))
BY JobsAssumption DEF AxisOK, AxisJob, StepSet

-----------------------------------------------------------------------------
(***************************************************************************)
(* What is needed around every route.                                      *)
(***************************************************************************)
TraceIs(trace) ==
    /\ IsSeq(trace.routes) /\ Len(trace.routes) \in Nat
    /\ \A i \in 1 .. Len(trace.routes) : RouteOK(trace.routes[i])
    /\ trace.stream \in [Streams -> StreamType]

Lengths == [Streams -> Int]

LEMMA NeededIs ==
  ASSUME NEW r, RouteOK(r), NEW need \in Needs
  PROVE  Needed(r, need) \in Needs /\ NeededAfter(r, need) \in Needs
<1> DEFINE t == Target(r.type)
<1>1. t \in Streams /\ Other[t] \in Streams
  BY StreamOf
<1>2. r.sourceOffset \in Int /\ r.baseOffset \in Int /\ r.k - 1 \in Int /\ 0 \in Int
  BY DEF RouteOK
<1>3. need[t] \in Stretch /\ need[Other[t]] \in Stretch
  BY <1>1 DEF Needs
<1> HIDE DEF t
<1>4. [even |-> need.odd, odd |-> need.even] \in Needs
  BY DEF Needs, Streams
<1>5. \A x \in Stretch, y \in Stretch :
        /\ [need EXCEPT ![t] = x] \in Needs
        /\ [need EXCEPT ![t] = x, ![Other[t]] = y] \in Needs
  BY <1>1 DEF Needs
<1>6. /\ Translated(need[t], r.sourceOffset, 0) \in Stretch
      /\ Translated(need[t], r.baseOffset, 0) \in Stretch
      /\ Hull(need[Other[t]], Translated(need[t], r.sourceOffset, r.k - 1)) \in Stretch
  BY <1>2, <1>3, TranslatedIs, HullIs
<1>7. Needed(r, need) \in Needs
  BY <1>4, <1>5, <1>6 DEF Needed, t
<1>8. Undone(r, need) \in Stretch
  BY <1>2, <1>3, TranslatedIs DEF Undone, t
<1>9. Hull(need[Other[t]], Translated(Undone(r, need), r.sourceOffset, r.k - 1)) \in Stretch
  BY <1>2, <1>3, <1>8, TranslatedIs, HullIs
<1>10. NeededAfter(r, need) \in Needs
  BY <1>4, <1>5, <1>8, <1>9 DEF NeededAfter, t
<1>11. QED
  BY <1>7, <1>10

LEMMA LengthsIs ==
  ASSUME NEW r, RouteOK(r), NEW len \in Lengths
  PROVE  LengthBefore(r, len) \in Lengths /\ LengthAfter(r, len) \in Lengths
<1> DEFINE t == Target(r.type)
<1>1. t \in Streams /\ Other[t] \in Streams
  BY StreamOf
<1>2. r.sourceLength \in Int /\ r.baseLength \in Int /\ r.outputLength \in Int
  BY DEF RouteOK
<1> HIDE DEF t
<1>3. \A x, y \in Int :
        /\ [len EXCEPT ![t] = x] \in Lengths
        /\ [len EXCEPT ![t] = x, ![Other[t]] = y] \in Lengths
        /\ [even |-> x, odd |-> y] \in Lengths
  BY <1>1 DEF Lengths, Streams
<1>4. [even |-> len.odd, odd |-> len.even] \in Lengths
  BY DEF Lengths, Streams
<1>5. QED
  BY <1>2, <1>3, <1>4 DEF LengthBefore, LengthAfter, t

LEMMA EndLengths ==
  ASSUME NEW j, AxisOK(j), NEW trace, TraceIs(trace)
  PROVE  SplitLength(j) \in Lengths /\ FinalLength(trace) \in Lengths
<1>1. SplitLength(j) \in Lengths
  BY PaddingIs DEF Lengths
<1>2. trace.stream.even.length \in Int /\ trace.stream.odd.length \in Int
  BY DEF TraceIs, Streams, StreamType
<1>3. FinalLength(trace) \in Lengths
  BY <1>2 DEF FinalLength, Lengths, Streams
<1>4. QED
  BY <1>1, <1>3

\* One step of either direction's fold (Before and After of AxisCone).
BackStep(route, done) ==
    [needs |-> <<Needed(route, done.needs[1])>> \o done.needs,
     length |-> LengthBefore(route, done.length),
     valid |-> /\ done.valid
               /\ LeavesLengths(route, done.length)
               /\ AllValid(Needed(route, done.needs[1]), LengthBefore(route, done.length))]

ForthStep(done, route) ==
    [needs |-> Append(done.needs, NeededAfter(route, Last(done.needs))),
     length |-> LengthAfter(route, done.length),
     valid |-> /\ done.valid
               /\ FindsLengths(route, done.length)
               /\ Kept(route, Last(done.needs))
               /\ AllValid(NeededAfter(route, Last(done.needs)),
                           LengthAfter(route, done.length))]

\* What a fold has so far: needs of some points, the last one at one end.
SoFar ==
    {x \in [needs : Seq(Needs), length : Lengths, valid : BOOLEAN] : Len(x.needs) > 0}

LEMMA BackIs ==
  ASSUME NEW r, RouteOK(r), NEW done \in SoFar
  PROVE  BackStep(r, done) \in SoFar
<1> DEFINE need == Needed(r, done.needs[1])
           len == LengthBefore(r, done.length)
           valid == done.valid /\ LeavesLengths(r, done.length) /\ AllValid(need, len)
<1>1. done.needs \in Seq(Needs) /\ Len(done.needs) > 0 /\ done.length \in Lengths
  BY DEF SoFar
<1>2. done.needs[1] \in Needs
  BY <1>1
<1>3. need \in Needs /\ len \in Lengths
  BY <1>1, <1>2, NeededIs, LengthsIs
<1>4. valid \in BOOLEAN
  BY Zenon
<1>5. BackStep(r, done) = [needs |-> <<need>> \o done.needs, length |-> len, valid |-> valid]
  BY DEF BackStep
<1> HIDE DEF need, len, valid
<1>6. <<need>> \o done.needs \in Seq(Needs) /\ Len(<<need>> \o done.needs) > 0
  BY <1>1, <1>3
<1>7. QED
  BY <1>3, <1>4, <1>5, <1>6 DEF SoFar

\* The needs and lengths around the routes of a forward cone: point i is the
\* one after route i.
BackPoints(j, trace, need, N, L) ==
    LET n == Len(trace.routes)
        back == Backpropagated(j, trace, need)
    IN /\ N \in [0 .. n -> Needs] /\ L \in [0 .. n -> Lengths]
       /\ N[n] = need /\ L[n] = FinalLength(trace)
       /\ \A i \in 1 .. n : /\ N[i - 1] = Needed(trace.routes[i], N[i])
                            /\ L[i - 1] = LengthBefore(trace.routes[i], L[i])
       /\ \A i \in 0 .. n : back.needs[i + 1] = N[i]
       /\ back.valid <=>
            /\ \A i \in 0 .. n : AllValid(N[i], L[i])
            /\ \A i \in 1 .. n : LeavesLengths(trace.routes[i], L[i])
            /\ L[0] = SplitLength(j)

LEMMA BackFold ==
  ASSUME NEW j, AxisOK(j), NEW trace, TraceIs(trace), NEW need \in Needs
  PROVE  LET n == Len(trace.routes)
             start == [needs |-> <<need>>, length |-> FinalLength(trace),
                       valid |-> AllValid(need, FinalLength(trace))]
         IN \E g \in [0 .. n -> SoFar] :
              /\ g[n] = start
              /\ \A k \in 1 .. n : g[k - 1] = BackStep(trace.routes[k], g[k])
              /\ Backpropagated(j, trace, need) =
                   [g[0] EXCEPT !.valid = @ /\ g[0].length = SplitLength(j)]
<1> DEFINE R == trace.routes
           n == Len(R)
           base == [needs |-> <<need>>, length |-> FinalLength(trace),
                    valid |-> AllValid(need, FinalLength(trace))]
           step == [x \in (1 .. n) \X SoFar |-> BackStep(R[x[1]], x[2])]
           P(iter) == iter = [s \in SUBSET (1 .. n) |->
                                IF s = {} THEN base
                                ELSE BackStep(R[Min(s)], iter[s \ {Min(s)}])]
           c == CHOOSE iter : P(iter)
           g == [k \in 0 .. n |-> c[k + 1 .. n]]
<1>1. n \in Nat /\ DOMAIN R = 1 .. n /\ \A i \in 1 .. n : RouteOK(R[i])
  <2>1. PICK X : R \in Seq(X)
    BY DEF TraceIs, IsSeq
  <2>2. QED
    BY <2>1 DEF TraceIs
<1>2. base \in SoFar
  <2>1. AllValid(need, FinalLength(trace)) \in BOOLEAN
    BY Zenon DEF AllValid
  <2>2. FinalLength(trace) \in Lengths /\ <<need>> \in Seq(Needs) /\ Len(<<need>>) > 0
    BY EndLengths
  <2>3. QED
    BY <2>1, <2>2 DEF SoFar
<1>3. \A i \in 1 .. n, x \in SoFar : BackStep(R[i], x) \in SoFar
  BY <1>1, BackIs
<1>4. Backpropagated(j, trace, need)
        = [c[1 .. n] EXCEPT !.valid = @ /\ c[1 .. n].length = SplitLength(j)]
  BY <1>1 DEF Backpropagated, FoldRight, MapThenFoldSet, BackStep
<1> HIDE DEF n, base, R
<1>5. Steps(n, SoFar, step)
  BY <1>3 DEF Steps
<1>6. \A k \in 1 .. n, x \in SoFar : step[<<k, x>>] = BackStep(R[k], x)
  OBVIOUS
<1> HIDE DEF step
<1>7. \E iter : P(iter)
  <2>1. PICK iter : SolvesRight(n, SoFar, base, step, iter)
    <3>1. n \in Nat
      BY <1>1
    <3>2. QED
      BY ONLY <3>1, <1>2, <1>5, RightUnfolds
  <2>2. \A s \in SUBSET (1 .. n) :
          iter[s] = IF s = {} THEN base ELSE BackStep(R[Min(s)], iter[s \ {Min(s)}])
    <3>1. TAKE s \in SUBSET (1 .. n)
    <3>2. ASSUME s # {} PROVE step[<<Min(s), iter[s \ {Min(s)}]>>]
                                = BackStep(R[Min(s)], iter[s \ {Min(s)}])
      <4>1. Min(s) \in s
        <5>1. 1 \in Int /\ n \in Int
          BY <1>1
        <5>2. QED
          BY ONLY <5>1, <3>2, s \in SUBSET (1 .. n), MinIs
      <4>2. Min(s) \in 1 .. n /\ s \ {Min(s)} \in SUBSET (1 .. n)
        BY <4>1
      <4>3. iter[s \ {Min(s)}] \in SoFar
        BY <2>1, <4>2 DEF SolvesRight
      <4>4. QED
        BY <1>6, <4>2, <4>3
    <3>3. QED
      BY <2>1, <3>2 DEF SolvesRight
  <2>3. QED
    BY <2>1, <2>2 DEF SolvesRight
<1>8. P(c)
  <2> HIDE DEF P
  <2>1. QED
    BY <1>7, Zenon
<1> HIDE DEF c
<1>9. c[n + 1 .. n] = base /\ \A k \in 1 .. n : c[k .. n] = BackStep(R[k], c[k + 1 .. n])
  <2>1. \A s \in SUBSET (1 .. n) :
          c[s] = IF s = {} THEN base ELSE BackStep(R[Min(s)], c[s \ {Min(s)}])
    BY <1>8
  <2>2. c[n + 1 .. n] = base
    <3>1. (n + 1 .. n) = {} /\ (n + 1 .. n) \in SUBSET (1 .. n)
      BY <1>1
    <3>2. QED
      BY <2>1, <3>1
  <2>3. ASSUME NEW k \in 1 .. n PROVE c[k .. n] = BackStep(R[k], c[k + 1 .. n])
    <3>1. /\ (k .. n) \in SUBSET (1 .. n) /\ (k .. n) # {}
          /\ (k .. n) \ {k} = k + 1 .. n /\ Min(k .. n) = k
      BY <1>1, RearIs
    <3>2. QED
      BY ONLY <2>1, <3>1
  <2>4. QED
    BY <2>2, <2>3
<1>10. g[n] = base /\ \A k \in 1 .. n : g[k - 1] = BackStep(R[k], g[k])
  <2>1. \A k \in 1 .. n : k - 1 \in 0 .. n /\ k \in 0 .. n /\ (k - 1) + 1 = k
    BY <1>1
  <2>2. n \in 0 .. n
    BY <1>1
  <2>3. g[n] = base
    BY <1>9, <2>2
  <2>4. \A k \in 1 .. n : g[k - 1] = c[k .. n] /\ g[k] = c[k + 1 .. n]
    BY <2>1
  <2>5. QED
    BY <1>9, <2>3, <2>4
<1>11. g[0] = c[1 .. n]
  BY <1>1
<1> DEFINE T == {k \in 0 .. n : g[n - k] \in SoFar}
<1>12. DOMAIN g = 0 .. n /\ g = [k \in 0 .. n |-> g[k]]
  OBVIOUS
<1> HIDE DEF g
<1>13. \A k \in 0 .. n : k \in T
  <2>1. 0 \in T
    BY <1>1, <1>2, <1>10
  <2>2. \A k \in 0 .. n - 1 : k \in T => k + 1 \in T
    <3>1. TAKE k \in 0 .. n - 1
    <3>2. n - k \in 1 .. n /\ k + 1 \in 0 .. n /\ (n - k) - 1 = n - (k + 1)
      BY <1>1
    <3>3. g[n - (k + 1)] = BackStep(R[n - k], g[n - k])
      BY <1>10, <3>2
    <3>4. QED
      BY <1>3, <3>2, <3>3
  <2> HIDE DEF T
  <2>3. QED
    BY <1>1, <2>1, <2>2, AllReached
<1>14. g \in [0 .. n -> SoFar]
  <2>1. \A k \in 0 .. n : n - k \in 0 .. n /\ n - (n - k) = k
    BY <1>1
  <2>2. \A k \in 0 .. n : g[k] \in SoFar
    BY <1>13, <2>1
  <2>3. QED
    BY <1>12, <2>2
<1>15. Backpropagated(j, trace, need)
        = [g[0] EXCEPT !.valid = @ /\ g[0].length = SplitLength(j)]
  BY <1>4, <1>11, Zenon
<1>16. QED
  BY <1>10, <1>14, <1>15 DEF n, base, R

LEMMA BackValid ==
  \A r, done : BackStep(r, done).valid
    = (/\ done.valid /\ LeavesLengths(r, done.length)
       /\ AllValid(Needed(r, done.needs[1]), LengthBefore(r, done.length)))
BY Zenon DEF BackStep

LEMMA Prepended ==
  ASSUME NEW S, NEW e \in S, NEW q \in Seq(S)
  PROVE  /\ <<e>> \o q \in Seq(S) /\ Len(<<e>> \o q) = Len(q) + 1 /\ Len(q) \in Nat
         /\ (<<e>> \o q)[1] = e
         /\ \A i \in 1 .. Len(q) : (<<e>> \o q)[i + 1] = q[i]
<1>1. IsSeq(<<e>>) /\ Len(<<e>>) = 1 /\ IsSeq(q) /\ <<e>>[1] = e
  BY SingletonIsSeq DEF IsSeq
<1>2. /\ Len(q) \in Nat
      /\ <<e>> \o q = [i \in 1 .. 1 + Len(q) |-> IF i <= 1 THEN <<e>>[i] ELSE q[i - 1]]
  BY <1>1, ConcatElements
<1>3. <<e>> \o q \in Seq(S) /\ Len(<<e>> \o q) = Len(q) + 1
  OBVIOUS
<1>4. (<<e>> \o q)[1] = e
  <2>1. 1 \in 1 .. 1 + Len(q) /\ 1 <= 1
    BY <1>2
  <2>2. QED
    BY <1>1, <1>2, <2>1
<1>5. \A i \in 1 .. Len(q) : (<<e>> \o q)[i + 1] = q[i]
  <2>1. TAKE i \in 1 .. Len(q)
  <2>2. i + 1 \in 1 .. 1 + Len(q) /\ ~(i + 1 <= 1) /\ (i + 1) - 1 = i
    BY <1>2
  <2>3. QED
    BY <1>2, <2>2
<1>6. QED
  BY <1>2, <1>3, <1>4, <1>5

LEMMA BackChain ==
  ASSUME NEW j, AxisOK(j), NEW trace, TraceIs(trace), NEW need \in Needs
  PROVE  \E N, L : BackPoints(j, trace, need, N, L)
<1> DEFINE R == trace.routes
           n == Len(R)
           back == Backpropagated(j, trace, need)
<1>0. n \in Nat /\ \A i \in 1 .. n : RouteOK(R[i])
  BY DEF TraceIs
<1>1. PICK g \in [0 .. n -> SoFar] :
        /\ g[n] = [needs |-> <<need>>, length |-> FinalLength(trace),
                   valid |-> AllValid(need, FinalLength(trace))]
        /\ \A k \in 1 .. n : g[k - 1] = BackStep(R[k], g[k])
        /\ back = [g[0] EXCEPT !.valid = @ /\ g[0].length = SplitLength(j)]
  BY BackFold
<1> HIDE DEF n, R, back
<1> DEFINE N == [i \in 0 .. n |-> g[i].needs[1]]
           L == [i \in 0 .. n |-> g[i].length]
<1>2. \A i \in 0 .. n : /\ g[i].needs \in Seq(Needs) /\ Len(g[i].needs) > 0
                        /\ g[i].length \in Lengths /\ g[i] \in SoFar
  BY <1>1 DEF SoFar
<1>3. /\ N \in [0 .. n -> Needs] /\ L \in [0 .. n -> Lengths]
      /\ \A i \in 0 .. n : N[i] = g[i].needs[1] /\ L[i] = g[i].length
  BY <1>2
<1> HIDE DEF N, L
<1>4. \A k \in 1 .. n : k \in 0 .. n /\ k - 1 \in 0 .. n
  BY <1>0
<1>5. /\ N[n] = need /\ L[n] = FinalLength(trace) /\ Len(g[n].needs) = 1
      /\ g[n].valid = AllValid(N[n], L[n])
  <2>1. n \in 0 .. n
    BY <1>0
  <2>2. N[n] = need /\ L[n] = FinalLength(trace)
    BY <1>1, <1>3, <2>1
  <2>3. QED
    BY <1>1, <2>2
<1>6. \A k \in 1 .. n :
        /\ N[k - 1] = Needed(R[k], N[k]) /\ L[k - 1] = LengthBefore(R[k], L[k])
        /\ g[k - 1].needs = <<N[k - 1]>> \o g[k].needs
        /\ g[k - 1].valid = (/\ g[k].valid /\ LeavesLengths(R[k], L[k])
                             /\ AllValid(N[k - 1], L[k - 1]))
  <2>1. TAKE k \in 1 .. n
  <2>2. g[k - 1] = BackStep(R[k], g[k])
    BY <1>1
  <2>3. /\ N[k] = g[k].needs[1] /\ L[k] = g[k].length
        /\ N[k - 1] = g[k - 1].needs[1] /\ L[k - 1] = g[k - 1].length
    BY <1>3, <1>4
  <2>4. Needed(R[k], N[k]) \in Needs /\ g[k].needs \in Seq(Needs)
    BY <1>0, <1>2, <1>3, <1>4, NeededIs
  <2>5. /\ g[k - 1].needs = <<Needed(R[k], N[k])>> \o g[k].needs
        /\ L[k - 1] = LengthBefore(R[k], L[k])
    BY <2>2, <2>3 DEF BackStep
  <2>6. N[k - 1] = Needed(R[k], N[k])
    BY <2>3, <2>4, <2>5
  <2>7. g[k - 1].valid = (/\ g[k].valid /\ LeavesLengths(R[k], g[k].length)
                           /\ AllValid(Needed(R[k], g[k].needs[1]),
                                       LengthBefore(R[k], g[k].length)))
    <3>1. BackStep(R[k], g[k]).valid
             = (/\ g[k].valid /\ LeavesLengths(R[k], g[k].length)
                /\ AllValid(Needed(R[k], g[k].needs[1]),
                            LengthBefore(R[k], g[k].length)))
      BY Zenon, BackValid
    <3>2. QED
      BY <2>2, <3>1, Zenon
  <2>8. QED
    BY <2>3, <2>5, <2>6, <2>7, Zenon
\* Where in the sequences the needs are.
<1> DEFINE T == {k \in 0 .. n : /\ Len(g[n - k].needs) = k + 1
                                /\ \A i \in n - k .. n : g[n - k].needs[i - (n - k) + 1] = N[i]}
<1>7. \A k \in 0 .. n : k \in T
  <2>1. 0 \in T
    <3>1. n \in 0 .. n /\ n - 0 = n /\ \A i \in n .. n : i = n /\ i - n + 1 = 1
      BY <1>0
    <3>2. g[n].needs[1] = N[n]
      BY <1>3, <3>1
    <3>3. QED
      BY <1>0, <1>5, <3>1, <3>2
  <2>2. \A k \in 0 .. n - 1 : k \in T => k + 1 \in T
    <3>1. TAKE k \in 0 .. n - 1
    <3> DEFINE m == n - k
    <3>2. m \in 1 .. n /\ k + 1 \in 0 .. n /\ m - 1 = n - (k + 1) /\ n = m + k /\ m \in 0 .. n
      BY <1>0
    <3> HIDE DEF m
    <3>3. HAVE k \in T
    <3>4. /\ Len(g[m].needs) = k + 1
          /\ \A i \in m .. n : g[m].needs[i - m + 1] = N[i]
      BY <3>3 DEF m
    <3>5. /\ g[m - 1].needs = <<N[m - 1]>> \o g[m].needs /\ g[m].needs \in Seq(Needs)
          /\ N[m - 1] \in Needs
      BY <1>2, <1>3, <1>4, <1>6, <3>2
    <3>6. Len(g[m - 1].needs) = k + 2
      BY <3>2, <3>4, <3>5
    <3>7. ASSUME NEW i \in m - 1 .. n
          PROVE  g[m - 1].needs[i - (m - 1) + 1] = N[i]
      <4>1. CASE i = m - 1
        <5>1. i - (m - 1) + 1 = 1
          BY <3>2, <4>1
        <5>2. g[m - 1].needs[1] = N[m - 1]
          BY <3>5, Prepended
        <5>3. QED
          BY <4>1, <5>1, <5>2
      <4>2. CASE i \in m .. n
        <5>1. /\ i - (m - 1) + 1 = (i - m + 1) + 1 /\ i - m + 1 \in 1 .. k + 1
          BY <3>2, <4>2
        <5>2. g[m - 1].needs[(i - m + 1) + 1] = g[m].needs[i - m + 1]
          <6> DEFINE q == g[m].needs
                     e == i - m + 1
          <6>1. q \in Seq(Needs) /\ N[m - 1] \in Needs /\ e \in 1 .. Len(q)
            BY <3>4, <3>5, <5>1
          <6>2. g[m - 1].needs = <<N[m - 1]>> \o q
            BY <3>5
          <6> HIDE DEF q, e
          <6>3. (<<N[m - 1]>> \o q)[e + 1] = q[e]
            BY <6>1, Prepended
          <6>4. g[m - 1].needs[e + 1] = q[e]
            BY <6>2, <6>3
          <6>5. QED
            BY <6>4 DEF q, e
        <5>3. QED
          BY <3>4, <4>2, <5>1, <5>2
      <4>3. QED
        BY <3>2, <4>1, <4>2
    <3>8. QED
      BY <3>2, <3>6, <3>7 DEF m
  <2> HIDE DEF T
  <2>3. QED
    BY ONLY <1>0, <2>1, <2>2, AllReached
<1>8. \A i \in 0 .. n : back.needs[i + 1] = N[i]
  <2>1. n \in T /\ n - n = 0 /\ 0 \in 0 .. n
    <3>1. n \in 0 .. n /\ n - n = 0 /\ 0 \in 0 .. n
      BY <1>0
    <3> HIDE DEF T
    <3>2. QED
      BY <1>7, <3>1
  <2>2. \A i \in 0 .. n : g[0].needs[i - 0 + 1] = N[i]
    BY <2>1
  <2>3. back.needs = g[0].needs
    BY <1>1, <1>2, <2>1 DEF SoFar
  <2>4. \A i \in 0 .. n : i - 0 + 1 = i + 1
    BY <1>0
  <2>5. QED
    BY <2>2, <2>3, <2>4
<1> DEFINE Good(i) == /\ \A m \in i .. n : AllValid(N[m], L[m])
                      /\ \A m \in i + 1 .. n : LeavesLengths(R[m], L[m])
           V == {k \in 0 .. n : g[n - k].valid <=> Good(n - k)}
<1>9. \A k \in 0 .. n : k \in V
  <2>1. 0 \in V
    <3>1. n \in 0 .. n /\ n - 0 = n /\ n .. n = {n} /\ n + 1 .. n = {} /\ 0 \in 0 .. n
      BY <1>0
    <3>2. Good(n) <=> AllValid(N[n], L[n])
      BY <3>1
    <3>3. g[n].valid <=> AllValid(N[n], L[n])
      BY <1>5, Zenon
    <3> HIDE DEF Good
    <3>4. QED
      BY <3>1, <3>2, <3>3
  <2>2. \A k \in 0 .. n - 1 : k \in V => k + 1 \in V
    <3>1. TAKE k \in 0 .. n - 1
    <3> DEFINE m == n - k
    <3>2. m \in 1 .. n /\ k + 1 \in 0 .. n /\ m - 1 = n - (k + 1) /\ k \in 0 .. n
      BY <1>0
    <3>3. m - 1 .. n = {m - 1} \cup (m .. n) /\ (m - 1) + 1 .. n = {m} \cup (m + 1 .. n)
      BY <1>0, <3>2
    <3> HIDE DEF m
    <3>4. Good(m - 1) <=> Good(m) /\ LeavesLengths(R[m], L[m]) /\ AllValid(N[m - 1], L[m - 1])
      BY <3>3
    <3>5. g[m - 1].valid <=> g[m].valid /\ LeavesLengths(R[m], L[m]) /\ AllValid(N[m - 1], L[m - 1])
      BY <1>6, <3>2, Zenon
    <3> HIDE DEF Good
    <3>6. HAVE k \in V
    <3>7. g[m].valid <=> Good(m)
      BY <3>6, Zenon DEF m
    <3>8. g[m - 1].valid <=> Good(m - 1)
      BY <3>4, <3>5, <3>7, Zenon
    <3>9. g[n - (k + 1)].valid <=> Good(n - (k + 1))
      BY <3>2, <3>8, Zenon
    <3>10. QED
      BY <3>2, <3>9, Zenon
  <2> HIDE DEF V
  <2>3. QED
    BY ONLY <1>0, <2>1, <2>2, AllReached
<1>10. back.valid <=> Good(0) /\ L[0] = SplitLength(j)
  <2>1. n \in 0 .. n /\ n - n = 0 /\ 0 \in 0 .. n
    BY <1>0
  <2> HIDE DEF Good
  <2>2. g[0].valid <=> Good(0)
    <3>1. g[n - n].valid <=> Good(n - n)
      BY <1>9, <2>1, Zenon
    <3>2. QED
      BY <2>1, <3>1, Zenon
  <2>3. L[0] = g[0].length /\ g[0] \in [needs : Seq(Needs), length : Lengths, valid : BOOLEAN]
    BY <1>2, <1>3, <2>1 DEF SoFar
  <2>4. "valid" \in DOMAIN g[0]
    BY <2>3
  <2>5. back.valid = (g[0].valid /\ g[0].length = SplitLength(j))
    BY <1>1, <2>4, Zenon
  <2>6. QED
    BY <2>2, <2>3, <2>5, Zenon
<1>11. BackPoints(j, trace, need, N, L)
  <2>1. \A i \in 1 .. n : N[i - 1] = Needed(R[i], N[i]) /\ L[i - 1] = LengthBefore(R[i], L[i])
    BY <1>6
  <2>2. back.valid <=> /\ \A i \in 0 .. n : AllValid(N[i], L[i])
                       /\ \A i \in 1 .. n : LeavesLengths(R[i], L[i])
                       /\ L[0] = SplitLength(j)
    <3>1. 0 + 1 = 1
      OBVIOUS
    <3>2. Good(0) <=> /\ \A i \in 0 .. n : AllValid(N[i], L[i])
                      /\ \A i \in 1 .. n : LeavesLengths(R[i], L[i])
      BY <3>1, Zenon
    <3> HIDE DEF Good
    <3>3. QED
      BY <1>10, <3>2, Zenon
  <2>3. N[n] = need /\ L[n] = FinalLength(trace)
    BY <1>5
  <2>4. QED
    BY <1>3, <1>8, <2>1, <2>2, <2>3, Zenon DEF BackPoints, n, R, back
<1>12. QED
  BY <1>11

LEMMA ForthIs ==
  ASSUME NEW r, RouteOK(r), NEW done \in SoFar
  PROVE  ForthStep(done, r) \in SoFar
<1> DEFINE need == NeededAfter(r, Last(done.needs))
           len == LengthAfter(r, done.length)
           valid == /\ done.valid /\ FindsLengths(r, done.length)
                    /\ Kept(r, Last(done.needs)) /\ AllValid(need, len)
<1>1. done.needs \in Seq(Needs) /\ Len(done.needs) > 0 /\ done.length \in Lengths
  BY DEF SoFar
<1>2. Last(done.needs) \in Needs
  BY <1>1 DEF Last
<1>3. need \in Needs /\ len \in Lengths
  BY <1>1, <1>2, NeededIs, LengthsIs
<1>4. valid \in BOOLEAN
  BY Zenon
<1>5. ForthStep(done, r) = [needs |-> Append(done.needs, need), length |-> len, valid |-> valid]
  BY DEF ForthStep
<1> HIDE DEF need, len, valid
<1>6. Append(done.needs, need) \in Seq(Needs) /\ Len(Append(done.needs, need)) > 0
  BY <1>1, <1>3
<1>7. QED
  BY <1>3, <1>4, <1>5, <1>6 DEF SoFar

\* The needs and lengths around the routes of a trace, for an inverse cone:
\* point i is the one after route i.
ForthPoints(j, trace, need, N, L) ==
    LET n == Len(trace.routes)
        forth == Propagated(j, trace, need)
    IN /\ N \in [0 .. n -> Needs] /\ L \in [0 .. n -> Lengths]
       /\ N[0] = need /\ L[0] = SplitLength(j)
       /\ \A i \in 1 .. n : /\ N[i] = NeededAfter(trace.routes[i], N[i - 1])
                            /\ L[i] = LengthAfter(trace.routes[i], L[i - 1])
       /\ Last(forth.needs) = N[n]
       /\ \A i \in 0 .. n : forth.needs[i + 1] = N[i]
       /\ forth.valid <=>
            /\ \A i \in 0 .. n : AllValid(N[i], L[i])
            /\ \A i \in 1 .. n : /\ FindsLengths(trace.routes[i], L[i - 1])
                                 /\ Kept(trace.routes[i], N[i - 1])
            /\ L[n] = FinalLength(trace)

LEMMA ForthFold ==
  ASSUME NEW j, AxisOK(j), NEW trace, TraceIs(trace), NEW need \in Needs
  PROVE  LET n == Len(trace.routes)
             start == [needs |-> <<need>>, length |-> SplitLength(j),
                       valid |-> AllValid(need, SplitLength(j))]
         IN \E f \in [0 .. n -> SoFar] :
              /\ f[0] = start
              /\ \A k \in 1 .. n : f[k] = ForthStep(f[k - 1], trace.routes[k])
              /\ Propagated(j, trace, need) =
                   [f[n] EXCEPT !.valid = @ /\ f[n].length = FinalLength(trace)]
<1> DEFINE R == trace.routes
           n == Len(R)
           base == [needs |-> <<need>>, length |-> SplitLength(j),
                    valid |-> AllValid(need, SplitLength(j))]
           step == [x \in (1 .. n) \X SoFar |-> ForthStep(x[2], R[x[1]])]
           P(iter) == iter = [s \in SUBSET (1 .. n) |->
                                IF s = {} THEN base
                                ELSE ForthStep(iter[s \ {Max(s)}], R[Max(s)])]
           c == CHOOSE iter : P(iter)
           f == [k \in 0 .. n |-> c[1 .. k]]
<1>1. n \in Nat /\ DOMAIN R = 1 .. n /\ \A i \in 1 .. n : RouteOK(R[i])
  <2>1. PICK X : R \in Seq(X)
    BY DEF TraceIs, IsSeq
  <2>2. QED
    BY <2>1 DEF TraceIs
<1>2. base \in SoFar
  <2>1. AllValid(need, SplitLength(j)) \in BOOLEAN
    BY Zenon DEF AllValid
  <2>2. SplitLength(j) \in Lengths /\ <<need>> \in Seq(Needs) /\ Len(<<need>>) > 0
    BY EndLengths
  <2>3. QED
    BY <2>1, <2>2 DEF SoFar
<1>3. \A i \in 1 .. n, t \in SoFar : ForthStep(t, R[i]) \in SoFar
  BY <1>1, ForthIs
<1>4. Propagated(j, trace, need)
        = [c[1 .. n] EXCEPT !.valid = @ /\ c[1 .. n].length = FinalLength(trace)]
  BY <1>1 DEF Propagated, FoldLeft, MapThenFoldSet, ForthStep
<1> HIDE DEF n, base, R
<1>5. step \in [(1 .. n) \X SoFar -> SoFar]
  BY <1>3
<1>6. \A k \in 1 .. n, t \in SoFar : step[<<k, t>>] = ForthStep(t, R[k])
  OBVIOUS
<1> HIDE DEF step
<1>7. \E iter : P(iter)
  <2>1. PICK iter : SolvesLeft(n, SoFar, base, step, iter)
    <3>1. n \in Nat /\ Steps(n, SoFar, step)
      BY <1>1, <1>5 DEF Steps
    <3>2. QED
      BY ONLY <3>1, <1>2, LeftUnfolds
  <2>2. \A s \in SUBSET (1 .. n) :
          iter[s] = IF s = {} THEN base ELSE ForthStep(iter[s \ {Max(s)}], R[Max(s)])
    <3>1. TAKE s \in SUBSET (1 .. n)
    <3>2. ASSUME s # {} PROVE step[<<Max(s), iter[s \ {Max(s)}]>>]
                                = ForthStep(iter[s \ {Max(s)}], R[Max(s)])
      <4>1. Max(s) \in s
        <5>1. 1 \in Int /\ n \in Int
          BY <1>1
        <5>2. QED
          BY ONLY <5>1, <3>2, s \in SUBSET (1 .. n), MaxIs
      <4>2. Max(s) \in 1 .. n /\ s \ {Max(s)} \in SUBSET (1 .. n)
        BY <4>1
      <4>3. iter[s \ {Max(s)}] \in SoFar
        BY <2>1, <4>2 DEF SolvesLeft
      <4>4. QED
        BY <1>6, <4>2, <4>3
    <3>3. QED
      BY <2>1, <3>2 DEF SolvesLeft
  <2>3. QED
    BY <2>1, <2>2 DEF SolvesLeft
<1>8. P(c)
  <2> HIDE DEF P
  <2>1. QED
    BY <1>7, Zenon
<1> HIDE DEF c
<1>9. c[1 .. 0] = base /\ \A k \in 1 .. n : c[1 .. k] = ForthStep(c[1 .. k - 1], R[k])
  <2>1. \A s \in SUBSET (1 .. n) :
          c[s] = IF s = {} THEN base ELSE ForthStep(c[s \ {Max(s)}], R[Max(s)])
    BY <1>8
  <2>2. c[1 .. 0] = base
    <3>1. (1 .. 0) = {} /\ (1 .. 0) \in SUBSET (1 .. n)
      OBVIOUS
    <3>2. QED
      BY <2>1, <3>1
  <2>3. ASSUME NEW k \in 1 .. n PROVE c[1 .. k] = ForthStep(c[1 .. k - 1], R[k])
    BY <1>1, <2>1, FrontIs
  <2>4. QED
    BY <2>2, <2>3
<1>10. f[0] = base /\ \A k \in 1 .. n : f[k] = ForthStep(f[k - 1], R[k])
  <2>1. \A k \in 1 .. n : k - 1 \in 0 .. n /\ k \in 0 .. n
    BY <1>1
  <2>2. QED
    BY <1>1, <1>9, <2>1
<1>11. f[n] = c[1 .. n]
  BY <1>1
<1> DEFINE T == {k \in 0 .. n : f[k] \in SoFar}
<1>12. DOMAIN f = 0 .. n /\ f = [k \in 0 .. n |-> f[k]]
  OBVIOUS
<1> HIDE DEF f
<1>13. \A k \in 0 .. n : k \in T
  <2>1. 0 \in T
    BY <1>1, <1>2, <1>10
  <2>2. \A k \in 0 .. n - 1 : k \in T => k + 1 \in T
    <3>1. TAKE k \in 0 .. n - 1
    <3>2. k + 1 \in 1 .. n /\ k + 1 \in 0 .. n /\ (k + 1) - 1 = k
      BY <1>1
    <3>3. f[k + 1] = ForthStep(f[k], R[k + 1])
      BY <1>10, <3>2
    <3>4. QED
      BY <1>3, <3>2, <3>3
  <2> HIDE DEF T
  <2>3. QED
    BY <1>1, <2>1, <2>2, AllReached
<1>14. f \in [0 .. n -> SoFar]
  BY <1>12, <1>13
<1>15. Propagated(j, trace, need)
        = [f[n] EXCEPT !.valid = @ /\ f[n].length = FinalLength(trace)]
  BY <1>4, <1>11, Zenon
<1>16. QED
  BY <1>10, <1>14, <1>15 DEF n, base, R

LEMMA ForthValid ==
  \A r, done : ForthStep(done, r).valid
    = (/\ done.valid /\ FindsLengths(r, done.length) /\ Kept(r, Last(done.needs))
       /\ AllValid(NeededAfter(r, Last(done.needs)), LengthAfter(r, done.length)))
BY Zenon DEF ForthStep

LEMMA ForthChain ==
  ASSUME NEW j, AxisOK(j), NEW trace, TraceIs(trace), NEW need \in Needs
  PROVE  \E N, L : ForthPoints(j, trace, need, N, L)
<1> DEFINE R == trace.routes
           n == Len(R)
           forth == Propagated(j, trace, need)
<1>0. n \in Nat /\ \A i \in 1 .. n : RouteOK(R[i])
  BY DEF TraceIs
<1>1. PICK f \in [0 .. n -> SoFar] :
        /\ f[0] = [needs |-> <<need>>, length |-> SplitLength(j),
                   valid |-> AllValid(need, SplitLength(j))]
        /\ \A k \in 1 .. n : f[k] = ForthStep(f[k - 1], R[k])
        /\ forth = [f[n] EXCEPT !.valid = @ /\ f[n].length = FinalLength(trace)]
  BY ForthFold
<1> HIDE DEF n, R, forth
<1> DEFINE N == [i \in 0 .. n |-> Last(f[i].needs)]
           L == [i \in 0 .. n |-> f[i].length]
<1>2. \A i \in 0 .. n : /\ f[i].needs \in Seq(Needs) /\ Len(f[i].needs) > 0
                        /\ f[i].length \in Lengths /\ f[i] \in SoFar
                        /\ Last(f[i].needs) \in Needs
  BY <1>1 DEF SoFar, Last
<1>3. /\ N \in [0 .. n -> Needs] /\ L \in [0 .. n -> Lengths]
      /\ \A i \in 0 .. n : N[i] = Last(f[i].needs) /\ L[i] = f[i].length
  BY <1>2
<1> HIDE DEF N, L
<1>4. \A k \in 1 .. n : k \in 0 .. n /\ k - 1 \in 0 .. n
  BY <1>0
<1>5. /\ N[0] = need /\ L[0] = SplitLength(j) /\ f[0].needs = <<need>>
      /\ f[0].valid = AllValid(N[0], L[0])
  <2>1. 0 \in 0 .. n
    BY <1>0
  <2>2. f[0].needs = <<need>> /\ f[0].length = SplitLength(j)
    BY <1>1
  <2>3. N[0] = need /\ L[0] = SplitLength(j)
    <3>1. Len(<<need>>) = 1 /\ <<need>>[1] = need
      OBVIOUS
    <3>2. QED
      BY <1>3, <2>1, <2>2, <3>1 DEF Last
  <2>4. QED
    BY <1>1, <2>2, <2>3
<1>6. \A k \in 1 .. n :
        /\ N[k] = NeededAfter(R[k], N[k - 1]) /\ L[k] = LengthAfter(R[k], L[k - 1])
        /\ f[k].needs = Append(f[k - 1].needs, N[k])
        /\ f[k].valid = (/\ f[k - 1].valid /\ FindsLengths(R[k], L[k - 1])
                         /\ Kept(R[k], N[k - 1]) /\ AllValid(N[k], L[k]))
  <2>1. TAKE k \in 1 .. n
  <2>2. f[k] = ForthStep(f[k - 1], R[k])
    BY <1>1
  <2>3. /\ N[k] = Last(f[k].needs) /\ L[k] = f[k].length
        /\ N[k - 1] = Last(f[k - 1].needs) /\ L[k - 1] = f[k - 1].length
    BY <1>3, <1>4
  <2>4. NeededAfter(R[k], N[k - 1]) \in Needs /\ f[k - 1].needs \in Seq(Needs)
    BY <1>0, <1>2, <1>3, <1>4, NeededIs
  <2>5. /\ f[k].needs = Append(f[k - 1].needs, NeededAfter(R[k], N[k - 1]))
        /\ L[k] = LengthAfter(R[k], L[k - 1])
    BY <2>2, <2>3 DEF ForthStep
  <2>6. N[k] = NeededAfter(R[k], N[k - 1])
    BY <2>3, <2>4, <2>5 DEF Last
  <2>7. f[k].valid
          = (/\ f[k - 1].valid /\ FindsLengths(R[k], f[k - 1].length)
             /\ Kept(R[k], Last(f[k - 1].needs))
             /\ AllValid(NeededAfter(R[k], Last(f[k - 1].needs)),
                         LengthAfter(R[k], f[k - 1].length)))
    <3>1. ForthStep(f[k - 1], R[k]).valid
            = (/\ f[k - 1].valid /\ FindsLengths(R[k], f[k - 1].length)
               /\ Kept(R[k], Last(f[k - 1].needs))
               /\ AllValid(NeededAfter(R[k], Last(f[k - 1].needs)),
                           LengthAfter(R[k], f[k - 1].length)))
      BY Zenon, ForthValid
    <3>2. QED
      BY <2>2, <3>1, Zenon
  <2>8. QED
    BY <2>3, <2>5, <2>6, <2>7, Zenon
\* Where in the sequences the needs are.
<1> DEFINE T == {k \in 0 .. n : /\ Len(f[k].needs) = k + 1
                                /\ \A i \in 0 .. k : f[k].needs[i + 1] = N[i]}
<1>7. \A k \in 0 .. n : k \in T
  <2>1. 0 \in T
    <3>1. /\ Len(<<need>>) = 1 /\ <<need>>[1] = need /\ 0 \in 0 .. n
          /\ \A i \in 0 .. 0 : i = 0 /\ i + 1 = 1
      BY <1>0
    <3>2. Len(f[0].needs) = 0 + 1
      BY <1>5, <3>1
    <3>3. \A i \in 0 .. 0 : f[0].needs[i + 1] = N[i]
      <4>1. f[0].needs[1] = N[0]
        BY <1>5, <3>1
      <4>2. QED
        BY <3>1, <4>1
    <3>4. QED
      BY <3>1, <3>2, <3>3
  <2>2. \A k \in 0 .. n - 1 : k \in T => k + 1 \in T
    <3>1. TAKE k \in 0 .. n - 1
    <3>2. k + 1 \in 1 .. n /\ k + 1 \in 0 .. n /\ k \in 0 .. n /\ (k + 1) - 1 = k
      BY <1>0
    <3>3. HAVE k \in T
    <3>4. /\ Len(f[k].needs) = k + 1
          /\ \A i \in 0 .. k : f[k].needs[i + 1] = N[i]
      BY <3>3
    <3>5. /\ f[k + 1].needs = Append(f[k].needs, N[k + 1]) /\ f[k].needs \in Seq(Needs)
          /\ N[k + 1] \in Needs
      BY <1>2, <1>3, <1>6, <3>2
    <3>6. Len(f[k + 1].needs) = (k + 1) + 1
      BY <3>2, <3>4, <3>5
    <3>7. ASSUME NEW i \in 0 .. k + 1
          PROVE  f[k + 1].needs[i + 1] = N[i]
      <4>0. /\ IsSeq(f[k].needs)
            /\ Append(f[k].needs, N[k + 1])[Len(f[k].needs) + 1] = N[k + 1]
            /\ \A e \in 1 .. Len(f[k].needs) : Append(f[k].needs, N[k + 1])[e] = f[k].needs[e]
        <5>1. IsSeq(f[k].needs)
          BY <3>5 DEF IsSeq
        <5>2. QED
          BY <5>1, AppendElements
      <4>1. CASE i = k + 1
        BY <3>4, <3>5, <4>0, <4>1
      <4>2. CASE i \in 0 .. k
        <5>1. i + 1 \in 1 .. Len(f[k].needs)
          BY <3>2, <3>4, <4>2
        <5>2. f[k + 1].needs[i + 1] = f[k].needs[i + 1]
          BY <3>5, <4>0, <5>1
        <5>3. QED
          BY <3>4, <4>2, <5>2
      <4>3. QED
        BY <3>2, <4>1, <4>2
    <3>8. QED
      BY <3>2, <3>6, <3>7
  <2> HIDE DEF T
  <2>3. QED
    BY ONLY <1>0, <2>1, <2>2, AllReached
<1>8. /\ \A i \in 0 .. n : forth.needs[i + 1] = N[i]
      /\ Last(forth.needs) = N[n]
  <2>1. n \in T /\ n \in 0 .. n
    <3>1. n \in 0 .. n
      BY <1>0
    <3> HIDE DEF T
    <3>2. QED
      BY <1>7, <3>1
  <2>2. forth.needs = f[n].needs
    BY <1>1, <1>2, <2>1 DEF SoFar
  <2>3. QED
    BY <1>3, <2>1, <2>2
<1> DEFINE Good(i) == /\ \A m \in 0 .. i : AllValid(N[m], L[m])
                      /\ \A m \in 1 .. i : /\ FindsLengths(R[m], L[m - 1])
                                           /\ Kept(R[m], N[m - 1])
           V == {k \in 0 .. n : f[k].valid <=> Good(k)}
<1>9. \A k \in 0 .. n : k \in V
  <2>1. 0 \in V
    <3>1. 0 \in 0 .. n /\ 0 .. 0 = {0} /\ 1 .. 0 = {}
      BY <1>0
    <3>2. Good(0) <=> AllValid(N[0], L[0])
      BY <3>1
    <3>3. f[0].valid <=> AllValid(N[0], L[0])
      BY <1>5, Zenon
    <3> HIDE DEF Good
    <3>4. QED
      BY <3>1, <3>2, <3>3
  <2>2. \A k \in 0 .. n - 1 : k \in V => k + 1 \in V
    <3>1. TAKE k \in 0 .. n - 1
    <3>2. k + 1 \in 1 .. n /\ k + 1 \in 0 .. n /\ k \in 0 .. n /\ (k + 1) - 1 = k
      BY <1>0
    <3>3. 0 .. k + 1 = {k + 1} \cup (0 .. k) /\ 1 .. k + 1 = {k + 1} \cup (1 .. k)
      BY <1>0, <3>2
    <3>4. Good(k + 1) <=> /\ Good(k) /\ FindsLengths(R[k + 1], L[k]) /\ Kept(R[k + 1], N[k])
                          /\ AllValid(N[k + 1], L[k + 1])
      BY <3>2, <3>3
    <3>5. f[k + 1].valid <=> /\ f[k].valid /\ FindsLengths(R[k + 1], L[k])
                             /\ Kept(R[k + 1], N[k]) /\ AllValid(N[k + 1], L[k + 1])
      <4>1. f[k + 1].valid
              = (/\ f[(k + 1) - 1].valid /\ FindsLengths(R[k + 1], L[(k + 1) - 1])
                 /\ Kept(R[k + 1], N[(k + 1) - 1]) /\ AllValid(N[k + 1], L[k + 1]))
        BY <1>6, <3>2, Zenon
      <4>2. QED
        BY <3>2, <4>1, Zenon
    <3> HIDE DEF Good
    <3>6. HAVE k \in V
    <3>7. f[k].valid <=> Good(k)
      BY <3>6, Zenon
    <3>8. f[k + 1].valid <=> Good(k + 1)
      BY <3>4, <3>5, <3>7, Zenon
    <3>9. QED
      BY <3>2, <3>8, Zenon
  <2> HIDE DEF V
  <2>3. QED
    BY ONLY <1>0, <2>1, <2>2, AllReached
<1>10. forth.valid <=> Good(n) /\ L[n] = FinalLength(trace)
  <2>1. n \in 0 .. n
    BY <1>0
  <2> HIDE DEF Good
  <2>2. f[n].valid <=> Good(n)
    BY <1>9, <2>1, Zenon
  <2>3. L[n] = f[n].length /\ f[n] \in [needs : Seq(Needs), length : Lengths, valid : BOOLEAN]
    BY <1>2, <1>3, <2>1 DEF SoFar
  <2>4. "valid" \in DOMAIN f[n]
    BY <2>3
  <2>5. forth.valid = (f[n].valid /\ f[n].length = FinalLength(trace))
    BY <1>1, <2>4, Zenon
  <2>6. QED
    BY <2>2, <2>3, <2>5, Zenon
<1>11. ForthPoints(j, trace, need, N, L)
  <2>1. \A i \in 1 .. n : N[i] = NeededAfter(R[i], N[i - 1]) /\ L[i] = LengthAfter(R[i], L[i - 1])
    BY <1>6
  <2>2. forth.valid <=> /\ \A i \in 0 .. n : AllValid(N[i], L[i])
                        /\ \A i \in 1 .. n : FindsLengths(R[i], L[i - 1]) /\ Kept(R[i], N[i - 1])
                        /\ L[n] = FinalLength(trace)
    BY <1>10, Zenon
  <2>3. N[0] = need /\ L[0] = SplitLength(j)
    BY <1>5
  <2>4. QED
    BY <1>3, <1>8, <2>1, <2>2, <2>3, Zenon DEF ForthPoints, n, R, forth
<1>12. QED
  BY <1>11

-----------------------------------------------------------------------------
(***************************************************************************)
(* A cone fits together: what is needed before a route covers what it      *)
(* reads and what is left of the streams, and is never negative.           *)
(***************************************************************************)
Upright(i) == i \in Stretch /\ 0 <= i.begin /\ i.begin <= i.end

BothUpright(need) == need \in Needs /\ \A s \in Streams : Upright(need[s])

LEMMA UprightNat ==
  ASSUME NEW i, Upright(i)
  PROVE  i.begin \in Nat /\ i.end \in Nat
BY DEF Upright, Stretch

LEMMA TranslatedUpright ==
  ASSUME NEW i, Upright(i), NEW o \in Nat, NEW e \in Nat
  PROVE  /\ Upright(Translated(i, o, e))
         /\ ~Empty(i) => ~Empty(Translated(i, o, e))
<1>1. i.begin \in Int /\ i.end \in Int /\ 0 <= i.begin /\ i.begin <= i.end
  BY DEF Upright, Stretch
<1>2. i.begin + o \in Int /\ i.end + o + e \in Int
  BY <1>1
<1>3. CASE Empty(i)
  BY <1>3 DEF Translated
<1>4. CASE ~Empty(i)
  <2>1. Translated(i, o, e) = Interval(i.begin + o, i.end + o + e)
    BY <1>4 DEF Translated
  <2>2. /\ Interval(i.begin + o, i.end + o + e) \in Stretch
        /\ Interval(i.begin + o, i.end + o + e).begin = i.begin + o
        /\ Interval(i.begin + o, i.end + o + e).end = i.end + o + e
    BY <1>2, IntervalIs
  <2>3. i.begin # i.end
    BY <1>4 DEF Empty
  <2>4. QED
    BY <1>1, <2>1, <2>2, <2>3 DEF Upright, Empty
<1>5. QED
  BY <1>3, <1>4

LEMMA SubtractedUpright ==
  ASSUME NEW i, Upright(i), NEW o \in Nat, CanSubtract(i, o)
  PROVE  Upright(Subtracted(i, o))
<1>1. i.begin \in Int /\ i.end \in Int /\ 0 <= i.begin /\ i.begin <= i.end
  BY DEF Upright, Stretch
<1>2. CASE Empty(i)
  BY <1>2 DEF Subtracted
<1>3. CASE ~Empty(i)
  <2>1. Subtracted(i, o) = Interval(i.begin - o, i.end - o) /\ i.begin >= o
    BY <1>3 DEF Subtracted, CanSubtract
  <2>2. /\ Interval(i.begin - o, i.end - o) \in Stretch
        /\ Interval(i.begin - o, i.end - o).begin = i.begin - o
        /\ Interval(i.begin - o, i.end - o).end = i.end - o
    BY <1>1, IntervalIs
  <2>3. QED
    BY <1>1, <2>1, <2>2 DEF Upright
<1>4. QED
  BY <1>2, <1>3

LEMMA HullUpright ==
  ASSUME NEW i, NEW j, Upright(i), Upright(j)
  PROVE  /\ Upright(Hull(i, j)) /\ Covers(Hull(i, j), i) /\ Covers(Hull(i, j), j)
         /\ ~Empty(i) => ~Empty(Hull(i, j))
<1>1. /\ i.begin \in Int /\ i.end \in Int /\ 0 <= i.begin /\ i.begin <= i.end
      /\ j.begin \in Int /\ j.end \in Int /\ 0 <= j.begin /\ j.begin <= j.end
  BY DEF Upright, Stretch
<1>2. CASE Empty(i)
  BY <1>1, <1>2 DEF Hull, Covers
<1>3. CASE Empty(j) /\ ~Empty(i)
  BY <1>1, <1>3 DEF Hull, Covers
<1>4. CASE ~Empty(i) /\ ~Empty(j)
  <2> DEFINE b == Smaller(i.begin, j.begin)
             e == Larger(i.end, j.end)
  <2>1. /\ b \in Int /\ e \in Int /\ 0 <= b /\ b <= i.begin /\ b <= j.begin
        /\ i.end <= e /\ j.end <= e
    BY <1>1 DEF Smaller, Larger
  <2>2. Hull(i, j) = Interval(b, e)
    BY <1>4 DEF Hull
  <2> HIDE DEF b, e
  <2>3. Interval(b, e) \in Stretch /\ Interval(b, e).begin = b /\ Interval(b, e).end = e
    BY <2>1, IntervalIs
  <2>4. i.begin # i.end
    BY <1>4 DEF Empty
  <2>5. QED
    BY <1>1, <2>1, <2>2, <2>3, <2>4 DEF Covers, Upright, Empty
<1>5. QED
  BY <1>2, <1>3, <1>4

LEMMA CoversSelf == \A i \in Stretch : Covers(i, i)
BY DEF Covers, Stretch

LEMMA CoversOn ==
  ASSUME NEW i \in Stretch, NEW j \in Stretch, NEW k \in Stretch,
         Upright(j), Upright(k), Covers(i, j), Covers(j, k)
  PROVE  Covers(i, k)
<1>1. CASE Empty(k)
  BY <1>1 DEF Covers
<1>2. CASE ~Empty(k)
  <2>1. j.begin <= k.begin /\ k.end <= j.end /\ k.begin # k.end
    BY <1>2 DEF Covers, Empty
  <2>2. /\ j.begin \in Int /\ j.end \in Int /\ k.begin \in Int /\ k.end \in Int
        /\ i.begin \in Int /\ i.end \in Int /\ k.begin <= k.end
    BY DEF Upright, Stretch
  <2>3. ~Empty(j)
    BY <2>1, <2>2 DEF Empty
  <2>4. i.begin <= j.begin /\ j.end <= i.end
    BY <2>3 DEF Covers
  <2>5. QED
    BY <2>1, <2>2, <2>4 DEF Covers
<1>3. QED
  BY <1>1, <1>2

\* A route of a cone, between what is needed before and after it is run.
Reads(q) == IF IsLift(q.type) THEN Other[Target(q.type)] ELSE Target(q.type)

RouteFits(q, B, A) ==
    /\ q.type \in StepTypes
    /\ Upright(q.source) /\ Upright(q.base) /\ Upright(q.output)
    /\ q.type = "swap" =>
         Empty(q.output) /\ \A s \in Streams : A[s] = B[Other[s]]
    /\ q.type # "swap" =>
         LET t == Target(q.type)
         IN /\ Covers(B[Other[t]], A[Other[t]])
            /\ IsLift(q.type) => q.output = A[t]
            /\ ~IsLift(q.type) => /\ Covers(B[t], A[t])
                                  /\ q.output = A[t] \/ Empty(q.output)
            /\ ~Empty(q.output) => /\ Covers(B[t], q.base)
                                   /\ Covers(B[Reads(q)], q.source)

ConeFits(cone, n, N) ==
    /\ IsSeq(cone.routes) /\ Len(cone.routes) = n /\ n \in Nat
    /\ N \in [0 .. n -> Needs] /\ \A i \in 0 .. n : BothUpright(N[i])
    /\ N[0] = cone.initial /\ N[n] = cone.final
    /\ \A i \in 1 .. n : RouteFits(cone.routes[i], N[i - 1], N[i])

LEMMA KindOf ==
  ASSUME NEW r, RouteOK(r)
  PROVE  /\ r.type = "swap" => ~IsLift(r.type) /\ ~IsScale(r.type)
         /\ r.type # "swap" /\ ~IsScale(r.type) => IsLift(r.type)
         /\ IsScale(r.type) => ~IsLift(r.type)
         /\ {r.k, r.sourceOffset, r.baseOffset} \subseteq Nat
         /\ IsLift(r.type) => r.k - 1 \in Nat
BY DEF RouteOK, StepTypes, IsLift, IsScale


LEMMA NothingUpright == Upright(Nothing) /\ Empty(Nothing) /\ Nothing \in Stretch
BY DEF Nothing, Interval, Upright, Stretch, Empty

LEMMA NeededAt ==
  ASSUME NEW r, RouteOK(r), NEW A \in Needs
  PROVE  LET t == Target(r.type)
             B == Needed(r, A)
         IN /\ r.type = "swap" => \A s \in Streams : B[s] = A[Other[s]]
            /\ IsScale(r.type) => /\ B[t] = Translated(A[t], r.sourceOffset, 0)
                                  /\ B[Other[t]] = A[Other[t]]
            /\ IsLift(r.type) => /\ B[t] = Translated(A[t], r.baseOffset, 0)
                                 /\ B[Other[t]] = Hull(A[Other[t]],
                                      Translated(A[t], r.sourceOffset, r.k - 1))
<1> DEFINE t == Target(r.type)
<1>1. t \in Streams /\ Other[t] \in Streams /\ t # Other[t]
  BY StreamOf
<1>2. r.type = "swap" => \A s \in Streams : Needed(r, A)[s] = A[Other[s]]
  BY DEF Needed, Streams, Other
<1> HIDE DEF t
<1>3. ASSUME IsScale(r.type)
      PROVE  Needed(r, A) = [A EXCEPT ![t] = Translated(A[t], r.sourceOffset, 0)]
  BY <1>3, KindOf DEF Needed, t
<1>4. ASSUME IsLift(r.type)
      PROVE  Needed(r, A) = [A EXCEPT ![t] = Translated(A[t], r.baseOffset, 0),
                ![Other[t]] = Hull(A[Other[t]], Translated(A[t], r.sourceOffset, r.k - 1))]
  <2>1. ~IsScale(r.type) /\ r.type # "swap"
    BY <1>4, KindOf
  <2>2. QED
    BY <1>1, <2>1 DEF Needed, t, Needs
<1>5. DOMAIN A = Streams
  BY DEF Needs
<1>6. QED
  BY <1>1, <1>2, <1>3, <1>4, <1>5 DEF t

LEMMA ForwardFits ==
  ASSUME NEW r, RouteOK(r), NEW A, BothUpright(A), NEW fused \in BOOLEAN,
         fused => IsScale(r.type)
  PROVE  LET B == Needed(r, A)
             q == ForwardRoute(r, B, A, fused)
         IN /\ BothUpright(B) /\ RouteFits(q, B, A) /\ q.type = r.type
            /\ IsScale(r.type) => q.output = IF fused THEN Nothing ELSE A[Target(r.type)]
<1> DEFINE t == Target(r.type)
           B == Needed(r, A)
           q == ForwardRoute(r, B, A, fused)
<1>1. /\ t \in Streams /\ Other[t] \in Streams /\ t # Other[t] /\ Streams = {t, Other[t]}
      /\ Other[Other[t]] = t
  BY StreamOf
<1>2. A \in Needs /\ Upright(A[t]) /\ Upright(A[Other[t]])
  BY <1>1 DEF BothUpright
<1>3. B \in Needs
  BY <1>2, NeededIs
<1>4. r.type \in StepTypes
  BY DEF RouteOK
<1>5. CASE r.type = "swap"
  <2>1. \A s \in Streams : B[s] = A[Other[s]] /\ A[s] = B[Other[s]]
    BY <1>2, <1>5, NeededAt, StreamOf
  <2>2. BothUpright(B)
    BY <1>3, <2>1, StreamOf DEF BothUpright
  <2>3. q = [type |-> "swap", source |-> B.even, base |-> B.odd, output |-> Nothing]
    BY <1>5 DEF ForwardRoute
  <2>4. Upright(B.even) /\ Upright(B.odd)
    BY <2>2 DEF BothUpright, Streams
  <2> HIDE DEF B, q
  <2>5. RouteFits(q, B, A)
    BY <1>4, <1>5, <2>1, <2>3, <2>4, NothingUpright DEF RouteFits
  <2>6. QED
    BY <1>5, <2>2, <2>3, <2>5, KindOf DEF B, q
<1>6. CASE r.type # "swap"
  <2> DEFINE source == Translated(A[t], r.sourceOffset, r.k - 1)
             base == Translated(A[t], r.baseOffset, 0)
             output == IF fused THEN Nothing ELSE A[t]
  <2>1. q = [type |-> r.type, source |-> source, base |-> base, output |-> output]
    BY <1>6 DEF ForwardRoute
  <2>2. r.sourceOffset \in Nat /\ r.baseOffset \in Nat /\ r.k - 1 \in Nat /\ 0 \in Nat
    BY <1>6, KindOf DEF RouteOK
  <2>3. Upright(source) /\ Upright(base) /\ Upright(output)
    BY <1>2, <2>2, TranslatedUpright, NothingUpright
  <2>4. CASE IsScale(r.type)
    <3>1. /\ r.sourceOffset = 0 /\ r.baseOffset = 0 /\ r.k - 1 = 0 /\ ~IsLift(r.type)
      BY <2>4, KindOf DEF RouteOK
    <3>2. B[t] = source /\ source = base /\ B[Other[t]] = A[Other[t]]
      BY <1>2, <2>4, <3>1, NeededAt
    <3>3. Translated(A[t], 0, 0) \in Stretch /\ Covers(Translated(A[t], 0, 0), A[t])
      BY <1>2 DEF Translated, Interval, Covers, Upright, Stretch, Empty
    <3>4. BothUpright(B)
      BY <1>1, <1>2, <1>3, <2>3, <3>2 DEF BothUpright
    <3>5. Covers(B[t], A[t]) /\ Covers(B[t], source) /\ Covers(B[Other[t]], A[Other[t]])
      BY <1>2, <3>1, <3>2, <3>3, CoversSelf DEF Upright
    <3>6. output = A[t] \/ Empty(output)
      BY NothingUpright
    <3>7. q.output = IF fused THEN Nothing ELSE A[t]
      BY <2>1
    <3> HIDE DEF B, q, source, base, output
    <3>8. Reads(q) = t /\ Target(q.type) = t
      BY <2>1, <3>1 DEF Reads, t
    <3> HIDE DEF t
    <3>9. RouteFits(q, B, A)
      BY <1>4, <1>6, <2>1, <2>3, <3>1, <3>2, <3>5, <3>6, <3>8 DEF RouteFits
    <3>10. q.type = r.type
      BY <2>1
    <3>11. QED
      BY <3>4, <3>7, <3>9, <3>10 DEF B, q, t
  <2>5. CASE IsLift(r.type) /\ ~fused
    <3>1. /\ ~IsScale(r.type)
      BY <2>5, KindOf
    <3>2. B[t] = base /\ B[Other[t]] = Hull(A[Other[t]], source)
      BY <1>2, <2>5, NeededAt
    <3>3. /\ Upright(B[Other[t]]) /\ Covers(B[Other[t]], A[Other[t]])
          /\ Covers(B[Other[t]], source)
      BY <1>2, <2>3, <3>2, HullUpright
    <3>4. BothUpright(B)
      BY <1>1, <1>2, <1>3, <2>3, <3>2, <3>3 DEF BothUpright
    <3>5. Covers(B[t], base)
      BY <2>3, <3>2, CoversSelf DEF Upright
    <3>6. output = A[t]
      BY <2>5
    <3> HIDE DEF B, q, source, base, output
    <3>8. Reads(q) = Other[t] /\ Target(q.type) = t
      BY <2>1, <2>5 DEF Reads, t
    <3> HIDE DEF t
    <3>9. RouteFits(q, B, A)
      BY <1>4, <1>6, <2>1, <2>3, <2>5, <3>1, <3>2, <3>3, <3>5, <3>6, <3>8 DEF RouteFits
    <3>10. q.type = r.type
      BY <2>1
    <3>11. QED
      BY <3>1, <3>4, <3>9, <3>10 DEF B, q, t
  <2>6. IsScale(r.type) \/ (IsLift(r.type) /\ ~fused)
    BY <1>6, KindOf
  <2>7. QED
    BY <2>4, <2>5, <2>6
<1>7. QED
  BY <1>5, <1>6

LEMMA NeededAfterAt ==
  ASSUME NEW r, RouteOK(r), NEW A \in Needs
  PROVE  LET t == Target(r.type)
             B == NeededAfter(r, A)
         IN /\ r.type = "swap" => \A s \in Streams : B[s] = A[Other[s]]
            /\ IsScale(r.type) => B = A
            /\ IsLift(r.type) => /\ B[t] = Undone(r, A)
                                 /\ B[Other[t]] = Hull(A[Other[t]],
                                      Translated(Undone(r, A), r.sourceOffset, r.k - 1))
<1> DEFINE t == Target(r.type)
<1>1. t \in Streams /\ Other[t] \in Streams /\ t # Other[t]
  BY StreamOf
<1>2. r.type = "swap" => \A s \in Streams : NeededAfter(r, A)[s] = A[Other[s]]
  BY DEF NeededAfter, Streams, Other
<1> HIDE DEF t
<1>3. ASSUME IsScale(r.type) PROVE NeededAfter(r, A) = A
  BY <1>3, KindOf DEF NeededAfter
<1>4. ASSUME IsLift(r.type)
      PROVE  NeededAfter(r, A) = [A EXCEPT ![t] = Undone(r, A),
                ![Other[t]] = Hull(A[Other[t]],
                                   Translated(Undone(r, A), r.sourceOffset, r.k - 1))]
  <2>1. ~IsScale(r.type) /\ r.type # "swap"
    BY <1>4, KindOf
  <2>2. QED
    BY <1>1, <2>1 DEF NeededAfter, t, Needs
<1>5. DOMAIN A = Streams
  BY DEF Needs
<1>6. QED
  BY <1>1, <1>2, <1>3, <1>4, <1>5 DEF t

LEMMA InverseFits ==
  ASSUME NEW r, RouteOK(r), NEW A, BothUpright(A), Kept(r, A)
  PROVE  LET B == NeededAfter(r, A)
         IN BothUpright(B) /\ RouteFits(InverseRoute(r, B, A), B, A)
<1> DEFINE t == Target(r.type)
           B == NeededAfter(r, A)
           q == InverseRoute(r, B, A)
<1>1. /\ t \in Streams /\ Other[t] \in Streams /\ t # Other[t] /\ Streams = {t, Other[t]}
      /\ Other[Other[t]] = t
  BY StreamOf
<1>2. A \in Needs /\ Upright(A[t]) /\ Upright(A[Other[t]])
  BY <1>1 DEF BothUpright
<1>3. B \in Needs
  BY <1>2, NeededIs
<1>4. r.type \in StepTypes
  BY DEF RouteOK
<1>5. CASE r.type = "swap"
  <2>1. \A s \in Streams : B[s] = A[Other[s]] /\ A[s] = B[Other[s]]
    BY <1>2, <1>5, NeededAfterAt, StreamOf
  <2>2. BothUpright(B)
    BY <1>3, <2>1, StreamOf DEF BothUpright
  <2>3. q = [type |-> "swap", source |-> B.even, base |-> B.odd, output |-> Nothing]
    BY <1>5 DEF InverseRoute
  <2>4. Upright(B.even) /\ Upright(B.odd)
    BY <2>2 DEF BothUpright, Streams
  <2> HIDE DEF B, q
  <2>5. RouteFits(q, B, A)
    BY <1>4, <1>5, <2>1, <2>3, <2>4, NothingUpright DEF RouteFits
  <2>6. QED
    BY <2>2, <2>5 DEF B, q
<1>6. CASE IsScale(r.type)
  <2>1. B = A /\ r.type # "swap" /\ ~IsLift(r.type)
    BY <1>2, <1>6, KindOf, NeededAfterAt
  <2>2. q = [type |-> r.type, source |-> B[t], base |-> Nothing, output |-> Nothing]
    BY <1>6, <2>1 DEF InverseRoute
  <2>3. Covers(B[t], A[t]) /\ Covers(B[Other[t]], A[Other[t]]) /\ Upright(B[t])
    BY <1>2, <2>1, CoversSelf DEF Upright
  <2> HIDE DEF B, q
  <2>4. Target(q.type) = t
    BY <2>2
  <2> HIDE DEF t
  <2>5. RouteFits(q, B, A)
    BY <1>4, <2>1, <2>2, <2>3, <2>4, NothingUpright DEF RouteFits
  <2>6. QED
    BY <2>1, <2>5 DEF B, q
<1>7. CASE IsLift(r.type)
  <2> DEFINE base == Undone(r, A)
             source == Translated(base, r.sourceOffset, r.k - 1)
  <2>1. r.sourceOffset \in Nat /\ r.baseOffset \in Nat /\ r.k - 1 \in Nat
        /\ ~IsScale(r.type) /\ r.type # "swap"
    BY <1>7, KindOf DEF RouteOK
  <2>2. B[t] = base /\ B[Other[t]] = Hull(A[Other[t]], source)
    BY <1>2, <1>7, NeededAfterAt
  <2>3. Upright(base)
    BY <1>2, <1>7, <2>1, SubtractedUpright DEF Kept, Undone
  <2>4. q = [type |-> r.type, source |-> source, base |-> base, output |-> A[t]]
    BY <2>1 DEF InverseRoute
  <2> HIDE DEF base
  <2>5. Upright(source)
    BY <2>1, <2>3, TranslatedUpright
  <2> HIDE DEF source
  <2>6. /\ Upright(B[Other[t]]) /\ Covers(B[Other[t]], A[Other[t]])
        /\ Covers(B[Other[t]], source)
    BY <1>2, <2>2, <2>5, HullUpright
  <2>7. BothUpright(B)
    BY <1>1, <1>3, <2>2, <2>3, <2>6 DEF BothUpright
  <2>8. Covers(B[t], base)
    BY <2>2, <2>3, CoversSelf DEF Upright
  <2> HIDE DEF B, q
  <2>9. Reads(q) = Other[t] /\ Target(q.type) = t
    BY <1>7, <2>4 DEF Reads, t
  <2> HIDE DEF t
  <2>10. RouteFits(q, B, A)
    BY <1>2, <1>4, <1>7, <2>1, <2>3, <2>4, <2>5, <2>6, <2>8, <2>9 DEF RouteFits
  <2>11. QED
    BY <2>7, <2>10 DEF B, q
<1>8. QED
  BY <1>5, <1>6, <1>7, KindOf

LEMMA NeededNonempty ==
  ASSUME NEW r, RouteOK(r), NEW A, BothUpright(A), \A s \in Streams : ~Empty(A[s])
  PROVE  \A s \in Streams : ~Empty(Needed(r, A)[s])
<1> DEFINE t == Target(r.type)
           B == Needed(r, A)
<1>1. /\ t \in Streams /\ Other[t] \in Streams /\ Streams = {t, Other[t]}
  BY StreamOf
<1>2. /\ A \in Needs /\ Upright(A[t]) /\ Upright(A[Other[t]])
      /\ ~Empty(A[t]) /\ ~Empty(A[Other[t]])
  BY <1>1 DEF BothUpright
<1>3. CASE r.type = "swap"
  BY <1>2, <1>3, NeededAt, StreamOf
<1>4. CASE IsScale(r.type)
  <2>1. B[t] = Translated(A[t], r.sourceOffset, 0) /\ B[Other[t]] = A[Other[t]]
    BY <1>2, <1>4, NeededAt
  <2>2. r.sourceOffset \in Nat /\ 0 \in Nat
    BY KindOf
  <2>3. ~Empty(B[t]) /\ ~Empty(B[Other[t]])
    BY <1>2, <2>1, <2>2, TranslatedUpright
  <2>4. QED
    BY <1>1, <2>3
<1>5. CASE IsLift(r.type)
  <2>1. /\ B[t] = Translated(A[t], r.baseOffset, 0)
        /\ B[Other[t]] = Hull(A[Other[t]], Translated(A[t], r.sourceOffset, r.k - 1))
    BY <1>2, <1>5, NeededAt
  <2>2. {r.k - 1, r.sourceOffset, r.baseOffset, 0} \subseteq Nat
    BY <1>5, KindOf
  <2>3. Upright(Translated(A[t], r.sourceOffset, r.k - 1))
    BY <1>2, <2>2, TranslatedUpright
  <2>4. ~Empty(B[t]) /\ ~Empty(B[Other[t]])
    BY <1>2, <2>1, <2>2, <2>3, TranslatedUpright, HullUpright
  <2>5. QED
    BY <1>1, <2>4
<1>6. QED
  BY <1>3, <1>4, <1>5, KindOf

\* More of a forward cone: where its needs come from, all of which are of
\* some data, and what scales leave.
ForwardMore(trace, cone, n, N) ==
    /\ n = Len(trace.routes)
    /\ \A i \in 1 .. n :
         LET r == trace.routes[i]
         IN /\ cone.routes[i].type = r.type /\ N[i - 1] = Needed(r, N[i])
            /\ IsLift(r.type) =>
                 ~Empty(cone.routes[i].source) /\ ~Empty(cone.routes[i].base)
            /\ IsScale(r.type) =>
                 cone.routes[i].output = IF r.type = ScaleOf[InlineResult(trace.routes)]
                                         THEN Nothing ELSE N[i][Target(r.type)]
    /\ \A i \in 0 .. n, s \in Streams : ~Empty(N[i][s])

LEMMA LiftReads ==
  ASSUME NEW r, RouteOK(r), IsLift(r.type), NEW B, NEW A, BothUpright(A),
         \A s \in Streams : ~Empty(A[s]), NEW fused
  PROVE  LET q == ForwardRoute(r, B, A, fused) IN ~Empty(q.source) /\ ~Empty(q.base)
<1> DEFINE t == Target(r.type)
           q == ForwardRoute(r, B, A, fused)
<1>1. t \in Streams
  BY StreamOf
<1>2. Upright(A[t]) /\ ~Empty(A[t])
  BY <1>1 DEF BothUpright
<1>3. {r.k - 1, r.sourceOffset, r.baseOffset, 0} \subseteq Nat
  BY KindOf
<1>4. r.type # "swap"
  BY DEF IsLift
<1>5. /\ q.source = Translated(A[t], r.sourceOffset, r.k - 1)
      /\ q.base = Translated(A[t], r.baseOffset, 0)
  BY <1>4 DEF ForwardRoute
<1> HIDE DEF q, t
<1>6. ~Empty(q.source) /\ ~Empty(q.base)
  BY <1>2, <1>3, <1>5, TranslatedUpright
<1>7. QED
  BY <1>6 DEF q

LEMMA ForwardConeFits ==
  ASSUME NEW j, AxisOK(j), NEW trace, TraceIs(trace), NEW output, Upright(output),
         ~Empty(output), ForwardCone(j, trace, output).valid
  PROVE  \E N : /\ ConeFits(ForwardCone(j, trace, output), Len(trace.routes), N)
                /\ ForwardMore(trace, ForwardCone(j, trace, output), Len(trace.routes), N)
<1> DEFINE R == trace.routes
           n == Len(R)
           cone == ForwardCone(j, trace, output)
           final == [even |-> InStream(j, trace, "even", output),
                     odd |-> InStream(j, trace, "odd", output)]
           back == Backpropagated(j, trace, final)
           Fused(r) == r.type = ScaleOf[InlineResult(R)]
<1>1. n \in Nat /\ (\A i \in 1 .. n : RouteOK(R[i])) /\ IsSeq(R)
  BY DEF TraceIs
<1>2. /\ cone.initial = back.needs[1] /\ cone.final = final
      /\ cone.routes = [i \in 1 .. n |->
            ForwardRoute(R[i], back.needs[i], back.needs[i + 1], Fused(R[i]))]
  BY DEF ForwardCone
<1>3. back.valid /\ \A s \in Streams : final[s].begin >= 0
  BY DEF ForwardCone
<1>4. BothUpright(final) /\ \A s \in Streams : ~Empty(final[s])
  <2>1. \A s \in Streams : /\ InStream(j, trace, s, output) \in Stretch
                           /\ LET i == InStream(j, trace, s, output)
                              IN i.begin <= i.end /\ i.begin # i.end
    <3>1. TAKE s \in Streams
    <3> DEFINE offset == CanonicalStart(j) - trace.stream[s].shift
    <3>2. offset \in Int
      BY PaddingIs DEF TraceIs, StreamType
    <3>3. /\ output.begin \in Int /\ output.end \in Int /\ output.begin <= output.end
          /\ output.begin # output.end
      BY DEF Upright, Stretch, Empty
    <3>4. InStream(j, trace, s, output) = Interval(output.begin + offset, output.end + offset)
      BY DEF InStream
    <3> HIDE DEF offset
    <3>5. QED
      BY <3>2, <3>3, <3>4, IntervalIs
  <2>2. \A s \in Streams : final[s] = InStream(j, trace, s, output)
    BY DEF Streams
  <2>3. final \in Needs
    <3>1. "even" \in Streams /\ "odd" \in Streams
      BY DEF Streams
    <3>2. InStream(j, trace, "even", output) \in Stretch /\ InStream(j, trace, "odd", output) \in Stretch
      BY <2>1, <3>1
    <3>3. QED
      BY <3>2 DEF Needs, Streams
  <2> HIDE DEF final
  <2>4. QED
    BY <1>3, <2>1, <2>2, <2>3 DEF BothUpright, Upright, Empty
<1> HIDE DEF R, n, cone, final
<1>5. PICK N, L : BackPoints(j, trace, final, N, L)
  BY <1>4, BackChain DEF BothUpright
<1>6. /\ N \in [0 .. n -> Needs] /\ N[n] = final
      /\ \A i \in 1 .. n : N[i - 1] = Needed(R[i], N[i])
      /\ \A i \in 0 .. n : back.needs[i + 1] = N[i]
  BY <1>5 DEF BackPoints, n, R
<1> HIDE DEF back
<1> DEFINE T == {k \in 0 .. n : /\ BothUpright(N[n - k])
                                /\ \A s \in Streams : ~Empty(N[n - k][s])}
<1>7. \A k \in 0 .. n : k \in T
  <2>1. 0 \in T
    <3>1. 0 \in 0 .. n /\ n - 0 = n
      BY <1>1
    <3>2. QED
      BY <1>4, <1>6, <3>1
  <2>2. \A k \in 0 .. n - 1 : k \in T => k + 1 \in T
    <3>1. TAKE k \in 0 .. n - 1
    <3> DEFINE m == n - k
    <3>2. m \in 1 .. n /\ k + 1 \in 0 .. n /\ n - (k + 1) = m - 1
      BY <1>1
    <3>3. HAVE k \in T
    <3>4. BothUpright(N[m]) /\ \A s \in Streams : ~Empty(N[m][s])
      BY <3>3
    <3> HIDE DEF m
    <3>5. N[m - 1] = Needed(R[m], N[m]) /\ RouteOK(R[m])
      BY <1>1, <1>6, <3>2
    <3>6. BothUpright(N[m - 1])
      <4>1. FALSE \in BOOLEAN /\ (FALSE => IsScale(R[m].type))
        OBVIOUS
      <4>2. BothUpright(Needed(R[m], N[m]))
        BY ONLY <3>4, <3>5, <4>1, ForwardFits
      <4>3. QED
        BY <3>5, <4>2
    <3>7. \A s \in Streams : ~Empty(N[m - 1][s])
      BY <3>4, <3>5, NeededNonempty
    <3>8. QED
      BY <3>2, <3>6, <3>7
  <2> HIDE DEF T
  <2>3. QED
    BY ONLY <1>1, <2>1, <2>2, AllReached
<1>8. \A i \in 0 .. n : BothUpright(N[i]) /\ \A s \in Streams : ~Empty(N[i][s])
  <2>1. TAKE i \in 0 .. n
  <2>2. n - i \in 0 .. n /\ n - (n - i) = i
    BY <1>1
  <2>3. QED
    BY <1>7, <2>2
<1> HIDE DEF T
<1>9. cone.routes = [i \in 1 .. n |-> ForwardRoute(R[i], N[i - 1], N[i], Fused(R[i]))]
  <2>1. \A i \in 1 .. n : back.needs[i] = N[i - 1] /\ back.needs[i + 1] = N[i]
    <3>1. TAKE i \in 1 .. n
    <3>2. i - 1 \in 0 .. n /\ i \in 0 .. n /\ (i - 1) + 1 = i
      BY <1>1
    <3>3. QED
      BY <1>6, <3>2
  <2>2. QED
    BY <1>2, <2>1
<1>10. \A i \in 1 .. n :
         /\ RouteFits(cone.routes[i], N[i - 1], N[i])
         /\ cone.routes[i].type = R[i].type
         /\ IsLift(R[i].type) =>
              ~Empty(cone.routes[i].source) /\ ~Empty(cone.routes[i].base)
         /\ IsScale(R[i].type) => cone.routes[i].output = IF Fused(R[i]) THEN Nothing
                                                        ELSE N[i][Target(R[i].type)]
  <2>1. TAKE i \in 1 .. n
  <2>2. cone.routes[i] = ForwardRoute(R[i], N[i - 1], N[i], Fused(R[i]))
    BY <1>9
  <2>3. N[i - 1] = Needed(R[i], N[i]) /\ RouteOK(R[i]) /\ BothUpright(N[i])
    BY <1>1, <1>6, <1>8
  <2>4. Fused(R[i]) \in BOOLEAN /\ (Fused(R[i]) => IsScale(R[i].type))
    <3>1. InlineResult(R) \in Streams
      BY StreamOf DEF InlineResult
    <3>2. QED
      BY <3>1 DEF ScaleOf, Streams, IsScale
  <2> HIDE DEF Fused
  <2> DEFINE fused == Fused(R[i])
             r == R[i]
             A == N[i]
  <2>5. /\ RouteOK(r) /\ BothUpright(A) /\ fused \in BOOLEAN /\ (fused => IsScale(r.type))
        /\ cone.routes[i] = ForwardRoute(r, Needed(r, A), A, fused)
    BY <2>2, <2>3, <2>4
  <2> HIDE DEF fused, r, A
  <2>6. LET q == ForwardRoute(r, Needed(r, A), A, fused)
        IN /\ RouteFits(q, Needed(r, A), A) /\ q.type = r.type
           /\ IsScale(r.type) => q.output = IF fused THEN Nothing ELSE A[Target(r.type)]
    BY <2>5, ForwardFits
  <2>7. IsLift(r.type) => LET q == ForwardRoute(r, Needed(r, A), A, fused)
                          IN ~Empty(q.source) /\ ~Empty(q.base)
    <3>1. \A s \in Streams : ~Empty(A[s])
      BY <1>8 DEF A
    <3>2. QED
      BY <2>5, <3>1, LiftReads
  <2>8. QED
    BY <2>3, <2>5, <2>6, <2>7 DEF fused, r, A
<1>11. IsSeq(cone.routes) /\ Len(cone.routes) = n
  <2>1. cone.routes = [i \in 1 .. n |-> cone.routes[i]]
    BY <1>9
  <2>2. QED
    BY ONLY <1>1, <2>1, FunctionIsSeq
<1>12. N[0] = cone.initial /\ N[n] = cone.final
  <2>1. 0 \in 0 .. n /\ 0 + 1 = 1
    BY <1>1
  <2>2. QED
    BY <1>2, <1>6, <2>1
<1>13. ConeFits(cone, n, N)
  BY <1>1, <1>6, <1>8, <1>10, <1>11, <1>12 DEF ConeFits
<1>14. ForwardMore(trace, cone, n, N)
  BY <1>6, <1>8, <1>10 DEF ForwardMore, n, R
<1>15. QED
  BY <1>13, <1>14 DEF cone, n, R

LEMMA InverseConeFits ==
  ASSUME NEW j, AxisOK(j), NEW trace, TraceIs(trace), NEW output, Upright(output),
         InverseCone(j, trace, output).valid
  PROVE  \E N : ConeFits(InverseCone(j, trace, output), Len(trace.routes), N)
<1> DEFINE R == trace.routes
           n == Len(R)
           cone == InverseCone(j, trace, output)
           final == SplitOf(j, output)
           forth == Propagated(j, trace, final)
<1>1. n \in Nat /\ (\A i \in 1 .. n : RouteOK(R[i])) /\ IsSeq(R)
  BY DEF TraceIs
<1>2. /\ cone.initial = Last(forth.needs) /\ cone.final = final /\ forth.valid
      /\ cone.routes = Reverse([i \in 1 .. n |->
            InverseRoute(R[i], forth.needs[i + 1], forth.needs[i])])
  BY DEF InverseCone
<1>3. BothUpright(final)
  <2> DEFINE b == output.begin + Pad(j)
             e == output.end + Pad(j)
             b1 == (b + 1) \div 2
             e1 == (e + 1) \div 2
             b2 == b \div 2
             e2 == e \div 2
  <2>1. b \in Nat /\ e \in Nat /\ b <= e
    <3>1. output.begin \in Nat /\ output.end \in Nat /\ output.begin <= output.end
      BY UprightNat DEF Upright
    <3>2. Pad(j) \in Nat
      BY PaddingIs
    <3>3. QED
      BY <3>1, <3>2
  <2>2. final = [even |-> Interval(b1, e1), odd |-> Interval(b2, e2)]
    BY DEF SplitOf
  <2> HIDE DEF final, b, e
  <2>3. b1 \in Nat /\ e1 \in Nat /\ b1 <= e1 /\ b2 \in Nat /\ e2 \in Nat /\ b2 <= e2
    BY <2>1
  <2> HIDE DEF b1, e1, b2, e2
  <2>4. Upright(Interval(b1, e1)) /\ Upright(Interval(b2, e2))
    BY <2>3, IntervalIs DEF Upright
  <2>5. QED
    BY <2>2, <2>4 DEF BothUpright, Needs, Streams, Upright
<1> HIDE DEF R, n, cone, final
<1>4. PICK N, L : ForthPoints(j, trace, final, N, L)
  BY <1>3, ForthChain DEF BothUpright
<1>5. /\ N \in [0 .. n -> Needs] /\ N[0] = final
      /\ \A i \in 1 .. n : N[i] = NeededAfter(R[i], N[i - 1])
      /\ \A i \in 0 .. n : forth.needs[i + 1] = N[i]
      /\ Last(forth.needs) = N[n]
      /\ \A i \in 1 .. n : Kept(R[i], N[i - 1])
  BY <1>2, <1>4 DEF ForthPoints, n, R
<1> HIDE DEF forth
<1> DEFINE T == {k \in 0 .. n : BothUpright(N[k])}
<1>6. \A k \in 0 .. n : k \in T
  <2>1. 0 \in T
    BY <1>1, <1>3, <1>5
  <2>2. \A k \in 0 .. n - 1 : k \in T => k + 1 \in T
    <3>1. TAKE k \in 0 .. n - 1
    <3>2. k + 1 \in 1 .. n /\ k + 1 \in 0 .. n /\ (k + 1) - 1 = k
      BY <1>1
    <3>3. HAVE k \in T
    <3>4. BothUpright(N[k])
      BY <3>3
    <3>5. N[k + 1] = NeededAfter(R[k + 1], N[k]) /\ RouteOK(R[k + 1]) /\ Kept(R[k + 1], N[k])
      BY <1>1, <1>5, <3>2
    <3>6. BothUpright(N[k + 1])
      BY <3>4, <3>5, InverseFits
    <3>7. QED
      BY <3>2, <3>6
  <2> HIDE DEF T
  <2>3. QED
    BY ONLY <1>1, <2>1, <2>2, AllReached
<1>7. \A i \in 0 .. n : BothUpright(N[i])
  BY <1>6
<1> HIDE DEF T
<1> DEFINE Q == [i \in 1 .. n |-> InverseRoute(R[i], N[i], N[i - 1])]
           M == [i \in 0 .. n |-> N[n - i]]
<1>8. cone.routes = Reverse(Q)
  <2>1. \A i \in 1 .. n : forth.needs[i] = N[i - 1] /\ forth.needs[i + 1] = N[i]
    <3>1. TAKE i \in 1 .. n
    <3>2. i - 1 \in 0 .. n /\ i \in 0 .. n /\ (i - 1) + 1 = i
      BY <1>1
    <3>3. QED
      BY <1>5, <3>2
  <2>2. QED
    BY <1>2, <2>1
<1>9. IsSeq(Q) /\ Len(Q) = n
  <2>1. Q = [i \in 1 .. n |-> Q[i]]
    OBVIOUS
  <2> HIDE DEF Q
  <2>2. QED
    BY ONLY <1>1, <2>1, FunctionIsSeq
<1>10. cone.routes = [i \in 1 .. n |-> Q[(n - i) + 1]]
  BY <1>8, <1>9, Zenon DEF Reverse
<1>11. IsSeq(cone.routes) /\ Len(cone.routes) = n
  <2>1. cone.routes = [i \in 1 .. n |-> cone.routes[i]]
    BY <1>10
  <2>2. QED
    BY ONLY <1>1, <2>1, FunctionIsSeq
<1>12. \A i \in 0 .. n : n - i \in 0 .. n /\ M[i] = N[n - i]
  BY <1>1
<1>13. M \in [0 .. n -> Needs] /\ (\A i \in 0 .. n : BothUpright(M[i]))
  BY <1>5, <1>7, <1>12
<1>14. M[0] = cone.initial /\ M[n] = cone.final
  <2>1. 0 \in 0 .. n /\ n \in 0 .. n /\ n - 0 = n /\ n - n = 0
    BY <1>1
  <2>2. QED
    BY <1>2, <1>5, <1>12, <2>1
<1>15. \A i \in 1 .. n : RouteFits(cone.routes[i], M[i - 1], M[i])
  <2>1. TAKE i \in 1 .. n
  <2> DEFINE k == (n - i) + 1
  <2>2. /\ k \in 1 .. n /\ k - 1 \in 0 .. n /\ i \in 0 .. n /\ i - 1 \in 0 .. n
        /\ n - (i - 1) = k /\ n - i = k - 1
    BY <1>1
  <2>3. cone.routes[i] = Q[k]
    BY <1>10
  <2> HIDE DEF k
  <2>4. Q[k] = InverseRoute(R[k], N[k], N[k - 1])
    BY <2>2
  <2>5. M[i - 1] = N[k] /\ M[i] = N[k - 1]
    BY <1>12, <2>2
  <2>6. /\ RouteOK(R[k]) /\ BothUpright(N[k - 1]) /\ Kept(R[k], N[k - 1])
        /\ N[k] = NeededAfter(R[k], N[k - 1])
    BY <1>1, <1>5, <1>7, <2>2
  <2> HIDE DEF Q, M
  <2>7. RouteFits(InverseRoute(R[k], N[k], N[k - 1]), N[k], N[k - 1])
    <3> DEFINE r == R[k]
               A == N[k - 1]
    <3>1. RouteOK(r) /\ BothUpright(A) /\ Kept(r, A) /\ N[k] = NeededAfter(r, A)
      BY <2>6
    <3> HIDE DEF r, A
    <3>2. RouteFits(InverseRoute(r, NeededAfter(r, A), A), NeededAfter(r, A), A)
      BY <3>1, InverseFits
    <3>3. QED
      BY <3>1, <3>2 DEF r, A
  <2>8. QED
    BY <2>3, <2>4, <2>5, <2>7
<1> HIDE DEF M
<1>16. ConeFits(cone, n, M)
  BY <1>1, <1>11, <1>13, <1>14, <1>15 DEF ConeFits
<1>17. QED
  BY <1>16 DEF cone, n, R

-----------------------------------------------------------------------------
(***************************************************************************)
(* A pass: its slots after every route.                                    *)
(***************************************************************************)
SlotSet == [SlotNames -> Planes]

Apart(slots) ==
    slots.even # slots.odd /\ slots.even # slots.free /\ slots.odd # slots.free

PlaneSet(slots) == {slots.even, slots.odd, slots.free}

LEMMA SlotsAfterIs ==
  ASSUME NEW slots \in SlotSet, NEW type \in StepTypes
  PROVE  LET after == SlotsAfter(slots, type)
         IN /\ after \in SlotSet
            /\ Apart(slots) => Apart(after)
            /\ PlaneSet(after) = PlaneSet(slots)
<1>1. slots = [even |-> slots.even, odd |-> slots.odd, free |-> slots.free]
  BY DEF SlotSet, SlotNames
<1>2. {slots.even, slots.odd, slots.free} \subseteq Planes
  BY DEF SlotSet, SlotNames
<1>3. SlotsAfter(slots, type) \in
        {slots,
         [even |-> slots.odd, odd |-> slots.even, free |-> slots.free],
         [even |-> slots.free, odd |-> slots.odd, free |-> slots.even],
         [even |-> slots.even, odd |-> slots.free, free |-> slots.odd]}
  <2> DEFINE e == slots.even
             o == slots.odd
             f == slots.free
  <2>1. slots = [even |-> e, odd |-> o, free |-> f]
    BY <1>1
  <2> HIDE DEF e, o, f
  <2>3. CASE IsLift(type)
    <3> DEFINE t == Target(type)
               m == Moved(slots, t)
    <3>1. t \in Streams
      BY StreamOf
    <3>7. slots \in [SlotNames -> Planes]
      BY DEF SlotSet
    <3>8. t = Target(type)
      OBVIOUS
    <3> HIDE DEF t
    <3>2. /\ m \in [SlotNames -> Planes]
          /\ m[t] = slots.free /\ m.free = slots[t] /\ m[Other[t]] = slots[Other[t]]
      BY ONLY <3>1, <3>7, MovedIs
    <3>3. SlotsAfter(slots, type) = m
      BY <2>3, <3>8 DEF SlotsAfter
    <3> HIDE DEF m
    <3>4. m = [even |-> m.even, odd |-> m.odd, free |-> m.free]
      BY <3>2 DEF SlotNames
    <3>5. (t = "even" /\ Other[t] = "odd") \/ (t = "odd" /\ Other[t] = "even")
      BY <3>1 DEF Streams, Other
    <3>6. QED
      BY <3>2, <3>3, <3>4, <3>5
  <2>4. CASE type = "swap" /\ ~IsLift(type)
    <3>1. SlotsAfter(slots, type)
            = [[even |-> e, odd |-> o, free |-> f] EXCEPT !.even = o, !.odd = e]
      BY <2>1, <2>4 DEF SlotsAfter
    <3>2. QED
      BY <3>1 DEF e, o, f
  <2>5. CASE type # "swap" /\ ~IsLift(type)
    BY <2>5 DEF SlotsAfter
  <2>6. QED
    BY <2>3, <2>4, <2>5
<1>4. QED
  BY <1>1, <1>2, <1>3 DEF SlotSet, SlotNames, Apart, PlaneSet

\* One step of the fold (Appended of PlaneSchedule), and what it has so far.
PassStep(axis, across, pass, route) ==
    [slots |-> SlotsAfter(pass.slots, route.type),
     routes |-> Append(pass.routes, PlaneRoute(axis, across, pass.slots, route))]

PassSet(axis, across, Q, n) ==
    [slots : SlotSet,
     routes : Seq({PlaneRoute(axis, across, s, Q[i]) : s \in SlotSet, i \in 1 .. n})]

LEMMA PassStepIs ==
  ASSUME NEW axis, NEW across, NEW Q, NEW n \in Nat, NEW i \in 1 .. n,
         Q[i].type \in StepTypes, NEW pass \in PassSet(axis, across, Q, n)
  PROVE  PassStep(axis, across, pass, Q[i]) \in PassSet(axis, across, Q, n)
<1> DEFINE X == {PlaneRoute(axis, across, s, Q[k]) : s \in SlotSet, k \in 1 .. n}
           r == PlaneRoute(axis, across, pass.slots, Q[i])
<1>1. pass.slots \in SlotSet /\ pass.routes \in Seq(X)
  BY DEF PassSet
<1>2. r \in X
  BY <1>1
<1>3. SlotsAfter(pass.slots, Q[i].type) \in SlotSet
  BY <1>1, SlotsAfterIs
<1>4. PassStep(axis, across, pass, Q[i])
        = [slots |-> SlotsAfter(pass.slots, Q[i].type), routes |-> Append(pass.routes, r)]
  BY DEF PassStep
<1> HIDE DEF X, r
<1>5. Append(pass.routes, r) \in Seq(X)
  BY <1>1, <1>2
<1>6. QED
  BY <1>3, <1>4, <1>5 DEF PassSet, X

KnownTypes(cone) ==
    /\ IsSeq(cone.routes)
    /\ \A i \in 1 .. Len(cone.routes) : cone.routes[i].type \in StepTypes

PassFolds(axis, across, cone, slots, f) ==
    LET Q == cone.routes
        n == Len(Q)
    IN /\ f \in [0 .. n -> PassSet(axis, across, Q, n)]
       /\ f[0] = [slots |-> slots, routes |-> <<>>]
       /\ \A k \in 1 .. n : f[k] = PassStep(axis, across, f[k - 1], Q[k])
       /\ Pass(axis, cone, across, slots) = f[n]

LEMMA PassFold ==
  ASSUME NEW axis, NEW across, NEW cone, KnownTypes(cone), NEW slots \in SlotSet
  PROVE  \E f : PassFolds(axis, across, cone, slots, f)
<1> DEFINE Q == cone.routes
           n == Len(Q)
           PS == PassSet(axis, across, Q, n)
           base == [slots |-> slots, routes |-> <<>>]
           step == [x \in (1 .. n) \X PS |-> PassStep(axis, across, x[2], Q[x[1]])]
           P(iter) == iter = [s \in SUBSET (1 .. n) |->
                                IF s = {} THEN base
                                ELSE PassStep(axis, across, iter[s \ {Max(s)}], Q[Max(s)])]
           c == CHOOSE iter : P(iter)
           f == [k \in 0 .. n |-> c[1 .. k]]
<1>1. n \in Nat /\ DOMAIN Q = 1 .. n /\ \A i \in 1 .. n : Q[i].type \in StepTypes
  <2>1. PICK X : Q \in Seq(X)
    BY DEF IsSeq, KnownTypes
  <2>2. QED
    BY <2>1 DEF KnownTypes
<1>2. base \in PS
  <2> DEFINE X == {PlaneRoute(axis, across, s, Q[k]) : s \in SlotSet, k \in 1 .. n}
  <2>1. PS = [slots : SlotSet, routes : Seq(X)]
    BY DEF PassSet
  <2> HIDE DEF X, PS
  <2>2. <<>> \in Seq(X)
    OBVIOUS
  <2>3. QED
    BY <2>1, <2>2
<1>3. \A i \in 1 .. n, t \in PS : PassStep(axis, across, t, Q[i]) \in PS
  BY <1>1, PassStepIs
<1>4. Pass(axis, cone, across, slots) = c[1 .. n]
  BY <1>1 DEF Pass, FoldLeft, MapThenFoldSet, PassStep
<1> HIDE DEF n, base, Q, PS
<1>5. step \in [(1 .. n) \X PS -> PS]
  BY <1>3
<1>6. \A k \in 1 .. n, t \in PS : step[<<k, t>>] = PassStep(axis, across, t, Q[k])
  OBVIOUS
<1> HIDE DEF step
<1>7. \E iter : P(iter)
  <2>1. PICK iter : SolvesLeft(n, PS, base, step, iter)
    <3>1. n \in Nat /\ Steps(n, PS, step)
      BY <1>1, <1>5 DEF Steps
    <3>2. QED
      BY ONLY <3>1, <1>2, LeftUnfolds
  <2>2. \A s \in SUBSET (1 .. n) :
          iter[s] = IF s = {} THEN base ELSE PassStep(axis, across, iter[s \ {Max(s)}], Q[Max(s)])
    <3>1. TAKE s \in SUBSET (1 .. n)
    <3>2. ASSUME s # {} PROVE step[<<Max(s), iter[s \ {Max(s)}]>>]
                                = PassStep(axis, across, iter[s \ {Max(s)}], Q[Max(s)])
      <4>1. Max(s) \in s
        <5>1. 1 \in Int /\ n \in Int
          BY <1>1
        <5>2. QED
          BY ONLY <5>1, <3>2, s \in SUBSET (1 .. n), MaxIs
      <4>2. Max(s) \in 1 .. n /\ s \ {Max(s)} \in SUBSET (1 .. n)
        BY <4>1
      <4>3. iter[s \ {Max(s)}] \in PS
        BY <2>1, <4>2 DEF SolvesLeft
      <4>4. QED
        BY <1>6, <4>2, <4>3
    <3>3. QED
      BY <2>1, <3>2 DEF SolvesLeft
  <2>3. QED
    BY <2>1, <2>2 DEF SolvesLeft
<1>8. P(c)
  <2> HIDE DEF P
  <2>1. QED
    BY <1>7, Zenon
<1> HIDE DEF c
<1>9. c[1 .. 0] = base /\ \A k \in 1 .. n : c[1 .. k] = PassStep(axis, across, c[1 .. k - 1], Q[k])
  <2>1. \A s \in SUBSET (1 .. n) :
          c[s] = IF s = {} THEN base ELSE PassStep(axis, across, c[s \ {Max(s)}], Q[Max(s)])
    BY <1>8
  <2>2. c[1 .. 0] = base
    <3>1. (1 .. 0) = {} /\ (1 .. 0) \in SUBSET (1 .. n)
      OBVIOUS
    <3>2. QED
      BY <2>1, <3>1
  <2>3. ASSUME NEW k \in 1 .. n PROVE c[1 .. k] = PassStep(axis, across, c[1 .. k - 1], Q[k])
    BY <1>1, <2>1, FrontIs
  <2>4. QED
    BY <2>2, <2>3
<1>10. f[0] = base /\ \A k \in 1 .. n : f[k] = PassStep(axis, across, f[k - 1], Q[k])
  <2>1. \A k \in 1 .. n : k - 1 \in 0 .. n /\ k \in 0 .. n
    BY <1>1
  <2>2. QED
    BY <1>1, <1>9, <2>1
<1>11. f[n] = c[1 .. n]
  BY <1>1
<1> DEFINE T == {k \in 0 .. n : f[k] \in PS}
<1>12. DOMAIN f = 0 .. n /\ f = [k \in 0 .. n |-> f[k]]
  OBVIOUS
<1> HIDE DEF f
<1>13. \A k \in 0 .. n : k \in T
  <2>1. 0 \in T
    BY <1>1, <1>2, <1>10
  <2>2. \A k \in 0 .. n - 1 : k \in T => k + 1 \in T
    <3>1. TAKE k \in 0 .. n - 1
    <3>2. k + 1 \in 1 .. n /\ k + 1 \in 0 .. n /\ (k + 1) - 1 = k
      BY <1>1
    <3>3. f[k + 1] = PassStep(axis, across, f[k], Q[k + 1])
      BY <1>10, <3>2
    <3>4. QED
      BY <1>3, <3>2, <3>3
  <2> HIDE DEF T
  <2>3. QED
    BY <1>1, <2>1, <2>2, AllReached
<1>14. f \in [0 .. n -> PS]
  BY <1>12, <1>13
<1>15. PassFolds(axis, across, cone, slots, f)
  BY <1>4, <1>10, <1>11, <1>14 DEF n, base, Q, PS, PassFolds
<1>16. QED
  BY <1>15

PassIs(axis, across, cone, slots, S) ==
    LET n == Len(cone.routes)
        pass == Pass(axis, cone, across, slots)
    IN /\ n \in Nat /\ S \in [0 .. n -> SlotSet] /\ S[0] = slots /\ pass.slots = S[n]
       /\ IsSeq(pass.routes) /\ Len(pass.routes) = n
       /\ \A i \in 1 .. n :
            /\ S[i] = SlotsAfter(S[i - 1], cone.routes[i].type)
            /\ pass.routes[i] = PlaneRoute(axis, across, S[i - 1], cone.routes[i])
       /\ \A i \in 0 .. n : /\ PlaneSet(S[i]) = PlaneSet(slots)
                            /\ Apart(slots) => Apart(S[i])

LEMMA PassChain ==
  ASSUME NEW axis, NEW across, NEW cone, KnownTypes(cone), NEW slots \in SlotSet
  PROVE  \E S : PassIs(axis, across, cone, slots, S)
<1> DEFINE Q == cone.routes
           n == Len(Q)
           pass == Pass(axis, cone, across, slots)
           Route(s, i) == PlaneRoute(axis, across, s, Q[i])
           X == {PlaneRoute(axis, across, s, Q[i]) : s \in SlotSet, i \in 1 .. n}
<1>0. PICK f : PassFolds(axis, across, cone, slots, f)
  BY PassFold
<1>1. /\ f \in [0 .. n -> PassSet(axis, across, Q, n)]
      /\ f[0] = [slots |-> slots, routes |-> <<>>]
      /\ \A k \in 1 .. n : f[k] = PassStep(axis, across, f[k - 1], Q[k])
      /\ pass = f[n]
  BY <1>0 DEF PassFolds
<1>2. n \in Nat
  <2>1. PICK Y : Q \in Seq(Y)
    BY DEF IsSeq, KnownTypes
  <2>2. QED
    BY <2>1
<1>3. \A i \in 1 .. n : Q[i].type \in StepTypes
  BY DEF KnownTypes
<1> HIDE DEF Q, n, pass
<1> DEFINE S == [k \in 0 .. n |-> f[k].slots]
<1>13. PassSet(axis, across, Q, n) = [slots : SlotSet, routes : Seq(X)]
  BY DEF PassSet
<1> HIDE DEF X
<1>4. \A k \in 0 .. n : f[k].slots \in SlotSet /\ f[k].routes \in Seq(X)
  <2>1. TAKE k \in 0 .. n
  <2>2. f[k] \in [slots : SlotSet, routes : Seq(X)]
    BY <1>1, <1>13
  <2>3. QED
    BY <2>2
<1>5. S \in [0 .. n -> SlotSet] /\ \A k \in 0 .. n : S[k] = f[k].slots
  BY <1>4
<1> HIDE DEF S
<1>6. \A k \in 1 .. n :
        /\ k \in 0 .. n /\ k - 1 \in 0 .. n
        /\ S[k] = SlotsAfter(S[k - 1], Q[k].type)
        /\ f[k].routes = Append(f[k - 1].routes, Route(S[k - 1], k))
  <2>1. TAKE k \in 1 .. n
  <2>2. k \in 0 .. n /\ k - 1 \in 0 .. n
    BY <1>2
  <2>3. f[k] = [slots |-> SlotsAfter(f[k - 1].slots, Q[k].type),
                routes |-> Append(f[k - 1].routes, Route(f[k - 1].slots, k))]
    BY <1>1 DEF PassStep
  <2>4. QED
    BY <1>5, <2>2, <2>3
<1>7. S[0] = slots /\ f[0].routes = <<>> /\ 0 \in 0 .. n
  BY <1>1, <1>2, <1>5
<1> HIDE DEF Route
<1> DEFINE T == {k \in 0 .. n : /\ IsSeq(f[k].routes) /\ Len(f[k].routes) = k
                                /\ \A i \in 1 .. k : f[k].routes[i] = Route(S[i - 1], i)
                                /\ PlaneSet(S[k]) = PlaneSet(slots)
                                /\ Apart(slots) => Apart(S[k])}
<1>8. \A k \in 0 .. n : k \in T
  <2>1. 0 \in T
    BY <1>7, EmptyIsSeq
  <2>2. \A k \in 0 .. n - 1 : k \in T => k + 1 \in T
    <3>1. TAKE k \in 0 .. n - 1
    <3>2. k + 1 \in 1 .. n /\ k + 1 \in 0 .. n /\ (k + 1) - 1 = k /\ k \in 0 .. n
      BY <1>2
    <3>3. HAVE k \in T
    <3>4. /\ IsSeq(f[k].routes) /\ Len(f[k].routes) = k
          /\ \A i \in 1 .. k : f[k].routes[i] = Route(S[i - 1], i)
          /\ PlaneSet(S[k]) = PlaneSet(slots)
          /\ Apart(slots) => Apart(S[k])
      BY <3>3
    <3> HIDE DEF T
    <3>5. /\ S[k + 1] = SlotsAfter(S[k], Q[k + 1].type) /\ S[k] \in SlotSet
          /\ f[k + 1].routes = Append(f[k].routes, Route(S[k], k + 1))
          /\ Q[k + 1].type \in StepTypes
      BY <1>3, <1>5, <1>6, <3>2
    <3>6. PlaneSet(S[k + 1]) = PlaneSet(S[k]) /\ (Apart(S[k]) => Apart(S[k + 1]))
      BY <3>5, SlotsAfterIs
    <3>7. /\ IsSeq(f[k + 1].routes) /\ Len(f[k + 1].routes) = k + 1
          /\ f[k + 1].routes[k + 1] = Route(S[k], k + 1)
          /\ \A i \in 1 .. k : f[k + 1].routes[i] = f[k].routes[i]
      BY <3>4, <3>5, AppendIsSeq, AppendElements
    <3>8. \A i \in 1 .. k + 1 : f[k + 1].routes[i] = Route(S[i - 1], i)
      <4>1. \A i \in 1 .. k + 1 : i \in 1 .. k \/ (i = k + 1 /\ i - 1 = k)
        BY <3>2
      <4>2. QED
        BY <3>4, <3>7, <4>1
    <3>9. QED
      BY <3>2, <3>4, <3>6, <3>7, <3>8 DEF T
  <2> HIDE DEF T
  <2>3. QED
    BY ONLY <1>2, <2>1, <2>2, AllReached
<1>9. n \in 0 .. n
  BY <1>2
<1>10. /\ IsSeq(pass.routes) /\ Len(pass.routes) = n /\ pass.slots = S[n]
       /\ \A i \in 1 .. n : pass.routes[i] = Route(S[i - 1], i)
       /\ \A i \in 0 .. n : /\ PlaneSet(S[i]) = PlaneSet(slots)
                            /\ Apart(slots) => Apart(S[i])
  BY <1>1, <1>5, <1>8, <1>9
<1> HIDE DEF T
<1>11. PassIs(axis, across, cone, slots, S)
  BY <1>2, <1>5, <1>6, <1>7, <1>10 DEF PassIs, n, Q, pass, Route
<1>12. QED
  BY <1>11

-----------------------------------------------------------------------------
(***************************************************************************)
(* What the planes store.                                                  *)
(***************************************************************************)
LEMMA StoredFirst ==
  ASSUME NEW chunk, NEW run, NEW p \in Planes
  PROVE  StoredBefore(chunk, run, 1)[p] = LoadedRects(chunk)[p]
<1>1. {k \in 1 .. 1 - 1 : Executable(run[k]) /\ run[k].output = p} = {}
  OBVIOUS
<1>2. QED
  BY <1>1 DEF StoredBefore

LEMMA StoredNext ==
  ASSUME NEW chunk, NEW run, NEW i \in Nat \ {0}, NEW p \in Planes
  PROVE  StoredBefore(chunk, run, i + 1)[p]
           = IF Executable(run[i]) /\ run[i].output = p THEN run[i].outputRect
             ELSE StoredBefore(chunk, run, i)[p]
<1> DEFINE W(m) == {k \in 1 .. m - 1 : Executable(run[k]) /\ run[k].output = p}
           V(s) == IF s = {} THEN LoadedRects(chunk)[p] ELSE run[Max(s)].outputRect
<1>1. \A m : StoredBefore(chunk, run, m)[p] = V(W(m))
  BY DEF StoredBefore
<1>2. CASE Executable(run[i]) /\ run[i].output = p
  <2>1. i \in W(i + 1) /\ W(i + 1) \in SUBSET (1 .. i)
    BY <1>2
  <2> HIDE DEF W
  <2>2. W(i + 1) # {} /\ 1 \in Int /\ i \in Int
    BY <2>1
  <2>3. Max(W(i + 1)) \in W(i + 1) /\ \A y \in W(i + 1) : y <= Max(W(i + 1))
    <3> DEFINE s == W(i + 1)
    <3>1. s \in SUBSET (1 .. i) /\ s # {} /\ 1 \in Int /\ i \in Int
      BY <2>1, <2>2
    <3> HIDE DEF s
    <3>2. Max(s) \in s /\ \A y \in s : y <= Max(s)
      BY ONLY <3>1, MaxIs
    <3>3. QED
      BY <3>2 DEF s
  <2>4. Max(W(i + 1)) = i
    BY <2>1, <2>3
  <2>5. QED
    BY <1>1, <1>2, <2>2, <2>4
<1>3. CASE ~(Executable(run[i]) /\ run[i].output = p)
  <2>1. 1 .. (i + 1) - 1 = (1 .. i - 1) \cup {i}
    OBVIOUS
  <2>2. W(i + 1) = W(i)
    BY <1>3, <2>1
  <2>3. QED
    BY <1>1, <1>3, <2>2, Zenon
<1>4. QED
  BY <1>2, <1>3

RectOK(r) == \A a \in Axes : Upright(r[a])

LEMMA RectangleIs ==
  ASSUME NEW axis \in Axes, NEW along, NEW across
  PROVE  /\ Rectangle(axis, along, across)[axis] = along
         /\ Rectangle(axis, along, across)[Across[axis]] = across
         /\ Axes = {axis, Across[axis]} /\ Across[axis] \in Axes /\ axis # Across[axis]
         /\ EmptyRectangle(Rectangle(axis, along, across)) <=> Empty(along) \/ Empty(across)
         /\ Upright(along) /\ Upright(across) => RectOK(Rectangle(axis, along, across))
<1>1. Axes = {axis, Across[axis]} /\ Across[axis] \in Axes /\ axis # Across[axis]
  BY DEF Axes, Across
<1> DEFINE r == Rectangle(axis, along, across)
<1>2. r[axis] = along /\ r[Across[axis]] = across
  BY <1>1 DEF Rectangle
<1> HIDE DEF r
<1>3. EmptyRectangle(r) <=> Empty(along) \/ Empty(across)
  BY <1>1, <1>2 DEF EmptyRectangle
<1>4. Upright(along) /\ Upright(across) => RectOK(r)
  BY <1>1, <1>2 DEF RectOK
<1>5. QED
  BY <1>1, <1>2, <1>3, <1>4 DEF r

LEMMA WithinSelf ==
  ASSUME NEW r, RectOK(r)
  PROVE  Within(r, r)
BY CoversSelf DEF Within, RectOK, Upright

LEMMA WithinOn ==
  ASSUME NEW outer, RectOK(outer), NEW axis \in Axes, NEW across, Upright(across),
         NEW b, NEW a, Upright(b), Upright(a), Covers(b, a),
         Within(outer, Rectangle(axis, b, across))
  PROVE  Within(outer, Rectangle(axis, a, across))
<1> DEFINE rb == Rectangle(axis, b, across)
           ra == Rectangle(axis, a, across)
           v == Across[axis]
<1>1. /\ ra[axis] = a /\ ra[v] = across /\ rb[axis] = b /\ rb[v] = across
      /\ Axes = {axis, v} /\ v \in Axes
      /\ EmptyRectangle(ra) <=> Empty(a) \/ Empty(across)
      /\ EmptyRectangle(rb) <=> Empty(b) \/ Empty(across)
  BY RectangleIs
<1> HIDE DEF ra, rb, v
<1>2. SUFFICES ASSUME ~EmptyRectangle(ra) PROVE \A x \in Axes : Covers(outer[x], ra[x])
  BY DEF Within, ra
<1>3. ~Empty(a) /\ ~Empty(across)
  BY <1>1, <1>2
<1>4. ~Empty(b)
  BY <1>3 DEF Covers, Empty, Upright, Stretch
<1>5. Covers(outer[axis], b) /\ Covers(outer[v], across)
  BY <1>1, <1>3, <1>4 DEF Within, rb
<1>6. outer[axis] \in Stretch /\ a \in Stretch /\ b \in Stretch
  BY DEF RectOK, Upright
<1>7. Covers(outer[axis], a)
  BY <1>5, <1>6, CoversOn
<1>8. QED
  BY <1>1, <1>5, <1>7

\* The two streams of a pass are in their planes, as far as they are needed.
Serves(stored, axis, across, slots, need) ==
    /\ \A p \in Planes : RectOK(stored[p])
    /\ \A s \in Streams : Within(stored[slots[s]], Rectangle(axis, need[s], across))

RouteTyped(r) ==
    /\ {r.source, r.base, r.output} \subseteq Planes
    /\ RectOK(r.sourceRect) /\ RectOK(r.baseRect) /\ RectOK(r.outputRect)

AfterRoute(before, r, after) ==
    \A p \in Planes :
      after[p] = IF Executable(r) /\ r.output = p THEN r.outputRect ELSE before[p]

LEMMA PlaneRouteIs ==
  ASSUME NEW axis, NEW across, NEW slots, NEW q, q.type \in StepTypes
  PROVE  LET r == PlaneRoute(axis, across, slots, q)
             t == Target(q.type)
         IN /\ r.type = q.type /\ r.axis = axis
            /\ r.sourceRect = Rectangle(axis, q.source, across)
            /\ r.baseRect = Rectangle(axis, q.base, across)
            /\ r.outputRect = Rectangle(axis, q.output, across)
            /\ q.type = "swap" => r.source = slots["even"] /\ r.base = slots["odd"]
                                  /\ r.output = slots["even"]
            /\ q.type # "swap" => /\ r.source = slots[Reads(q)] /\ r.base = slots[t]
                                  /\ r.output = IF IsLift(q.type) THEN slots["free"]
                                                ELSE slots[t]
BY DEF PlaneRoute, Reads

LEMMA SlotsAfterAt ==
  ASSUME NEW slots \in SlotSet, NEW type \in StepTypes
  PROVE  LET after == SlotsAfter(slots, type)
             t == Target(type)
         IN /\ type = "swap" => \A s \in Streams : after[s] = slots[Other[s]]
            /\ IsLift(type) => after[t] = slots["free"] /\ after[Other[t]] = slots[Other[t]]
            /\ type # "swap" /\ ~IsLift(type) => after = slots
<1>1. ASSUME type = "swap" PROVE \A s \in Streams : SlotsAfter(slots, type)[s] = slots[Other[s]]
  <2>1. ~IsLift(type)
    BY <1>1 DEF IsLift
  <2>2. SlotsAfter(slots, type) = [slots EXCEPT !.even = slots.odd, !.odd = slots.even]
    BY <1>1, <2>1 DEF SlotsAfter
  <2>3. DOMAIN slots = SlotNames
    BY DEF SlotSet
  <2>4. /\ SlotsAfter(slots, type)["even"] = slots["odd"]
        /\ SlotsAfter(slots, type)["odd"] = slots["even"]
    BY <2>2, <2>3 DEF SlotNames
  <2>5. Other["even"] = "odd" /\ Other["odd"] = "even"
    BY DEF Other
  <2>6. QED
    BY <2>4, <2>5 DEF Streams
<1>2. ASSUME IsLift(type)
      PROVE  /\ SlotsAfter(slots, type)[Target(type)] = slots["free"]
             /\ SlotsAfter(slots, type)[Other[Target(type)]] = slots[Other[Target(type)]]
  <2> DEFINE t == Target(type)
  <2>1. t \in Streams
    BY StreamOf
  <2>2. slots \in [SlotNames -> Planes]
    BY DEF SlotSet
  <2>3. SlotsAfter(slots, type) = Moved(slots, t)
    BY <1>2 DEF SlotsAfter
  <2> HIDE DEF t
  <2>4. /\ Moved(slots, t)[t] = slots.free
        /\ Moved(slots, t)[Other[t]] = slots[Other[t]]
    BY ONLY <2>1, <2>2, MovedIs
  <2>5. QED
    BY <2>3, <2>4 DEF t
<1>3. ASSUME type # "swap", ~IsLift(type) PROVE SlotsAfter(slots, type) = slots
  BY <1>3 DEF SlotsAfter
<1>4. QED
  BY <1>1, <1>2, <1>3

LEMMA RouteServes ==
  ASSUME NEW axis \in Axes, NEW across, Upright(across), NEW slots \in SlotSet, Apart(slots),
         NEW B, NEW A, BothUpright(B), BothUpright(A), NEW q, RouteFits(q, B, A),
         NEW r, r = PlaneRoute(axis, across, slots, q),
         NEW before, Serves(before, axis, across, slots, B),
         NEW after, AfterRoute(before, r, after)
  PROVE  /\ Serves(after, axis, across, SlotsAfter(slots, q.type), A)
         /\ \A p \in Planes \ PlaneSet(slots) : after[p] = before[p]
         /\ Executable(r) => RouteHeld(before, r)
         /\ RouteTyped(r)
<1> DEFINE t == Target(q.type)
           next == SlotsAfter(slots, q.type)
           Along(i) == Rectangle(axis, i, across)
<1>1. /\ t \in Streams /\ Other[t] \in Streams /\ t # Other[t] /\ Streams = {t, Other[t]}
  BY StreamOf
<1>2. q.type \in StepTypes /\ Upright(q.source) /\ Upright(q.base) /\ Upright(q.output)
  BY DEF RouteFits
<1>3. /\ r.type = q.type /\ r.sourceRect = Along(q.source) /\ r.baseRect = Along(q.base)
      /\ r.outputRect = Along(q.output)
      /\ q.type = "swap" => r.source = slots["even"] /\ r.base = slots["odd"]
                            /\ r.output = slots["even"]
      /\ q.type # "swap" => /\ r.source = slots[Reads(q)] /\ r.base = slots[t]
                            /\ r.output = IF IsLift(q.type) THEN slots["free"] ELSE slots[t]
  BY <1>2, PlaneRouteIs
<1>4. \A i : Upright(i) => RectOK(Along(i)) /\ (EmptyRectangle(Along(i)) <=> Empty(i) \/ Empty(across))
  BY RectangleIs
<1>5. \A s \in SlotNames : slots[s] \in Planes
  BY DEF SlotSet
<1>6. t \in SlotNames /\ Other[t] \in SlotNames /\ Reads(q) \in Streams
      /\ {"even", "odd", "free"} = SlotNames /\ Streams \subseteq SlotNames
  BY <1>1 DEF Streams, SlotNames, Reads
<1>7. /\ \A s \in Streams : slots[s] # slots["free"]
      /\ slots[t] # slots[Other[t]]
      /\ \A s \in SlotNames : slots[s] \in PlaneSet(slots)
  BY <1>1 DEF Apart, Streams, Other, PlaneSet, SlotNames
<1>8. RouteTyped(r)
  BY <1>2, <1>3, <1>4, <1>5, <1>6 DEF RouteTyped
<1>9. r.output \in PlaneSet(slots)
  BY <1>3, <1>6, <1>7
<1>10. \A p \in Planes \ PlaneSet(slots) : after[p] = before[p]
  BY <1>9 DEF AfterRoute
<1>11. \A p \in Planes : RectOK(after[p]) /\ RectOK(before[p])
  BY <1>8 DEF AfterRoute, RouteTyped, Serves
<1>12. \A s \in Streams : /\ Upright(B[s]) /\ Upright(A[s]) /\ slots[s] \in Planes
                          /\ Within(before[slots[s]], Along(B[s]))
                          /\ RectOK(before[slots[s]])
  BY <1>5, <1>6, <1>11 DEF BothUpright, Serves
<1> HIDE DEF Along
<1>13. \A s \in Streams : \A i :
         Upright(i) /\ Covers(B[s], i) => Within(before[slots[s]], Along(i))
  <2>1. TAKE s \in Streams
  <2> TAKE i
  <2>2. HAVE Upright(i) /\ Covers(B[s], i)
  <2> DEFINE outer == before[slots[s]]
             b == B[s]
  <2>3. /\ RectOK(outer) /\ Upright(b) /\ Upright(i) /\ Covers(b, i)
        /\ Within(outer, Rectangle(axis, b, across))
    BY <1>12, <2>2 DEF Along
  <2> HIDE DEF outer, b
  <2>4. Within(outer, Rectangle(axis, i, across))
    BY <2>3, WithinOn
  <2>5. QED
    BY <2>4 DEF outer, Along
<1>14. Executable(r) <=> ~Empty(q.output) /\ ~Empty(across)
  BY <1>2, <1>3, <1>4 DEF Executable
<1>15. Executable(r) => RouteHeld(before, r)
  <2>1. SUFFICES ASSUME Executable(r) PROVE RouteHeld(before, r)
    OBVIOUS
  <2>2. q.type # "swap" /\ ~Empty(q.output)
    BY <1>14, <2>1 DEF RouteFits
  <2>3. Covers(B[t], q.base) /\ Covers(B[Reads(q)], q.source)
    BY <2>2 DEF RouteFits
  <2>4. Within(before[r.source], r.sourceRect) /\ Within(before[r.base], r.baseRect)
    BY <1>1, <1>2, <1>3, <1>6, <1>13, <2>2, <2>3
  <2>5. IsLift(r.type) => r.output \notin {r.source, r.base}
    BY <1>1, <1>3, <1>6, <1>7, <2>2
  <2>6. QED
    BY <2>4, <2>5 DEF RouteHeld
<1> SUFFICES \A s \in Streams : Within(after[next[s]], Along(A[s]))
  BY <1>8, <1>10, <1>11, <1>15 DEF Serves, Along
<1>16. CASE q.type = "swap"
  <2>1. Empty(q.output) /\ \A s \in Streams : A[s] = B[Other[s]]
    BY <1>16 DEF RouteFits
  <2>2. \A s \in Streams : next[s] = slots[Other[s]] /\ Other[s] \in Streams
    BY <1>2, <1>16, SlotsAfterAt, StreamOf
  <2>3. \A p \in Planes : after[p] = before[p]
    BY <1>14, <2>1 DEF AfterRoute
  <2> HIDE DEF next
  <2>4. QED
    BY <1>12, <2>1, <2>2, <2>3
<1>17. CASE q.type # "swap" /\ Empty(across)
  <2>1. \A s \in Streams : EmptyRectangle(Along(A[s]))
    BY <1>4, <1>12, <1>17
  <2>2. QED
    BY <2>1 DEF Within
<1>18. CASE q.type # "swap" /\ ~Empty(across) /\ ~IsLift(q.type)
  <2>1. next = slots
    BY <1>2, <1>18, SlotsAfterAt
  <2>2. /\ Covers(B[Other[t]], A[Other[t]]) /\ Covers(B[t], A[t])
        /\ q.output = A[t] \/ Empty(q.output)
    BY <1>18 DEF RouteFits
  <2>3. after[slots[Other[t]]] = before[slots[Other[t]]]
    BY <1>1, <1>3, <1>7, <1>12, <1>18 DEF AfterRoute
  <2>4. Within(after[slots[Other[t]]], Along(A[Other[t]]))
    BY <1>1, <1>12, <1>13, <2>2, <2>3
  <2>5. CASE Executable(r)
    <3>1. q.output = A[t]
      BY <1>14, <2>2, <2>5
    <3>2. after[slots[t]] = Along(A[t])
      BY <1>1, <1>3, <1>12, <1>18, <2>5, <3>1 DEF AfterRoute
    <3>3. Within(after[slots[t]], Along(A[t]))
      BY <1>1, <1>4, <1>12, <3>2, WithinSelf
    <3> HIDE DEF next
    <3>4. QED
      BY <1>1, <2>1, <2>4, <3>3
  <2>6. CASE ~Executable(r)
    <3>1. after[slots[t]] = before[slots[t]]
      BY <1>1, <1>12, <2>6 DEF AfterRoute
    <3>2. Within(after[slots[t]], Along(A[t]))
      BY <1>1, <1>12, <1>13, <2>2, <3>1
    <3> HIDE DEF next
    <3>3. QED
      BY <1>1, <2>1, <2>4, <3>2
  <2>7. QED
    BY <2>5, <2>6
<1>19. CASE q.type # "swap" /\ ~Empty(across) /\ IsLift(q.type)
  <2>1. next[t] = slots["free"] /\ next[Other[t]] = slots[Other[t]]
    BY <1>2, <1>19, SlotsAfterAt
  <2>2. Covers(B[Other[t]], A[Other[t]]) /\ q.output = A[t]
    BY <1>19 DEF RouteFits
  <2>3. after[slots[Other[t]]] = before[slots[Other[t]]]
    BY <1>1, <1>3, <1>7, <1>12, <1>19 DEF AfterRoute
  <2>4. Within(after[slots[Other[t]]], Along(A[Other[t]]))
    BY <1>1, <1>12, <1>13, <2>2, <2>3
  <2>5. Within(after[slots["free"]], Along(A[t]))
    <3>1. CASE Empty(A[t])
      BY <1>1, <1>4, <1>12, <3>1 DEF Within
    <3>2. CASE ~Empty(A[t])
      <4>1. Executable(r) /\ r.output = slots["free"] /\ slots["free"] \in Planes
        BY <1>3, <1>5, <1>6, <1>14, <1>19, <2>2, <3>2
      <4>2. after[slots["free"]] = Along(A[t])
        BY <1>3, <2>2, <4>1 DEF AfterRoute
      <4>3. QED
        BY <1>1, <1>4, <1>12, <4>2, WithinSelf
    <3>3. QED
      BY <3>1, <3>2
  <2> HIDE DEF next
  <2>6. QED
    BY <1>1, <2>1, <2>4, <2>5
<1>20. QED
  BY <1>16, <1>17, <1>18, <1>19

\* Through the whole of a pass, which begins after o routes of the schedule.
PassAt(run, o, axis, across, cone, S) ==
    \A i \in 1 .. Len(cone.routes) :
      run[o + i] = PlaneRoute(axis, across, S[i - 1], cone.routes[i])

RoutesServed(chunk, run, o, n) ==
    \A k \in 1 .. n :
      /\ RouteTyped(run[o + k])
      /\ Executable(run[o + k]) => RouteHeld(StoredBefore(chunk, run, o + k), run[o + k])

\* A pass that does not touch the planes of others, from o routes on.
PassLeaves(chunk, run, o, n, axis, across, cone, S, slots) ==
    /\ RoutesServed(chunk, run, o, n)
    /\ Serves(StoredBefore(chunk, run, o + n + 1), axis, across, S[n], cone.final)
    /\ \A p \in Planes \ PlaneSet(slots) :
         StoredBefore(chunk, run, o + n + 1)[p] = StoredBefore(chunk, run, o + 1)[p]

LEMMA PassServes ==
  ASSUME NEW chunk, NEW run, NEW o \in Nat, NEW axis \in Axes, NEW across, Upright(across),
         NEW cone, NEW n, NEW N, ConeFits(cone, n, N), NEW slots \in SlotSet, Apart(slots),
         NEW S, PassIs(axis, across, cone, slots, S), PassAt(run, o, axis, across, cone, S),
         Serves(StoredBefore(chunk, run, o + 1), axis, across, slots, cone.initial)
  PROVE  PassLeaves(chunk, run, o, n, axis, across, cone, S, slots)
<1> DEFINE Q == cone.routes
           At(i) == StoredBefore(chunk, run, i)
           Same(k) == \A p \in Planes \ PlaneSet(slots) : At(o + k + 1)[p] = At(o + 1)[p]
           T == {k \in 0 .. n : Serves(At(o + k + 1), axis, across, S[k], N[k]) /\ Same(k)}
<1>1. /\ n \in Nat /\ Len(Q) = n /\ N[0] = cone.initial
      /\ \A i \in 0 .. n : BothUpright(N[i])
      /\ \A i \in 1 .. n : RouteFits(Q[i], N[i - 1], N[i])
  BY DEF ConeFits
<1>2. /\ S[0] = slots /\ S \in [0 .. n -> SlotSet]
      /\ \A i \in 1 .. n : S[i] = SlotsAfter(S[i - 1], Q[i].type)
      /\ \A i \in 0 .. n : PlaneSet(S[i]) = PlaneSet(slots) /\ Apart(S[i])
  BY <1>1 DEF PassIs
<1>3. \A i \in 1 .. n : run[o + i] = PlaneRoute(axis, across, S[i - 1], Q[i])
  BY <1>1 DEF PassAt
<1>4. \A i \in Nat \ {0} : AfterRoute(At(i), run[i], At(i + 1))
  BY StoredNext DEF AfterRoute
<1> HIDE DEF Q, At
<1>5. ASSUME NEW k \in 0 .. n - 1, Serves(At(o + k + 1), axis, across, S[k], N[k])
      PROVE  /\ Serves(At(o + (k + 1) + 1), axis, across, S[k + 1], N[k + 1])
             /\ \A p \in Planes \ PlaneSet(slots) : At(o + (k + 1) + 1)[p] = At(o + k + 1)[p]
             /\ Executable(run[o + (k + 1)]) =>
                  RouteHeld(At(o + (k + 1)), run[o + (k + 1)])
             /\ RouteTyped(run[o + (k + 1)])
  <2> DEFINE i == o + (k + 1)
             r == run[i]
             q == Q[k + 1]
             B == N[k]
             A == N[k + 1]
             s == S[k]
             before == At(i)
             after == At(i + 1)
  <2>1. /\ k + 1 \in 1 .. n /\ k + 1 \in 0 .. n /\ k \in 0 .. n /\ (k + 1) - 1 = k
        /\ i \in Nat \ {0} /\ o + k + 1 = i /\ o + (k + 1) + 1 = i + 1
    <3>1. k \in Nat /\ k + 1 \in Nat
      OBVIOUS
    <3>2. k + 1 \in 1 .. n /\ k + 1 \in 0 .. n /\ k \in 0 .. n /\ (k + 1) - 1 = k
      BY <1>1
    <3>3. i \in Nat \ {0} /\ o + k + 1 = i
      BY <3>1
    <3>4. QED
      BY <3>2, <3>3
  <2>2. /\ BothUpright(B) /\ BothUpright(A) /\ RouteFits(q, B, A)
        /\ s \in SlotSet /\ Apart(s) /\ PlaneSet(s) = PlaneSet(slots)
        /\ S[k + 1] = SlotsAfter(s, q.type)
        /\ r = PlaneRoute(axis, across, s, q)
    BY <1>1, <1>2, <1>3, <2>1
  <2>3. AfterRoute(before, r, after)
    BY <1>4, <2>1
  <2>4. Serves(before, axis, across, s, B)
    BY <1>5, <2>1
  <2> HIDE DEF i, r, q, B, A, s, before, after
  <2>5. /\ Serves(after, axis, across, SlotsAfter(s, q.type), A)
        /\ \A p \in Planes \ PlaneSet(s) : after[p] = before[p]
        /\ Executable(r) => RouteHeld(before, r)
        /\ RouteTyped(r)
    BY <2>2, <2>3, <2>4, RouteServes
  <2>6. /\ Serves(after, axis, across, S[k + 1], A)
        /\ \A p \in Planes \ PlaneSet(slots) : after[p] = before[p]
    BY <2>2, <2>5
  <2>7. QED
    BY <2>1, <2>5, <2>6 DEF r, A, before, after, i
<1>6. \A k \in 0 .. n : k \in T
  <2>1. 0 \in T
    <3>1. o + 0 + 1 = o + 1 /\ 0 \in 0 .. n
      BY <1>1
    <3>2. Serves(At(o + 1), axis, across, S[0], N[0])
      BY <1>1, <1>2 DEF At
    <3>3. QED
      BY <3>1, <3>2
  <2>2. \A k \in 0 .. n - 1 : k \in T => k + 1 \in T
    <3>1. TAKE k \in 0 .. n - 1
    <3>2. HAVE k \in T
    <3>3. Serves(At(o + k + 1), axis, across, S[k], N[k]) /\ Same(k)
      BY <3>2
    <3>4. /\ Serves(At(o + (k + 1) + 1), axis, across, S[k + 1], N[k + 1])
          /\ \A p \in Planes \ PlaneSet(slots) : At(o + (k + 1) + 1)[p] = At(o + k + 1)[p]
      BY <1>5, <3>3
    <3>5. Same(k + 1)
      BY <3>3, <3>4
    <3>6. k + 1 \in 0 .. n
      BY <1>1
    <3> HIDE DEF Same
    <3>7. QED
      BY <3>4, <3>5, <3>6
  <2> HIDE DEF T
  <2>3. QED
    BY ONLY <1>1, <2>1, <2>2, AllReached
<1>7. \A k \in 0 .. n : Serves(At(o + k + 1), axis, across, S[k], N[k]) /\ Same(k)
  BY <1>6
<1> HIDE DEF T
<1>8. \A k \in 1 .. n : /\ RouteTyped(run[o + k])
                        /\ Executable(run[o + k]) => RouteHeld(At(o + k), run[o + k])
  <2>1. TAKE k \in 1 .. n
  <2>2. k - 1 \in 0 .. n - 1 /\ k - 1 \in 0 .. n /\ (k - 1) + 1 = k
    BY <1>1
  <2>3. Serves(At(o + (k - 1) + 1), axis, across, S[k - 1], N[k - 1])
    BY <1>7, <2>2
  <2> HIDE DEF Same
  <2>4. /\ Executable(run[o + ((k - 1) + 1)]) =>
             RouteHeld(At(o + ((k - 1) + 1)), run[o + ((k - 1) + 1)])
        /\ RouteTyped(run[o + ((k - 1) + 1)])
    BY <1>5, <2>2, <2>3
  <2>5. QED
    BY <2>2, <2>4
<1>9. /\ Serves(At(o + n + 1), axis, across, S[n], cone.final)
      /\ \A p \in Planes \ PlaneSet(slots) : At(o + n + 1)[p] = At(o + 1)[p]
  <2>1. n \in 0 .. n /\ N[n] = cone.final
    BY <1>1 DEF ConeFits
  <2>2. Serves(At(o + n + 1), axis, across, S[n], N[n]) /\ Same(n)
    BY <1>7, <2>1
  <2>3. QED
    BY <2>1, <2>2
<1>10. QED
  BY <1>8, <1>9 DEF At, RoutesServed, PassLeaves

-----------------------------------------------------------------------------
(***************************************************************************)
(* The four passes of a chunk, one after the other.                        *)
(***************************************************************************)
Joined(p, q) == p \o q

LongSeq(n, p) == IsSeq(p) /\ Len(p) = n

JoinedIs(m, n, p, q) ==
    /\ LongSeq(m + n, Joined(p, q)) /\ m \in Nat /\ n \in Nat
    /\ \A i \in 1 .. m : Joined(p, q)[i] = p[i]
    /\ \A i \in 1 .. n : Joined(p, q)[m + i] = q[i]

LEMMA ConcatAt ==
  ASSUME NEW p, NEW q, NEW m, NEW n, LongSeq(m, p), LongSeq(n, q)
  PROVE  JoinedIs(m, n, p, q)
<1> DEFINE r == p \o q
<1>1. /\ IsSeq(r) /\ m \in Nat /\ n \in Nat
      /\ r = [i \in 1 .. m + n |-> IF i <= m THEN p[i] ELSE q[i - m]]
  BY ConcatElements DEF LongSeq
<1> HIDE DEF r
<1>2. Len(r) = m + n
  <2>1. m + n \in Nat /\ r = [i \in 1 .. m + n |-> r[i]]
    BY <1>1
  <2>2. QED
    BY ONLY <2>1, FunctionIsSeq
<1>3. \A i \in 1 .. m : r[i] = p[i]
  <2>1. TAKE i \in 1 .. m
  <2>2. i \in 1 .. m + n /\ i <= m
    BY <1>1
  <2>3. QED
    BY <1>1, <2>2
<1>4. \A i \in 1 .. n : r[m + i] = q[i]
  <2>1. TAKE i \in 1 .. n
  <2>2. m + i \in 1 .. m + n /\ ~(m + i <= m) /\ (m + i) - m = i
    BY <1>1
  <2>3. QED
    BY <1>1, <2>2
<1>5. QED
  BY <1>1, <1>2, <1>3, <1>4 DEF r, LongSeq, Joined, JoinedIs

LEMMA FlattenFour ==
  \A p, q, r, s : FlattenSeq(<<p, q, r, s>>) = Joined(Joined(Joined(p, q), r), s)
<1> TAKE p, q, r, s
<1> DEFINE seqs == <<p, q, r, s>>
           P(f) == f = [i \in 1 .. 4 |-> IF i = 1 THEN seqs[i] ELSE f[i - 1] \o seqs[i]]
           c == CHOOSE f : P(f)
           g == [i \in 1 .. 4 |-> IF i = 1 THEN p ELSE IF i = 2 THEN p \o q
                                  ELSE IF i = 3 THEN (p \o q) \o r
                                  ELSE ((p \o q) \o r) \o s]
<1>1. /\ Len(seqs) = 4 /\ seqs[1] = p /\ seqs[2] = q /\ seqs[3] = r /\ seqs[4] = s
  OBVIOUS
<1>2. FlattenSeq(seqs) = c[4]
  BY <1>1 DEF FlattenSeq
<1> HIDE DEF seqs
<1>3. P(g)
  <2> DEFINE h == [i \in 1 .. 4 |-> IF i = 1 THEN seqs[i] ELSE g[i - 1] \o seqs[i]]
  <2>1. \A i \in 1 .. 4 : i = 1 \/ i = 2 \/ i = 3 \/ i = 4
    OBVIOUS
  <2>2. g[1] = p /\ g[2] = p \o q /\ g[3] = (p \o q) \o r /\ g[4] = ((p \o q) \o r) \o s
    OBVIOUS
  <2>3. g = [i \in 1 .. 4 |-> g[i]]
    OBVIOUS
  <2> HIDE DEF g, h
  <2>4. h[1] = g[1]
    BY <1>1, <2>2 DEF h
  <2>5. h[2] = g[2]
    <3>1. 2 \in 1 .. 4 /\ 2 # 1 /\ 2 - 1 = 1
      OBVIOUS
    <3>2. h[2] = g[2 - 1] \o seqs[2]
      BY <3>1 DEF h
    <3>3. QED
      BY <1>1, <2>2, <3>1, <3>2
  <2>6. h[3] = g[3]
    <3>1. 3 \in 1 .. 4 /\ 3 # 1 /\ 3 - 1 = 2
      OBVIOUS
    <3>2. h[3] = g[3 - 1] \o seqs[3]
      BY <3>1 DEF h
    <3>3. QED
      BY <1>1, <2>2, <3>1, <3>2
  <2>7. h[4] = g[4]
    <3>1. 4 \in 1 .. 4 /\ 4 # 1 /\ 4 - 1 = 3
      OBVIOUS
    <3>2. h[4] = g[4 - 1] \o seqs[4]
      BY <3>1 DEF h
    <3>3. QED
      BY <1>1, <2>2, <3>1, <3>2
  <2>8. h = [i \in 1 .. 4 |-> h[i]]
    BY DEF h
  <2>9. g = h
    BY <2>1, <2>3, <2>4, <2>5, <2>6, <2>7, <2>8
  <2>10. QED
    BY <2>9 DEF h
<1> HIDE DEF g
<1>4. P(c)
  <2> HIDE DEF P
  <2>1. QED
    BY <1>3, Zenon
<1> HIDE DEF c
<1>5. c[1] = p
  <2>1. 1 \in 1 .. 4
    OBVIOUS
  <2>2. QED
    BY <1>1, <1>4, <2>1
<1>6. c[2] = p \o q
  <2>1. 2 \in 1 .. 4 /\ 2 # 1 /\ 2 - 1 = 1
    OBVIOUS
  <2>2. c[2] = c[2 - 1] \o seqs[2]
    BY <1>4, <2>1
  <2>3. QED
    BY <1>1, <1>5, <2>1, <2>2
<1>7. c[3] = (p \o q) \o r
  <2>1. 3 \in 1 .. 4 /\ 3 # 1 /\ 3 - 1 = 2
    OBVIOUS
  <2>2. c[3] = c[3 - 1] \o seqs[3]
    BY <1>4, <2>1
  <2>3. QED
    BY <1>1, <1>6, <2>1, <2>2
<1>8. c[4] = ((p \o q) \o r) \o s
  <2>1. 4 \in 1 .. 4 /\ 4 # 1 /\ 4 - 1 = 3
    OBVIOUS
  <2>2. c[4] = c[4 - 1] \o seqs[4]
    BY <1>4, <2>1
  <2>3. QED
    BY <1>1, <1>7, <2>1, <2>2
<1>9. QED
  BY <1>2, <1>8 DEF seqs, Joined

LEMMA FourPasses ==
  ASSUME NEW p, NEW q, NEW r, NEW s, NEW n,
         LongSeq(n, p), LongSeq(n, q), LongSeq(n, r), LongSeq(n, s)
  PROVE  LET run == FlattenSeq(<<p, q, r, s>>)
         IN /\ n \in Nat /\ LongSeq(n + n + n + n, run)
            /\ \A i \in 1 .. n : /\ run[0 + i] = p[i]
                                 /\ run[n + i] = q[i]
                                 /\ run[(n + n) + i] = r[i]
                                 /\ run[(n + n + n) + i] = s[i]
<1> DEFINE pq == Joined(p, q)
           pqr == Joined(pq, r)
           run == Joined(pqr, s)
           m == n + n
           l == m + n
<1>1. FlattenSeq(<<p, q, r, s>>) = run
  BY FlattenFour
<1>2. /\ LongSeq(m, pq) /\ n \in Nat
      /\ \A i \in 1 .. n : pq[i] = p[i] /\ pq[n + i] = q[i]
  <2>1. JoinedIs(n, n, p, q)
    BY ConcatAt
  <2>2. QED
    BY <2>1 DEF JoinedIs
<1>0. m = n + n /\ l = m + n
  OBVIOUS
<1> HIDE DEF pq, m
<1>3. /\ LongSeq(l, pqr)
      /\ \A i \in 1 .. m : pqr[i] = pq[i]
      /\ \A i \in 1 .. n : pqr[m + i] = r[i]
  <2>1. JoinedIs(m, n, pq, r)
    BY <1>2, ConcatAt
  <2>2. QED
    BY <1>0, <2>1 DEF JoinedIs
<1> HIDE DEF pqr, l
<1>4. /\ LongSeq(l + n, run)
      /\ \A i \in 1 .. l : run[i] = pqr[i]
      /\ \A i \in 1 .. n : run[l + i] = s[i]
  <2>1. JoinedIs(l, n, pqr, s)
    BY <1>3, ConcatAt
  <2>2. QED
    BY <2>1 DEF JoinedIs
<1> HIDE DEF run
<1>5. ASSUME NEW i \in 1 .. n
      PROVE  /\ run[0 + i] = p[i] /\ run[n + i] = q[i] /\ run[m + i] = r[i]
             /\ run[l + i] = s[i]
  <2>1. /\ i \in 1 .. m /\ i \in 1 .. l /\ n + i \in 1 .. m
        /\ n + i \in 1 .. l /\ m + i \in 1 .. l /\ 0 + i = i
    BY <1>0, <1>2
  <2>2. QED
    BY <1>2, <1>3, <1>4, <2>1
<1>6. m = n + n /\ l = n + n + n /\ l + n = n + n + n + n
  BY <1>0
<1>7. QED
  BY <1>1, <1>2, <1>4, <1>5, <1>6

LEMMA HomeIs ==
  ASSUME NEW u \in Axes
  PROVE  /\ \A su, sv \in Streams : Home(u, su, sv) \in Planes /\ Home(u, su, sv) # "Scratch"
         /\ \A su, sv, tu, tv \in Streams :
              Home(u, su, sv) = Home(u, tu, tv) => su = tu /\ sv = tv
         /\ \A sy, sx \in Streams :
              HomePlane[sy][sx] = IF u = "y" THEN Home(u, sy, sx) ELSE Home(u, sx, sy)
<1>1. /\ HomePlane["even"]["even"] = "P0" /\ HomePlane["even"]["odd"] = "P1"
      /\ HomePlane["odd"]["even"] = "P2" /\ HomePlane["odd"]["odd"] = "P3"
  BY DEF HomePlane, Streams
<1>2. u = "y" \/ u = "x"
  BY DEF Axes
<1>3. CASE u = "y"
  <2>1. /\ Home(u, "even", "even") = "P0" /\ Home(u, "even", "odd") = "P1"
        /\ Home(u, "odd", "even") = "P2" /\ Home(u, "odd", "odd") = "P3"
    BY <1>1, <1>3 DEF Home
  <2>2. \A sy, sx \in Streams : HomePlane[sy][sx] = Home(u, sy, sx)
    BY <1>3 DEF Home
  <2>3. QED
    BY <1>3, <2>1, <2>2 DEF Streams, Planes
<1>4. CASE u = "x"
  <2>1. /\ Home(u, "even", "even") = "P0" /\ Home(u, "even", "odd") = "P2"
        /\ Home(u, "odd", "even") = "P1" /\ Home(u, "odd", "odd") = "P3"
    BY <1>1, <1>4 DEF Home
  <2>2. \A sy, sx \in Streams : HomePlane[sy][sx] = Home(u, sx, sy)
    BY <1>4 DEF Home
  <2>3. QED
    BY <1>4, <2>1, <2>2 DEF Streams, Planes
<1>5. QED
  BY <1>2, <1>3, <1>4

LEMMA PairIs ==
  ASSUME NEW e \in Planes, NEW o \in Planes, NEW f \in Planes, e # o, e # f, o # f
  PROVE  /\ Pair(e, o, f) \in SlotSet /\ Apart(Pair(e, o, f))
         /\ Pair(e, o, f).even = e /\ Pair(e, o, f).odd = o /\ Pair(e, o, f).free = f
         /\ PlaneSet(Pair(e, o, f)) = {e, o, f}
BY DEF Pair, SlotSet, SlotNames, Apart, PlaneSet

\* The planes in which the four passes begin.
StartA(u) == Pair(Home(u, "even", "even"), Home(u, "odd", "even"), "Scratch")

StartB(u, a) == Pair(Home(u, "even", "odd"), Home(u, "odd", "odd"), a.free)

StartC(a, b) == Pair(a.even, b.even, b.free)

StartD(a, b, c) == Pair(a.odd, b.odd, c.free)

Starts(u, a, b, c, d) ==
    /\ {StartA(u), StartB(u, a), StartC(a, b), StartD(a, b, c), a, b, c, d} \subseteq SlotSet
    /\ Apart(StartA(u)) /\ Apart(StartB(u, a)) /\ Apart(StartC(a, b)) /\ Apart(StartD(a, b, c))
    /\ Apart(a) /\ Apart(b) /\ Apart(c) /\ Apart(d)
    /\ PlaneSet(a) = PlaneSet(StartA(u)) /\ PlaneSet(b) = PlaneSet(StartB(u, a))
    /\ PlaneSet(c) = PlaneSet(StartC(a, b)) /\ PlaneSet(d) = PlaneSet(StartD(a, b, c))

\* What a pass has made is still there when it is taken on.
LEMMA StartsApart ==
  ASSUME NEW u \in Axes, NEW a, NEW b, NEW c, NEW d,
         a \in SlotSet, b \in SlotSet, c \in SlotSet, d \in SlotSet,
         Apart(a), PlaneSet(a) = PlaneSet(StartA(u)),
         Apart(StartB(u, a)) => Apart(b), PlaneSet(b) = PlaneSet(StartB(u, a)),
         Apart(StartC(a, b)) => Apart(c), PlaneSet(c) = PlaneSet(StartC(a, b)),
         Apart(StartD(a, b, c)) => Apart(d), PlaneSet(d) = PlaneSet(StartD(a, b, c))
  PROVE  /\ Starts(u, a, b, c, d)
         \* The second pass leaves the first one's results alone ...
         /\ \A s \in Streams : a[s] \notin PlaneSet(StartB(u, a))
         /\ \A s \in Streams : Home(u, s, "odd") \notin PlaneSet(StartA(u))
         \* ... the third what the fourth is to read, and the fourth the results.
         /\ a.odd \notin PlaneSet(StartC(a, b)) /\ b.odd \notin PlaneSet(StartC(a, b))
         /\ \A s \in Streams : c[s] \notin PlaneSet(StartD(a, b, c))
         /\ \A s, t \in Streams : c[s] # d[t]
<1> DEFINE h1 == Home(u, "even", "even")
           h2 == Home(u, "odd", "even")
           h3 == Home(u, "even", "odd")
           h4 == Home(u, "odd", "odd")
           sc == "Scratch"
<1>1. /\ {h1, h2, h3, h4, sc} \subseteq Planes
      /\ h1 # h2 /\ h1 # h3 /\ h1 # h4 /\ h2 # h3 /\ h2 # h4 /\ h3 # h4
      /\ sc # h1 /\ sc # h2 /\ sc # h3 /\ sc # h4
      /\ \A s \in Streams : Home(u, s, "odd") \in {h3, h4}
  <2>1. "even" \in Streams /\ "odd" \in Streams /\ "Scratch" \in Planes /\ "even" # "odd"
    BY DEF Streams, Planes
  <2>2. {h1, h2, h3, h4, sc} \subseteq Planes
    BY <2>1, HomeIs
  <2>3. h1 # h2 /\ h1 # h3 /\ h1 # h4 /\ h2 # h3 /\ h2 # h4 /\ h3 # h4
    BY <2>1, HomeIs
  <2>4. sc # h1 /\ sc # h2 /\ sc # h3 /\ sc # h4
    BY <2>1, HomeIs
  <2>5. \A s \in Streams : Home(u, s, "odd") \in {h3, h4}
    BY DEF Streams
  <2>6. QED
    BY <2>2, <2>3, <2>4, <2>5
<1> DEFINE sa == StartA(u)
           sb == StartB(u, a)
           tc == StartC(a, b)
           sd == StartD(a, b, c)
<1>2. sa = Pair(h1, h2, sc) /\ sb = Pair(h3, h4, a.free)
      /\ tc = Pair(a.even, b.even, b.free) /\ sd = Pair(a.odd, b.odd, c.free)
  BY DEF StartA, StartB, StartC, StartD
<1> HIDE DEF h1, h2, h3, h4, sc, sa, sb, tc, sd
<1>3. \A x \in SlotSet : {x.even, x.odd, x.free} \subseteq Planes
  BY DEF SlotSet, SlotNames
<1>4. /\ sa \in SlotSet /\ Apart(sa) /\ PlaneSet(sa) = {h1, h2, sc}
  BY <1>1, <1>2, PairIs
<1>5. /\ {a.even, a.odd, a.free} = {h1, h2, sc}
      /\ a.even # a.odd /\ a.even # a.free /\ a.odd # a.free
      /\ {a.even, a.odd, a.free} \subseteq Planes
  BY <1>3, <1>4 DEF sa, PlaneSet, Apart
<1>6. h3 # a.free /\ h4 # a.free
  BY <1>1, <1>5
<1>7. sb \in SlotSet /\ Apart(sb) /\ PlaneSet(sb) = {h3, h4, a.free}
  BY <1>1, <1>2, <1>5, <1>6, PairIs
<1>8. Apart(b)
  BY <1>7 DEF sb
<1>9. /\ {b.even, b.odd, b.free} = {h3, h4, a.free}
      /\ b.even # b.odd /\ b.even # b.free /\ b.odd # b.free
      /\ {b.even, b.odd, b.free} \subseteq Planes
  BY <1>3, <1>7, <1>8 DEF sb, PlaneSet, Apart
<1>10. /\ a.even \notin {b.even, b.odd, b.free} /\ a.odd \notin {b.even, b.odd, b.free}
       /\ a.even \notin PlaneSet(sb) /\ a.odd \notin PlaneSet(sb)
  <2>1. a.even \notin {h3, h4, a.free} /\ a.odd \notin {h3, h4, a.free}
    BY <1>1, <1>5
  <2>2. QED
    BY <1>7, <1>9, <2>1
<1>11. tc \in SlotSet /\ Apart(tc) /\ PlaneSet(tc) = {a.even, b.even, b.free}
  BY <1>2, <1>5, <1>9, <1>10, PairIs
<1>12. Apart(c)
  BY <1>11 DEF tc
<1>13. /\ {c.even, c.odd, c.free} = {a.even, b.even, b.free}
       /\ c.even # c.odd /\ c.even # c.free /\ c.odd # c.free
       /\ {c.even, c.odd, c.free} \subseteq Planes
  BY <1>3, <1>11, <1>12 DEF tc, PlaneSet, Apart
<1>14. a.odd \notin {a.even, b.even, b.free} /\ b.odd \notin {a.even, b.even, b.free}
       /\ a.odd # b.odd
  BY <1>5, <1>9, <1>10
<1>15. a.odd # c.free /\ b.odd # c.free
  BY <1>13, <1>14
<1>16. sd \in SlotSet /\ Apart(sd) /\ PlaneSet(sd) = {a.odd, b.odd, c.free}
  BY <1>2, <1>5, <1>9, <1>13, <1>14, <1>15, PairIs
<1>17. Apart(d)
  BY <1>16 DEF sd
<1>18. {d.even, d.odd, d.free} = {a.odd, b.odd, c.free}
  BY <1>16 DEF sd, PlaneSet
<1>19. c.even \notin {a.odd, b.odd, c.free} /\ c.odd \notin {a.odd, b.odd, c.free}
  BY <1>13, <1>14
<1>20. Starts(u, a, b, c, d)
  BY <1>4, <1>7, <1>8, <1>11, <1>12, <1>16, <1>17 DEF Starts, sa, sb, tc, sd
<1>21. \A s \in Streams : Home(u, s, "odd") \notin PlaneSet(sa)
  BY <1>1, <1>4
<1>22. \A s \in Streams : s = "even" \/ s = "odd"
  BY DEF Streams
<1>23. \A s, t \in Streams : c[s] # d[t] /\ c[s] \notin PlaneSet(sd) /\ a[s] \notin PlaneSet(sb)
  BY <1>10, <1>16, <1>18, <1>19, <1>22
<1>24. QED
  BY <1>11, <1>14, <1>20, <1>21, <1>23 DEF sa, sb, tc, sd

-----------------------------------------------------------------------------
(***************************************************************************)
(* The schedule of a chunk: four passes, and after them four results.      *)
(***************************************************************************)
ConePair(u, cone, n) ==
    /\ KnownTypes(cone[u]) /\ Len(cone[u].routes) = n
    /\ KnownTypes(cone[Across[u]]) /\ Len(cone[Across[u]].routes) = n

ResultOf(c, d, su, sv) == IF su = "even" THEN c[sv] ELSE d[sv]

Scheduled(u, cone, n, run, A, B, C, D) ==
    LET v == Across[u]
    IN /\ n \in Nat /\ LongSeq(n + n + n + n, run)
       /\ PassIs(u, cone[v].initial.even, cone[u], StartA(u), A)
       /\ PassIs(u, cone[v].initial.odd, cone[u], StartB(u, A[n]), B)
       /\ PassIs(v, cone[u].final.even, cone[v], StartC(A[n], B[n]), C)
       /\ PassIs(v, cone[u].final.odd, cone[v], StartD(A[n], B[n], C[n]), D)
       /\ PassAt(run, 0, u, cone[v].initial.even, cone[u], A)
       /\ PassAt(run, n, u, cone[v].initial.odd, cone[u], B)
       /\ PassAt(run, n + n, v, cone[u].final.even, cone[v], C)
       /\ PassAt(run, n + n + n, v, cone[u].final.odd, cone[v], D)

ResultsAt(u, cone, c, d) ==
    \A sy, sx \in Streams :
      Schedule(u, cone).final[sy][sx] = IF u = "y" THEN ResultOf(c, d, sy, sx)
                                        ELSE ResultOf(c, d, sx, sy)

LEMMA OnePass ==
  ASSUME NEW axis, NEW across, NEW cone, KnownTypes(cone), NEW slots \in SlotSet,
         NEW n, Len(cone.routes) = n
  PROVE  \E S : /\ PassIs(axis, across, cone, slots, S)
                /\ S[n] = Pass(axis, cone, across, slots).slots
                /\ S[n] \in SlotSet /\ PlaneSet(S[n]) = PlaneSet(slots)
                /\ Apart(slots) => Apart(S[n])
                /\ LongSeq(n, Pass(axis, cone, across, slots).routes)
<1>1. PICK S : PassIs(axis, across, cone, slots, S)
  BY PassChain
<1>2. n \in Nat /\ n \in 0 .. n
  BY <1>1 DEF PassIs
<1>3. S[n] = Pass(axis, cone, across, slots).slots /\ S \in [0 .. n -> SlotSet]
  BY <1>1 DEF PassIs
<1>4. LongSeq(n, Pass(axis, cone, across, slots).routes)
  BY <1>1 DEF PassIs, LongSeq
<1>5. PlaneSet(S[n]) = PlaneSet(slots) /\ (Apart(slots) => Apart(S[n]))
  BY <1>1, <1>2 DEF PassIs
<1>6. S[n] \in SlotSet
  BY <1>2, <1>3
<1>7. QED
  BY <1>1, <1>3, <1>4, <1>5, <1>6

LEMMA PlacedAt ==
  ASSUME NEW axis, NEW across, NEW cone, NEW slots, NEW S,
         PassIs(axis, across, cone, slots, S), NEW run, NEW o, NEW n, Len(cone.routes) = n,
         \A i \in 1 .. n : run[o + i] = Pass(axis, cone, across, slots).routes[i]
  PROVE  PassAt(run, o, axis, across, cone, S)
BY DEF PassAt, PassIs

LEMMA ScheduleIs ==
  ASSUME NEW u \in Axes, NEW cone, NEW n, ConePair(u, cone, n)
  PROVE  \E A, B, C, D :
           /\ Scheduled(u, cone, n, FlattenSeq(Schedule(u, cone).passes), A, B, C, D)
           /\ ResultsAt(u, cone, C[n], D[n])
           /\ Starts(u, A[n], B[n], C[n], D[n])
<1> DEFINE v == Across[u]
           cu == cone[u]
           cv == cone[v]
           ie == cv.initial.even
           io == cv.initial.odd
           fe == cu.final.even
           fo == cu.final.odd
<1>1. /\ KnownTypes(cu) /\ Len(cu.routes) = n
      /\ KnownTypes(cv) /\ Len(cv.routes) = n
  BY DEF ConePair
<1> HIDE DEF cu, cv, ie, io, fe, fo
<1> DEFINE pa == Pass(u, cu, ie, StartA(u))
<1>2. StartA(u) \in SlotSet /\ Apart(StartA(u))
  <2>1. "even" \in Streams /\ "odd" \in Streams /\ "Scratch" \in Planes /\ "even" # "odd"
    BY DEF Streams, Planes
  <2> DEFINE h == Home(u, "even", "even")
             k == Home(u, "odd", "even")
  <2>2. h \in Planes /\ k \in Planes /\ h # k /\ h # "Scratch" /\ k # "Scratch"
    BY <2>1, HomeIs
  <2> HIDE DEF h, k
  <2>3. Pair(h, k, "Scratch") \in SlotSet /\ Apart(Pair(h, k, "Scratch"))
    BY <2>1, <2>2, PairIs
  <2>4. QED
    BY <2>3 DEF StartA, h, k
<1>3. PICK A : /\ PassIs(u, ie, cu, StartA(u), A) /\ A[n] = pa.slots
               /\ A[n] \in SlotSet /\ PlaneSet(A[n]) = PlaneSet(StartA(u))
               /\ Apart(StartA(u)) => Apart(A[n])
               /\ LongSeq(n, pa.routes)
  BY ONLY <1>1, <1>2, OnePass
<1> DEFINE a == A[n]
           pb == Pass(u, cu, io, StartB(u, a))
<1>4. StartB(u, a) \in SlotSet
  <2>1. "even" \in Streams /\ "odd" \in Streams
    BY DEF Streams
  <2>2. Home(u, "even", "odd") \in Planes /\ Home(u, "odd", "odd") \in Planes
    BY <2>1, HomeIs
  <2>3. a.free \in Planes
    BY <1>3 DEF SlotSet, SlotNames
  <2> HIDE DEF a
  <2>4. QED
    BY <2>2, <2>3 DEF StartB, Pair, SlotSet, SlotNames
<1> HIDE DEF a
<1>5. PICK B : /\ PassIs(u, io, cu, StartB(u, a), B) /\ B[n] = pb.slots
               /\ B[n] \in SlotSet /\ PlaneSet(B[n]) = PlaneSet(StartB(u, a))
               /\ Apart(StartB(u, a)) => Apart(B[n])
               /\ LongSeq(n, pb.routes)
  BY ONLY <1>1, <1>4, OnePass
<1> DEFINE b == B[n]
           pc == Pass(v, cv, fe, StartC(a, b))
<1>6. StartC(a, b) \in SlotSet
  BY <1>3, <1>5 DEF StartC, Pair, SlotSet, SlotNames, a
<1> HIDE DEF b
<1>7. PICK C : /\ PassIs(v, fe, cv, StartC(a, b), C) /\ C[n] = pc.slots
               /\ C[n] \in SlotSet /\ PlaneSet(C[n]) = PlaneSet(StartC(a, b))
               /\ Apart(StartC(a, b)) => Apart(C[n])
               /\ LongSeq(n, pc.routes)
  BY ONLY <1>1, <1>6, OnePass
<1> DEFINE c == C[n]
           pd == Pass(v, cv, fo, StartD(a, b, c))
<1>8. StartD(a, b, c) \in SlotSet
  BY <1>3, <1>5, <1>7 DEF StartD, Pair, SlotSet, SlotNames, a, b
<1> HIDE DEF c
<1>9. PICK D : /\ PassIs(v, fo, cv, StartD(a, b, c), D) /\ D[n] = pd.slots
               /\ D[n] \in SlotSet /\ PlaneSet(D[n]) = PlaneSet(StartD(a, b, c))
               /\ Apart(StartD(a, b, c)) => Apart(D[n])
               /\ LongSeq(n, pd.routes)
  BY ONLY <1>1, <1>8, OnePass
<1> DEFINE d == D[n]
<1>10. Schedule(u, cone).passes = <<pa.routes, pb.routes, pc.routes, pd.routes>>
  <2>1. pa.slots = a /\ pb.slots = b /\ pc.slots = c
    BY <1>3, <1>5, <1>7 DEF a, b, c
  <2> DEFINE qa == Pass(u, cu, ie, Pair(Home(u, "even", "even"), Home(u, "odd", "even"), "Scratch"))
             qb == Pass(u, cu, io, Pair(Home(u, "even", "odd"), Home(u, "odd", "odd"), qa.slots.free))
             qc == Pass(v, cv, fe, Pair(qa.slots.even, qb.slots.even, qb.slots.free))
             qd == Pass(v, cv, fo, Pair(qa.slots.odd, qb.slots.odd, qc.slots.free))
  <2>2. Schedule(u, cone).passes = <<qa.routes, qb.routes, qc.routes, qd.routes>>
    BY DEF Schedule, FreeAfter, cu, cv, ie, io, fe, fo
  <2>3. qa = pa
    BY DEF StartA
  <2> HIDE DEF qa, pa
  <2>4. qb = pb
    BY <2>1, <2>3 DEF StartB
  <2> HIDE DEF qb, pb
  <2>5. qc = pc
    BY <2>1, <2>3, <2>4 DEF StartC
  <2> HIDE DEF qc, pc
  <2>6. qd = pd
    BY <2>1, <2>3, <2>4, <2>5 DEF StartD
  <2>7. QED
    BY <2>2, <2>3, <2>4, <2>5, <2>6
<1>11. ResultsAt(u, cone, c, d)
  <2>1. pa.slots = a /\ pb.slots = b /\ pc.slots = c /\ pd.slots = d
    BY <1>3, <1>5, <1>7, <1>9 DEF a, b, c
  <2> HIDE DEF d
  <2> DEFINE qa == Pass(u, cu, ie, Pair(Home(u, "even", "even"), Home(u, "odd", "even"), "Scratch"))
             qb == Pass(u, cu, io, Pair(Home(u, "even", "odd"), Home(u, "odd", "odd"), qa.slots.free))
             qc == Pass(v, cv, fe, Pair(qa.slots.even, qb.slots.even, qb.slots.free))
             qd == Pass(v, cv, fo, Pair(qa.slots.odd, qb.slots.odd, qc.slots.free))
  <2>2. \A sy, sx \in Streams :
          Schedule(u, cone).final[sy][sx] = IF u = "y" THEN ResultOf(qc.slots, qd.slots, sy, sx)
                                            ELSE ResultOf(qc.slots, qd.slots, sx, sy)
    BY DEF Schedule, FreeAfter, ResultOf, cu, cv, ie, io, fe, fo
  <2>3. qa = pa
    BY DEF StartA
  <2> HIDE DEF qa, pa
  <2>4. qb = pb
    BY <2>1, <2>3 DEF StartB
  <2> HIDE DEF qb, pb
  <2>5. qc = pc
    BY <2>1, <2>3, <2>4 DEF StartC
  <2> HIDE DEF qc, pc
  <2>6. qd = pd
    BY <2>1, <2>3, <2>4, <2>5 DEF StartD
  <2> HIDE DEF qd, pd
  <2>7. qc.slots = c /\ qd.slots = d
    BY <2>1, <2>5, <2>6
  <2>8. QED
    BY <2>2, <2>7 DEF ResultsAt
<1>12. Starts(u, a, b, c, d)
  <2>1. /\ a \in SlotSet /\ Apart(a) /\ PlaneSet(a) = PlaneSet(StartA(u))
        /\ b \in SlotSet /\ (Apart(StartB(u, a)) => Apart(b)) /\ PlaneSet(b) = PlaneSet(StartB(u, a))
        /\ c \in SlotSet /\ (Apart(StartC(a, b)) => Apart(c)) /\ PlaneSet(c) = PlaneSet(StartC(a, b))
        /\ d \in SlotSet /\ (Apart(StartD(a, b, c)) => Apart(d))
        /\ PlaneSet(d) = PlaneSet(StartD(a, b, c))
    BY <1>2, <1>3, <1>5, <1>7, <1>9 DEF a, b, c
  <2> HIDE DEF d
  <2>2. QED
    BY <2>1, StartsApart
<1>13. Scheduled(u, cone, n, FlattenSeq(Schedule(u, cone).passes), A, B, C, D)
  <2> DEFINE p == pa.routes
             q == pb.routes
             r == pc.routes
             s == pd.routes
             run == FlattenSeq(<<p, q, r, s>>)
  <2>1. LongSeq(n, p) /\ LongSeq(n, q) /\ LongSeq(n, r) /\ LongSeq(n, s)
    BY <1>3, <1>5, <1>7, <1>9
  <2> HIDE DEF p, q, r, s
  <2>2. /\ n \in Nat /\ LongSeq(n + n + n + n, run)
        /\ \A i \in 1 .. n : /\ run[0 + i] = p[i] /\ run[n + i] = q[i]
                             /\ run[(n + n) + i] = r[i] /\ run[(n + n + n) + i] = s[i]
    BY <2>1, FourPasses
  <2>3. FlattenSeq(Schedule(u, cone).passes) = run
    BY <1>10 DEF p, q, r, s
  <2> HIDE DEF run
  <2>4. PassAt(run, 0, u, ie, cu, A)
    <3>1. \A i \in 1 .. n : run[0 + i] = Pass(u, cu, ie, StartA(u)).routes[i]
      BY <2>2 DEF p
    <3>2. QED
      BY ONLY <1>1, <1>3, <3>1, PlacedAt
  <2>5. PassAt(run, n, u, io, cu, B)
    <3>1. \A i \in 1 .. n : run[n + i] = Pass(u, cu, io, StartB(u, a)).routes[i]
      BY <2>2 DEF q
    <3>2. QED
      BY ONLY <1>1, <1>5, <3>1, PlacedAt
  <2>6. PassAt(run, n + n, v, fe, cv, C)
    <3> DEFINE o == n + n
    <3>1. \A i \in 1 .. n : run[o + i] = Pass(v, cv, fe, StartC(a, b)).routes[i]
      BY <2>2 DEF r
    <3> HIDE DEF o
    <3>2. PassAt(run, o, v, fe, cv, C)
      BY ONLY <1>1, <1>7, <3>1, PlacedAt
    <3>3. QED
      BY <3>2 DEF o
  <2>7. PassAt(run, n + n + n, v, fo, cv, D)
    <3> DEFINE o == n + n + n
    <3>1. \A i \in 1 .. n : run[o + i] = Pass(v, cv, fo, StartD(a, b, c)).routes[i]
      BY <2>2 DEF s
    <3> HIDE DEF o
    <3>2. PassAt(run, o, v, fo, cv, D)
      BY ONLY <1>1, <1>9, <3>1, PlacedAt
    <3>3. QED
      BY <3>2 DEF o
  <2>8. QED
    BY <1>3, <1>5, <1>7, <1>9, <2>2, <2>3, <2>4, <2>5, <2>6, <2>7
       DEF Scheduled, a, b, c, ie, io, fe, fo, cu, cv
<1>14. QED
  BY <1>11, <1>12, <1>13 DEF a, b, c

LEMMA ResultsDistinct ==
  ASSUME NEW u \in Axes, NEW cone, NEW n, ConePair(u, cone, n)
  PROVE  LET final == Schedule(u, cone).final
         IN /\ \A sy, sx \in Streams : final[sy][sx] \in Planes
            /\ \A sy, sx, ty, tx \in Streams :
                 final[sy][sx] = final[ty][tx] => sy = ty /\ sx = tx
<1>1. PICK A, B, C, D :
           /\ Scheduled(u, cone, n, FlattenSeq(Schedule(u, cone).passes), A, B, C, D)
           /\ ResultsAt(u, cone, C[n], D[n])
           /\ Starts(u, A[n], B[n], C[n], D[n])
  BY ScheduleIs
<1> DEFINE a == A[n]
           b == B[n]
           c == C[n]
           d == D[n]
           Of(su, sv) == ResultOf(c, d, su, sv)
<1>2. Starts(u, a, b, c, d) /\ ResultsAt(u, cone, c, d)
  BY <1>1
<1> HIDE DEF a, b, c, d
<1>3. /\ a \in SlotSet /\ b \in SlotSet /\ c \in SlotSet /\ d \in SlotSet
      /\ Apart(a) /\ Apart(b) /\ Apart(c) /\ Apart(d)
      /\ PlaneSet(a) = PlaneSet(StartA(u)) /\ PlaneSet(b) = PlaneSet(StartB(u, a))
      /\ PlaneSet(c) = PlaneSet(StartC(a, b)) /\ PlaneSet(d) = PlaneSet(StartD(a, b, c))
  BY <1>2 DEF Starts
<1>4. \A s, t \in Streams : c[s] # d[t]
  BY <1>3, StartsApart
<1>5. \A su, sv \in Streams : Of(su, sv) \in Planes
  BY <1>3 DEF ResultOf, SlotSet, SlotNames, Streams
<1>6. \A su, sv, tu, tv \in Streams : Of(su, sv) = Of(tu, tv) => su = tu /\ sv = tv
  <2>1. c.even # c.odd /\ d.even # d.odd
    BY <1>3 DEF Apart
  <2>2. \A s \in Streams : s = "even" \/ s = "odd"
    BY DEF Streams
  <2>3. \A s, t \in Streams : (c[s] = c[t] => s = t) /\ (d[s] = d[t] => s = t)
    BY <2>1, <2>2
  <2>4. QED
    BY <1>4, <2>2, <2>3 DEF ResultOf
<1> HIDE DEF Of
<1>7. QED
  BY <1>2, <1>5, <1>6 DEF ResultsAt, Of

-----------------------------------------------------------------------------
(***************************************************************************)
(* What a chunk loads, and what its four passes find and leave.            *)
(***************************************************************************)
LEMMA Flipped ==
  ASSUME NEW u \in Axes, NEW p, NEW q
  PROVE  Rectangle(u, p, q) = Rectangle(Across[u], q, p)
BY DEF Rectangle, Axes, Across

LoadedWell(chunk, u, cone) ==
    /\ \A p \in Planes : RectOK(LoadedRects(chunk)[p])
    /\ \A su, sv \in Streams :
         LoadedRects(chunk)[Home(u, su, sv)]
           = Rectangle(u, cone[u].initial[su], cone[Across[u]].initial[sv])

LEMMA LoadedIs ==
  ASSUME NEW u \in Axes, NEW cone, NEW chunk, chunk.initial = Corners(cone, "initial"),
         \A a \in Axes : BothUpright(cone[a].initial)
  PROVE  LoadedWell(chunk, u, cone)
<1> DEFINE L == LoadedRects(chunk)
           At(p) == CHOOSE c \in Streams \X Streams : HomePlane[c[1]][c[2]] = p
<1>1. L = [p \in Planes |->
             IF p = "Scratch" THEN Rectangle("y", Nothing, Nothing)
             ELSE chunk.initial[At(p)[1]][At(p)[2]]]
  BY DEF LoadedRects
<1> HIDE DEF L
<1>2. \A sy, sx \in Streams :
        /\ HomePlane[sy][sx] \in Planes \ {"Scratch"}
        /\ At(HomePlane[sy][sx])[1] = sy /\ At(HomePlane[sy][sx])[2] = sx
  <2>1. TAKE sy \in Streams, sx \in Streams
  <2> DEFINE p == HomePlane[sy][sx]
             P(c) == c \in Streams \X Streams /\ HomePlane[c[1]][c[2]] = p
  <2>2. P(<<sy, sx>>)
    OBVIOUS
  <2>3. "y" \in Axes
    BY DEF Axes
  <2>4. \A ty, tx \in Streams : HomePlane[ty][tx] = p => ty = sy /\ tx = sx
    BY <2>3, HomeIs
  <2>5. p \in Planes \ {"Scratch"}
    BY <2>3, HomeIs
  <2>6. \A c : P(c) => c[1] = sy /\ c[2] = sx
    BY <2>4
  <2>7. At(p) = CHOOSE c : P(c)
    OBVIOUS
  <2>8. P(At(p))
    <3> HIDE DEF P, At, p
    <3>1. QED
      BY <2>2, <2>7, Zenon
  <2> HIDE DEF P, At
  <2>9. At(p)[1] = sy /\ At(p)[2] = sx
    BY <2>6, <2>8
  <2>10. QED
    BY <2>5, <2>9
<1> HIDE DEF At
<1>3. \A sy, sx \in Streams :
        L[HomePlane[sy][sx]] = [y |-> cone.y.initial[sy], x |-> cone.x.initial[sx]]
  <2>1. TAKE sy \in Streams, sx \in Streams
  <2> DEFINE p == HomePlane[sy][sx]
  <2>2. p \in Planes /\ p # "Scratch" /\ At(p)[1] = sy /\ At(p)[2] = sx
    BY <1>2
  <2> HIDE DEF p
  <2>3. L[p] = chunk.initial[sy][sx]
    BY <1>1, <2>2
  <2>4. chunk.initial[sy][sx] = [y |-> cone.y.initial[sy], x |-> cone.x.initial[sx]]
    BY DEF Corners
  <2>5. QED
    BY <2>3, <2>4 DEF p
<1>4. \A s \in Streams : Upright(cone.y.initial[s]) /\ Upright(cone.x.initial[s])
  BY DEF BothUpright, Axes
<1>5. \A su, sv \in Streams :
        L[Home(u, su, sv)] = Rectangle(u, cone[u].initial[su], cone[Across[u]].initial[sv])
  <2>1. TAKE su \in Streams, sv \in Streams
  <2>2. CASE u = "y"
    <3>1. L[Home(u, su, sv)] = [y |-> cone.y.initial[su], x |-> cone.x.initial[sv]]
      BY <1>3, <2>2 DEF Home
    <3>2. Across[u] = "x" /\ cone[u] = cone.y /\ cone[Across[u]] = cone.x
      BY <2>2 DEF Across
    <3>3. \A i, k : Rectangle("y", i, k) = [y |-> i, x |-> k]
      BY DEF Rectangle, Axes
    <3>4. QED
      BY <2>2, <3>1, <3>2, <3>3
  <2>3. CASE u = "x"
    <3>1. L[Home(u, su, sv)] = [y |-> cone.y.initial[sv], x |-> cone.x.initial[su]]
      BY <1>3, <2>3 DEF Home
    <3>2. Across[u] = "y" /\ cone[u] = cone.x /\ cone[Across[u]] = cone.y
      BY <2>3 DEF Across
    <3>3. \A i, k : Rectangle("x", i, k) = [y |-> k, x |-> i]
      BY DEF Rectangle, Axes
    <3>4. QED
      BY <2>3, <3>1, <3>2, <3>3
  <2>4. QED
    BY <2>2, <2>3 DEF Axes
<1>6. Upright(Nothing)
  BY DEF Nothing, Interval, Upright, Stretch
<1>7. \A p \in Planes : RectOK(L[p])
  <2>1. TAKE p \in Planes
  <2>2. CASE p = "Scratch"
    <3>1. L[p] = Rectangle("y", Nothing, Nothing)
      BY <1>1, <2>2
    <3>2. "y" \in Axes
      BY DEF Axes
    <3>3. QED
      BY <1>6, <3>1, <3>2, RectangleIs
  <2>3. CASE p # "Scratch"
    <3>1. \E sy, sx \in Streams : p = HomePlane[sy][sx]
      BY <2>3 DEF Planes, HomePlane, Streams
    <3>2. PICK sy \in Streams, sx \in Streams :
            L[p] = [y |-> cone.y.initial[sy], x |-> cone.x.initial[sx]]
      BY <1>3, <3>1
    <3>3. L[p].y = cone.y.initial[sy] /\ L[p].x = cone.x.initial[sx]
      BY <3>2
    <3>4. QED
      BY <1>4, <3>3 DEF RectOK, Axes
  <2>4. QED
    BY <2>2, <2>3
<1>8. QED
  BY <1>5, <1>7 DEF LoadedWell, L

AllServed(chunk, run, n, u, cone, c, d) ==
    /\ RoutesServed(chunk, run, 0, n) /\ RoutesServed(chunk, run, n, n)
    /\ RoutesServed(chunk, run, n + n, n) /\ RoutesServed(chunk, run, n + n + n, n)
    /\ \A s \in Streams : StoredBefore(chunk, run, n + n + n + n + 1)[c[s]]
                            = StoredBefore(chunk, run, n + n + n + 1)[c[s]]
    /\ \A su, sv \in Streams :
         Within(StoredBefore(chunk, run, n + n + n + n + 1)[ResultOf(c, d, su, sv)],
                Rectangle(u, cone[u].final[su], cone[Across[u]].final[sv]))

LEMMA FourServe ==
  ASSUME NEW u \in Axes, NEW cone, NEW n, NEW Nu, NEW Nv, ConeFits(cone[u], n, Nu),
         ConeFits(cone[Across[u]], n, Nv), NEW chunk, LoadedWell(chunk, u, cone), NEW run,
         NEW A, NEW B, NEW C, NEW D, Scheduled(u, cone, n, run, A, B, C, D),
         Starts(u, A[n], B[n], C[n], D[n])
  PROVE  AllServed(chunk, run, n, u, cone, C[n], D[n])
<1> DEFINE v == Across[u]
           cu == cone[u]
           cv == cone[v]
           a == A[n]
           b == B[n]
           c == C[n]
           d == D[n]
           o2 == n + n
           o3 == n + n + n
           o4 == n + n + n + n
           At(i) == StoredBefore(chunk, run, i)
<1>1. /\ n \in Nat
      /\ PassIs(u, cv.initial.even, cu, StartA(u), A)
      /\ PassIs(u, cv.initial.odd, cu, StartB(u, a), B)
      /\ PassIs(v, cu.final.even, cv, StartC(a, b), C)
      /\ PassIs(v, cu.final.odd, cv, StartD(a, b, c), D)
      /\ PassAt(run, 0, u, cv.initial.even, cu, A)
      /\ PassAt(run, n, u, cv.initial.odd, cu, B)
      /\ PassAt(run, o2, v, cu.final.even, cv, C)
      /\ PassAt(run, o3, v, cu.final.odd, cv, D)
  BY DEF Scheduled
<1>2. /\ v \in Axes /\ Starts(u, a, b, c, d)
      /\ ConeFits(cu, n, Nu) /\ ConeFits(cv, n, Nv)
  BY RectangleIs
<1>3. /\ 0 \in Nat /\ o2 \in Nat /\ o3 \in Nat /\ 0 + n + 1 = n + 1 /\ n + n + 1 = o2 + 1
      /\ o2 + n + 1 = o3 + 1 /\ o3 + n + 1 = o4 + 1 /\ 0 + 1 = 1
  BY <1>1
<1>4. \A s \in Streams : /\ LoadedRects(chunk)[Home(u, s, "even")]
                              = Rectangle(u, cu.initial[s], cv.initial.even)
                         /\ LoadedRects(chunk)[Home(u, s, "odd")]
                              = Rectangle(u, cu.initial[s], cv.initial.odd)
  BY DEF LoadedWell, Streams
<1>5. \A p \in Planes : RectOK(LoadedRects(chunk)[p]) /\ At(1)[p] = LoadedRects(chunk)[p]
  BY StoredFirst DEF LoadedWell
<1>6. /\ BothUpright(cu.initial) /\ BothUpright(cu.final)
      /\ BothUpright(cv.initial) /\ BothUpright(cv.final)
  <2>1. 0 \in 0 .. n /\ n \in 0 .. n
    BY <1>1
  <2> HIDE DEF cu, cv
  <2>2. QED
    BY <1>2, <2>1 DEF ConeFits
<1> HIDE DEF cu, cv, a, b, c, d, v, o2, o3, o4, At
<1>7. /\ Upright(cu.final.even) /\ Upright(cu.final.odd)
      /\ Upright(cv.initial.even) /\ Upright(cv.initial.odd)
      /\ \A s \in Streams : Upright(cu.initial[s]) /\ Upright(cv.initial[s])
                            /\ Upright(cu.final[s]) /\ Upright(cv.final[s])
  BY <1>6 DEF BothUpright, Streams
<1>8. /\ StartA(u) \in SlotSet /\ StartB(u, a) \in SlotSet
      /\ StartC(a, b) \in SlotSet /\ StartD(a, b, c) \in SlotSet
      /\ Apart(StartA(u)) /\ Apart(StartB(u, a)) /\ Apart(StartC(a, b)) /\ Apart(StartD(a, b, c))
      /\ a \in SlotSet /\ b \in SlotSet /\ c \in SlotSet /\ d \in SlotSet
      /\ Apart(a) /\ Apart(b) /\ Apart(c) /\ Apart(d)
      /\ PlaneSet(a) = PlaneSet(StartA(u)) /\ PlaneSet(b) = PlaneSet(StartB(u, a))
      /\ PlaneSet(c) = PlaneSet(StartC(a, b)) /\ PlaneSet(d) = PlaneSet(StartD(a, b, c))
  BY <1>2 DEF Starts
<1>9. /\ \A s \in Streams : a[s] \notin PlaneSet(StartB(u, a))
      /\ \A s \in Streams : Home(u, s, "odd") \notin PlaneSet(StartA(u))
      /\ a.odd \notin PlaneSet(StartC(a, b)) /\ b.odd \notin PlaneSet(StartC(a, b))
      /\ \A s \in Streams : c[s] \notin PlaneSet(StartD(a, b, c))
  BY <1>8, StartsApart
<1>10. \A s \in Streams : /\ {a[s], b[s], c[s], d[s]} \subseteq Planes
                          /\ Home(u, s, "even") \in Planes /\ Home(u, s, "odd") \in Planes
  BY <1>8, HomeIs DEF SlotSet, SlotNames, Streams
<1>11. \A s \in Streams : s = "even" \/ s = "odd"
  BY DEF Streams
\* The first pass ...
<1>12. Serves(At(1), u, cv.initial.even, StartA(u), cu.initial)
  <2>1. \A s \in Streams : StartA(u)[s] = Home(u, s, "even")
    BY <1>11 DEF StartA, Pair
  <2>2. \A s \in Streams :
          Within(At(1)[StartA(u)[s]], Rectangle(u, cu.initial[s], cv.initial.even))
    BY <1>4, <1>5, <1>10, <2>1, WithinSelf
  <2>3. QED
    BY <1>5, <2>2 DEF Serves
<1>13. /\ RoutesServed(chunk, run, 0, n)
       /\ Serves(At(n + 1), u, cv.initial.even, a, cu.final)
       /\ \A p \in Planes \ PlaneSet(StartA(u)) : At(n + 1)[p] = At(1)[p]
  <2> DEFINE o == 0
             across == cv.initial.even
             slots == StartA(u)
  <2>1. /\ o \in Nat /\ Upright(across) /\ slots \in SlotSet /\ Apart(slots)
        /\ PassIs(u, across, cu, slots, A) /\ PassAt(run, o, u, across, cu, A)
        /\ Serves(StoredBefore(chunk, run, o + 1), u, across, slots, cu.initial)
    BY <1>1, <1>3, <1>7, <1>8, <1>12 DEF At
  <2> HIDE DEF o, across, slots
  <2>2. PassLeaves(chunk, run, o, n, u, across, cu, A, slots)
    BY <1>2, <2>1, PassServes
  <2>3. QED
    BY <1>3, <2>2 DEF PassLeaves, At, a, o, across, slots
\* ... the second, which leaves the results of the first ...
<1>14. Serves(At(n + 1), u, cv.initial.odd, StartB(u, a), cu.initial)
  <2>1. \A s \in Streams : StartB(u, a)[s] = Home(u, s, "odd")
    BY <1>11 DEF StartB, Pair
  <2>2. \A s \in Streams : At(n + 1)[Home(u, s, "odd")]
                             = Rectangle(u, cu.initial[s], cv.initial.odd)
    BY <1>4, <1>5, <1>9, <1>10, <1>13
  <2>3. \A s \in Streams :
          Within(At(n + 1)[StartB(u, a)[s]], Rectangle(u, cu.initial[s], cv.initial.odd))
    <3>1. \A s \in Streams : RectOK(At(n + 1)[Home(u, s, "odd")])
      BY <1>10, <1>13 DEF Serves
    <3>2. QED
      BY <2>1, <2>2, <3>1, WithinSelf
  <2>4. QED
    BY <1>13, <2>3 DEF Serves
<1>15. /\ RoutesServed(chunk, run, n, n)
       /\ Serves(At(o2 + 1), u, cv.initial.odd, b, cu.final)
       /\ \A p \in Planes \ PlaneSet(StartB(u, a)) : At(o2 + 1)[p] = At(n + 1)[p]
  <2> DEFINE across == cv.initial.odd
             slots == StartB(u, a)
  <2>1. /\ n \in Nat /\ Upright(across) /\ slots \in SlotSet /\ Apart(slots)
        /\ PassIs(u, across, cu, slots, B) /\ PassAt(run, n, u, across, cu, B)
        /\ Serves(StoredBefore(chunk, run, n + 1), u, across, slots, cu.initial)
    BY <1>1, <1>7, <1>8, <1>14 DEF At
  <2> HIDE DEF across, slots
  <2>2. PassLeaves(chunk, run, n, n, u, across, cu, B, slots)
    BY <1>2, <2>1, PassServes
  <2>3. QED
    BY <1>3, <2>2 DEF PassLeaves, At, b, across, slots
<1>16. \A s \in Streams :
         /\ Within(At(o2 + 1)[a[s]], Rectangle(v, cv.initial.even, cu.final[s]))
         /\ Within(At(o2 + 1)[b[s]], Rectangle(v, cv.initial.odd, cu.final[s]))
  <2>1. TAKE s \in Streams
  <2>2. At(o2 + 1)[a[s]] = At(n + 1)[a[s]]
    BY <1>9, <1>10, <1>15
  <2>3. /\ Rectangle(u, cu.final[s], cv.initial.even) = Rectangle(v, cv.initial.even, cu.final[s])
        /\ Rectangle(u, cu.final[s], cv.initial.odd) = Rectangle(v, cv.initial.odd, cu.final[s])
    BY Flipped DEF v
  <2>4. QED
    BY <1>13, <1>15, <2>2, <2>3 DEF Serves
\* ... the third, which leaves what the fourth reads ...
<1>17. Serves(At(o2 + 1), v, cu.final.even, StartC(a, b), cv.initial)
  <2>1. StartC(a, b)["even"] = a["even"] /\ StartC(a, b)["odd"] = b["even"]
    BY DEF StartC, Pair
  <2>2. "even" \in Streams
    BY DEF Streams
  <2>3. /\ Within(At(o2 + 1)[a["even"]], Rectangle(v, cv.initial["even"], cu.final.even))
        /\ Within(At(o2 + 1)[b["even"]], Rectangle(v, cv.initial["odd"], cu.final.even))
    BY <1>16, <2>2
  <2>4. \A s \in Streams :
          Within(At(o2 + 1)[StartC(a, b)[s]], Rectangle(v, cv.initial[s], cu.final.even))
    BY <1>11, <2>1, <2>3
  <2>5. QED
    BY <1>15, <2>4 DEF Serves
<1>18. /\ RoutesServed(chunk, run, o2, n)
       /\ Serves(At(o3 + 1), v, cu.final.even, c, cv.final)
       /\ \A p \in Planes \ PlaneSet(StartC(a, b)) : At(o3 + 1)[p] = At(o2 + 1)[p]
  <2> DEFINE across == cu.final.even
             slots == StartC(a, b)
  <2>1. /\ o2 \in Nat /\ Upright(across) /\ slots \in SlotSet /\ Apart(slots)
        /\ PassIs(v, across, cv, slots, C) /\ PassAt(run, o2, v, across, cv, C)
        /\ Serves(StoredBefore(chunk, run, o2 + 1), v, across, slots, cv.initial)
    BY <1>1, <1>3, <1>7, <1>8, <1>17 DEF At
  <2> HIDE DEF across, slots
  <2>2. PassLeaves(chunk, run, o2, n, v, across, cv, C, slots)
    BY <1>2, <2>1, PassServes
  <2>3. QED
    BY <1>3, <2>2 DEF PassLeaves, At, c, across, slots
\* ... and the fourth, which leaves the results of the third.
<1>19. Serves(At(o3 + 1), v, cu.final.odd, StartD(a, b, c), cv.initial)
  <2>1. StartD(a, b, c)["even"] = a["odd"] /\ StartD(a, b, c)["odd"] = b["odd"]
    BY DEF StartD, Pair
  <2>2. "odd" \in Streams
    BY DEF Streams
  <2>3. At(o3 + 1)[a["odd"]] = At(o2 + 1)[a["odd"]] /\ At(o3 + 1)[b["odd"]] = At(o2 + 1)[b["odd"]]
    BY <1>9, <1>10, <1>18, <2>2
  <2>4. /\ Within(At(o2 + 1)[a["odd"]], Rectangle(v, cv.initial["even"], cu.final.odd))
        /\ Within(At(o2 + 1)[b["odd"]], Rectangle(v, cv.initial["odd"], cu.final.odd))
    BY <1>16, <2>2
  <2>5. \A s \in Streams :
          Within(At(o3 + 1)[StartD(a, b, c)[s]], Rectangle(v, cv.initial[s], cu.final.odd))
    BY <1>11, <2>1, <2>3, <2>4
  <2>6. QED
    BY <1>18, <2>5 DEF Serves
<1>20. /\ RoutesServed(chunk, run, o3, n)
       /\ Serves(At(o4 + 1), v, cu.final.odd, d, cv.final)
       /\ \A p \in Planes \ PlaneSet(StartD(a, b, c)) : At(o4 + 1)[p] = At(o3 + 1)[p]
  <2> DEFINE across == cu.final.odd
             slots == StartD(a, b, c)
  <2>1. /\ o3 \in Nat /\ Upright(across) /\ slots \in SlotSet /\ Apart(slots)
        /\ PassIs(v, across, cv, slots, D) /\ PassAt(run, o3, v, across, cv, D)
        /\ Serves(StoredBefore(chunk, run, o3 + 1), v, across, slots, cv.initial)
    BY <1>1, <1>3, <1>7, <1>8, <1>19 DEF At
  <2> HIDE DEF across, slots
  <2>2. PassLeaves(chunk, run, o3, n, v, across, cv, D, slots)
    BY <1>2, <2>1, PassServes
  <2>3. QED
    BY <1>3, <2>2 DEF PassLeaves, At, d, across, slots
<1>21. \A s \in Streams : At(o4 + 1)[c[s]] = At(o3 + 1)[c[s]]
  BY <1>9, <1>10, <1>20
<1>22. \A su, sv \in Streams :
         Within(At(o4 + 1)[ResultOf(c, d, su, sv)], Rectangle(u, cu.final[su], cv.final[sv]))
  <2>1. TAKE su \in Streams, sv \in Streams
  <2>2. Rectangle(u, cu.final[su], cv.final[sv]) = Rectangle(v, cv.final[sv], cu.final[su])
    BY Flipped DEF v
  <2>3. CASE su = "even"
    <3>1. Within(At(o3 + 1)[c[sv]], Rectangle(v, cv.final[sv], cu.final[su]))
      BY <1>18, <2>3 DEF Serves
    <3>2. QED
      BY <1>21, <2>2, <2>3, <3>1 DEF ResultOf
  <2>4. CASE su = "odd"
    <3>1. Within(At(o4 + 1)[d[sv]], Rectangle(v, cv.final[sv], cu.final[su]))
      BY <1>20, <2>4 DEF Serves
    <3>2. QED
      BY <2>2, <2>4, <3>1 DEF ResultOf
  <2>5. QED
    BY <1>11, <2>3, <2>4
<1>23. QED
  BY <1>13, <1>15, <1>18, <1>20, <1>21, <1>22
     DEF AllServed, At, o2, o3, o4, c, d, cu, cv, v

-----------------------------------------------------------------------------
(***************************************************************************)
(* A chunk whose cones fit together runs well.                             *)
(***************************************************************************)
ChunkIs(chunk, u, cone) ==
    /\ chunk.initial = Corners(cone, "initial") /\ chunk.finalRect = Corners(cone, "final")
    /\ chunk.passes = Schedule(u, cone).passes /\ chunk.final = Schedule(u, cone).final

RunOf(chunk, run) == run = FlattenSeq(chunk.passes)

RunsWell(chunk, run) ==
    /\ IsSeq(run) /\ Len(run) \in Nat
    /\ \A i \in 1 .. Len(run) :
         /\ RouteTyped(run[i])
         /\ Executable(run[i]) => RouteHeld(StoredBefore(chunk, run, i), run[i])
    /\ \A p \in Planes : RectOK(LoadedRects(chunk)[p])
    /\ \A sy, sx \in Streams : RectOK(chunk.initial[sy][sx])
    /\ \A sy, sx \in Streams :
         /\ chunk.final[sy][sx] \in Planes
         /\ Within(StoredBefore(chunk, run, Len(run) + 1)[chunk.final[sy][sx]],
                   chunk.finalRect[sy][sx])
    /\ \A sy, sx, ty, tx \in Streams :
         chunk.final[sy][sx] = chunk.final[ty][tx] => sy = ty /\ sx = tx

LEMMA ServedAll ==
  ASSUME NEW n \in Nat, NEW chunk, NEW run,
         RoutesServed(chunk, run, 0, n), RoutesServed(chunk, run, n, n),
         RoutesServed(chunk, run, n + n, n), RoutesServed(chunk, run, n + n + n, n)
  PROVE  \A i \in 1 .. n + n + n + n :
           /\ RouteTyped(run[i])
           /\ Executable(run[i]) => RouteHeld(StoredBefore(chunk, run, i), run[i])
<1> DEFINE P(i) == /\ RouteTyped(run[i])
                   /\ Executable(run[i]) => RouteHeld(StoredBefore(chunk, run, i), run[i])
<1>1. /\ \A k \in 1 .. n : P(0 + k)
      /\ \A k \in 1 .. n : P(n + k)
      /\ \A k \in 1 .. n : P((n + n) + k)
      /\ \A k \in 1 .. n : P((n + n + n) + k)
  BY DEF RoutesServed
<1> HIDE DEF P
<1>2. ASSUME NEW i \in 1 .. n + n + n + n PROVE P(i)
  <2>1. CASE i <= n
    <3>1. i \in 1 .. n /\ 0 + i = i
      BY <2>1
    <3>2. QED
      BY <1>1, <3>1
  <2>2. CASE i > n /\ i <= n + n
    <3>1. i - n \in 1 .. n /\ n + (i - n) = i
      BY <2>2
    <3>2. QED
      BY <1>1, <3>1
  <2>3. CASE i > n + n /\ i <= n + n + n
    <3>1. i - (n + n) \in 1 .. n /\ (n + n) + (i - (n + n)) = i
      BY <2>3
    <3>2. QED
      BY <1>1, <3>1
  <2>4. CASE i > n + n + n
    <3>1. i - (n + n + n) \in 1 .. n /\ (n + n + n) + (i - (n + n + n)) = i
      BY <2>4
    <3>2. QED
      BY <1>1, <3>1
  <2>5. QED
    BY <2>1, <2>2, <2>3, <2>4
<1>3. QED
  BY <1>2 DEF P

LEMMA KnownCone ==
  ASSUME NEW cone, NEW n, NEW N, ConeFits(cone, n, N)
  PROVE  /\ KnownTypes(cone) /\ Len(cone.routes) = n /\ n \in Nat
         /\ BothUpright(cone.initial) /\ BothUpright(cone.final)
<1>1. n \in Nat /\ 0 \in 0 .. n /\ n \in 0 .. n
  BY DEF ConeFits
<1>2. IsSeq(cone.routes) /\ Len(cone.routes) = n
  BY DEF ConeFits
<1>3. \A i \in 1 .. n : RouteFits(cone.routes[i], N[i - 1], N[i])
  BY DEF ConeFits
<1>4. \A i \in 1 .. n : cone.routes[i].type \in StepTypes
  BY <1>3 DEF RouteFits
<1>5. BothUpright(N[0]) /\ BothUpright(N[n]) /\ N[0] = cone.initial /\ N[n] = cone.final
  BY <1>1 DEF ConeFits
<1>6. QED
  BY <1>1, <1>2, <1>4, <1>5 DEF KnownTypes

LEMMA CornersIs ==
  ASSUME NEW u \in Axes, NEW cone, NEW sy \in Streams, NEW sx \in Streams
  PROVE  /\ Corners(cone, "final")[sy][sx]
              = IF u = "y" THEN Rectangle(u, cone[u].final[sy], cone[Across[u]].final[sx])
                ELSE Rectangle(u, cone[u].final[sx], cone[Across[u]].final[sy])
         /\ Corners(cone, "initial")[sy][sx].y = cone.y.initial[sy]
         /\ Corners(cone, "initial")[sy][sx].x = cone.x.initial[sx]
<1>1. Corners(cone, "final")[sy][sx] = [y |-> cone.y.final[sy], x |-> cone.x.final[sx]]
  BY DEF Corners
<1>2. CASE u = "y"
  <2>1. Across[u] = "x" /\ cone[u] = cone.y /\ cone[Across[u]] = cone.x
    BY <1>2 DEF Across
  <2>2. \A i, k : Rectangle("y", i, k) = [y |-> i, x |-> k]
    BY DEF Rectangle, Axes
  <2>3. QED
    BY <1>1, <1>2, <2>1, <2>2 DEF Corners
<1>3. CASE u = "x"
  <2>1. Across[u] = "y" /\ cone[u] = cone.x /\ cone[Across[u]] = cone.y
    BY <1>3 DEF Across
  <2>2. \A i, k : Rectangle("x", i, k) = [y |-> k, x |-> i]
    BY DEF Rectangle, Axes
  <2>3. QED
    BY <1>1, <1>3, <2>1, <2>2 DEF Corners
<1>4. QED
  BY <1>2, <1>3 DEF Axes

ConesFit(u, cone, n) ==
    /\ \E N : ConeFits(cone[u], n, N)
    /\ \E N : ConeFits(cone[Across[u]], n, N)

LEMMA ChunkRuns ==
  ASSUME NEW u \in Axes, NEW cone, NEW n, ConesFit(u, cone, n), NEW chunk,
         ChunkIs(chunk, u, cone), NEW run, RunOf(chunk, run)
  PROVE  RunsWell(chunk, run)
<1> DEFINE v == Across[u]
<1>0. PICK Nu, Nv : ConeFits(cone[u], n, Nu) /\ ConeFits(cone[v], n, Nv)
  BY DEF ConesFit
<1>1. /\ KnownTypes(cone[u]) /\ Len(cone[u].routes) = n /\ n \in Nat
      /\ KnownTypes(cone[v]) /\ Len(cone[v].routes) = n
      /\ BothUpright(cone[u].initial) /\ BothUpright(cone[v].initial)
  BY <1>0, KnownCone
<1>2. ConePair(u, cone, n)
  BY <1>1 DEF ConePair
<1>3. Axes = {u, v} /\ v \in Axes
  BY RectangleIs
<1>4. \A a \in Axes : BothUpright(cone[a].initial)
  BY <1>1, <1>3
<1>5. LoadedWell(chunk, u, cone)
  BY <1>4, LoadedIs DEF ChunkIs
<1>6. PICK A, B, C, D :
           /\ Scheduled(u, cone, n, run, A, B, C, D)
           /\ ResultsAt(u, cone, C[n], D[n])
           /\ Starts(u, A[n], B[n], C[n], D[n])
  BY <1>2, ScheduleIs DEF RunOf, ChunkIs
<1>7. AllServed(chunk, run, n, u, cone, C[n], D[n])
  BY <1>0, <1>5, <1>6, FourServe
<1>8. n + n + n + n \in Nat /\ IsSeq(run) /\ Len(run) = n + n + n + n
  BY <1>1, <1>6 DEF Scheduled, LongSeq
<1>9. \A i \in 1 .. n + n + n + n :
         /\ RouteTyped(run[i])
         /\ Executable(run[i]) => RouteHeld(StoredBefore(chunk, run, i), run[i])
  <2>1. /\ RoutesServed(chunk, run, 0, n) /\ RoutesServed(chunk, run, n, n)
        /\ RoutesServed(chunk, run, n + n, n) /\ RoutesServed(chunk, run, n + n + n, n)
    BY <1>7 DEF AllServed
  <2>2. QED
    BY <1>1, <2>1, ServedAll
<1>10. \A sy, sx \in Streams : RectOK(chunk.initial[sy][sx])
  <2>1. TAKE sy \in Streams, sx \in Streams
  <2>2. /\ chunk.initial[sy][sx].y = cone.y.initial[sy]
        /\ chunk.initial[sy][sx].x = cone.x.initial[sx]
    BY CornersIs DEF ChunkIs
  <2>3. Upright(cone.y.initial[sy]) /\ Upright(cone.x.initial[sx])
    BY <1>4 DEF BothUpright, Axes
  <2>4. QED
    BY <2>2, <2>3 DEF RectOK, Axes
<1> DEFINE last == StoredBefore(chunk, run, n + n + n + n + 1)
<1>11. \A sy, sx \in Streams : Within(last[chunk.final[sy][sx]], chunk.finalRect[sy][sx])
  <2>1. TAKE sy \in Streams, sx \in Streams
  <2>2. \A su, sv \in Streams :
         Within(last[ResultOf(C[n], D[n], su, sv)],
                Rectangle(u, cone[u].final[su], cone[v].final[sv]))
    BY <1>7 DEF AllServed
  <2> HIDE DEF last
  <2>3. chunk.final[sy][sx] = IF u = "y" THEN ResultOf(C[n], D[n], sy, sx)
                              ELSE ResultOf(C[n], D[n], sx, sy)
    BY <1>6 DEF ResultsAt, ChunkIs
  <2>4. chunk.finalRect[sy][sx]
          = IF u = "y" THEN Rectangle(u, cone[u].final[sy], cone[v].final[sx])
            ELSE Rectangle(u, cone[u].final[sx], cone[v].final[sy])
    BY CornersIs DEF ChunkIs
  <2>5. QED
    BY <2>2, <2>3, <2>4
<1>12. /\ \A sy, sx \in Streams : chunk.final[sy][sx] \in Planes
       /\ \A sy, sx, ty, tx \in Streams :
            chunk.final[sy][sx] = chunk.final[ty][tx] => sy = ty /\ sx = tx
  BY <1>2, ResultsDistinct DEF ChunkIs
<1>13. \A sy, sx \in Streams :
         Within(StoredBefore(chunk, run, Len(run) + 1)[chunk.final[sy][sx]],
                chunk.finalRect[sy][sx])
  BY <1>8, <1>11
<1>14. \A p \in Planes : RectOK(LoadedRects(chunk)[p])
  BY <1>5 DEF LoadedWell
<1> HIDE DEF last
<1>15. QED
  BY <1>8, <1>9, <1>10, <1>12, <1>13, <1>14 DEF RunsWell

-----------------------------------------------------------------------------
(***************************************************************************)
(* The planes are large enough: every rectangle ever stored is one of the  *)
(* uses of the chunk, which are finitely many.                             *)
(***************************************************************************)
LEMMA MaxFinite ==
  ASSUME NEW T, T \subseteq Int, IsFiniteSet(T), T # {}
  PROVE  Max(T) \in T /\ \A y \in T : y <= Max(T)
<1> DEFINE P(x) == x \in T /\ \A y \in T : x >= y
<1>1. PICK x \in T : \A y \in T : x >= y
  BY FiniteHasGreatest
<1>2. \E z : P(z)
  BY <1>1
<1>3. Max(T) = CHOOSE z : P(z)
  BY DEF Max
<1>4. P(Max(T))
  <2> HIDE DEF P
  <2>1. QED
    BY <1>2, <1>3, Zenon
<1>5. Max(T) \in Int /\ \A y \in T : y \in Int
  BY <1>4
<1>6. QED
  BY <1>4, <1>5

LEMMA SpanIs ==
  ASSUME NEW i, Upright(i)
  PROVE  Span(i) \in Nat /\ (~Empty(i) => Span(i) > 0)
<1> DEFINE b == i.begin
           m == i.end + Tile - 1
<1>1. Tile \in Nat \ {0}
  BY TileAssumption
<1>2. i.begin \in Nat /\ i.end \in Nat /\ b <= i.end /\ b \in Nat /\ m \in Nat
  BY <1>1, UprightNat DEF Upright
<1>3. Span(i) = (m \div Tile) * Tile - (b \div Tile) * Tile
  BY DEF Span, RoundUp, CeilDiv
<1>4. m = i.end + Tile - 1 /\ (Empty(i) <=> b = i.end)
  BY DEF Empty
<1> HIDE DEF b, m
<1>5. b \in Int /\ m \in Int
  BY <1>2
<1>6. b = Tile * (b \div Tile) + (b % Tile) /\ b % Tile \in 0 .. Tile - 1 /\ b \div Tile \in Int
  BY ONLY <1>1, <1>5, Divided
<1>7. m = Tile * (m \div Tile) + (m % Tile) /\ m % Tile \in 0 .. Tile - 1 /\ m \div Tile \in Int
  BY ONLY <1>1, <1>5, Divided
<1> DEFINE x == (b \div Tile) * Tile
           y == (m \div Tile) * Tile
<1>8. x \in Int /\ y \in Int /\ b = x + (b % Tile) /\ m = y + (m % Tile)
  BY <1>1, <1>6, <1>7, SMT
<1>9. Span(i) = y - x
  BY <1>3
<1>10. x <= b /\ y >= i.end
  <2> DEFINE rb == b % Tile
             rm == m % Tile
  <2>1. /\ rb \in 0 .. Tile - 1 /\ rm \in 0 .. Tile - 1 /\ b = x + rb /\ m = y + rm
        /\ x \in Int /\ y \in Int
    BY <1>6, <1>7, <1>8
  <2> HIDE DEF x, y, rb, rm
  <2>2. QED
    BY ONLY <1>1, <1>2, <1>4, <2>1
<1> HIDE DEF x, y
<1>11. QED
  BY <1>2, <1>4, <1>8, <1>9, <1>10

UsedAt(use) == use[1] \in Planes /\ RectOK(use[2])

LEMMA UsesAre ==
  ASSUME NEW chunk, NEW run, RunOf(chunk, run), RunsWell(chunk, run)
  PROVE  IsFiniteSet(Uses(chunk)) /\ \A use \in Uses(chunk) : UsedAt(use)
<1> DEFINE n == Len(run)
           By(r) == {<<r.source, r.sourceRect>>, <<r.base, r.baseRect>>,
                     <<r.output, r.outputRect>>}
           Loaded == {<<HomePlane[sy][sx], chunk.initial[sy][sx]>> :
                        sy \in Streams, sx \in Streams}
           Others == UNION {By(r) : r \in ToSet(run)}
<1>1. Uses(chunk) = Loaded \cup Others
  BY DEF Uses, Routes, RunOf
<1>2. /\ n \in Nat /\ IsSeq(run)
      /\ \A i \in 1 .. n : RouteTyped(run[i])
      /\ \A sy, sx \in Streams : RectOK(chunk.initial[sy][sx])
  BY DEF RunsWell
<1>3. DOMAIN run = 1 .. n
  <2>1. PICK X : run \in Seq(X)
    BY <1>2 DEF IsSeq
  <2>2. QED
    BY <2>1
<1>4. ToSet(run) = {run[i] : i \in 1 .. n}
  BY <1>3 DEF ToSet
<1> HIDE DEF n
<1>5. IsFiniteSet(Loaded)
  <2> DEFINE e == "even"
             o == "odd"
             Q(sy, sx) == <<HomePlane[sy][sx], chunk.initial[sy][sx]>>
  <2>1. Loaded = {Q(sy, sx) : sy \in Streams, sx \in Streams}
    OBVIOUS
  <2> HIDE DEF Q, Loaded
  <2>2. Loaded = ((({} \cup {Q(e, e)}) \cup {Q(e, o)}) \cup {Q(o, e)}) \cup {Q(o, o)}
    BY <2>1 DEF Streams
  <2>3. IsFiniteSet({})
    BY FS_EmptySet
  <2>4. \A S, x : IsFiniteSet(S) => IsFiniteSet(S \cup {x})
    BY FS_AddElement
  <2>5. QED
    BY <2>2, <2>3, <2>4
<1>6. IsFiniteSet(Others)
  <2> DEFINE f == [i \in 1 .. n |-> By(run[i])]
             U == {f[i] : i \in 1 .. n}
  <2>1. DOMAIN f = 1 .. n
    OBVIOUS
  <2>2. {By(r) : r \in ToSet(run)} = U
    BY <1>4
  <2>3. \A T \in U : IsFiniteSet(T)
    <3>1. \A a, b, c : IsFiniteSet({a, b, c})
      <4>1. TAKE a, b, c
      <4>2. \A S, x : IsFiniteSet(S) => IsFiniteSet(S \cup {x})
        BY FS_AddElement
      <4>3. IsFiniteSet({})
        BY FS_EmptySet
      <4>4. {a, b, c} = (({} \cup {a}) \cup {b}) \cup {c}
        OBVIOUS
      <4>5. IsFiniteSet({} \cup {a})
        BY <4>2, <4>3, Zenon
      <4>6. IsFiniteSet(({} \cup {a}) \cup {b})
        BY <4>2, <4>5, Zenon
      <4>7. IsFiniteSet((({} \cup {a}) \cup {b}) \cup {c})
        BY <4>2, <4>6, Zenon
      <4>8. QED
        BY <4>4, <4>7
    <3>2. \A i \in 1 .. n : IsFiniteSet(f[i])
      BY <3>1
    <3> HIDE DEF f
    <3>3. QED
      BY <3>2
  <2> HIDE DEF f
  <2>4. IsFiniteSet(U)
    BY ONLY <1>2, <2>1, ImageIsFinite DEF n
  <2> HIDE DEF U
  <2>5. IsFiniteSet(UNION U)
    BY <2>3, <2>4, FS_UNION
  <2>6. QED
    BY <2>2, <2>5
<1>7. \A use \in Loaded : UsedAt(use)
  <2>1. "y" \in Axes
    BY DEF Axes
  <2>2. \A sy, sx \in Streams : HomePlane[sy][sx] \in Planes
    BY <2>1, HomeIs
  <2>3. QED
    BY <1>2, <2>2 DEF UsedAt
<1>8. \A use \in Others : UsedAt(use)
  <2>1. TAKE use \in Others
  <2>2. PICK r \in ToSet(run) : use \in By(r)
    OBVIOUS
  <2>3. RouteTyped(r)
    BY <1>2, <1>4, <2>2 DEF n
  <2>4. QED
    BY <2>2, <2>3 DEF RouteTyped, UsedAt
<1> HIDE DEF Loaded, Others
<1>9. IsFiniteSet(Loaded \cup Others)
  BY <1>5, <1>6, FS_Union
<1>10. QED
  BY <1>1, <1>7, <1>8, <1>9

LEMMA ShapeIs ==
  ASSUME NEW chunk, NEW run, RunOf(chunk, run), RunsWell(chunk, run), NEW p \in Planes,
         NEW a \in Axes
  PROVE  /\ PlaneShape(chunk, p)[a] \in Nat
         /\ \A use \in Uses(chunk) :
              use[1] = p /\ ~EmptyRectangle(use[2]) =>
                /\ Span(use[2][a]) <= PlaneShape(chunk, p)[a]
                /\ PlaneShape(chunk, p)[a] > 0
<1> DEFINE U == Uses(chunk)
           held == {use[2] : use \in {v \in U : v[1] = p /\ ~EmptyRectangle(v[2])}}
           T == {0} \cup {Span(r[a]) : r \in held}
<1>1. IsFiniteSet(U) /\ \A use \in U : UsedAt(use)
  BY UsesAre
<1>2. PlaneShape(chunk, p)[a] = Max(T)
  BY DEF PlaneShape
<1> HIDE DEF U
<1>3. \A r \in held : Span(r[a]) \in Nat /\ Span(r[a]) > 0
  <2>1. TAKE r \in held
  <2>2. RectOK(r) /\ ~EmptyRectangle(r)
    BY <1>1 DEF UsedAt
  <2>3. Upright(r[a]) /\ ~Empty(r[a])
    BY <2>2 DEF RectOK, EmptyRectangle
  <2>4. QED
    BY <2>3, SpanIs
<1>4. IsFiniteSet(T)
  <2> DEFINE V == {v \in U : v[1] = p /\ ~EmptyRectangle(v[2])}
             g == [v \in V |-> v[2]]
             h == [r \in held |-> Span(r[a])]
             W == {Span(r[a]) : r \in held}
  <2>1. IsFiniteSet(V)
    BY <1>1, FS_Subset
  <2>2. g \in Surjection(V, held)
    BY DEF Surjection
  <2> HIDE DEF V, g
  <2>3. IsFiniteSet(held)
    BY <2>1, <2>2, FS_Surjection
  <2>4. h \in Surjection(held, W)
    BY DEF Surjection
  <2> HIDE DEF held, h, W
  <2>5. IsFiniteSet(W)
    BY <2>3, <2>4, FS_Surjection
  <2>6. IsFiniteSet({0})
    BY FS_Singleton
  <2>7. IsFiniteSet({0} \cup W)
    BY <2>5, <2>6, FS_Union
  <2>8. QED
    BY <2>7 DEF W
<1>5. T \subseteq Int /\ T # {} /\ \A x \in T : x \in Nat
  BY <1>3
<1>6. \A use \in U : use[1] = p /\ ~EmptyRectangle(use[2]) =>
                       Span(use[2][a]) \in T /\ Span(use[2][a]) > 0 /\ Span(use[2][a]) \in Nat
  BY <1>3
<1> HIDE DEF T, held
<1>7. Max(T) \in T /\ \A y \in T : y <= Max(T)
  BY <1>4, <1>5, MaxFinite
<1> DEFINE m == Max(T)
<1>8. m \in Nat /\ PlaneShape(chunk, p)[a] = m /\ \A y \in T : y <= m
  BY <1>2, <1>5, <1>7
<1> HIDE DEF m
<1>9. \A use \in U : use[1] = p /\ ~EmptyRectangle(use[2]) => Span(use[2][a]) <= m /\ m > 0
  <2>1. TAKE use \in U
  <2>2. HAVE use[1] = p /\ ~EmptyRectangle(use[2])
  <2> DEFINE s == Span(use[2][a])
  <2>3. s \in T /\ s > 0 /\ s \in Nat
    BY <1>6, <2>2
  <2> HIDE DEF s
  <2>4. s <= m /\ m > 0
    BY <1>8, <2>3
  <2>5. QED
    BY <2>4 DEF s
<1>10. QED
  BY <1>8, <1>9 DEF U

LEMMA StoredUsed ==
  ASSUME NEW chunk, NEW run, RunOf(chunk, run), RunsWell(chunk, run), NEW p \in Planes,
         NEW i \in 1 .. Len(run) + 1
  PROVE  LET rect == StoredBefore(chunk, run, i)[p]
         IN RectOK(rect) /\ (EmptyRectangle(rect) \/ <<p, rect>> \in Uses(chunk))
<1> DEFINE n == Len(run)
           W == {k \in 1 .. i - 1 : Executable(run[k]) /\ run[k].output = p}
           rect == StoredBefore(chunk, run, i)[p]
<1>1. rect = IF W = {} THEN LoadedRects(chunk)[p] ELSE run[Max(W)].outputRect
  BY DEF StoredBefore
<1>2. /\ n \in Nat /\ IsSeq(run)
      /\ \A k \in 1 .. n : RouteTyped(run[k])
      /\ RectOK(LoadedRects(chunk)[p])
  BY DEF RunsWell
<1> HIDE DEF rect
<1>3. CASE W = {}
  <2>1. rect = LoadedRects(chunk)[p]
    BY <1>1, <1>3
  <2>2. CASE p = "Scratch"
    <3>1. rect = Rectangle("y", Nothing, Nothing) /\ "y" \in Axes
      BY <2>1, <2>2 DEF LoadedRects, Axes
    <3>2. Empty(Nothing)
      BY DEF Nothing, Empty, Interval
    <3>3. EmptyRectangle(rect)
      BY <3>1, <3>2, RectangleIs
    <3>4. QED
      BY <1>2, <2>1, <3>3 DEF rect
  <2>3. CASE p # "Scratch"
    <3> DEFINE P(c) == c \in Streams \X Streams /\ HomePlane[c[1]][c[2]] = p
               at == CHOOSE c : P(c)
    <3>1. \E c : P(c)
      <4>1. \E sy, sx \in Streams : p = HomePlane[sy][sx]
        BY <2>3 DEF Planes, HomePlane, Streams
      <4>2. PICK sy \in Streams, sx \in Streams : p = HomePlane[sy][sx]
        BY <4>1
      <4>3. P(<<sy, sx>>)
        BY <4>2
      <4>4. QED
        BY <4>3
    <3>2. P(at)
      <4> HIDE DEF P
      <4>1. QED
        BY <3>1, Zenon
    <3>3. rect = chunk.initial[at[1]][at[2]]
      BY <2>1, <2>3 DEF LoadedRects
    <3> HIDE DEF at
    <3>4. <<p, rect>> \in {<<HomePlane[sy][sx], chunk.initial[sy][sx]>> :
                             sy \in Streams, sx \in Streams}
      BY <3>2, <3>3
    <3>5. <<p, rect>> \in Uses(chunk)
      BY <3>4 DEF Uses
    <3>6. QED
      BY <1>2, <2>1, <3>5 DEF rect
  <2>4. QED
    BY <2>2, <2>3
<1>4. CASE W # {}
  <2> DEFINE k == Max(W)
  <2>1. k \in W
    <3>1. W \in SUBSET (1 .. n) /\ 1 \in Int /\ n \in Int
      BY <1>2
    <3> HIDE DEF W
    <3>2. QED
      BY ONLY <1>4, <3>1, MaxIs
  <2>2. k \in 1 .. n /\ run[k].output = p
    BY <1>2, <2>1
  <2>3. rect = run[k].outputRect
    BY <1>1, <1>4
  <2> HIDE DEF k
  <2>4. run[k] \in ToSet(run)
    <3>1. PICK X : run \in Seq(X)
      BY <1>2 DEF IsSeq
    <3>2. DOMAIN run = 1 .. n
      BY <3>1
    <3>3. QED
      BY <2>2, <3>2 DEF ToSet
  <2>5. <<p, rect>> \in Uses(chunk)
    BY <2>2, <2>3, <2>4 DEF Uses, Routes, RunOf
  <2>6. RectOK(rect)
    BY <1>2, <2>2, <2>3 DEF RouteTyped
  <2>7. QED
    BY <2>5, <2>6 DEF rect
<1>5. QED
  BY <1>3, <1>4

-----------------------------------------------------------------------------
(***************************************************************************)
(* What a forward pass leaves of the two streams is stored exactly: the    *)
(* stream the last lift makes is, whatever names it has afterwards, and    *)
(* the other one is scaled in place to just what is needed of it.          *)
(***************************************************************************)
LEMMA ScaleKeeps ==
  ASSUME NEW r, RouteOK(r), IsScale(r.type), NEW A, BothUpright(A)
  PROVE  Needed(r, A) = A
<1> DEFINE t == Target(r.type)
           B == Needed(r, A)
<1>1. t \in Streams /\ Other[t] \in Streams /\ Streams = {t, Other[t]}
  BY StreamOf
<1>2. A \in Needs /\ A[t] \in Stretch
  BY <1>1 DEF BothUpright, Needs
<1>3. B \in Needs
  BY <1>2, NeededIs
<1>4. B[t] = Translated(A[t], r.sourceOffset, 0) /\ B[Other[t]] = A[Other[t]]
  BY <1>2, NeededAt
<1>5. r.sourceOffset = 0
  BY DEF RouteOK
<1>6. \A i \in Stretch : Translated(i, 0, 0) = i
  BY DEF Translated, Interval, Stretch
<1>7. B[t] = A[t]
  BY <1>2, <1>4, <1>5, <1>6
<1> HIDE DEF B, t
<1>8. \A s \in Streams : B[s] = A[s]
  BY <1>1, <1>4, <1>7 DEF t, B
<1>9. B = A
  BY <1>2, <1>3, <1>8 DEF Needs
<1>10. QED
  BY <1>9 DEF B

StoredExactly(stored, axis, across, slots, need, s) ==
    stored[slots[s]] = Rectangle(axis, need[s], across)

RouteExacts(axis, across, slots, before, q, A, after) ==
    LET t == Target(q.type)
        next == SlotsAfter(slots, q.type)
        Was(s) == StoredExactly(before, axis, across, slots, A, s)
        Is(s) == StoredExactly(after, axis, across, next, A, s)
    IN /\ IsLift(q.type) => Is(t)
       /\ q.type = "swap" =>
            \A s \in Streams :
              before[slots[Other[s]]] = Rectangle(axis, A[s], across) => Is(s)
       /\ IsScale(q.type) =>
            /\ Was(Other[t]) => Is(Other[t])
            /\ q.output = A[t] => Is(t)
            /\ Empty(q.output) /\ Was(t) => Is(t)

LEMMA RouteExact ==
  ASSUME NEW axis \in Axes, NEW across, Upright(across), ~Empty(across),
         NEW slots \in SlotSet, Apart(slots),
         NEW B, NEW A, NEW q, RouteFits(q, B, A), \A s \in Streams : ~Empty(A[s]),
         NEW r, r = PlaneRoute(axis, across, slots, q),
         NEW before, NEW after, AfterRoute(before, r, after)
  PROVE  RouteExacts(axis, across, slots, before, q, A, after)
<1> DEFINE t == Target(q.type)
           next == SlotsAfter(slots, q.type)
           Along(i) == Rectangle(axis, i, across)
<1>1. /\ t \in Streams /\ Other[t] \in Streams /\ t # Other[t] /\ Streams = {t, Other[t]}
  BY StreamOf
<1>2. q.type \in StepTypes
  BY DEF RouteFits
<1>3. /\ r.outputRect = Along(q.output)
      /\ q.type # "swap" => r.output = IF IsLift(q.type) THEN slots["free"] ELSE slots[t]
  BY <1>2, PlaneRouteIs
<1>4. Executable(r) <=> ~Empty(q.output)
  BY <1>3, RectangleIs DEF Executable
<1>5. \A s \in SlotNames : slots[s] \in Planes
  BY DEF SlotSet
<1>6. t \in SlotNames /\ Other[t] \in SlotNames /\ "free" \in SlotNames
      /\ Streams \subseteq SlotNames
  BY <1>1 DEF Streams, SlotNames
<1>7. slots[t] # slots[Other[t]]
  BY <1>1 DEF Apart, Streams, Other
<1>8. /\ q.type = "swap" => ~IsLift(q.type) /\ ~IsScale(q.type)
      /\ IsScale(q.type) => ~IsLift(q.type) /\ q.type # "swap"
      /\ IsLift(q.type) => q.type # "swap"
  BY DEF IsLift, IsScale
<1>9. ASSUME IsLift(q.type) PROVE after[next[t]] = Along(A[t])
  <2>1. next[t] = slots["free"]
    BY <1>2, <1>9, SlotsAfterAt
  <2>2. q.output = A[t] /\ ~Empty(A[t])
    BY <1>1, <1>8, <1>9 DEF RouteFits
  <2>3. Executable(r) /\ r.output = slots["free"] /\ slots["free"] \in Planes
    BY <1>3, <1>4, <1>5, <1>6, <1>8, <1>9, <2>2
  <2> HIDE DEF next
  <2>4. QED
    BY <1>3, <2>1, <2>2, <2>3 DEF AfterRoute
<1>10. ASSUME q.type = "swap", NEW s \in Streams, before[slots[Other[s]]] = Along(A[s])
       PROVE  after[next[s]] = Along(A[s])
  <2>1. next[s] = slots[Other[s]] /\ Other[s] \in Streams
    BY <1>2, <1>10, SlotsAfterAt, StreamOf
  <2>2. ~Executable(r)
    BY <1>4, <1>10 DEF RouteFits
  <2>3. slots[Other[s]] \in Planes
    BY <1>5, <1>6, <2>1
  <2> HIDE DEF next
  <2>4. QED
    BY <1>10, <2>1, <2>2, <2>3 DEF AfterRoute
<1>11. ASSUME IsScale(q.type)
       PROVE  /\ before[slots[Other[t]]] = Along(A[Other[t]])
                   => after[next[Other[t]]] = Along(A[Other[t]])
              /\ q.output = A[t] => after[next[t]] = Along(A[t])
              /\ Empty(q.output) /\ before[slots[t]] = Along(A[t])
                   => after[next[t]] = Along(A[t])
  <2>1. next = slots /\ r.output = slots[t]
    BY <1>2, <1>3, <1>8, <1>11, SlotsAfterAt
  <2>2. slots[t] \in Planes /\ slots[Other[t]] \in Planes
    BY <1>5, <1>6
  <2>3. after[slots[Other[t]]] = before[slots[Other[t]]]
    BY <1>7, <2>1, <2>2 DEF AfterRoute
  <2>4. ~Empty(A[t])
    BY <1>1
  <2>5. q.output = A[t] => after[slots[t]] = Along(A[t])
    BY <1>3, <1>4, <2>1, <2>2, <2>4 DEF AfterRoute
  <2>6. Empty(q.output) => after[slots[t]] = before[slots[t]]
    BY <1>4, <2>2 DEF AfterRoute
  <2> HIDE DEF next
  <2>7. QED
    BY <2>1, <2>3, <2>5, <2>6
<1>12. QED
  BY <1>9, <1>10, <1>11 DEF RouteExacts, StoredExactly

\* Only swaps between the last lift and the two scales.
SwapsAfter(R, l) ==
    /\ l \in 1 .. Len(R) - 2 /\ IsLift(R[l].type)
    /\ \A i \in l + 1 .. Len(R) - 2 : R[i].type = "swap"

Inlined(R, l) ==
    /\ Len(R) \in Nat /\ Len(R) >= 3 /\ SwapsAfter(R, l)
    /\ {R[Len(R) - 1].type, R[Len(R)].type} = {"scale-even", "scale-odd"}

LEMMA InlineRouteIs ==
  ASSUME NEW R, NEW l, Inlined(R, l)
  PROVE  InlineRoute(R) = l
<1> DEFINE n == Len(R)
           P(i) == /\ i \in 1 .. n - 2 /\ IsLift(R[i].type)
                   /\ \A k \in i + 1 .. n - 2 : ~IsLift(R[k].type)
<1>1. InlineRoute(R) = CHOOSE i : P(i)
  BY DEF InlineRoute
<1>2. n \in Nat /\ l \in 1 .. n - 2 /\ IsLift(R[l].type)
      /\ \A i \in l + 1 .. n - 2 : ~IsLift(R[i].type)
  BY DEF Inlined, SwapsAfter, IsLift
<1> HIDE DEF n
<1>3. P(l)
  BY <1>2
<1>4. \A i : P(i) => i = l
  <2>1. TAKE i
  <2>2. HAVE P(i)
  <2>3. ~(i > l)
    <3>1. i > l => i \in l + 1 .. n - 2
      BY <1>2, <2>2
    <3>2. QED
      BY <1>2, <2>2, <3>1
  <2>4. ~(l > i)
    <3>1. l > i => l \in i + 1 .. n - 2
      BY <1>2, <2>2
    <3>2. QED
      BY <1>2, <2>2, <3>1
  <2>5. QED
    BY <1>2, <2>2, <2>3, <2>4
<1>5. P(InlineRoute(R))
  <2> HIDE DEF P
  <2>1. QED
    BY <1>1, <1>3, Zenon
<1> HIDE DEF P
<1>6. QED
  BY <1>4, <1>5

LEMMA CanInlineIs ==
  ASSUME NEW R, Len(R) \in Nat, ScalesAreTerminal(R), CanInline(R)
  PROVE  \E l : Inlined(R, l)
<1> DEFINE n == Len(R)
           L == {i \in 1 .. n - 2 : IsLift(R[i].type)}
           P(i) == /\ i \in 1 .. n - 2 /\ IsLift(R[i].type)
                   /\ \A k \in i + 1 .. n - 2 : ~IsLift(R[k].type)
<1>1. /\ n \in Nat /\ n >= 3 /\ HasLift(R) /\ OnlySwapsFollow(R)
      /\ {R[n - 1].type, R[n].type} = {"scale-even", "scale-odd"}
  BY DEF CanInline, ScalesAreTerminal
<1>2. PICK i \in 1 .. n : IsLift(R[i].type)
  BY <1>1 DEF HasLift
<1>3. i \in L
  <2>1. ~IsLift("scale-even") /\ ~IsLift("scale-odd")
    BY DEF IsLift
  <2>2. ~IsLift(R[n - 1].type) /\ ~IsLift(R[n].type)
    BY <1>1, <2>1
  <2> HIDE DEF n
  <2>3. i # n - 1 /\ i # n
    BY <1>2, <2>2
  <2>4. i \in 1 .. n - 2
    BY <1>1, <2>3
  <2>5. QED
    BY <1>2, <2>4
<1>4. PICK l \in L : \A k \in L : l >= k
  <2>1. 1 \in Int /\ n - 2 \in Int /\ L \subseteq 1 .. n - 2 /\ L # {}
    BY <1>1, <1>3
  <2> HIDE DEF L, n
  <2>2. QED
    BY ONLY <2>1, HasGreatest
<1>5. P(l)
  <2>1. \A k \in l + 1 .. n - 2 : k \in 1 .. n - 2 /\ ~(l >= k)
    BY <1>4
  <2>2. QED
    BY <1>4, <2>1
<1>6. InlineRoute(R) = CHOOSE k : P(k)
  BY DEF InlineRoute
<1>7. P(InlineRoute(R))
  <2> HIDE DEF P
  <2>1. QED
    BY <1>5, <1>6, Zenon
<1>8. SwapsAfter(R, InlineRoute(R))
  BY <1>1, <1>7 DEF SwapsAfter, OnlySwapsFollow
<1>9. QED
  BY <1>1, <1>8 DEF Inlined

LEMMA PassExact ==
  ASSUME NEW chunk, NEW run, NEW o \in Nat, NEW axis \in Axes, NEW across, Upright(across),
         ~Empty(across), NEW cone, NEW n, NEW N, ConeFits(cone, n, N), NEW trace,
         TraceIs(trace), ForwardMore(trace, cone, n, N), NEW l, Inlined(trace.routes, l),
         NEW slots \in SlotSet, Apart(slots),
         NEW S, PassIs(axis, across, cone, slots, S), PassAt(run, o, axis, across, cone, S)
  PROVE  \A s \in Streams :
           StoredExactly(StoredBefore(chunk, run, o + n + 1), axis, across, S[n], cone.final, s)
<1> DEFINE Q == cone.routes
           R == trace.routes
           At(k) == StoredBefore(chunk, run, o + k + 1)
           Along(i) == Rectangle(axis, i, across)
           Ex(k, s) == At(k)[S[k][s]] = Along(N[k][s])
           t0 == Target(R[l].type)
           Name(k) == IF k % 2 = 1 THEN Other[t0] ELSE t0
           f == InlineResult(R)
<1>1. /\ n \in Nat /\ Len(Q) = n /\ N[n] = cone.final
      /\ \A i \in 0 .. n : BothUpright(N[i])
      /\ \A i \in 1 .. n : RouteFits(Q[i], N[i - 1], N[i])
  BY DEF ConeFits
<1>2. /\ S \in [0 .. n -> SlotSet]
      /\ \A i \in 1 .. n : S[i] = SlotsAfter(S[i - 1], Q[i].type)
      /\ \A i \in 0 .. n : Apart(S[i])
  BY <1>1 DEF PassIs
<1>3. \A i \in 1 .. n : run[o + i] = PlaneRoute(axis, across, S[i - 1], Q[i])
  BY <1>1 DEF PassAt
<1>4. \A i \in Nat \ {0} : AfterRoute(StoredBefore(chunk, run, i), run[i],
                                      StoredBefore(chunk, run, i + 1))
  BY StoredNext DEF AfterRoute
<1>5. /\ n = Len(R) /\ (\A i \in 1 .. n : RouteOK(R[i]))
      /\ \A i \in 1 .. n :
           /\ Q[i].type = R[i].type /\ N[i - 1] = Needed(R[i], N[i])
           /\ IsScale(R[i].type) => Q[i].output = IF R[i].type = ScaleOf[f] THEN Nothing
                                                  ELSE N[i][Target(R[i].type)]
      /\ \A i \in 0 .. n, s \in Streams : ~Empty(N[i][s])
  BY DEF ForwardMore, TraceIs
<1>6. /\ n >= 3 /\ l \in 1 .. n - 2 /\ IsLift(R[l].type)
      /\ \A i \in l + 1 .. n - 2 : R[i].type = "swap"
      /\ {R[n - 1].type, R[n].type} = {"scale-even", "scale-odd"}
  BY <1>5 DEF Inlined, SwapsAfter
<1>7. f = Name(n - 2 - l) /\ t0 \in Streams /\ f \in Streams
  <2>1. InlineRoute(R) = l
    BY InlineRouteIs
  <2>2. f = Name(n - 2 - l)
    BY <1>5, <2>1 DEF InlineResult
  <2>3. t0 \in Streams
    BY StreamOf
  <2>4. QED
    BY <2>2, <2>3, StreamOf
<1> HIDE DEF f, Q, R
<1>8. \A i \in 1 .. n : RouteExacts(axis, across, S[i - 1], At(i - 1), Q[i], N[i], At(i))
  <2>1. TAKE i \in 1 .. n
  <2> DEFINE sl == S[i - 1]
             B == N[i - 1]
             A == N[i]
             q == Q[i]
             r == run[o + i]
             before == At(i - 1)
             after == At(i)
  <2>2. /\ i - 1 \in 0 .. n /\ i \in 0 .. n /\ o + i \in Nat \ {0}
        /\ o + (i - 1) + 1 = o + i /\ o + i + 1 = (o + i) + 1
    BY <1>1
  <2>3. /\ sl \in SlotSet /\ Apart(sl) /\ RouteFits(q, B, A)
        /\ (\A s \in Streams : ~Empty(A[s])) /\ r = PlaneRoute(axis, across, sl, q)
    BY <1>1, <1>2, <1>3, <1>5, <2>2
  <2>4. AfterRoute(before, r, after)
    BY <1>4, <2>2
  <2> HIDE DEF sl, B, A, q, r, before, after
  <2>5. RouteExacts(axis, across, sl, before, q, A, after)
    BY <2>3, <2>4, RouteExact
  <2>6. QED
    BY <2>5 DEF sl, before, q, A, after
<1> HIDE DEF At
<1>9. ASSUME NEW i \in 1 .. n, IsLift(R[i].type) PROVE Ex(i, Target(R[i].type))
  BY <1>2, <1>5, <1>8, <1>9 DEF RouteExacts, StoredExactly
<1>10. ASSUME NEW i \in 1 .. n, R[i].type = "swap", NEW s \in Streams, Ex(i - 1, Other[s])
       PROVE  Ex(i, s)
  <2>1. N[i][s] = N[i - 1][Other[s]] /\ Q[i].type = "swap"
    BY <1>1, <1>5, <1>10 DEF RouteFits
  <2>2. At(i - 1)[S[i - 1][Other[s]]] = Along(N[i][s])
    BY <1>10, <2>1
  <2>3. RouteExacts(axis, across, S[i - 1], At(i - 1), Q[i], N[i], At(i))
    BY <1>8
  <2>4. StoredExactly(At(i), axis, across, SlotsAfter(S[i - 1], Q[i].type), N[i], s)
    BY <2>1, <2>2, <2>3 DEF RouteExacts
  <2>5. QED
    BY <1>2, <2>4 DEF StoredExactly
<1>11. ASSUME NEW i \in 1 .. n, IsScale(R[i].type)
       PROVE  LET t == Target(R[i].type)
              IN /\ Ex(i - 1, Other[t]) => Ex(i, Other[t])
                 /\ R[i].type = ScaleOf[f] /\ Ex(i - 1, t) => Ex(i, t)
                 /\ R[i].type # ScaleOf[f] => Ex(i, t)
  <2> DEFINE t == Target(R[i].type)
  <2>1. N[i - 1] = N[i]
    <3>1. i \in 0 .. n
      BY <1>1
    <3>2. RouteOK(R[i]) /\ BothUpright(N[i]) /\ N[i - 1] = Needed(R[i], N[i])
      BY <1>1, <1>5, <3>1
    <3>3. QED
      BY <1>11, <3>2, ScaleKeeps
  <2>2. Q[i].type = R[i].type /\ S[i] = SlotsAfter(S[i - 1], Q[i].type)
    BY <1>2, <1>5
  <2>3. RouteExacts(axis, across, S[i - 1], At(i - 1), Q[i], N[i], At(i))
    BY <1>8
  <2>4. Q[i].output = IF R[i].type = ScaleOf[f] THEN Nothing ELSE N[i][t]
    BY <1>5, <1>11
  <2>5. /\ At(i - 1)[S[i - 1][Other[t]]] = Along(N[i][Other[t]])
             => At(i)[S[i][Other[t]]] = Along(N[i][Other[t]])
        /\ Q[i].output = N[i][t] => At(i)[S[i][t]] = Along(N[i][t])
        /\ Empty(Q[i].output) /\ At(i - 1)[S[i - 1][t]] = Along(N[i][t])
             => At(i)[S[i][t]] = Along(N[i][t])
    BY <1>11, <2>2, <2>3 DEF RouteExacts, StoredExactly
  <2>6. Empty(Nothing)
    BY NothingUpright
  <2>7. QED
    BY <2>1, <2>4, <2>5, <2>6
<1> DEFINE m == n - 2 - l
           T == {k \in 0 .. m : Ex(l + k, Name(k))}
<1>12. m \in Nat /\ l \in Nat /\ l \in 1 .. n
  BY <1>1, <1>6
<1>13. \A k \in 0 .. m : k \in T
  <2>1. 0 \in T
    <3>1. 0 \in 0 .. m /\ l + 0 = l /\ 0 % 2 = 0 /\ l \in 1 .. n
      BY <1>6, <1>12
    <3>2. Name(0) = t0
      BY <3>1
    <3> HIDE DEF Name
    <3>3. Ex(l, t0)
      BY <1>6, <1>9, <3>1
    <3>4. QED
      BY <3>1, <3>2, <3>3
  <2>2. \A k \in 0 .. m - 1 : k \in T => k + 1 \in T
    <3>1. TAKE k \in 0 .. m - 1
    <3>2. HAVE k \in T
    <3> DEFINE i == l + (k + 1)
               s == Name(k + 1)
    <3>3. /\ k + 1 \in 0 .. m /\ i \in l + 1 .. n - 2 /\ i \in 1 .. n /\ i - 1 = l + k
      <4>1. n \in Nat /\ l \in 1 .. n - 2 /\ k \in 0 .. (n - 2 - l) - 1
        BY <1>1, <1>6
      <4>2. QED
        BY ONLY <4>1
    <3>4. s \in Streams /\ Other[s] = Name(k)
      <4>1. (k + 1) % 2 = 1 <=> ~(k % 2 = 1)
        BY <1>12
      <4>2. Other[t0] \in Streams /\ Other[Other[t0]] = t0
        BY <1>7, StreamOf
      <4> HIDE DEF t0
      <4>3. CASE k % 2 = 1
        <5>1. s = t0 /\ Name(k) = Other[t0]
          BY <4>1, <4>3
        <5>2. QED
          BY <1>7, <4>2, <5>1
      <4>4. CASE ~(k % 2 = 1)
        <5>1. s = Other[t0] /\ Name(k) = t0
          BY <4>1, <4>4
        <5>2. QED
          BY <1>7, <4>2, <5>1
      <4>5. QED
        BY <4>3, <4>4
    <3>5. Ex(i - 1, Other[s])
      BY <3>2, <3>3, <3>4
    <3> HIDE DEF i, s, Name
    <3>6. R[i].type = "swap"
      BY <1>6, <3>3
    <3> HIDE DEF Ex
    <3>7. Ex(i, s)
      BY <1>10, <3>3, <3>4, <3>5, <3>6
    <3>8. QED
      BY <3>3, <3>7 DEF i, s
  <2> HIDE DEF T
  <2>3. QED
    BY ONLY <1>12, <2>1, <2>2, AllReached
<1>14. Ex(n - 2, f)
  <2>1. m \in 0 .. m /\ l + m = n - 2
    BY <1>1, <1>12
  <2>2. Ex(l + m, Name(m))
    BY <1>13, <2>1
  <2> HIDE DEF Ex, Name
  <2>3. QED
    BY <1>7, <2>1, <2>2
<1> HIDE DEF Ex, Name, m, T
<1>15. /\ n - 1 \in 1 .. n /\ n \in 1 .. n /\ (n - 1) - 1 = n - 2
  BY <1>1, <1>6
<1>16. IsScale(R[n - 1].type) /\ IsScale(R[n].type)
  BY <1>6 DEF IsScale
<1>17. \A i \in 1 .. n : IsScale(R[i].type) =>
         /\ R[i].type = ScaleOf[f] <=> Target(R[i].type) = f
         /\ Target(R[i].type) \in {f, Other[f]} /\ Other[Other[f]] = f
         /\ Other[f] # f
  BY <1>7 DEF IsScale, ScaleOf, Target, Streams, Other
<1>18. ASSUME NEW i \in 1 .. n, IsScale(R[i].type), Ex(i - 1, f)
       PROVE  /\ Ex(i, f)
              /\ Target(R[i].type) = f /\ Ex(i - 1, Other[f]) => Ex(i, Other[f])
              /\ Target(R[i].type) # f => Ex(i, Other[f])
  <2>1. CASE Target(R[i].type) = f
    BY <1>11, <1>17, <1>18, <2>1
  <2>2. CASE Target(R[i].type) = Other[f]
    BY <1>11, <1>17, <1>18, <2>2
  <2>3. QED
    BY <1>17, <1>18, <2>1, <2>2
<1>19. Ex(n - 1, f)
  BY <1>14, <1>15, <1>16, <1>18
<1>20. Ex(n, f)
  BY <1>15, <1>16, <1>18, <1>19
<1>21. Ex(n, Other[f])
  <2>1. Target(R[n - 1].type) # Target(R[n].type)
    BY <1>6 DEF Target
  <2>2. CASE Target(R[n].type) # f
    BY <1>15, <1>16, <1>18, <1>19, <2>2
  <2>3. CASE Target(R[n].type) = f
    <3>1. Target(R[n - 1].type) # f
      BY <2>1, <2>3
    <3>2. Ex(n - 1, Other[f])
      BY <1>14, <1>15, <1>16, <1>18, <3>1
    <3>3. QED
      BY <1>15, <1>16, <1>18, <1>19, <2>3, <3>2
  <2>4. QED
    BY <2>2, <2>3
<1>22. \A s \in Streams : Ex(n, s)
  BY <1>7, <1>20, <1>21, StreamOf
<1>23. QED
  BY <1>1, <1>22 DEF Ex, At, StoredExactly

ForwardCones(u, cone, along, n) ==
    /\ \E N : ConeFits(cone[u], n, N) /\ ForwardMore(along[u], cone[u], n, N)
    /\ LET v == Across[u]
       IN /\ \E N : ConeFits(cone[v], n, N) /\ ForwardMore(along[v], cone[v], n, N)
          /\ TraceIs(along[v]) /\ \E l : Inlined(along[v].routes, l)

LEMMA ChunkExactly ==
  ASSUME NEW u \in Axes, NEW cone, NEW along, NEW n, ForwardCones(u, cone, along, n),
         NEW chunk, ChunkIs(chunk, u, cone), NEW run, RunOf(chunk, run)
  PROVE  \A sy, sx \in Streams :
           StoredBefore(chunk, run, Len(run) + 1)[chunk.final[sy][sx]] = chunk.finalRect[sy][sx]
<1> DEFINE v == Across[u]
           cu == cone[u]
           cv == cone[v]
           trace == along[v]
<1>1. PICK Nu : ConeFits(cu, n, Nu) /\ ForwardMore(along[u], cu, n, Nu)
  BY DEF ForwardCones
<1>2. PICK Nv : ConeFits(cv, n, Nv) /\ ForwardMore(trace, cv, n, Nv)
  BY DEF ForwardCones
<1>3. TraceIs(trace) /\ \E l : Inlined(trace.routes, l)
  BY DEF ForwardCones
<1>4. PICK l : Inlined(trace.routes, l)
  BY <1>3
<1>5. Axes = {u, v} /\ v \in Axes
  BY RectangleIs
<1> HIDE DEF cu, cv, trace, v
<1>6. /\ KnownTypes(cu) /\ Len(cu.routes) = n /\ n \in Nat
      /\ KnownTypes(cv) /\ Len(cv.routes) = n
      /\ BothUpright(cu.initial) /\ BothUpright(cv.initial)
      /\ BothUpright(cu.final)
  BY <1>1, <1>2, KnownCone
<1>7. ConePair(u, cone, n)
  BY <1>6 DEF ConePair, cu, cv, v
<1>8. \A a \in Axes : BothUpright(cone[a].initial)
  BY <1>5, <1>6 DEF cu, cv
<1>9. LoadedWell(chunk, u, cone)
  BY <1>8, LoadedIs DEF ChunkIs
<1>10. PICK A, B, C, D :
           /\ Scheduled(u, cone, n, run, A, B, C, D)
           /\ ResultsAt(u, cone, C[n], D[n])
           /\ Starts(u, A[n], B[n], C[n], D[n])
  BY <1>7, ScheduleIs DEF RunOf, ChunkIs
<1>11. AllServed(chunk, run, n, u, cone, C[n], D[n])
  BY <1>1, <1>2, <1>9, <1>10, FourServe DEF cu, cv, v
<1> DEFINE At(i) == StoredBefore(chunk, run, i)
           a == A[n]
           b == B[n]
           c == C[n]
           d == D[n]
           o2 == n + n
           o3 == n + n + n
           o4 == n + n + n + n
           fe == cu.final.even
           fo == cu.final.odd
<1>12. /\ Upright(fe) /\ ~Empty(fe) /\ Upright(fo) /\ ~Empty(fo)
  <2>1. n \in 0 .. n /\ Nu[n] = cu.final
    BY <1>1, <1>6 DEF ConeFits
  <2>2. \A s \in Streams : ~Empty(Nu[n][s])
    BY <1>1, <2>1 DEF ForwardMore
  <2>3. QED
    BY <1>6, <2>1, <2>2 DEF BothUpright, Streams
<1>13. /\ PassIs(v, fe, cv, StartC(a, b), C) /\ PassAt(run, o2, v, fe, cv, C)
       /\ PassIs(v, fo, cv, StartD(a, b, c), D) /\ PassAt(run, o3, v, fo, cv, D)
       /\ StartC(a, b) \in SlotSet /\ Apart(StartC(a, b))
       /\ StartD(a, b, c) \in SlotSet /\ Apart(StartD(a, b, c))
  BY <1>10 DEF Scheduled, Starts, cu, cv, v
<1>14. o2 \in Nat /\ o3 \in Nat /\ o2 + n + 1 = o3 + 1 /\ o3 + n + 1 = o4 + 1
  BY <1>6
<1>15. \A s \in Streams : At(o4 + 1)[c[s]] = At(o3 + 1)[c[s]]
  BY <1>11 DEF AllServed
<1> HIDE DEF a, b, c, d, o2, o3, o4, fe, fo
<1>16. \A s \in Streams : At(o3 + 1)[c[s]] = Rectangle(v, cv.final[s], fe)
  <2> DEFINE slots == StartC(a, b)
  <2>1. slots \in SlotSet /\ Apart(slots) /\ PassIs(v, fe, cv, slots, C)
    BY <1>13
  <2> HIDE DEF slots
  <2>2. \A s \in Streams :
          StoredExactly(StoredBefore(chunk, run, o2 + n + 1), v, fe, C[n], cv.final, s)
    BY <1>2, <1>3, <1>4, <1>5, <1>12, <1>13, <1>14, <2>1, PassExact
  <2>3. QED
    BY <1>14, <2>2 DEF StoredExactly, c
<1>17. \A s \in Streams : At(o4 + 1)[d[s]] = Rectangle(v, cv.final[s], fo)
  <2> DEFINE slots == StartD(a, b, c)
  <2>1. slots \in SlotSet /\ Apart(slots) /\ PassIs(v, fo, cv, slots, D)
    BY <1>13
  <2> HIDE DEF slots
  <2>2. \A s \in Streams :
          StoredExactly(StoredBefore(chunk, run, o3 + n + 1), v, fo, D[n], cv.final, s)
    BY <1>2, <1>3, <1>4, <1>5, <1>12, <1>13, <1>14, <2>1, PassExact
  <2>3. QED
    BY <1>14, <2>2 DEF StoredExactly, d
<1>18. \A su, sv \in Streams : At(o4 + 1)[ResultOf(c, d, su, sv)]
                                 = Rectangle(u, cu.final[su], cv.final[sv])
  <2>1. TAKE su \in Streams, sv \in Streams
  <2>2. Rectangle(u, cu.final[su], cv.final[sv]) = Rectangle(v, cv.final[sv], cu.final[su])
    BY Flipped DEF v
  <2>3. CASE su = "even"
    BY <1>15, <1>16, <2>2, <2>3 DEF ResultOf, fe
  <2>4. CASE su = "odd"
    BY <1>17, <2>2, <2>4 DEF ResultOf, fo
  <2>5. QED
    BY <2>3, <2>4 DEF Streams
<1>19. Len(run) + 1 = o4 + 1
  BY <1>10 DEF Scheduled, LongSeq, o4
<1> HIDE DEF At
<1>20. TAKE sy \in Streams, sx \in Streams
<1>21. chunk.final[sy][sx] = IF u = "y" THEN ResultOf(c, d, sy, sx) ELSE ResultOf(c, d, sx, sy)
  BY <1>10 DEF ResultsAt, ChunkIs, c, d
<1>22. chunk.finalRect[sy][sx]
          = IF u = "y" THEN Rectangle(u, cu.final[sy], cv.final[sx])
            ELSE Rectangle(u, cu.final[sx], cv.final[sy])
  BY CornersIs DEF ChunkIs, cu, cv, v
<1>23. At(Len(run) + 1)[chunk.final[sy][sx]] = chunk.finalRect[sy][sx]
  BY <1>18, <1>19, <1>21, <1>22
<1>24. QED
  BY <1>23 DEF At

-----------------------------------------------------------------------------
(***************************************************************************)
(* The chunks of a candidate: both axes are cut into intervals, none of    *)
(* them empty, and every coefficient or sample of the output lies in just  *)
(* one interval of an axis, and so in just one of the chunks.              *)
(***************************************************************************)
OnlyIn(cuts, y, k) == \A n \in 1 .. Len(cuts) : y \in Elements(cuts[n]) <=> n = k

CutsRight(size, cuts) ==
    /\ Len(cuts) \in Nat \ {0}
    /\ \A n \in 1 .. Len(cuts) :
         Upright(cuts[n]) /\ ~Empty(cuts[n]) /\ cuts[n].end <= size
    /\ \A y \in 0 .. size - 1 : \E k \in 1 .. Len(cuts) : OnlyIn(cuts, y, k)

LEMMA ShareIs ==
  ASSUME NEW s \in Nat \ {0}, NEW size \in Nat \ {0}, NEW y \in 0 .. size - 1
  PROVE  /\ CeilDiv(size, s) \in Nat \ {0}
         /\ y \div s + 1 \in 1 .. CeilDiv(size, s)
         /\ \A n \in 1 .. CeilDiv(size, s) :
              /\ (n - 1) * s \in Nat /\ n * s \in Nat /\ (n - 1) * s < size
              /\ n * s = (n - 1) * s + s
              /\ (n - 1) * s <= y /\ y < n * s <=> n = y \div s + 1
<1> DEFINE m == size + s - 1
           c == m \div s
           q == y \div s
<1>1. m \in Nat /\ y \in Nat /\ y \in Int /\ m \in Int /\ m = size + s - 1
  OBVIOUS
<1>2. CeilDiv(size, s) = c
  BY DEF CeilDiv
<1> HIDE DEF m
<1>3. m = s * c + (m % s) /\ m % s \in 0 .. s - 1 /\ c \in Nat
  BY ONLY <1>1, Divided, s \in Nat \ {0}
<1>4. y = s * q + (y % s) /\ y % s \in 0 .. s - 1 /\ q \in Nat
  BY ONLY <1>1, Divided, s \in Nat \ {0}
<1> HIDE DEF c, q
<1>5. \A i, k \in Int : i <= k => i * s <= k * s
  BY SMT
<1>6. s * c = c * s /\ s * q = q * s /\ c * s \in Int /\ q * s \in Int /\ 0 * s = 0
  BY <1>3, <1>4, SMT
<1>7. \A n \in Int : n * s \in Int /\ (n - 1) * s \in Int /\ n * s = (n - 1) * s + s
  BY SMT
<1>8. c * s >= size /\ (c - 1) * s < size
  <2>1. c * s = (c - 1) * s + s /\ (c - 1) * s \in Int
    BY <1>3, <1>7
  <2>2. QED
    BY <1>1, <1>3, <1>6, <2>1
<1>9. q * s <= y /\ y < (q + 1) * s /\ (q + 1) * s \in Int /\ (q + 1) * s = q * s + s
  <2>1. (q + 1) * s = (q + 1 - 1) * s + s /\ (q + 1) * s \in Int
    BY <1>4, <1>7
  <2>2. q + 1 - 1 = q
    BY <1>4
  <2>3. (q + 1) * s = q * s + s /\ (q + 1) * s \in Int
    BY <2>1, <2>2
  <2>4. QED
    BY <1>4, <1>6, <2>3
<1>10. q + 1 <= c
  <2>1. SUFFICES ASSUME c <= q PROVE FALSE
    BY <1>3, <1>4
  <2>2. c * s <= q * s
    BY <1>3, <1>4, <1>5, <2>1
  <2>3. QED
    BY <1>6, <1>8, <1>9, <2>2
<1>11. c \in Nat \ {0} /\ q + 1 \in 1 .. c
  BY <1>3, <1>4, <1>10
<1>12. ASSUME NEW n \in 1 .. c
       PROVE  /\ (n - 1) * s \in Nat /\ n * s \in Nat /\ (n - 1) * s < size
              /\ n * s = (n - 1) * s + s
              /\ (n - 1) * s <= y /\ y < n * s <=> n = q + 1
  <2>1. n \in Int /\ n - 1 \in Int /\ 0 \in Int /\ c - 1 \in Int /\ q \in Int /\ q + 1 \in Int
        /\ 0 <= n - 1 /\ n - 1 <= c - 1
    BY <1>3, <1>4
  <2>2. 0 * s <= (n - 1) * s /\ (n - 1) * s <= (c - 1) * s /\ (c - 1) * s \in Int
    BY <1>3, <1>5, <1>7, <2>1
  <2>3. (n - 1) * s \in Nat /\ n * s \in Nat /\ (n - 1) * s < size /\ n * s = (n - 1) * s + s
    BY <1>6, <1>7, <1>8, <2>1, <2>2
  <2>4. n = q + 1 => (n - 1) * s <= y /\ y < n * s
    <3>1. n = q + 1 => n - 1 = q
      BY <1>4
    <3>2. QED
      BY <1>9, <3>1
  <2>5. n <= q => n * s <= q * s
    BY <1>5, <2>1
  <2>6. n - 1 >= q + 1 => (n - 1) * s >= (q + 1) * s
    BY <1>5, <2>1
  <2>7. (n - 1) * s <= y /\ y < n * s => n = q + 1
    BY <1>1, <1>6, <1>9, <2>1, <2>3, <2>5, <2>6
  <2>8. QED
    BY <2>3, <2>4, <2>7
<1>13. QED
  BY <1>2, <1>11, <1>12 DEF q

Positive(t) == t \in [Axes -> Nat \ {0}]

LEMMA OutputIs ==
  ASSUME NEW j \in Jobs, NEW a \in Axes
  PROVE  OutputSize(j)[a] \in Nat \ {0}
BY JobsAssumption

LEMMA CutsAre ==
  ASSUME NEW j \in Jobs, NEW t, Positive(t), NEW a \in Axes
  PROVE  CutsRight(OutputSize(j)[a], Cuts(j, t, a))
<1> DEFINE s == t[a] * Tile
           size == OutputSize(j)[a]
           c == CeilDiv(size, s)
           cuts == Cuts(j, t, a)
<1>1. s \in Nat \ {0}
  <2>1. \A m, n \in Nat \ {0} : m * n \in Nat \ {0}
    BY SMT
  <2>2. t[a] \in Nat \ {0} /\ Tile \in Nat \ {0}
    BY TileAssumption DEF Positive
  <2>3. QED
    BY <2>1, <2>2
<1>2. size \in Nat \ {0}
  BY OutputIs
<1>3. cuts = [n \in 1 .. c |-> Interval((n - 1) * s, Smaller(n * s, size))]
  BY DEF Cuts
<1> HIDE DEF s, size, cuts
<1>4. c \in Nat \ {0}
  <2>1. 0 \in 0 .. size - 1
    BY <1>2
  <2>2. QED
    BY ONLY <1>1, <1>2, <2>1, ShareIs
<1> HIDE DEF c
<1>5. Len(cuts) = c /\ \A n \in 1 .. c : cuts[n] = Interval((n - 1) * s, Smaller(n * s, size))
  <2>1. Len(cuts) = c
    BY <1>3, <1>4
  <2>2. QED
    BY <1>3, <2>1
<1>6. ASSUME NEW y \in 0 .. size - 1
      PROVE  \A n \in 1 .. c :
               /\ Upright(cuts[n]) /\ ~Empty(cuts[n]) /\ cuts[n].end <= size
               /\ y \in Elements(cuts[n]) <=> n = y \div s + 1
  <2>1. TAKE n \in 1 .. c
  <2>2. /\ (n - 1) * s \in Nat /\ n * s \in Nat /\ (n - 1) * s < size
        /\ n * s = (n - 1) * s + s
        /\ (n - 1) * s <= y /\ y < n * s <=> n = y \div s + 1
    BY ONLY <1>1, <1>2, <1>6, <2>1, ShareIs DEF c
  <2> DEFINE b == (n - 1) * s
             e == n * s
             i == Interval(b, Smaller(e, size))
             q == y \div s
  <2>3. cuts[n] = i
    BY <1>5
  <2>4. b \in Nat /\ e \in Nat /\ b < size /\ e = b + s /\ (b <= y /\ y < e <=> n = q + 1)
    BY <2>2
  <2> HIDE DEF b, e, q
  <2>5. /\ i.begin = b /\ i.end \in Nat /\ i.end > b /\ (y < i.end <=> y < e) /\ i \in Stretch
        /\ i.end <= size
    BY <1>1, <1>2, <2>4 DEF Interval, Smaller, Stretch
  <2> HIDE DEF i
  <2>6. Upright(i) /\ ~Empty(i)
    BY <2>4, <2>5 DEF Upright, Empty
  <2>7. y \in Elements(i) <=> n = q + 1
    BY <1>2, <2>4, <2>5 DEF Elements
  <2>8. QED
    BY <2>3, <2>5, <2>6, <2>7 DEF q
<1>7. \A n \in 1 .. c : Upright(cuts[n]) /\ ~Empty(cuts[n]) /\ cuts[n].end <= size
  <2>1. 0 \in 0 .. size - 1
    BY <1>2
  <2>2. QED
    BY <1>6, <2>1
<1>8. ASSUME NEW y \in 0 .. size - 1
      PROVE  \E k \in 1 .. c : \A n \in 1 .. c : y \in Elements(cuts[n]) <=> n = k
  <2>1. y \div s + 1 \in 1 .. c
    BY ONLY <1>1, <1>2, <1>8, ShareIs DEF c
  <2>2. QED
    BY <1>6, <2>1
<1>9. CutsRight(size, cuts)
  BY <1>4, <1>5, <1>7, <1>8 DEF CutsRight, OnlyIn
<1>10. QED
  BY <1>9 DEF size, cuts

RowOf(n, columns) == (n - 1) \div columns + 1

ColumnOf(n, columns) == ((n - 1) % columns) + 1

CellOnly(rows, columns, y, x) ==
    \E k \in 1 .. rows * columns : \A n \in 1 .. rows * columns :
      RowOf(n, columns) = y /\ ColumnOf(n, columns) = x <=> n = k

LEMMA GridIs ==
  ASSUME NEW rows \in Nat \ {0}, NEW columns \in Nat \ {0}
  PROVE  /\ rows * columns \in Nat \ {0}
         /\ \A n \in 1 .. rows * columns :
              RowOf(n, columns) \in 1 .. rows /\ ColumnOf(n, columns) \in 1 .. columns
         /\ \A y \in 1 .. rows, x \in 1 .. columns : CellOnly(rows, columns, y, x)
<1>1. rows * columns \in Nat \ {0} /\ columns * rows = rows * columns
  BY SMT
<1>2. ASSUME NEW n \in 1 .. rows * columns
      PROVE  /\ RowOf(n, columns) \in 1 .. rows /\ ColumnOf(n, columns) \in 1 .. columns
             /\ n = columns * (RowOf(n, columns) - 1) + ColumnOf(n, columns)
  <2> DEFINE a == n - 1
  <2>1. a \in 0 .. columns * rows - 1 /\ a \in Int /\ n = a + 1
    BY <1>1
  <2> HIDE DEF a
  <2>2. a \div columns \in 0 .. rows - 1 /\ a % columns \in 0 .. columns - 1
    BY ONLY <2>1, PartsOf, rows \in Nat \ {0}, columns \in Nat \ {0}
  <2>3. a = columns * (a \div columns) + (a % columns)
    BY ONLY <2>1, Divided, columns \in Nat \ {0}
  <2> DEFINE q == a \div columns
             r == a % columns
  <2>4. RowOf(n, columns) = q + 1 /\ ColumnOf(n, columns) = r + 1
    BY DEF RowOf, ColumnOf, a
  <2>5. q \in 0 .. rows - 1 /\ r \in 0 .. columns - 1 /\ a = columns * q + r
    BY <2>2, <2>3
  <2> HIDE DEF q, r
  <2>6. q + 1 - 1 = q /\ columns * q \in Int
    BY <2>5, SMT
  <2>7. RowOf(n, columns) - 1 = q
    BY <2>4, <2>5, <2>6
  <2> DEFINE w == columns * q
  <2>8. columns * (RowOf(n, columns) - 1) = w /\ w \in Int /\ a = w + r
    BY <2>5, <2>6, <2>7
  <2> HIDE DEF w
  <2>9. n = w + (r + 1)
    BY <2>1, <2>5, <2>8
  <2>10. QED
    BY <2>4, <2>5, <2>8, <2>9
<1>3. ASSUME NEW y \in 1 .. rows, NEW x \in 1 .. columns
      PROVE  CellOnly(rows, columns, y, x)
  <2> DEFINE q == y - 1
             r == x - 1
             a == columns * q + r
  <2>1. q \in 0 .. rows - 1 /\ r \in 0 .. columns - 1 /\ y = q + 1 /\ x = r + 1
        /\ q \in Int
    OBVIOUS
  <2> HIDE DEF q, r
  <2>2. a \in 0 .. columns * rows - 1
    BY ONLY <2>1, PartsBound, rows \in Nat \ {0}, columns \in Nat \ {0}
  <2>3. a \in Int /\ a = columns * q + r
    BY <1>1, <2>2
  <2> HIDE DEF a
  <2>4. a \div columns = q /\ a % columns = r
    BY ONLY <2>1, <2>3, Quotient, columns \in Nat \ {0}
  <2> DEFINE k == a + 1
  <2>5. k \in 1 .. rows * columns /\ k - 1 = a
    BY <1>1, <2>2, <2>3
  <2> HIDE DEF k
  <2>6. RowOf(k, columns) = y /\ ColumnOf(k, columns) = x
    BY <2>1, <2>4, <2>5 DEF RowOf, ColumnOf
  <2>7. ASSUME NEW n \in 1 .. rows * columns
        PROVE  RowOf(n, columns) = y /\ ColumnOf(n, columns) = x <=> n = k
    <3>1. n = columns * (RowOf(n, columns) - 1) + ColumnOf(n, columns)
      BY <1>2
    <3>2. k = columns * (RowOf(k, columns) - 1) + ColumnOf(k, columns)
      BY <1>2, <2>5
    <3>3. QED
      BY <2>6, <3>1, <3>2
  <2>8. QED
    BY <2>5, <2>7 DEF CellOnly
<1>4. QED
  BY <1>1, <1>2, <1>3

-----------------------------------------------------------------------------
(***************************************************************************)
(* A candidate whose intervals all lie within the streams: every chunk of  *)
(* it is the schedule of two cones that fit together.                      *)
(***************************************************************************)
TraceOfJob(j, trace) ==
    /\ TraceIs(trace) /\ Len(trace.routes) = Len(j.scheme.steps)
    /\ \A i \in 1 .. Len(trace.routes) : trace.routes[i].type = j.scheme.steps[i].type

LEMMA TracesAre ==
  ASSUME NEW j \in Jobs, NEW a \in Axes
  PROVE  AxisOK(AxisJob(j, a)) /\ TraceOfJob(j, AxisTraces(j)[a])
<1> DEFINE i == AxisJob(j, a)
<1>1. AxisOK(i)
  BY AxisJobs
<1>2. AxisTraces(j)[a] = AxisTrace(i) /\ i.scheme = j.scheme
  BY DEF AxisTraces, AxisJob
<1> HIDE DEF i
<1>3. PICK f : TraceSteps(i, f)
  BY <1>1, AxisTraceIs
<1>4. TraceIs(AxisTrace(i))
  BY <1>1, RoutesAre DEF TraceIs
<1>5. /\ Len(AxisTrace(i).routes) = Len(j.scheme.steps)
      /\ \A k \in 1 .. Len(AxisTrace(i).routes) :
           AxisTrace(i).routes[k].type = j.scheme.steps[k].type
  BY <1>2, <1>3 DEF TraceSteps
<1>6. QED
  BY <1>1, <1>2, <1>4, <1>5 DEF TraceOfJob, i

ConesOf(j, t) == AxisCones(j, AxisTraces(j), t)

Candidate(j, t, chunks) ==
    /\ Positive(t) /\ chunks = ChunksOf(j, t, ConesOf(j, t))
    /\ \A a \in Axes : \A n \in 1 .. Len(ConesOf(j, t)[a]) : ConesOf(j, t)[a][n].valid

\* A cut of either axis.
Place2(j, t, k) == \A a \in Axes : k[a] \in 1 .. Len(Cuts(j, t, a))

ConesAt(j, t, k) == [a \in Axes |-> ConesOf(j, t)[a][k[a]]]

CutsAt(j, t, k) == [a \in Axes |-> Cuts(j, t, a)[k[a]]]

GridAt(n, columns) == [y |-> RowOf(n, columns), x |-> ColumnOf(n, columns)]

LEMMA ConesOfIs ==
  ASSUME NEW j \in Jobs, NEW t, Positive(t), NEW a \in Axes
  PROVE  /\ Len(ConesOf(j, t)[a]) = Len(Cuts(j, t, a)) /\ Len(Cuts(j, t, a)) \in Nat \ {0}
         /\ \A n \in 1 .. Len(Cuts(j, t, a)) :
              ConesOf(j, t)[a][n] = Cone(j, AxisTraces(j), a, Cuts(j, t, a)[n])
<1> DEFINE cuts == Cuts(j, t, a)
           m == Len(cuts)
           C(n) == Cone(j, AxisTraces(j), a, cuts[n])
           F == [n \in 1 .. m |-> C(n)]
<1>1. CutsRight(OutputSize(j)[a], cuts)
  BY CutsAre
<1>2. m \in Nat \ {0}
  BY <1>1 DEF CutsRight
<1>3. ConesOf(j, t)[a] = F
  BY DEF ConesOf, AxisCones
<1> HIDE DEF C, m
<1>4. Len(F) = m /\ \A n \in 1 .. m : F[n] = C(n)
  BY <1>2
<1>5. QED
  BY <1>2, <1>3, <1>4 DEF C, m

LEMMA ChunksAre ==
  ASSUME NEW j \in Jobs, NEW t, Positive(t), NEW chunks,
         chunks = ChunksOf(j, t, ConesOf(j, t))
  PROVE  LET rows == Len(Cuts(j, t, "y"))
             columns == Len(Cuts(j, t, "x"))
         IN /\ rows \in Nat \ {0} /\ columns \in Nat \ {0}
            /\ IsSeq(chunks) /\ Len(chunks) = rows * columns
            /\ \A n \in 1 .. rows * columns :
                 /\ Place2(j, t, GridAt(n, columns))
                 /\ chunks[n] = Chunk(j, ConesAt(j, t, GridAt(n, columns)),
                                      CutsAt(j, t, GridAt(n, columns)))
<1> DEFINE rows == Len(Cuts(j, t, "y"))
           columns == Len(Cuts(j, t, "x"))
           cones == ConesOf(j, t)
           C(n) == Chunk(j, ConesAt(j, t, GridAt(n, columns)), CutsAt(j, t, GridAt(n, columns)))
           N == rows * columns
           F == [n \in 1 .. N |-> C(n)]
<1>1. "y" \in Axes /\ "x" \in Axes /\ Axes = {"y", "x"}
  BY DEF Axes
<1>2. /\ rows \in Nat \ {0} /\ columns \in Nat \ {0}
      /\ Len(cones["y"]) = rows /\ Len(cones["x"]) = columns
  BY <1>1, ConesOfIs
<1>3. N \in Nat \ {0}
      /\ \A n \in 1 .. N : RowOf(n, columns) \in 1 .. rows /\ ColumnOf(n, columns) \in 1 .. columns
  <2> HIDE DEF rows, columns
  <2>1. QED
    BY ONLY <1>2, GridIs
<1>4. \A n \in 1 .. N : Place2(j, t, GridAt(n, columns))
  BY <1>1, <1>3 DEF Place2, GridAt
<1>5. chunks = F
  <2>1. chunks = ChunksOf(j, t, cones)
    OBVIOUS
  <2>2. cones.x = cones["x"] /\ cones.y = cones["y"]
    OBVIOUS
  <2> HIDE DEF cones, rows, columns
  <2>3. Len(cones.x) = columns /\ Len(cones.y) = rows
    BY <1>2, <2>2
  <2> DEFINE w == Len(cones.x)
             At(n) == [y |-> (n - 1) \div w + 1, x |-> ((n - 1) % w) + 1]
             P(n) == [a \in Axes |-> cones[a][At(n)[a]]]
             Q(n) == [a \in Axes |-> [b \in Axes |-> Cuts(j, t, b)][a][At(n)[a]]]
  <2>4. ChunksOf(j, t, cones) = [n \in 1 .. Len(cones.y) * w |-> Chunk(j, P(n), Q(n))]
    BY DEF ChunksOf
  <2>5. \A n : At(n) = GridAt(n, columns)
    BY <2>3 DEF GridAt, RowOf, ColumnOf
  <2> HIDE DEF At
  <2>6. \A n : P(n) = ConesAt(j, t, GridAt(n, columns))
    BY <2>5 DEF ConesAt, cones
  <2>7. \A n : Q(n) = CutsAt(j, t, GridAt(n, columns))
    BY <2>5 DEF CutsAt
  <2> HIDE DEF P, Q
  <2>8. \A n : Chunk(j, P(n), Q(n)) = C(n)
    BY <2>6, <2>7
  <2>9. w = columns
    BY <2>3
  <2> HIDE DEF w, C
  <2>10. QED
    BY <2>1, <2>3, <2>4, <2>8, <2>9
<1> HIDE DEF C, N, rows, columns
<1>6. IsSeq(F) /\ Len(F) = N /\ \A n \in 1 .. N : F[n] = C(n)
  <2>1. \A n \in 1 .. N : F[n] = C(n)
    OBVIOUS
  <2>2. F = [n \in 1 .. N |-> F[n]] /\ N \in Nat
    BY <1>3
  <2> HIDE DEF F
  <2>3. IsSeq(F) /\ Len(F) = N
    BY ONLY <2>2, FunctionIsSeq
  <2>4. QED
    BY <2>1, <2>3
<1> HIDE DEF F
<1>7. QED
  BY <1>2, <1>4, <1>5, <1>6 DEF C, N, rows, columns

FirstOf(j) == FirstAxis[IF j.inverse THEN "ilwt" ELSE "lwt"]

LEMMA ChunkAsMade ==
  ASSUME NEW j, j.inverse \in BOOLEAN, NEW cone, NEW output
  PROVE  /\ FirstOf(j) \in Axes /\ Across[FirstOf(j)] \in Axes
         /\ Axes = {FirstOf(j), Across[FirstOf(j)]}
         /\ ChunkIs(Chunk(j, cone, output), FirstOf(j), cone)
         /\ Chunk(j, cone, output).output = output
<1>1. FirstOf(j) \in Axes
  BY DEF FirstOf, FirstAxis, Axes
<1>2. Axes = {FirstOf(j), Across[FirstOf(j)]}
  BY <1>1, RectangleIs
<1>3. ChunkIs(Chunk(j, cone, output), FirstOf(j), cone)
  BY DEF ChunkIs, Chunk, FirstOf
<1>4. QED
  BY <1>1, <1>2, <1>3 DEF Chunk

LEMMA CandidateFits ==
  ASSUME NEW j \in Jobs, NEW t, NEW chunks, Candidate(j, t, chunks), NEW k, Place2(j, t, k)
  PROVE  LET cone == ConesAt(j, t, k)
             n == Len(j.scheme.steps)
         IN /\ ConesFit(FirstOf(j), cone, n)
            /\ ~j.inverse =>
                 \A a \in Axes : \E N : /\ ConeFits(cone[a], n, N)
                                        /\ ForwardMore(AxisTraces(j)[a], cone[a], n, N)
<1> DEFINE cone == ConesAt(j, t, k)
           n == Len(j.scheme.steps)
<1>1. j.inverse \in BOOLEAN
  BY JobsAssumption
<1>2. ASSUME NEW a \in Axes
      PROVE  \E N : /\ ConeFits(cone[a], n, N)
                    /\ ~j.inverse => ForwardMore(AxisTraces(j)[a], cone[a], n, N)
  <2> DEFINE i == AxisJob(j, a)
             trace == AxisTraces(j)[a]
             output == Cuts(j, t, a)[k[a]]
  <2>1. AxisOK(i) /\ TraceOfJob(j, trace)
    BY TracesAre
  <2>2. TraceIs(trace) /\ Len(trace.routes) = n
    BY <2>1 DEF TraceOfJob
  <2>3. Positive(t) /\ k[a] \in 1 .. Len(Cuts(j, t, a))
    BY DEF Candidate, Place2
  <2>4. /\ cone[a] = Cone(j, AxisTraces(j), a, output) /\ cone[a] = ConesOf(j, t)[a][k[a]]
        /\ k[a] \in 1 .. Len(ConesOf(j, t)[a])
    <3>1. cone[a] = ConesOf(j, t)[a][k[a]]
      BY DEF ConesAt
    <3>2. QED
      BY <2>3, <3>1, ConesOfIs
  <2>5. cone[a].valid
    BY <2>4 DEF Candidate
  <2>6. CutsRight(OutputSize(j)[a], Cuts(j, t, a))
    BY <2>3, CutsAre
  <2>7. Upright(output) /\ ~Empty(output)
    BY <2>3, <2>6 DEF CutsRight
  <2>8. cone[a] = IF j.inverse THEN InverseCone(i, trace, output)
                  ELSE ForwardCone(i, trace, output)
    BY <2>4 DEF Cone
  <2> HIDE DEF i, trace, output, cone
  <2>9. CASE j.inverse
    <3>1. cone[a] = InverseCone(i, trace, output)
      BY <2>8, <2>9
    <3>2. InverseCone(i, trace, output).valid
      BY <2>5, <3>1
    <3>3. \E N : ConeFits(InverseCone(i, trace, output), Len(trace.routes), N)
      BY ONLY <2>1, <2>2, <2>7, <3>2, InverseConeFits
    <3>4. QED
      BY <2>2, <2>9, <3>1, <3>3
  <2>10. CASE ~j.inverse
    <3>1. cone[a] = ForwardCone(i, trace, output)
      BY <2>8, <2>10
    <3>2. ForwardCone(i, trace, output).valid
      BY <2>5, <3>1
    <3>3. \E N : /\ ConeFits(ForwardCone(i, trace, output), Len(trace.routes), N)
                 /\ ForwardMore(trace, ForwardCone(i, trace, output), Len(trace.routes), N)
      BY ONLY <2>1, <2>2, <2>7, <3>2, ForwardConeFits
    <3>4. QED
      BY <2>2, <3>1, <3>3 DEF trace
  <2>11. QED
    BY <1>1, <2>9, <2>10
<1>3. FirstOf(j) \in Axes /\ Across[FirstOf(j)] \in Axes
  BY <1>1, ChunkAsMade
<1> HIDE DEF cone, n
<1>4. ConesFit(FirstOf(j), cone, n)
  BY <1>2, <1>3 DEF ConesFit
<1>5. ~j.inverse => \A a \in Axes : \E N : /\ ConeFits(cone[a], n, N)
                                          /\ ForwardMore(AxisTraces(j)[a], cone[a], n, N)
  BY <1>2
<1>6. QED
  BY <1>4, <1>5 DEF cone, n

LeftIn(chunk) == StoredBefore(chunk, Routes(chunk), Len(Routes(chunk)) + 1)

LEMMA CandidateRuns ==
  ASSUME NEW j \in Jobs, NEW t, NEW chunks, Candidate(j, t, chunks)
  PROVE  /\ IsSeq(chunks) /\ Len(chunks) \in Nat \ {0}
         /\ \A n \in 1 .. Len(chunks) :
              /\ RunsWell(chunks[n], Routes(chunks[n]))
              /\ ~j.inverse /\ (\E l : Inlined(AxisTraces(j).y.routes, l)) =>
                   \A sy, sx \in Streams :
                     LeftIn(chunks[n])[chunks[n].final[sy][sx]] = chunks[n].finalRect[sy][sx]
<1> DEFINE rows == Len(Cuts(j, t, "y"))
           columns == Len(Cuts(j, t, "x"))
           u == FirstOf(j)
           v == Across[u]
           m == Len(j.scheme.steps)
<1>1. Positive(t) /\ chunks = ChunksOf(j, t, ConesOf(j, t)) /\ j.inverse \in BOOLEAN
  BY JobsAssumption DEF Candidate
<1>2. /\ rows \in Nat \ {0} /\ columns \in Nat \ {0}
      /\ IsSeq(chunks) /\ Len(chunks) = rows * columns
      /\ \A n \in 1 .. rows * columns :
           /\ Place2(j, t, GridAt(n, columns))
           /\ chunks[n] = Chunk(j, ConesAt(j, t, GridAt(n, columns)),
                                CutsAt(j, t, GridAt(n, columns)))
  BY <1>1, ChunksAre
<1> HIDE DEF rows, columns
<1>3. rows * columns \in Nat \ {0}
  BY ONLY <1>2, GridIs
<1>4. ASSUME NEW n \in 1 .. Len(chunks)
      PROVE  /\ RunsWell(chunks[n], Routes(chunks[n]))
             /\ ~j.inverse /\ (\E l : Inlined(AxisTraces(j).y.routes, l)) =>
                  \A sy, sx \in Streams :
                    LeftIn(chunks[n])[chunks[n].final[sy][sx]] = chunks[n].finalRect[sy][sx]
  <2> DEFINE k == GridAt(n, columns)
             cone == ConesAt(j, t, k)
             output == CutsAt(j, t, k)
             chunk == chunks[n]
             run == Routes(chunk)
  <2>1. Place2(j, t, k) /\ chunk = Chunk(j, cone, output)
    BY <1>2
  <2> HIDE DEF k
  <2>2. /\ ConesFit(u, cone, m)
        /\ ~j.inverse =>
             \A a \in Axes : \E N : /\ ConeFits(cone[a], m, N)
                                    /\ ForwardMore(AxisTraces(j)[a], cone[a], m, N)
    BY <2>1, CandidateFits
  <2> HIDE DEF cone, output, chunk
  <2>3. u \in Axes /\ v \in Axes /\ ChunkIs(chunk, u, cone)
    <3>1. ChunkIs(Chunk(j, cone, output), u, cone) /\ u \in Axes /\ v \in Axes
      BY <1>1, ChunkAsMade
    <3>2. QED
      BY <2>1, <3>1
  <2>4. RunOf(chunk, run)
    BY DEF RunOf, Routes
  <2> HIDE DEF u, m, run
  <2>5. RunsWell(chunk, run)
    BY ONLY <2>2, <2>3, <2>4, ChunkRuns
  <2>6. ASSUME ~j.inverse, NEW l, Inlined(AxisTraces(j).y.routes, l)
        PROVE  \A sy, sx \in Streams :
                 StoredBefore(chunk, run, Len(run) + 1)[chunk.final[sy][sx]]
                   = chunk.finalRect[sy][sx]
    <3> DEFINE traces2 == AxisTraces(j)
    <3>1. TraceIs(traces2[v]) /\ \E i : Inlined(traces2[v].routes, i)
      <4>1. "y" \in Axes
        BY DEF Axes
      <4>2. TraceOfJob(j, traces2["y"]) /\ TraceOfJob(j, traces2[v])
        BY <2>3, <4>1, TracesAre
      <4> DEFINE R == traces2["y"].routes
                 S == traces2[v].routes
      <4>3. /\ Len(S) = Len(R) /\ \A i \in 1 .. Len(R) : S[i].type = R[i].type
        BY <4>2 DEF TraceOfJob
      <4>4. traces2["y"].routes = AxisTraces(j).y.routes
        OBVIOUS
      <4>5. Inlined(R, l)
        BY <2>6, <4>4
      <4> HIDE DEF R, S
      <4>6. Len(R) \in Nat /\ Len(R) >= 3 /\ SwapsAfter(R, l)
            /\ {R[Len(R) - 1].type, R[Len(R)].type} = {"scale-even", "scale-odd"}
        BY <4>5 DEF Inlined
      <4> DEFINE w == Len(R)
      <4>7. w \in Nat /\ w >= 3 /\ l \in 1 .. w - 2 /\ IsLift(R[l].type)
            /\ \A i \in l + 1 .. w - 2 : R[i].type = "swap"
        BY <4>6 DEF SwapsAfter
      <4>8. Len(S) = w /\ \A i \in 1 .. w : S[i].type = R[i].type
        BY <4>3
      <4> HIDE DEF w
      <4>9. l \in 1 .. w /\ w \in 1 .. w /\ w - 1 \in 1 .. w
            /\ \A i \in l + 1 .. w - 2 : i \in 1 .. w
        BY <4>7
      <4>10. IsLift(S[l].type) /\ \A i \in l + 1 .. w - 2 : S[i].type = "swap"
        BY <4>7, <4>8, <4>9
      <4>11. S[w].type = R[w].type /\ S[w - 1].type = R[w - 1].type
        BY <4>8, <4>9
      <4>12. {S[w - 1].type, S[w].type} = {"scale-even", "scale-odd"}
        BY <4>6, <4>11 DEF w
      <4>13. Inlined(S, l)
        BY <4>7, <4>8, <4>10, <4>12 DEF Inlined, SwapsAfter
      <4>14. QED
        BY <4>2, <4>13 DEF TraceOfJob, S
    <3>2. ForwardCones(u, cone, traces2, m)
      BY <2>2, <2>3, <2>6, <3>1 DEF ForwardCones, v
    <3> HIDE DEF traces2
    <3>3. QED
      BY ONLY <2>3, <2>4, <3>2, ChunkExactly
  <2>7. QED
    BY <2>5, <2>6 DEF chunk, run, LeftIn
<1>5. QED
  BY <1>2, <1>3, <1>4

HasSample(chunk, y, x) == y \in Elements(chunk.output.y) /\ x \in Elements(chunk.output.x)

OnlyChunk(chunks, y, x, k) == \A n \in 1 .. Len(chunks) : HasSample(chunks[n], y, x) <=> n = k

LEMMA CandidateCovers ==
  ASSUME NEW j \in Jobs, NEW t, NEW chunks, Candidate(j, t, chunks),
         NEW y \in 0 .. OutputSize(j)["y"] - 1, NEW x \in 0 .. OutputSize(j)["x"] - 1
  PROVE  \E k \in 1 .. Len(chunks) : OnlyChunk(chunks, y, x, k)
<1> DEFINE rows == Len(Cuts(j, t, "y"))
           columns == Len(Cuts(j, t, "x"))
<1>1. Positive(t) /\ chunks = ChunksOf(j, t, ConesOf(j, t)) /\ j.inverse \in BOOLEAN
  BY JobsAssumption DEF Candidate
<1>2. "y" \in Axes /\ "x" \in Axes
  BY DEF Axes
<1>3. PICK ky \in 1 .. rows : OnlyIn(Cuts(j, t, "y"), y, ky)
  <2>1. CutsRight(OutputSize(j)["y"], Cuts(j, t, "y"))
    BY <1>1, <1>2, CutsAre
  <2>2. QED
    BY <2>1 DEF CutsRight
<1>4. PICK kx \in 1 .. columns : OnlyIn(Cuts(j, t, "x"), x, kx)
  <2>1. CutsRight(OutputSize(j)["x"], Cuts(j, t, "x"))
    BY <1>1, <1>2, CutsAre
  <2>2. QED
    BY <2>1 DEF CutsRight
<1>5. /\ rows \in Nat \ {0} /\ columns \in Nat \ {0}
      /\ Len(chunks) = rows * columns
      /\ \A n \in 1 .. rows * columns :
           /\ Place2(j, t, GridAt(n, columns))
           /\ chunks[n] = Chunk(j, ConesAt(j, t, GridAt(n, columns)),
                                CutsAt(j, t, GridAt(n, columns)))
  BY <1>1, ChunksAre
<1> HIDE DEF rows, columns
<1>6. PICK k \in 1 .. rows * columns : \A n \in 1 .. rows * columns :
        RowOf(n, columns) = ky /\ ColumnOf(n, columns) = kx <=> n = k
  <2>1. CellOnly(rows, columns, ky, kx)
    BY ONLY <1>3, <1>4, <1>5, GridIs
  <2>2. QED
    BY <2>1 DEF CellOnly
<1>7. ASSUME NEW n \in 1 .. rows * columns
      PROVE  HasSample(chunks[n], y, x) <=> n = k
  <2> DEFINE g == GridAt(n, columns)
  <2>1. chunks[n].output = CutsAt(j, t, g)
    <3>1. chunks[n] = Chunk(j, ConesAt(j, t, g), CutsAt(j, t, g))
      BY <1>5
    <3> HIDE DEF g
    <3>2. QED
      BY <3>1 DEF Chunk
  <2>2. /\ CutsAt(j, t, g).y = Cuts(j, t, "y")[RowOf(n, columns)]
        /\ CutsAt(j, t, g).x = Cuts(j, t, "x")[ColumnOf(n, columns)]
    BY <1>2 DEF CutsAt, GridAt
  <2>3. RowOf(n, columns) \in 1 .. rows /\ ColumnOf(n, columns) \in 1 .. columns
    BY ONLY <1>5, <1>7, GridIs
  <2> HIDE DEF g
  <2>4. y \in Elements(chunks[n].output.y) <=> RowOf(n, columns) = ky
    BY <1>3, <2>1, <2>2, <2>3 DEF OnlyIn, rows
  <2>5. x \in Elements(chunks[n].output.x) <=> ColumnOf(n, columns) = kx
    BY <1>4, <2>1, <2>2, <2>3 DEF OnlyIn, columns
  <2>6. QED
    BY <1>6, <2>4, <2>5 DEF HasSample
<1>8. OnlyChunk(chunks, y, x, k)
  BY <1>5, <1>7 DEF OnlyChunk
<1> DEFINE N == rows * columns
<1>9. k \in 1 .. N /\ Len(chunks) = N
  BY <1>5
<1> HIDE DEF N
<1>10. QED
  BY <1>8, <1>9

-----------------------------------------------------------------------------
(***************************************************************************)
(* The planes that are allocated are large enough for every chunk, and so  *)
(* every chunk is served.                                                  *)
(***************************************************************************)
AllRunWell(chunks) ==
    /\ IsSeq(chunks) /\ Len(chunks) \in Nat \ {0}
    /\ \A n \in 1 .. Len(chunks) : RunsWell(chunks[n], Routes(chunks[n]))

LargestOf(chunks, p, a) == Max({PlaneShape(chunk, p)[a] : chunk \in ToSet(chunks)})

LEMMA LargestIs ==
  ASSUME NEW chunks, AllRunWell(chunks), NEW p \in Planes, NEW a \in Axes
  PROVE  /\ LargestOf(chunks, p, a) \in Nat
         /\ \A n \in 1 .. Len(chunks) : PlaneShape(chunks[n], p)[a] <= LargestOf(chunks, p, a)
<1> DEFINE N == Len(chunks)
           f == [n \in 1 .. N |-> PlaneShape(chunks[n], p)[a]]
           T == {f[n] : n \in 1 .. N}
<1>1. N \in Nat \ {0} /\ IsSeq(chunks)
  BY DEF AllRunWell
<1>2. \A n \in 1 .. N : PlaneShape(chunks[n], p)[a] \in Nat
  <2>1. TAKE n \in 1 .. N
  <2>2. RunsWell(chunks[n], Routes(chunks[n])) /\ RunOf(chunks[n], Routes(chunks[n]))
    BY DEF AllRunWell, RunOf, Routes
  <2>3. QED
    BY <2>2, ShapeIs
<1>3. DOMAIN chunks = 1 .. N
  <2>1. PICK X : chunks \in Seq(X)
    BY <1>1 DEF IsSeq
  <2>2. QED
    BY <2>1
<1>4. {PlaneShape(chunk, p)[a] : chunk \in ToSet(chunks)} = T
  <2> HIDE DEF N
  <2>1. ToSet(chunks) = {chunks[n] : n \in 1 .. N}
    BY <1>3 DEF ToSet
  <2>2. QED
    BY <2>1
<1> HIDE DEF N
<1>5. IsFiniteSet(T)
  <2>1. DOMAIN f = 1 .. N /\ N \in Nat
    BY <1>1
  <2> HIDE DEF f
  <2>2. QED
    BY ONLY <2>1, ImageIsFinite
<1>6. T # {} /\ T \subseteq Int /\ \A n \in 1 .. N : f[n] = PlaneShape(chunks[n], p)[a]
  BY <1>1, <1>2
<1>7. \A x \in T : x \in Nat
  BY <1>2
<1>8. \A n \in 1 .. N : f[n] \in T
  OBVIOUS
<1> HIDE DEF T, f
<1>9. Max(T) \in T /\ \A x \in T : x <= Max(T)
  BY <1>5, <1>6, MaxFinite
<1>10. QED
  BY <1>4, <1>6, <1>7, <1>8, <1>9 DEF LargestOf, N

LEMMA ServedIs ==
  ASSUME NEW chunk, RunsWell(chunk, Routes(chunk)),
         \A p \in Planes, a \in Axes : /\ planes[p][a] \in Nat
                                       /\ PlaneShape(chunk, p)[a] <= planes[p][a]
  PROVE  ChunkServed(chunk)
<1> DEFINE run == Routes(chunk)
           n == Len(run)
<1>1. RunOf(chunk, run) /\ RunsWell(chunk, run)
  BY DEF RunOf, Routes
<1> HIDE DEF run
<1>2. n \in Nat
  BY <1>1 DEF RunsWell
<1>3. ASSUME NEW i \in 1 .. n + 1 PROVE FitsPlanes(StoredBefore(chunk, run, i))
  <2> DEFINE stored == StoredBefore(chunk, run, i)
  <2>1. SUFFICES ASSUME NEW p \in Planes, NEW a \in Axes, ~EmptyRectangle(stored[p])
                 PROVE  Span(stored[p][a]) <= planes[p][a]
    BY DEF FitsPlanes
  <2> DEFINE rect == stored[p]
  <2>2. RectOK(rect) /\ (EmptyRectangle(rect) \/ <<p, rect>> \in Uses(chunk))
    BY <1>1, <1>3, StoredUsed
  <2> HIDE DEF rect
  <2>3. ~EmptyRectangle(rect)
    BY <2>1 DEF rect
  <2> DEFINE use == <<p, rect>>
  <2>4. use \in Uses(chunk) /\ use[1] = p /\ use[2] = rect
    BY <2>2, <2>3
  <2> HIDE DEF use
  <2>5. PlaneShape(chunk, p)[a] \in Nat /\ Span(use[2][a]) <= PlaneShape(chunk, p)[a]
    BY <1>1, <2>3, <2>4, ShapeIs
  <2>6. Upright(rect[a])
    BY <2>2 DEF RectOK
  <2>7. Span(rect[a]) \in Nat
    BY <2>6, SpanIs
  <2>8. planes[p][a] \in Nat /\ PlaneShape(chunk, p)[a] <= planes[p][a]
    OBVIOUS
  <2>9. Span(rect[a]) <= planes[p][a]
    BY <2>4, <2>5, <2>7, <2>8
  <2>10. QED
    BY <2>9 DEF rect
<1>4. \A i \in 1 .. n : Executable(run[i]) => RouteHeld(StoredBefore(chunk, run, i), run[i])
  BY <1>1 DEF RunsWell
<1>5. \A i \in 1 .. n + 1 :
        /\ FitsPlanes(StoredBefore(chunk, run, i))
        /\ (i <= n /\ Executable(run[i])) => RouteHeld(StoredBefore(chunk, run, i), run[i])
  <2>1. TAKE i \in 1 .. n + 1
  <2>2. i <= n => i \in 1 .. n
    BY <1>2
  <2>3. QED
    BY <1>3, <1>4, <2>2
<1>6. \A sy, sx \in Streams :
        Within(StoredBefore(chunk, run, n + 1)[chunk.final[sy][sx]], chunk.finalRect[sy][sx])
  BY <1>1 DEF RunsWell
<1>7. QED
  BY <1>5, <1>6 DEF ChunkServed, run

LEMMA AlignedIs ==
  ASSUME NEW chunk,
         \A sy, sx \in Streams : LeftIn(chunk)[chunk.final[sy][sx]] = chunk.finalRect[sy][sx]
  PROVE  ResultsAligned(chunk)
BY DEF ResultsAligned, LeftIn

LEMMA UsesNatural ==
  ASSUME NEW chunk, RunsWell(chunk, Routes(chunk))
  PROVE  \A use \in Uses(chunk) : use[1] \in Planes /\ Natural(use[2])
<1>1. RunOf(chunk, Routes(chunk))
  BY DEF RunOf, Routes
<1>2. \A use \in Uses(chunk) : UsedAt(use)
  BY <1>1, UsesAre
<1>3. ASSUME NEW use \in Uses(chunk) PROVE use[1] \in Planes /\ Natural(use[2])
  <2> DEFINE r == use[2]
  <2>1. use[1] \in Planes /\ RectOK(r)
    BY <1>2 DEF UsedAt
  <2> HIDE DEF r
  <2>2. \A a \in Axes : r[a].begin \in Nat /\ r[a].end \in Nat
    BY <2>1, UprightNat DEF RectOK
  <2>3. QED
    BY <2>1, <2>2 DEF Natural, r
<1>4. QED
  BY <1>3

LEMMA ResultsApart ==
  ASSUME NEW chunk, RunsWell(chunk, Routes(chunk)),
         NEW p \in Streams \X Streams, NEW q \in Streams \X Streams,
         chunk.final[p[1]][p[2]] = chunk.final[q[1]][q[2]]
  PROVE  p = q
<1>1. /\ p[1] \in Streams /\ p[2] \in Streams /\ q[1] \in Streams /\ q[2] \in Streams
      /\ p = <<p[1], p[2]>> /\ q = <<q[1], q[2]>>
  OBVIOUS
<1>2. p[1] = q[1] /\ p[2] = q[2]
  BY <1>1 DEF RunsWell
<1>3. QED
  BY <1>1, <1>2

-----------------------------------------------------------------------------
(***************************************************************************)
(* Every plane is used by a forward chunk: four are loaded with something, *)
(* and the first pass, in any of its lifts, uses all three of its planes.  *)
(***************************************************************************)
UsedSomehow(chunk, p) == \E use \in Uses(chunk) : use[1] = p /\ ~EmptyRectangle(use[2])

LEMMA HomesUsed ==
  ASSUME NEW chunk, NEW cone, chunk.initial = Corners(cone, "initial"),
         \A a \in Axes, s \in Streams : ~Empty(cone[a].initial[s]),
         NEW p \in Planes, p # "Scratch"
  PROVE  UsedSomehow(chunk, p)
<1>1. PICK sy \in Streams, sx \in Streams : p = HomePlane[sy][sx]
  BY DEF Planes, HomePlane, Streams
<1> DEFINE rect == chunk.initial[sy][sx]
           use == <<HomePlane[sy][sx], rect>>
<1>2. rect = [y |-> cone.y.initial[sy], x |-> cone.x.initial[sx]]
  BY DEF Corners
<1>3. ~Empty(cone.y.initial[sy]) /\ ~Empty(cone.x.initial[sx])
  BY DEF Axes
<1> HIDE DEF rect
<1>4. ~EmptyRectangle(rect)
  BY <1>2, <1>3 DEF EmptyRectangle, Axes
<1>5. use \in Uses(chunk)
  BY DEF Uses, rect
<1>6. use[1] = p /\ use[2] = rect
  BY <1>1
<1> HIDE DEF use
<1>7. QED
  BY <1>4, <1>5, <1>6 DEF UsedSomehow

LEMMA LiftUses ==
  ASSUME NEW axis \in Axes, NEW across, ~Empty(across), NEW slots \in SlotSet,
         NEW q, IsLift(q.type), ~Empty(q.source), ~Empty(q.base), ~Empty(q.output),
         NEW p \in PlaneSet(slots), NEW chunk, NEW i \in DOMAIN Routes(chunk),
         Routes(chunk)[i] = PlaneRoute(axis, across, slots, q)
  PROVE  UsedSomehow(chunk, p)
<1> DEFINE r == PlaneRoute(axis, across, slots, q)
           t == Target(q.type)
<1>1. q.type \in StepTypes /\ q.type # "swap"
  BY DEF IsLift, StepTypes
<1>2. /\ r.sourceRect = Rectangle(axis, q.source, across)
      /\ r.baseRect = Rectangle(axis, q.base, across)
      /\ r.outputRect = Rectangle(axis, q.output, across)
      /\ r.source = slots[Reads(q)] /\ r.base = slots[t] /\ r.output = slots["free"]
  BY <1>1, PlaneRouteIs
<1>3. ~EmptyRectangle(r.sourceRect) /\ ~EmptyRectangle(r.baseRect) /\ ~EmptyRectangle(r.outputRect)
  BY <1>2, RectangleIs
<1>4. {t, Reads(q)} = {"even", "odd"}
  BY DEF Reads, IsLift, Target, Other
<1>5. p \in {slots[t], slots[Reads(q)], slots["free"]}
  BY <1>4 DEF PlaneSet
<1> HIDE DEF r
<1>6. Routes(chunk)[i] = r
  BY DEF r
<1>7. r \in ToSet(Routes(chunk))
  BY <1>6 DEF ToSet
<1>8. {<<r.source, r.sourceRect>>, <<r.base, r.baseRect>>, <<r.output, r.outputRect>>}
        \subseteq Uses(chunk)
  BY <1>7 DEF Uses
<1>9. QED
  BY <1>2, <1>3, <1>5, <1>8 DEF UsedSomehow

LEMMA ForwardUsed ==
  ASSUME NEW u \in Axes, NEW cone, NEW n, NEW Tu, NEW Tv,
         \E N : ConeFits(cone[u], n, N) /\ ForwardMore(Tu, cone[u], n, N),
         \E N : ConeFits(cone[Across[u]], n, N) /\ ForwardMore(Tv, cone[Across[u]], n, N),
         NEW l \in 1 .. n, IsLift(Tu.routes[l].type),
         NEW chunk, ChunkIs(chunk, u, cone), RunsWell(chunk, Routes(chunk)),
         NEW p \in Planes
  PROVE  \A a \in Axes : PlaneShape(chunk, p)[a] > 0
<1> DEFINE v == Across[u]
           cu == cone[u]
           cv == cone[v]
           run == Routes(chunk)
<1>1. PICK Nu : ConeFits(cu, n, Nu) /\ ForwardMore(Tu, cu, n, Nu)
  OBVIOUS
<1>2. PICK Nv : ConeFits(cv, n, Nv) /\ ForwardMore(Tv, cv, n, Nv)
  OBVIOUS
<1>3. Axes = {u, v} /\ v \in Axes
  BY RectangleIs
<1> HIDE DEF cu, cv, v
<1>4. /\ KnownTypes(cu) /\ Len(cu.routes) = n /\ n \in Nat
      /\ KnownTypes(cv) /\ Len(cv.routes) = n
  BY <1>1, <1>2, KnownCone
<1>5. 0 \in 0 .. n /\ l \in 0 .. n /\ l \in 1 .. n
  BY <1>4
<1>6. \A s \in Streams : ~Empty(cu.initial[s]) /\ ~Empty(cv.initial[s])
  <2>1. Nu[0] = cu.initial /\ Nv[0] = cv.initial
    BY <1>1, <1>2 DEF ConeFits
  <2>2. \A s \in Streams : ~Empty(Nu[0][s]) /\ ~Empty(Nv[0][s])
    BY <1>1, <1>2, <1>5 DEF ForwardMore
  <2>3. QED
    BY <2>1, <2>2
<1>7. UsedSomehow(chunk, p)
  <2>1. CASE p # "Scratch"
    <3>1. \A a \in Axes, s \in Streams : ~Empty(cone[a].initial[s])
      BY <1>3, <1>6 DEF cu, cv
    <3>2. QED
      BY <2>1, <3>1, HomesUsed DEF ChunkIs
  <2>2. CASE p = "Scratch"
    <3> DEFINE q == cu.routes[l]
               across == cv.initial.even
    <3>1. ConePair(u, cone, n)
      BY <1>4 DEF ConePair, cu, cv, v
    <3>2. PICK A, B, C, D : Scheduled(u, cone, n, FlattenSeq(Schedule(u, cone).passes), A, B, C, D)
      BY <3>1, ScheduleIs
    <3>3. Scheduled(u, cone, n, run, A, B, C, D)
      BY <3>2 DEF ChunkIs, Routes
    <3>4. /\ LongSeq(n + n + n + n, run)
          /\ PassIs(u, across, cu, StartA(u), A) /\ PassAt(run, 0, u, across, cu, A)
      BY <3>3 DEF Scheduled, cu, cv, v
    <3>5. q.type = Tu.routes[l].type /\ IsLift(q.type) /\ ~Empty(q.source) /\ ~Empty(q.base)
      BY <1>1, <1>5 DEF ForwardMore
    <3>6. ~Empty(q.output)
      <4>1. RouteFits(q, Nu[l - 1], Nu[l])
        BY <1>1, <1>5 DEF ConeFits
      <4>2. q.type # "swap" /\ Target(q.type) \in Streams
        BY <3>5, StreamOf DEF IsLift
      <4>3. q.output = Nu[l][Target(q.type)]
        BY <3>5, <4>1, <4>2 DEF RouteFits
      <4>4. ~Empty(Nu[l][Target(q.type)])
        BY <1>1, <1>5, <4>2 DEF ForwardMore
      <4>5. QED
        BY <4>3, <4>4
    <3>7. ~Empty(across)
      BY <1>6 DEF Streams
    <3> HIDE DEF q, across
    <3>8. l - 1 \in 0 .. n /\ 0 + l = l
      BY <1>4
    <3>9. /\ A \in [0 .. n -> SlotSet] /\ PlaneSet(A[l - 1]) = PlaneSet(StartA(u))
      BY <1>4, <3>4, <3>8 DEF PassIs
    <3>10. A[l - 1] \in SlotSet /\ p \in PlaneSet(A[l - 1])
      <4>1. StartA(u).free = "Scratch"
        BY DEF StartA, Pair
      <4>2. "Scratch" \in PlaneSet(StartA(u))
        BY <4>1 DEF PlaneSet
      <4>3. QED
        BY <2>2, <3>8, <3>9, <4>2
    <3>11. run[l] = PlaneRoute(u, across, A[l - 1], q)
      BY <1>4, <1>5, <3>4, <3>8 DEF PassAt, q
    <3>12. l \in DOMAIN run
      <4>1. PICK X : run \in Seq(X)
        BY <3>4 DEF LongSeq, IsSeq
      <4>2. DOMAIN run = 1 .. Len(run) /\ Len(run) = n + n + n + n
        BY <3>4, <4>1 DEF LongSeq
      <4> HIDE DEF run
      <4>3. QED
        BY <1>4, <4>2
    <3> DEFINE slots == A[l - 1]
    <3>13. slots \in SlotSet /\ p \in PlaneSet(slots) /\ run[l] = PlaneRoute(u, across, slots, q)
      BY <3>10, <3>11
    <3> HIDE DEF slots
    <3>14. QED
      BY <3>5, <3>6, <3>7, <3>12, <3>13, LiftUses
  <2>3. QED
    BY <2>1, <2>2
<1>8. PICK use \in Uses(chunk) : use[1] = p /\ ~EmptyRectangle(use[2])
  BY <1>7 DEF UsedSomehow
<1>9. RunOf(chunk, run)
  BY DEF RunOf, Routes
<1> HIDE DEF run
<1>10. TAKE a \in Axes
<1>11. QED
  BY <1>8, <1>9, ShapeIs DEF run

AllUsed(chunks) ==
    \A n \in 1 .. Len(chunks), p \in Planes, a \in Axes : PlaneShape(chunks[n], p)[a] > 0

LEMMA CandidateUsed ==
  ASSUME NEW j \in Jobs, NEW t, NEW chunks, Candidate(j, t, chunks), ~j.inverse,
         NEW l, Inlined(AxisTraces(j).y.routes, l)
  PROVE  AllUsed(chunks)
<1> DEFINE columns == Len(Cuts(j, t, "x"))
           u == FirstOf(j)
           v == Across[u]
           m == Len(j.scheme.steps)
           Tu == AxisTraces(j)[u]
           Tv == AxisTraces(j)[v]
<1>1. Positive(t) /\ chunks = ChunksOf(j, t, ConesOf(j, t)) /\ j.inverse \in BOOLEAN
  BY JobsAssumption DEF Candidate
<1>2. u = "y" /\ u \in Axes
  BY DEF FirstOf, FirstAxis, Axes
<1>3. Tu.routes = AxisTraces(j).y.routes
  BY <1>2
<1>4. TraceOfJob(j, Tu)
  BY <1>2, TracesAre
<1>5. l \in 1 .. m /\ IsLift(Tu.routes[l].type)
  <2>1. Inlined(Tu.routes, l)
    BY <1>3
  <2> DEFINE R == Tu.routes
  <2>2. Len(R) = m
    BY <1>4 DEF TraceOfJob
  <2> HIDE DEF R, m
  <2>3. m \in Nat /\ l \in 1 .. m - 2 /\ IsLift(R[l].type)
    BY <2>1, <2>2 DEF Inlined, SwapsAfter, R
  <2>4. QED
    BY <2>3 DEF R
<1>6. /\ Len(chunks) = Len(Cuts(j, t, "y")) * columns
      /\ \A n \in 1 .. Len(chunks) :
           /\ Place2(j, t, GridAt(n, columns))
           /\ chunks[n] = Chunk(j, ConesAt(j, t, GridAt(n, columns)),
                                CutsAt(j, t, GridAt(n, columns)))
  BY <1>1, ChunksAre
<1>7. \A n \in 1 .. Len(chunks) : RunsWell(chunks[n], Routes(chunks[n]))
  BY CandidateRuns
<1> HIDE DEF columns
<1>8. ASSUME NEW n \in 1 .. Len(chunks), NEW p \in Planes
      PROVE  \A a \in Axes : PlaneShape(chunks[n], p)[a] > 0
  <2> DEFINE k == GridAt(n, columns)
             cone == ConesAt(j, t, k)
             output == CutsAt(j, t, k)
             chunk == chunks[n]
  <2>1. Place2(j, t, k) /\ chunk = Chunk(j, cone, output)
    BY <1>6
  <2> HIDE DEF k
  <2>2. \A a \in Axes : \E N : /\ ConeFits(cone[a], m, N)
                               /\ ForwardMore(AxisTraces(j)[a], cone[a], m, N)
    BY <2>1, CandidateFits
  <2> HIDE DEF cone, output, chunk
  <2>3. v \in Axes /\ ChunkIs(chunk, u, cone)
    <3>1. ChunkIs(Chunk(j, cone, output), u, cone) /\ v \in Axes
      BY <1>1, ChunkAsMade
    <3>2. QED
      BY <2>1, <3>1
  <2>4. \E N : ConeFits(cone[u], m, N) /\ ForwardMore(Tu, cone[u], m, N)
    BY <1>2, <2>2
  <2>5. \E N : ConeFits(cone[Across[u]], m, N) /\ ForwardMore(Tv, cone[Across[u]], m, N)
    BY <2>2, <2>3
  <2>6. RunsWell(chunk, Routes(chunk))
    BY <1>7 DEF chunk
  <2> HIDE DEF u, m, Tu, Tv
  <2>7. \A a \in Axes : PlaneShape(chunk, p)[a] > 0
    BY ONLY <1>2, <1>5, <1>8, <2>3, <2>4, <2>5, <2>6, ForwardUsed
  <2>8. QED
    BY <2>7 DEF chunk
<1>9. QED
  BY <1>8 DEF AllUsed

-----------------------------------------------------------------------------
(***************************************************************************)
(* The inductive invariant.  The best candidate is always one of those     *)
(* that the planner went through; the planes are those of the best one,    *)
(* once there are any.                                                     *)
(***************************************************************************)
BookKept ==
    /\ phase \in {"trace", "candidates", "planned", "refused"}
    /\ fault \in {"none", "scheme", "mode", "dependency", "unused", "budget", "uniform"}
    /\ phase = "refused" <=> fault # "none"
    /\ fault = "unused" => job.inverse
    /\ job \in Jobs /\ Positive(tiles)

TracesKept ==
    /\ phase # "trace" => traces = AxisTraces(job)
    /\ phase = "candidates" => ScalesAreTerminal(AxisTraces(job).y.routes)

Shaped(j) ==
    /\ ScalesAreTerminal(AxisTraces(j).y.routes)
    /\ j.inverse \/ CanInline(AxisTraces(j).y.routes)

Found == Candidate(job, best.tiles, best.chunks) /\ Shaped(job)

BestKept == best = NotFound \/ Found

Allocated == [p \in Planes |-> [a \in Axes |-> LargestOf(best.chunks, p, a)]]

PlanesKept ==
    /\ phase \in {"trace", "candidates"} => planes = NoPlanes
    /\ phase = "planned" => best # NotFound /\ planes = Allocated
    /\ phase = "refused" => planes = NoPlanes \/ (best # NotFound /\ planes = Allocated)

PlanKept == BookKept /\ TracesKept /\ BestKept /\ PlanesKept

LEMMA ShapedInlined ==
  ASSUME NEW j \in Jobs, Shaped(j), ~j.inverse
  PROVE  \E l : Inlined(AxisTraces(j).y.routes, l)
<1> DEFINE R == AxisTraces(j).y.routes
<1>1. "y" \in Axes
  BY DEF Axes
<1>2. TraceOfJob(j, AxisTraces(j)["y"])
  BY <1>1, TracesAre
<1>3. Len(R) \in Nat
  BY <1>2 DEF TraceOfJob, TraceIs
<1>4. ScalesAreTerminal(R) /\ CanInline(R)
  BY DEF Shaped
<1> HIDE DEF R
<1>5. \E l : Inlined(R, l)
  BY <1>3, <1>4, CanInlineIs
<1>6. QED
  BY <1>5 DEF R

LEMMA CandidateFault ==
  ASSUME NEW j \in Jobs, Shaped(j), NEW t, Positive(t), NEW cones, NEW chunks,
         cones = AxisCones(j, AxisTraces(j), t), chunks = ChunksOf(j, t, cones)
  PROVE  /\ ChunkFault(cones, chunks) \in {"none", "dependency", "unused"}
         /\ ChunkFault(cones, chunks) = "none" => Candidate(j, t, chunks)
         /\ ChunkFault(cones, chunks) = "unused" => j.inverse
<1> DEFINE Bad == \E a \in Axes : \E n \in 1 .. Len(cones[a]) : ~cones[a][n].valid
           Aliased == \E n \in 1 .. Len(chunks) :
                        \E p, q \in Streams \X Streams :
                          p # q /\ chunks[n].final[p[1]][p[2]] = chunks[n].final[q[1]][q[2]]
           NotUsed == \E n \in 1 .. Len(chunks), p \in Planes :
                        Area(PlaneShape(chunks[n], p)) = 0
<1>1. ChunkFault(cones, chunks)
        = IF Bad THEN "dependency" ELSE IF Aliased THEN "aliased"
          ELSE IF NotUsed THEN "unused" ELSE "none"
  BY DEF ChunkFault
<1>2. cones = ConesOf(j, t)
  BY DEF ConesOf
<1>3. ASSUME ~Bad PROVE Candidate(j, t, chunks)
  BY <1>2, <1>3 DEF Candidate
<1>4. ASSUME ~Bad, Aliased PROVE FALSE
  <2>1. PICK n \in 1 .. Len(chunks), p \in Streams \X Streams, q \in Streams \X Streams :
               p # q /\ chunks[n].final[p[1]][p[2]] = chunks[n].final[q[1]][q[2]]
    BY <1>4
  <2>2. RunsWell(chunks[n], Routes(chunks[n]))
    BY <1>3, <1>4, CandidateRuns
  <2>3. QED
    BY <2>1, <2>2, ResultsApart
<1>5. ASSUME ~Bad, NotUsed, ~j.inverse PROVE FALSE
  <2>1. PICK n \in 1 .. Len(chunks), p \in Planes : Area(PlaneShape(chunks[n], p)) = 0
    BY <1>5
  <2>2. PICK l : Inlined(AxisTraces(j).y.routes, l)
    BY <1>5, ShapedInlined
  <2>3. AllUsed(chunks)
    BY <1>3, <1>5, <2>2, CandidateUsed
  <2> DEFINE shape == PlaneShape(chunks[n], p)
  <2>4. \A a \in Axes : shape[a] > 0 /\ shape[a] \in Nat
    <3>1. \A a \in Axes : shape[a] > 0
      BY <2>3 DEF AllUsed
    <3>2. RunsWell(chunks[n], Routes(chunks[n])) /\ RunOf(chunks[n], Routes(chunks[n]))
      BY <1>3, <1>5, CandidateRuns DEF RunOf, Routes
    <3>3. \A a \in Axes : shape[a] \in Nat
      BY <3>2, ShapeIs
    <3>4. QED
      BY <3>1, <3>3
  <2> HIDE DEF shape
  <2>5. shape.y \in Nat \ {0} /\ shape.x \in Nat \ {0}
    BY <2>4 DEF Axes
  <2>6. shape.y * shape.x # 0
    <3>1. \A m, k \in Nat \ {0} : m * k # 0
      BY SMT
    <3>2. QED
      BY <2>5, <3>1
  <2>7. QED
    BY <2>1, <2>6 DEF Area, shape
<1> HIDE DEF Bad, Aliased, NotUsed
<1>6. QED
  BY <1>1, <1>3, <1>4, <1>5

-----------------------------------------------------------------------------
(***************************************************************************)
(* When the cone of a forward chunk is valid: going back it meets the      *)
(* lengths of the trace, and in them what it needs.                        *)
(***************************************************************************)
\* A route reads inside its operands, whatever it writes.
WithinOperands(r) ==
    /\ IsLift(r.type) /\ r.outputLength > 0 =>
         /\ r.baseOffset + r.outputLength <= r.baseLength
         /\ r.sourceOffset + (r.k - 1) + r.outputLength <= r.sourceLength
    /\ IsScale(r.type) =>
         r.sourceOffset = 0 /\ {r.sourceLength, r.baseLength} = {r.outputLength}

LEMMA GeometryWithin ==
  ASSUME NEW source \in StreamType, NEW shift \in Int, NEW k \in Nat \ {0},
         NEW base \in StreamType
  PROVE  LET geo == StepGeometry(source, shift, k, base)
         IN geo.length > 0 =>
              /\ geo.baseOffset + geo.length <= base.length
              /\ geo.sourceOffset + (k - 1) + geo.length <= source.length
<1>1. /\ source.shift \in Int /\ source.length \in Nat
      /\ base.shift \in Int /\ base.length \in Nat
  BY DEF StreamType
<1> DEFINE conv == source.shift + shift + Smaller(source.length, k) - 1
           past == IF source.length >= k THEN source.length - k + 1 ELSE 0
           first == Larger(base.shift, conv)
           end == Smaller(base.shift + base.length, conv + past)
<1>2. conv \in Int /\ past \in Int
  BY <1>1 DEF Smaller
<1>3. StepGeometry(source, shift, k, base) =
        [shift |-> first, length |-> Larger(end - first, 0),
         sourceOffset |-> first - conv, baseOffset |-> first - base.shift]
  BY DEF StepGeometry
<1>4. past + (k - 1) <= source.length \/ past = 0
  BY <1>1
<1> HIDE DEF conv, past
<1>5. /\ first \in Int /\ first >= conv /\ end \in Int
      /\ end <= base.shift + base.length /\ end <= conv + past
  BY <1>1, <1>2 DEF Larger, Smaller
<1> HIDE DEF first, end
<1>6. Larger(end - first, 0) > 0 =>
        /\ Larger(end - first, 0) = end - first
        /\ first - base.shift + (end - first) <= base.length
        /\ past # 0 /\ first - conv + (end - first) <= past
  BY <1>1, <1>2, <1>5 DEF Larger
<1>7. Larger(end - first, 0) > 0 =>
        first - conv + (k - 1) + (end - first) <= source.length
  BY <1>1, <1>2, <1>4, <1>5, <1>6
<1>8. QED
  BY <1>3, <1>6, <1>7

LengthsOf(streams) == [s \in Streams |-> streams[s].length]

\* A route finds and leaves the lengths that the streams have before it and
\* after it.
Measures(r, before, after) ==
    WithinOperands(r) /\ LengthBefore(r, after) = before /\ LeavesLengths(r, after)

RouteMeasured(before, after) ==
    \E r : /\ after.routes = Append(before.routes, r)
           /\ Measures(r, LengthsOf(before.stream), LengthsOf(after.stream))

LEMMA LiftMeasured ==
  ASSUME NEW trace, trace.stream \in [Streams -> StreamType],
         NEW step, StepOK(step), IsLift(step.type)
  PROVE  RouteMeasured(trace, LiftTraced(trace, step))
<1> DEFINE t == Target(step.type)
           o == Other[t]
           k == Len(step.coeff)
           x == trace.stream[o]
           y == trace.stream[t]
           geo == StepGeometry(x, step.shift, k, y)
           r == [type |-> step.type, k |-> k,
                 source |-> trace.active[o], base |-> trace.active[t],
                 output |-> trace.active.free, storage |-> "workspace",
                 sourceLength |-> x.length, baseLength |-> y.length,
                 sourceOffset |-> geo.sourceOffset, baseOffset |-> geo.baseOffset,
                 outputLength |-> geo.length]
           after == LiftTraced(trace, step)
<1>1. t \in Streams /\ o \in Streams /\ t # o /\ Streams = {t, o}
  BY StreamOf
<1>2. x \in StreamType /\ y \in StreamType
  BY <1>1
<1>3. k \in Nat \ {0} /\ step.shift \in Int /\ step.type \in StepTypes
  BY DEF StepOK, StepSet
<1>4. /\ after.stream = [trace.stream EXCEPT ![t] = [shift |-> geo.shift, length |-> geo.length]]
      /\ after.routes = Append(trace.routes, r)
  BY DEF LiftTraced
<1>5. geo.length > 0 =>
        /\ geo.baseOffset + geo.length <= y.length
        /\ geo.sourceOffset + (k - 1) + geo.length <= x.length
  BY <1>2, <1>3, GeometryWithin
<1>6. /\ r.type = step.type /\ r.k = k /\ r.sourceOffset = geo.sourceOffset
      /\ r.baseOffset = geo.baseOffset /\ r.outputLength = geo.length
      /\ r.sourceLength = x.length /\ r.baseLength = y.length
  OBVIOUS
<1>7. ~IsScale(step.type) /\ step.type # "swap"
  BY DEF IsLift, IsScale
<1>8. /\ after.stream[t].length = geo.length /\ after.stream[o].length = x.length
      /\ trace.stream[t].length = y.length /\ trace.stream[o].length = x.length
  BY <1>1, <1>4
<1>9. t = Target(r.type)
  BY <1>6
<1> HIDE DEF r, k, x, y, geo, after, t
<1>10. WithinOperands(r)
  BY <1>5, <1>6, <1>7 DEF WithinOperands
<1>11. LengthBefore(r, LengthsOf(after.stream)) = LengthsOf(trace.stream)
  <2> DEFINE len == LengthsOf(after.stream)
  <2>1. LengthBefore(r, len) = [len EXCEPT ![t] = y.length, ![o] = x.length]
    BY <1>6, <1>7, <1>9 DEF LengthBefore
  <2>2. \A s \in Streams : [len EXCEPT ![t] = y.length, ![o] = x.length][s]
                             = trace.stream[s].length
    BY <1>1, <1>8 DEF LengthsOf
  <2>3. DOMAIN [len EXCEPT ![t] = y.length, ![o] = x.length] = Streams
    BY DEF LengthsOf
  <2>4. QED
    BY <2>1, <2>2, <2>3 DEF LengthsOf
<1>12. LeavesLengths(r, LengthsOf(after.stream))
  BY <1>1, <1>6, <1>7, <1>8, <1>9 DEF LeavesLengths, LengthsOf
<1>13. QED
  BY <1>4, <1>10, <1>11, <1>12 DEF RouteMeasured, Measures, after

LEMMA ScaleMeasured ==
  ASSUME NEW trace, trace.stream \in [Streams -> StreamType],
         DOMAIN trace = {"stream", "active", "routes"},
         NEW step, IsScale(step.type)
  PROVE  RouteMeasured(trace, ScaleTraced(trace, step))
<1> DEFINE t == Target(step.type)
           n == trace.stream[t].length
           r == [type |-> step.type, k |-> 1,
                 source |-> trace.active[t], base |-> trace.active[t],
                 output |-> trace.active.free, storage |-> "workspace",
                 sourceLength |-> n, baseLength |-> n,
                 sourceOffset |-> 0, baseOffset |-> 0, outputLength |-> n]
           after == ScaleTraced(trace, step)
           len == LengthsOf(trace.stream)
<1>1. t \in Streams /\ len[t] = n /\ len = [len EXCEPT ![t] = n]
  BY StreamOf DEF LengthsOf
<1>2. after.stream = trace.stream /\ after.routes = Append(trace.routes, r)
  BY DEF ScaleTraced
<1>3. /\ r.type = step.type /\ r.sourceOffset = 0 /\ r.outputLength = n
      /\ r.sourceLength = n /\ r.baseLength = n
  OBVIOUS
<1>4. ~IsLift(step.type) /\ step.type # "swap"
  BY DEF IsLift, IsScale
<1> HIDE DEF r, n, len
<1>5. WithinOperands(r)
  BY <1>3, <1>4 DEF WithinOperands
<1>6. LengthBefore(r, len) = len /\ LeavesLengths(r, len)
  BY <1>1, <1>3, <1>4 DEF LengthBefore, LeavesLengths
<1>7. QED
  BY <1>2, <1>5, <1>6 DEF RouteMeasured, Measures, len

LEMMA SwapMeasured ==
  ASSUME NEW trace, trace.stream \in [Streams -> StreamType]
  PROVE  RouteMeasured(trace, SwapTraced(trace))
<1> DEFINE r == [type |-> "swap", k |-> 0,
                 source |-> trace.active.even, base |-> trace.active.odd,
                 output |-> trace.active.even, storage |-> "workspace",
                 sourceLength |-> trace.stream.even.length,
                 baseLength |-> trace.stream.odd.length,
                 sourceOffset |-> 0, baseOffset |-> 0, outputLength |-> 0]
           after == SwapTraced(trace)
<1>1. /\ after.stream = [s \in Streams |-> trace.stream[Other[s]]]
      /\ after.routes = Append(trace.routes, r)
  BY DEF SwapTraced
<1>2. WithinOperands(r)
  BY DEF WithinOperands, IsLift, IsScale
<1>3. LengthBefore(r, LengthsOf(after.stream)) = LengthsOf(trace.stream)
  BY DEF LengthBefore, LengthsOf, Streams
<1>4. LeavesLengths(r, LengthsOf(after.stream))
  BY <1>1 DEF LeavesLengths, LengthsOf, Streams, Other
<1>5. QED
  BY <1>1, <1>2, <1>3, <1>4 DEF RouteMeasured, Measures

LEMMA StepMeasured ==
  ASSUME NEW trace \in TraceSet, NEW step, StepOK(step)
  PROVE  RouteMeasured(trace, Traced(trace, step))
<1>1. trace.stream \in [Streams -> StreamType] /\ DOMAIN trace = {"stream", "active", "routes"}
  BY DEF TraceSet
<1>2. step.type \in StepTypes
  BY DEF StepOK, StepSet
<1>3. /\ IsLift(step.type) \/ IsScale(step.type) \/ step.type = "swap"
      /\ IsScale(step.type) => ~IsLift(step.type)
      /\ step.type = "swap" => ~IsLift(step.type) /\ ~IsScale(step.type)
  BY <1>2 DEF StepTypes, IsLift, IsScale
<1>4. QED
  BY <1>1, <1>3, LiftMeasured, ScaleMeasured, SwapMeasured DEF Traced

LEMMA SameMeasures ==
  ASSUME NEW r, NEW q, SameRoute(r, q), NEW before, NEW after, Measures(q, before, after)
  PROVE  Measures(r, before, after)
<1>1. WithinOperands(r)
  BY DEF SameRoute, Measures, WithinOperands
<1>2. LengthBefore(r, after) = LengthBefore(q, after)
  BY DEF SameRoute, LengthBefore
<1>3. LeavesLengths(r, after)
  BY DEF SameRoute, Measures, LeavesLengths
<1>4. QED
  BY <1>1, <1>2, <1>3 DEF Measures

\* How long the two streams are at each point of the trace.
LengthsAlong(j, M) ==
    LET R == AxisTrace(j).routes
        n == Len(R)
    IN /\ M \in [0 .. n -> [Streams -> Nat]]
       /\ M[0] = SplitLength(j) /\ M[n] = FinalLength(AxisTrace(j))
       /\ \A i \in 1 .. n : Measures(R[i], M[i - 1], M[i])

LEMMA TraceMeasured ==
  ASSUME NEW j, AxisOK(j)
  PROVE  \E M : LengthsAlong(j, M)
<1> DEFINE R == AxisTrace(j).routes
           n == Len(R)
           steps == j.scheme.steps
<1>1. PICK f : TraceSteps(j, f)
  BY AxisTraceIs
<1>2. /\ n = Len(steps) /\ n \in Nat /\ f \in [0 .. n -> TraceSet] /\ f[0] = EmptyTrace(j)
      /\ AxisTrace(j).stream = f[n].stream
      /\ \A k \in 1 .. n : /\ StepOK(steps[k]) /\ f[k] = Traced(f[k - 1], steps[k])
                           /\ Len(f[k].routes) = k /\ SameRoute(R[k], f[k].routes[k])
  BY <1>1 DEF TraceSteps
<1> HIDE DEF R, n, steps
<1> DEFINE M == [k \in 0 .. n |-> LengthsOf(f[k].stream)]
<1>3. \A k \in 0 .. n : /\ f[k].stream \in [Streams -> StreamType]
                        /\ IsSeq(f[k].routes)
  <2>1. TAKE k \in 0 .. n
  <2>2. f[k] \in TraceSet
    BY <1>2
  <2>3. QED
    BY <2>2 DEF TraceSet, IsSeq
<1>4. M \in [0 .. n -> [Streams -> Nat]]
  BY <1>3 DEF LengthsOf, StreamType
<1>5. M[0] = SplitLength(j)
  <2>1. f[0].stream = InitialStreams(j) /\ 0 \in 0 .. n
    BY <1>2 DEF EmptyTrace
  <2>2. LengthsOf(InitialStreams(j)) = [s \in Streams |-> SplitLength(j)[s]]
    BY DEF InitialStreams, LengthsOf
  <2>3. SplitLength(j) \in [Streams -> Nat]
    BY PaddingIs
  <2>4. QED
    BY <2>1, <2>2, <2>3
<1>6. M[n] = FinalLength(AxisTrace(j))
  <2>1. n \in 0 .. n
    BY <1>2
  <2>2. M[n] = LengthsOf(AxisTrace(j).stream)
    BY <1>2, <2>1
  <2>3. LengthsOf(AxisTrace(j).stream) = FinalLength(AxisTrace(j))
    BY DEF LengthsOf, FinalLength, Streams
  <2>4. QED
    BY <2>2, <2>3
<1>7. \A i \in 1 .. n : Measures(R[i], M[i - 1], M[i])
  <2>1. TAKE i \in 1 .. n
  <2>2. i - 1 \in 0 .. n /\ i \in 0 .. n
    BY <1>2
  <2>3. f[i - 1] \in TraceSet
    BY <1>2, <2>2
  <2>4. RouteMeasured(f[i - 1], f[i])
    BY <1>2, <2>3, StepMeasured
  <2>5. PICK r : /\ f[i].routes = Append(f[i - 1].routes, r)
                 /\ Measures(r, M[i - 1], M[i])
    BY <2>2, <2>4 DEF RouteMeasured
  <2>6. f[i].routes[i] = r
    <3>1. IsSeq(f[i - 1].routes) /\ Len(f[i].routes) = i
      BY <1>2, <1>3, <2>2
    <3>2. QED
      BY <2>5, <3>1 DEF IsSeq
  <2> HIDE DEF M
  <2>7. QED
    BY <1>2, <2>5, <2>6, SameMeasures
<1>8. QED
  BY <1>4, <1>5, <1>6, <1>7 DEF LengthsAlong, R, n

\* What is needed before a route is in its operands.
LEMMA NeededInside ==
  ASSUME NEW r, RouteOK(r), WithinOperands(r), NEW need, BothUpright(need),
         NEW len \in [Streams -> Nat], AllValid(need, len), LeavesLengths(r, len)
  PROVE  AllValid(Needed(r, need), LengthBefore(r, len))
<1> DEFINE t == Target(r.type)
           o == Other[t]
           x == need[t]
           y == need[o]
<1>1. t \in Streams /\ o \in Streams /\ t # o /\ Streams = {t, o}
  BY StreamOf
<1>2. /\ {r.k, r.sourceOffset, r.baseOffset} \subseteq Nat
      /\ {r.sourceLength, r.baseLength, r.outputLength} \subseteq Nat
      /\ IsLift(r.type) => r.k > 0
  BY DEF RouteOK
<1>3. /\ x.begin \in Nat /\ x.end \in Nat /\ y.begin \in Nat /\ y.end \in Nat
      /\ x.begin <= x.end /\ y.begin <= y.end /\ x.end <= len[t] /\ y.end <= len[o]
  BY <1>1, UprightNat DEF BothUpright, AllValid, ValidIn
<1>4. DOMAIN need = Streams /\ DOMAIN len = Streams
  BY DEF BothUpright, Needs
<1>5. CASE r.type = "swap"
  <2>1. /\ Needed(r, need) = [even |-> need.odd, odd |-> need.even]
        /\ LengthBefore(r, len) = [even |-> r.sourceLength, odd |-> r.baseLength]
        /\ len = [even |-> r.baseLength, odd |-> r.sourceLength]
    BY <1>5 DEF Needed, LengthBefore, LeavesLengths
  <2>2. QED
    BY <2>1 DEF AllValid, ValidIn, Streams
<1> HIDE DEF t, o, x, y
<1>6. CASE IsScale(r.type)
  <2>1. r.type # "swap" /\ ~IsLift(r.type)
    BY <1>6 DEF IsScale, IsLift
  <2>2. /\ Needed(r, need) = [need EXCEPT ![t] = Translated(x, r.sourceOffset, 0)]
        /\ LengthBefore(r, len) = [len EXCEPT ![t] = r.sourceLength]
        /\ len[t] = r.outputLength /\ r.sourceLength = r.outputLength /\ r.sourceOffset = 0
    BY <1>6, <2>1 DEF Needed, LengthBefore, LeavesLengths, WithinOperands, t, x
  <2>3. Translated(x, 0, 0).begin = x.begin /\ Translated(x, 0, 0).end = x.end
    BY <1>3 DEF Translated, Interval
  <2>4. QED
    BY <1>1, <1>3, <1>4, <2>2, <2>3 DEF AllValid, ValidIn, y
<1>7. CASE IsLift(r.type)
  <2>1. r.type # "swap" /\ ~IsScale(r.type)
    BY <1>7 DEF IsScale, IsLift
  <2> DEFINE z == Translated(x, r.sourceOffset, r.k - 1)
             b == Translated(x, r.baseOffset, 0)
  <2>2. /\ Needed(r, need) = [need EXCEPT ![t] = b, ![o] = Hull(y, z)]
        /\ LengthBefore(r, len) = [len EXCEPT ![t] = r.baseLength, ![o] = r.sourceLength]
        /\ len[t] = r.outputLength /\ len[o] = r.sourceLength
    BY <1>7, <2>1 DEF Needed, LengthBefore, LeavesLengths, t, o, x, y
  <2>3. r.outputLength > 0 =>
          /\ r.baseOffset + r.outputLength <= r.baseLength
          /\ r.sourceOffset + (r.k - 1) + r.outputLength <= r.sourceLength
    BY <1>7 DEF WithinOperands
  <2>4. x.end <= r.outputLength /\ y.end <= r.sourceLength
    BY <1>3, <2>2
  <2>5. b.begin <= b.end /\ b.end <= r.baseLength
    BY <1>2, <1>3, <2>3, <2>4 DEF Translated, Interval, Empty
  <2>6. /\ z.begin \in Nat /\ z.end \in Nat /\ z.begin <= z.end
        /\ z.end <= r.sourceLength
    BY <1>2, <1>3, <1>7, <2>3, <2>4 DEF Translated, Interval, Empty
  <2> HIDE DEF b, z
  <2>7. Hull(y, z).begin <= Hull(y, z).end /\ Hull(y, z).end <= r.sourceLength
    BY <1>2, <1>3, <2>4, <2>6 DEF Hull, Interval, Empty, Smaller, Larger
  <2>8. QED
    BY <1>1, <1>4, <2>2, <2>5, <2>7 DEF AllValid, ValidIn
<1>8. QED
  BY <1>5, <1>6, <1>7 DEF RouteOK, StepTypes, IsScale, IsLift

\* Where the coefficients of an interval are, they are in the final streams.
InBands(j, output) ==
    \A s \in Streams :
      LET i == InStream(j, AxisTrace(j), s, output)
      IN 0 <= i.begin /\ i.end <= AxisTrace(j).stream[s].length

LEMMA FinalNeeds ==
  ASSUME NEW j, AxisOK(j), NEW output, Upright(output)
  PROVE  LET trace == AxisTrace(j)
             final == [even |-> InStream(j, trace, "even", output),
                       odd |-> InStream(j, trace, "odd", output)]
         IN /\ final \in Needs
            /\ \A s \in Streams : /\ final[s] = InStream(j, trace, s, output)
                                  /\ final[s].begin <= final[s].end
                                  /\ FinalLength(trace)[s] = trace.stream[s].length
            /\ InBands(j, output) <=>
                 /\ \A s \in Streams : final[s].begin >= 0
                 /\ AllValid(final, FinalLength(trace))
<1> DEFINE trace == AxisTrace(j)
           final == [even |-> InStream(j, trace, "even", output),
                     odd |-> InStream(j, trace, "odd", output)]
<1>1. \A s \in Streams : /\ InStream(j, trace, s, output) \in Stretch
                         /\ LET i == InStream(j, trace, s, output)
                            IN i.begin <= i.end
  <2>1. TAKE s \in Streams
  <2> DEFINE offset == CanonicalStart(j) - trace.stream[s].shift
  <2>2. offset \in Int
    BY PaddingIs, RoutesAre DEF StreamType
  <2>3. /\ output.begin \in Int /\ output.end \in Int /\ output.begin <= output.end
    BY DEF Upright, Stretch
  <2>4. InStream(j, trace, s, output) = Interval(output.begin + offset, output.end + offset)
    BY DEF InStream
  <2> HIDE DEF offset
  <2>5. QED
    BY <2>2, <2>3, <2>4, IntervalIs
<1>2. \A s \in Streams : final[s] = InStream(j, trace, s, output)
  BY DEF Streams
<1>3. final \in Needs
  <2>1. "even" \in Streams /\ "odd" \in Streams
    BY DEF Streams
  <2>2. InStream(j, trace, "even", output) \in Stretch /\ InStream(j, trace, "odd", output) \in Stretch
    BY <1>1, <2>1
  <2>3. QED
    BY <2>2 DEF Needs, Streams
<1>4. \A s \in Streams : FinalLength(trace)[s] = trace.stream[s].length
  BY DEF FinalLength, Streams
<1> HIDE DEF final
<1>5. \A s \in Streams : final[s].begin \in Int /\ final[s].end \in Int
  BY <1>3 DEF Needs, Stretch
<1>6. InBands(j, output) <=> /\ \A s \in Streams : final[s].begin >= 0
                           /\ AllValid(final, FinalLength(trace))
  BY <1>1, <1>2, <1>4, <1>5 DEF InBands, AllValid, ValidIn
<1>7. QED
  BY <1>1, <1>2, <1>3, <1>4, <1>6 DEF final

\* The cone of coefficients is valid exactly if these are in the streams.
LEMMA ForwardValid ==
  ASSUME NEW j, AxisOK(j), NEW output, Upright(output)
  PROVE  ForwardCone(j, AxisTrace(j), output).valid <=> InBands(j, output)
<1> DEFINE trace == AxisTrace(j)
           R == trace.routes
           n == Len(R)
           final == [even |-> InStream(j, trace, "even", output),
                     odd |-> InStream(j, trace, "odd", output)]
           back == Backpropagated(j, trace, final)
<1>1. TraceIs(trace) /\ n \in Nat /\ \A i \in 1 .. n : RouteOK(R[i])
  BY RoutesAre DEF TraceIs
<1>2. /\ final \in Needs
      /\ \A s \in Streams : /\ final[s] = InStream(j, trace, s, output)
                            /\ final[s].begin <= final[s].end
                            /\ FinalLength(trace)[s] = trace.stream[s].length
      /\ InBands(j, output) <=> /\ \A s \in Streams : final[s].begin >= 0
                               /\ AllValid(final, FinalLength(trace))
  BY FinalNeeds
<1>3. ForwardCone(j, trace, output).valid
        <=> back.valid /\ \A s \in Streams : final[s].begin >= 0
  BY DEF ForwardCone
<1> HIDE DEF R, n, final
<1>4. PICK N, L : BackPoints(j, trace, final, N, L)
  BY <1>1, <1>2, BackChain
<1>5. /\ N \in [0 .. n -> Needs] /\ L \in [0 .. n -> Lengths]
      /\ N[n] = final /\ L[n] = FinalLength(trace)
      /\ \A i \in 1 .. n : N[i - 1] = Needed(R[i], N[i]) /\ L[i - 1] = LengthBefore(R[i], L[i])
      /\ back.valid <=>
           /\ \A i \in 0 .. n : AllValid(N[i], L[i])
           /\ \A i \in 1 .. n : LeavesLengths(R[i], L[i])
           /\ L[0] = SplitLength(j)
  BY <1>4 DEF BackPoints, n, R
<1> HIDE DEF back, trace
<1>6. ASSUME back.valid, \A s \in Streams : final[s].begin >= 0
      PROVE  InBands(j, output)
  <2>1. n \in 0 .. n
    BY <1>1
  <2>2. AllValid(final, FinalLength(trace))
    BY <1>5, <1>6, <2>1
  <2>3. QED
    BY <1>2, <1>6, <2>2
<1>7. ASSUME InBands(j, output) PROVE back.valid /\ \A s \in Streams : final[s].begin >= 0
  <2>1. PICK M : LengthsAlong(j, M)
    BY TraceMeasured
  <2>2. /\ M \in [0 .. n -> [Streams -> Nat]]
        /\ M[0] = SplitLength(j) /\ M[n] = FinalLength(trace)
        /\ \A i \in 1 .. n : Measures(R[i], M[i - 1], M[i])
    BY <2>1 DEF LengthsAlong, n, R, trace
  <2> DEFINE T == {k \in 0 .. n : /\ L[n - k] = M[n - k] /\ BothUpright(N[n - k])
                                  /\ AllValid(N[n - k], L[n - k])}
  <2>3. BothUpright(final) /\ AllValid(final, FinalLength(trace))
    BY <1>2, <1>7 DEF BothUpright, Needs, Upright
  <2>4. 0 \in T
    <3>1. 0 \in 0 .. n /\ n - 0 = n
      BY <1>1
    <3>2. QED
      BY <1>5, <2>2, <2>3, <3>1
  <2>5. \A k \in 0 .. n - 1 : k \in T => k + 1 \in T
    <3>1. TAKE k \in 0 .. n - 1
    <3> DEFINE m == n - k
    <3>2. m \in 1 .. n /\ m \in 0 .. n /\ k + 1 \in 0 .. n /\ n - (k + 1) = m - 1
      BY <1>1
    <3>3. HAVE k \in T
    <3>4. L[m] = M[m] /\ BothUpright(N[m]) /\ AllValid(N[m], L[m])
      BY <3>3
    <3> HIDE DEF m
    <3>5. /\ N[m - 1] = Needed(R[m], N[m]) /\ L[m - 1] = LengthBefore(R[m], L[m])
          /\ RouteOK(R[m]) /\ M[m] \in [Streams -> Nat]
          /\ WithinOperands(R[m]) /\ LengthBefore(R[m], M[m]) = M[m - 1]
          /\ LeavesLengths(R[m], M[m])
      BY <1>1, <1>5, <2>2, <3>2 DEF Measures
    <3>6. BothUpright(N[m - 1])
      <4>1. FALSE \in BOOLEAN /\ (FALSE => IsScale(R[m].type))
        OBVIOUS
      <4>2. BothUpright(Needed(R[m], N[m]))
        BY ONLY <3>4, <3>5, <4>1, ForwardFits
      <4>3. QED
        BY <3>5, <4>2
    <3>7. AllValid(N[m - 1], L[m - 1])
      <4>1. AllValid(Needed(R[m], N[m]), LengthBefore(R[m], M[m]))
        BY ONLY <3>4, <3>5, NeededInside
      <4>2. QED
        BY <3>4, <3>5, <4>1
    <3>8. L[m - 1] = M[m - 1]
      BY <3>4, <3>5
    <3>9. QED
      BY <3>2, <3>6, <3>7, <3>8
  <2> HIDE DEF T
  <2>6. \A k \in 0 .. n : k \in T
    BY ONLY <1>1, <2>4, <2>5, AllReached
  <2>7. \A i \in 0 .. n : L[i] = M[i] /\ AllValid(N[i], L[i])
    <3>1. TAKE i \in 0 .. n
    <3>2. n - i \in 0 .. n /\ n - (n - i) = i
      BY <1>1
    <3>3. n - i \in T
      BY <2>6, <3>2
    <3>4. QED
      BY <3>2, <3>3 DEF T
  <2>8. \A i \in 1 .. n : LeavesLengths(R[i], L[i])
    <3>1. \A i \in 1 .. n : i \in 0 .. n
      BY <1>1
    <3>2. QED
      BY <2>2, <2>7, <3>1 DEF Measures
  <2>9. 0 \in 0 .. n
    BY <1>1
  <2>10. QED
    BY <1>2, <1>5, <1>7, <2>2, <2>7, <2>8, <2>9
<1>8. QED
  BY <1>3, <1>6, <1>7 DEF trace

\* The coefficients of the bands are in the final streams of either axis.
CoefficientsInside(j) ==
    \A a \in Axes : InBands(AxisJob(j, a), Interval(0, OutputSize(j)[a]))

LEMMA CutsSpan ==
  ASSUME NEW size \in Nat \ {0}, NEW cuts, CutsRight(size, cuts)
  PROVE  /\ \A n \in 1 .. Len(cuts) : Upright(cuts[n]) /\ cuts[n].end <= size
         /\ \E n \in 1 .. Len(cuts) : cuts[n].begin = 0
         /\ \E n \in 1 .. Len(cuts) : cuts[n].end = size
<1>1. \A n \in 1 .. Len(cuts) : Upright(cuts[n]) /\ cuts[n].end <= size
  BY DEF CutsRight
<1>2. \A y \in 0 .. size - 1 : \E n \in 1 .. Len(cuts) : y \in Elements(cuts[n])
  BY DEF CutsRight, OnlyIn
<1>3. \E n \in 1 .. Len(cuts) : cuts[n].begin = 0
  <2>1. PICK n \in 1 .. Len(cuts) : 0 \in Elements(cuts[n])
    BY <1>2
  <2>2. cuts[n].begin \in Nat /\ cuts[n].end \in Nat
    BY <1>1, UprightNat
  <2>3. QED
    BY <2>1, <2>2 DEF Elements
<1>4. \E n \in 1 .. Len(cuts) : cuts[n].end = size
  <2>1. PICK n \in 1 .. Len(cuts) : size - 1 \in Elements(cuts[n])
    BY <1>2
  <2>2. cuts[n].begin \in Nat /\ cuts[n].end \in Nat /\ cuts[n].end <= size
    BY <1>1, UprightNat
  <2>3. QED
    BY <2>1, <2>2 DEF Elements
<1>5. QED
  BY <1>1, <1>3, <1>4

\* Coefficients of a whole axis are inside exactly if those of all cuts are.
LEMMA CutsInside ==
  ASSUME NEW j, AxisOK(j), NEW size \in Nat \ {0}, NEW cuts, CutsRight(size, cuts)
  PROVE  InBands(j, Interval(0, size)) <=> \A n \in 1 .. Len(cuts) : InBands(j, cuts[n])
<1> DEFINE offset(s) == CanonicalStart(j) - AxisTrace(j).stream[s].shift
           long(s) == AxisTrace(j).stream[s].length
<1>1. \A s \in Streams : offset(s) \in Int /\ long(s) \in Nat
  BY PaddingIs, RoutesAre DEF StreamType
<1>2. ASSUME NEW i, i.begin \in Int, i.end \in Int
      PROVE  InBands(j, i) <=> \A s \in Streams : /\ 0 <= i.begin + offset(s)
                                                /\ i.end + offset(s) <= long(s)
  <2>1. \A s \in Streams :
          InStream(j, AxisTrace(j), s, i) = Interval(i.begin + offset(s), i.end + offset(s))
    BY DEF InStream
  <2>2. \A s \in Streams : i.begin + offset(s) \in Int /\ i.end + offset(s) \in Int
    BY <1>1, <1>2
  <2>3. \A s \in Streams : /\ InStream(j, AxisTrace(j), s, i).begin = i.begin + offset(s)
                           /\ InStream(j, AxisTrace(j), s, i).end = i.end + offset(s)
    BY <2>1, <2>2, IntervalIs
  <2>4. QED
    BY <2>3 DEF InBands
<1> HIDE DEF offset, long
<1>3. /\ \A n \in 1 .. Len(cuts) : Upright(cuts[n]) /\ cuts[n].end <= size
      /\ \E n \in 1 .. Len(cuts) : cuts[n].begin = 0
      /\ \E n \in 1 .. Len(cuts) : cuts[n].end = size
  BY CutsSpan
<1>4. \A n \in 1 .. Len(cuts) : cuts[n].begin \in Nat /\ cuts[n].end \in Nat
  BY <1>3, UprightNat
<1>5. Interval(0, size).begin = 0 /\ Interval(0, size).end = size
  BY IntervalIs
<1>6. InBands(j, Interval(0, size))
        <=> \A s \in Streams : 0 <= 0 + offset(s) /\ size + offset(s) <= long(s)
  BY <1>2, <1>5
<1>7. \A n \in 1 .. Len(cuts) :
        InBands(j, cuts[n]) <=> \A s \in Streams : /\ 0 <= cuts[n].begin + offset(s)
                                                 /\ cuts[n].end + offset(s) <= long(s)
  BY <1>2, <1>4
<1>8. ASSUME \A s \in Streams : 0 <= 0 + offset(s) /\ size + offset(s) <= long(s),
             NEW n \in 1 .. Len(cuts)
      PROVE  InBands(j, cuts[n])
  <2>1. /\ cuts[n].begin \in Nat /\ cuts[n].end \in Nat /\ cuts[n].end <= size
        /\ InBands(j, cuts[n]) <=> \A s \in Streams : /\ 0 <= cuts[n].begin + offset(s)
                                                     /\ cuts[n].end + offset(s) <= long(s)
    BY <1>3, <1>4, <1>7, <1>8
  <2> DEFINE b == cuts[n].begin
             e == cuts[n].end
  <2>2. b \in Nat /\ e \in Nat /\ e <= size
    BY <2>1
  <2> HIDE DEF b, e
  <2>3. ASSUME NEW s \in Streams PROVE 0 <= b + offset(s) /\ e + offset(s) <= long(s)
    <3>1. offset(s) \in Int /\ long(s) \in Nat /\ 0 <= 0 + offset(s) /\ size + offset(s) <= long(s)
      BY <1>1, <1>8
    <3>2. QED
      BY <2>2, <3>1
  <2>4. QED
    BY <2>1, <2>3 DEF b, e
<1>9. ASSUME \A n \in 1 .. Len(cuts) : InBands(j, cuts[n]), NEW s \in Streams
      PROVE  0 <= 0 + offset(s) /\ size + offset(s) <= long(s)
  <2>1. PICK k \in 1 .. Len(cuts) : cuts[k].begin = 0
    BY <1>3
  <2>2. PICK l \in 1 .. Len(cuts) : cuts[l].end = size
    BY <1>3
  <2>3. 0 <= cuts[k].begin + offset(s) /\ cuts[l].end + offset(s) <= long(s)
    BY <1>7, <1>9
  <2>4. QED
    BY <2>1, <2>2, <2>3
<1>10. QED
  BY <1>6, <1>8, <1>9

\* Whatever the chunks, the cones of a forward candidate are valid exactly if
\* the coefficients of the whole bands are in the streams.
LEMMA ConesValid ==
  ASSUME NEW j \in Jobs, ~j.inverse, NEW t, Positive(t)
  PROVE  CoefficientsInside(j)
           <=> \A a \in Axes : \A n \in 1 .. Len(ConesOf(j, t)[a]) : ConesOf(j, t)[a][n].valid
<1>1. ASSUME NEW a \in Axes
      PROVE  InBands(AxisJob(j, a), Interval(0, OutputSize(j)[a]))
               <=> \A n \in 1 .. Len(ConesOf(j, t)[a]) : ConesOf(j, t)[a][n].valid
  <2> DEFINE i == AxisJob(j, a)
             size == OutputSize(j)[a]
             cuts == Cuts(j, t, a)
             cones == ConesOf(j, t)[a]
  <2>1. AxisOK(i) /\ AxisTraces(j)[a] = AxisTrace(i)
    BY AxisJobs DEF AxisTraces
  <2>2. size \in Nat \ {0} /\ CutsRight(size, cuts)
    BY OutputIs, CutsAre
  <2>3. Len(cones) = Len(cuts)
        /\ \A n \in 1 .. Len(cuts) : cones[n] = Cone(j, AxisTraces(j), a, cuts[n])
    BY ConesOfIs
  <2>4. \A n \in 1 .. Len(cuts) : cones[n] = ForwardCone(i, AxisTrace(i), cuts[n])
    BY <2>1, <2>3 DEF Cone
  <2> HIDE DEF i, size, cuts, cones
  <2>5. \A n \in 1 .. Len(cuts) : cones[n].valid <=> InBands(i, cuts[n])
    <3>1. TAKE n \in 1 .. Len(cuts)
    <3>2. Upright(cuts[n])
      BY <2>2 DEF CutsRight
    <3>3. ForwardCone(i, AxisTrace(i), cuts[n]).valid <=> InBands(i, cuts[n])
      BY <2>1, <3>2, ForwardValid
    <3>4. QED
      BY <2>4, <3>3
  <2>6. InBands(i, Interval(0, size)) <=> \A n \in 1 .. Len(cuts) : InBands(i, cuts[n])
    BY <2>1, <2>2, CutsInside
  <2>7. InBands(i, Interval(0, size)) <=> \A n \in 1 .. Len(cones) : cones[n].valid
    BY <2>3, <2>5, <2>6
  <2>8. QED
    BY <2>7 DEF i, size, cones
<1>2. QED
  BY <1>1 DEF CoefficientsInside

LEMMA PlanKeptInitially == Init => PlanKept
<1>1. SUFFICES ASSUME Init PROVE PlanKept
  OBVIOUS
<1>2. Positive(tiles)
  BY <1>1 DEF Init, Positive
<1>3. BookKept
  BY <1>1, <1>2 DEF Init, BookKept
<1>4. TracesKept /\ BestKept /\ PlanesKept
  BY <1>1 DEF Init, TracesKept, BestKept, PlanesKept
<1>5. QED
  BY <1>3, <1>4 DEF PlanKept

LEMMA MakeTracesKeeps ==
  ASSUME PlanKept, MakeTraces
  PROVE  PlanKept'
<1> USE DEF PlanKept
<1>1. phase = "trace" /\ traces' = AxisTraces(job) /\ UNCHANGED <<job, tiles, best, planes>>
  BY DEF MakeTraces
<1>2. \/ phase' = "candidates" /\ fault' = fault /\ ScalesAreTerminal(traces'["y"].routes)
      \/ phase' = "refused" /\ fault' \in {"scheme", "mode"}
  BY DEF MakeTraces, Refuse
<1>3. BookKept'
  <2>1. fault = "none"
    BY <1>1 DEF BookKept
  <2>2. Positive(tiles)' /\ job' \in Jobs
    BY <1>1 DEF BookKept, Positive
  <2>3. QED
    BY <1>2, <2>1, <2>2 DEF BookKept
<1>4. TracesKept'
  <2>1. traces'["y"].routes = AxisTraces(job').y.routes
    BY <1>1
  <2>2. QED
    BY <1>1, <1>2, <2>1 DEF TracesKept
<1>5. BestKept'
  BY <1>1 DEF BestKept, Found
<1>6. PlanesKept'
  BY <1>1, <1>2 DEF PlanesKept
<1>7. QED
  BY <1>3, <1>4, <1>5, <1>6

LEMMA RefuseSchemeKeeps ==
  ASSUME PlanKept, RefuseScheme
  PROVE  PlanKept'
<1> USE DEF PlanKept
<1>1. /\ phase = "candidates" /\ phase' = "refused" /\ fault' = "scheme"
      /\ UNCHANGED <<job, traces, tiles, best, planes>>
  BY DEF RefuseScheme, Refuse
<1>2. BookKept'
  BY <1>1 DEF BookKept, Positive
<1>3. TracesKept' /\ BestKept' /\ PlanesKept'
  BY <1>1 DEF TracesKept, BestKept, Found, PlanesKept
<1>4. QED
  BY <1>2, <1>3

LEMMA ConsiderKeeps ==
  ASSUME PlanKept, Consider
  PROVE  PlanKept'
<1> USE DEF PlanKept
<1> DEFINE cones == AxisCones(job, traces, tiles)
           chunks == ChunksOf(job, tiles, cones)
           found == ChunkFault(cones, chunks)
           candidate == [tiles |-> tiles, chunks |-> chunks]
<1>1. phase = "candidates" /\ Inlinable /\ UNCHANGED <<job, traces, planes>>
  BY DEF Consider
<1>2. IF found # "none" THEN Refuse(found) /\ UNCHANGED <<tiles, best>>
      ELSE /\ tiles' = NextTiles
           /\ UNCHANGED <<phase, fault>>
           /\ IF \A n \in 1 .. Len(chunks) : FitsAlone(chunks[n])
              THEN \/ best' = candidate
                   \/ best # NotFound /\ best' = best
              ELSE best' = best
  BY DEF Consider
<1>3. job \in Jobs /\ Positive(tiles) /\ traces = AxisTraces(job) /\ Shaped(job)
  BY <1>1 DEF BookKept, TracesKept, Shaped, Inlinable
<1>4. /\ found \in {"none", "dependency", "unused"}
      /\ found = "none" => Candidate(job, tiles, chunks)
      /\ found = "unused" => job.inverse
  <2>1. cones = AxisCones(job, AxisTraces(job), tiles) /\ chunks = ChunksOf(job, tiles, cones)
    BY <1>3
  <2> HIDE DEF cones, chunks
  <2>2. QED
    BY <1>3, <2>1, CandidateFault
<1> HIDE DEF found
<1>5. CASE found # "none"
  <2>1. phase' = "refused" /\ fault' = found /\ UNCHANGED <<job, traces, tiles, best, planes>>
    BY <1>1, <1>2, <1>5 DEF Refuse
  <2>2. BookKept'
    BY <1>1, <1>4, <1>5, <2>1 DEF BookKept, Positive
  <2>3. TracesKept' /\ BestKept' /\ PlanesKept'
    BY <1>1, <2>1 DEF TracesKept, BestKept, Found, PlanesKept
  <2>4. QED
    BY <2>2, <2>3
<1>6. CASE found = "none"
  <2>1. /\ tiles' = NextTiles /\ UNCHANGED <<phase, fault, job, traces, planes>>
        /\ best' = best \/ best' = candidate
    BY <1>1, <1>2, <1>6
  <2>2. Positive(tiles')
    <3>1. tiles.y \in Nat \ {0} /\ tiles.x \in Nat \ {0} /\ tiles \in [Axes -> Nat \ {0}]
      BY <1>3 DEF Positive, Axes
    <3>2. tiles.y + 1 \in Nat \ {0} /\ tiles.x + 1 \in Nat \ {0} /\ 1 \in Nat \ {0}
      BY <3>1
    <3>3. [tiles EXCEPT !.x = @ + 1] \in [Axes -> Nat \ {0}]
      BY <3>1, <3>2 DEF Axes
    <3>4. [y |-> tiles.y + 1, x |-> 1] \in [Axes -> Nat \ {0}]
      BY <3>2 DEF Axes
    <3>5. QED
      BY <2>1, <3>3, <3>4 DEF NextTiles, Positive
  <2>3. BookKept'
    <3>1. Positive(tiles)'
      BY <2>2
    <3>2. QED
      BY <2>1, <3>1 DEF BookKept
  <2>4. TracesKept' /\ PlanesKept'
    BY <1>1, <2>1 DEF TracesKept, PlanesKept
  <2>5. BestKept'
    <3>1. CASE best' = best
      BY <2>1, <3>1 DEF BestKept, Found
    <3>2. CASE best' = candidate
      <4> HIDE DEF cones, chunks
      <4>1. best'.tiles = tiles /\ best'.chunks = chunks /\ job' = job
        BY <2>1, <3>2
      <4>2. Candidate(job', best'.tiles, best'.chunks) /\ Shaped(job')
        BY <1>3, <1>4, <1>6, <4>1
      <4>3. QED
        BY <4>2 DEF BestKept, Found
    <3>3. QED
      BY <2>1, <3>1, <3>2
  <2>6. QED
    BY <2>3, <2>4, <2>5
<1>7. QED
  BY <1>5, <1>6

LEMMA AllocateKeeps ==
  ASSUME PlanKept, Allocate
  PROVE  PlanKept'
<1> USE DEF PlanKept
<1>1. phase = "candidates" /\ UNCHANGED <<job, traces, tiles, best>>
  BY DEF Allocate
<1>2. Allocated = [p \in Planes |-> Uniform(p)]
  BY DEF Allocated, Uniform, LargestOf
<1>3. \/ best = NotFound /\ phase' = "refused" /\ fault' = "budget" /\ planes' = planes
      \/ /\ best # NotFound /\ planes' = Allocated
         /\ \/ phase' = "planned" /\ fault' = fault
            \/ phase' = "refused" /\ fault' = "uniform"
  BY <1>2 DEF Allocate, Refuse
<1>4. Allocated' = Allocated
  BY <1>1 DEF Allocated
<1>5. BookKept'
  BY <1>1, <1>3 DEF BookKept, Positive
<1>6. TracesKept'
  BY <1>1, <1>3 DEF TracesKept
<1>7. BestKept'
  BY <1>1 DEF BestKept, Found
<1>8. PlanesKept'
  BY <1>1, <1>3, <1>4 DEF PlanesKept
<1>9. QED
  BY <1>5, <1>6, <1>7, <1>8

LEMMA PlanKeptAlways == Spec => []PlanKept
<1>1. PlanKept /\ [Next]_vars => PlanKept'
  <2>1. SUFFICES ASSUME PlanKept, [Next]_vars PROVE PlanKept'
    OBVIOUS
  <2>2. CASE MakeTraces
    BY <2>1, <2>2, MakeTracesKeeps
  <2>3. CASE RefuseScheme
    BY <2>1, <2>3, RefuseSchemeKeeps
  <2>4. CASE Consider
    BY <2>1, <2>4, ConsiderKeeps
  <2>5. CASE Allocate
    BY <2>1, <2>5, AllocateKeeps
  <2>6. CASE UNCHANGED vars
    <3>1. UNCHANGED <<phase, fault, job, traces, tiles, best, planes>>
      BY <2>6 DEF vars
    <3>2. BookKept' /\ TracesKept'
      BY <2>1, <3>1 DEF PlanKept, BookKept, Positive, TracesKept
    <3>3. BestKept' /\ PlanesKept'
      BY <2>1, <3>1 DEF PlanKept, BestKept, Found, PlanesKept, Allocated
    <3>4. QED
      BY <3>2, <3>3 DEF PlanKept
  <2>7. QED
    BY <2>1, <2>2, <2>3, <2>4, <2>5, <2>6 DEF Next
<1>2. QED
  BY <1>1, PlanKeptInitially, PTL DEF Spec

LEMMA BestRuns ==
  ASSUME PlanKept, best # NotFound
  PROVE  /\ AllRunWell(best.chunks) /\ Found
         /\ \A p \in Planes, a \in Axes :
              /\ Allocated[p][a] \in Nat
              /\ \A n \in 1 .. Len(best.chunks) :
                   PlaneShape(best.chunks[n], p)[a] <= Allocated[p][a]
<1>1. Found /\ job \in Jobs
  BY DEF PlanKept, BestKept, BookKept
<1>2. AllRunWell(best.chunks)
  BY <1>1, CandidateRuns DEF Found, AllRunWell
<1>3. \A p \in Planes, a \in Axes :
        /\ LargestOf(best.chunks, p, a) \in Nat
        /\ \A n \in 1 .. Len(best.chunks) :
             PlaneShape(best.chunks[n], p)[a] <= LargestOf(best.chunks, p, a)
  BY <1>2, LargestIs
<1>4. QED
  BY <1>1, <1>2, <1>3 DEF Allocated

(***************************************************************************)
(* Types: no length, offset or bound of a rectangle of the best plan that  *)
(* the code keeps as size_t is ever negative, for every scheme and image   *)
(* (TypeOK, plan_2d.hpp).                                                  *)
(***************************************************************************)
THEOREM Plan2DTypesCorrect == Spec => []TypeOK
<1>1. PlanKept => TypeOK
  <2>1. SUFFICES ASSUME PlanKept PROVE TypeOK
    OBVIOUS
  <2>2. /\ phase \in {"trace", "candidates", "planned", "refused"}
        /\ fault \in {"none", "scheme", "mode", "dependency", "unused", "aliased",
                      "budget", "uniform"}
        /\ phase = "refused" <=> fault # "none"
        /\ job \in Jobs /\ tiles \in [Axes -> Nat \ {0}]
    BY <2>1 DEF PlanKept, BookKept, Positive
  <2>3. ASSUME phase # "trace", NEW a \in Axes, NEW i \in 1 .. Len(traces[a].routes)
        PROVE  LET route == traces[a].routes[i]
               IN {route.sourceLength, route.baseLength, route.outputLength,
                   route.sourceOffset, route.baseOffset} \subseteq Nat
    <3>1. traces[a] = AxisTraces(job)[a]
      BY <2>1, <2>3 DEF PlanKept, TracesKept
    <3>2. TraceOfJob(job, traces[a])
      BY <2>2, <3>1, TracesAre
    <3>3. RouteOK(traces[a].routes[i])
      BY <2>3, <3>2 DEF TraceOfJob, TraceIs
    <3>4. QED
      BY <3>3 DEF RouteOK
  <2>4. planes \in [Planes -> [Axes -> Nat]]
    <3>1. CASE planes = NoPlanes
      BY <3>1 DEF NoPlanes
    <3>2. CASE best # NotFound /\ planes = Allocated
      <4>1. \A p \in Planes, a \in Axes : Allocated[p][a] \in Nat
        BY <2>1, <3>2, BestRuns
      <4>2. \A p \in Planes, a \in Axes : LargestOf(best.chunks, p, a) \in Nat
        BY <4>1 DEF Allocated
      <4>3. QED
        BY <3>2, <4>2 DEF Allocated
    <3>3. QED
      BY <2>1, <2>2, <3>1, <3>2 DEF PlanKept, PlanesKept
  <2>5. \A n \in 1 .. Len(best.chunks) :
          \A use \in Uses(best.chunks[n]) : use[1] \in Planes /\ Natural(use[2])
    <3>1. CASE best = NotFound
      <4>1. Len(best.chunks) = 0
        BY <3>1 DEF NotFound
      <4>2. QED
        BY <4>1
    <3>2. CASE best # NotFound
      <4>1. AllRunWell(best.chunks)
        BY <2>1, <3>2, BestRuns
      <4>2. \A n \in 1 .. Len(best.chunks) : RunsWell(best.chunks[n], Routes(best.chunks[n]))
        BY <4>1 DEF AllRunWell
      <4>3. QED
        BY <4>2, UsesNatural
    <3>3. QED
      BY <3>1, <3>2
  <2>6. QED
    BY <2>2, <2>3, <2>4, <2>5 DEF TypeOK
<1>2. QED
  BY <1>1, PlanKeptAlways, PTL

LEMMA KeptServes == PlanKept => PlanesServe
<1>1. SUFFICES ASSUME PlanKept, phase = "planned", NEW n \in 1 .. Len(best.chunks)
               PROVE  ChunkServed(best.chunks[n])
  BY DEF PlanesServe
<1>2. best # NotFound /\ planes = Allocated
  BY <1>1 DEF PlanKept, PlanesKept
<1>3. RunsWell(best.chunks[n], Routes(best.chunks[n]))
  BY <1>1, <1>2, BestRuns DEF AllRunWell
<1>4. \A p \in Planes, a \in Axes : /\ planes[p][a] \in Nat
                                    /\ PlaneShape(best.chunks[n], p)[a] <= planes[p][a]
  BY <1>1, <1>2, BestRuns
<1> DEFINE chunk == best.chunks[n]
<1>5. /\ RunsWell(chunk, Routes(chunk))
      /\ \A p \in Planes, a \in Axes : /\ planes[p][a] \in Nat
                                       /\ PlaneShape(chunk, p)[a] <= planes[p][a]
  BY <1>3, <1>4
<1> HIDE DEF chunk
<1>6. ChunkServed(chunk)
  BY <1>5, ServedIs
<1>7. QED
  BY <1>6 DEF chunk

(***************************************************************************)
(* In every chunk of a plan of either direction every route of the four    *)
(* passes finds its operands in the planes that its reader was told, no    *)
(* lift writes over one of them, whatever is stored at any time fits what  *)
(* was allocated for all chunks, and the four results are stored in the    *)
(* end (PlanesServe; build_route_schedule, make_resource_model).           *)
(***************************************************************************)
THEOREM PlanesAlwaysServe == Spec => []PlanesServe
BY KeptServes, PlanKeptAlways, PTL

(***************************************************************************)
(* A forward plan stores its four results in just the rectangles that the  *)
(* writer is told, so that it takes them from the right tiles: all that    *)
(* PlanesHold says.  (How far an inverse plan stores more than that is a   *)
(* matter of the scheme.)                                                  *)
(***************************************************************************)
THEOREM ForwardPlanesHold == Spec => [](~job.inverse => PlanesHold)
<1>1. PlanKept => (~job.inverse => PlanesHold)
  <2>1. SUFFICES ASSUME PlanKept, ~job.inverse, phase = "planned",
                        NEW n \in 1 .. Len(best.chunks)
                 PROVE  ResultsAligned(best.chunks[n])
    BY KeptServes DEF PlanesHold
  <2>2. best # NotFound
    BY <2>1 DEF PlanKept, PlanesKept
  <2>3. Found /\ job \in Jobs
    BY <2>1, <2>2, BestRuns DEF PlanKept, BookKept
  <2>4. \E l : Inlined(AxisTraces(job).y.routes, l)
    BY <2>1, <2>3, ShapedInlined DEF Found
  <2> DEFINE chunk == best.chunks[n]
  <2>5. \A sy, sx \in Streams : LeftIn(chunk)[chunk.final[sy][sx]] = chunk.finalRect[sy][sx]
    BY <2>1, <2>3, <2>4, CandidateRuns DEF Found
  <2> HIDE DEF chunk
  <2>6. ResultsAligned(chunk)
    BY <2>5, AlignedIs
  <2>7. QED
    BY <2>6 DEF chunk
<1>2. QED
  BY <1>1, PlanKeptAlways, PTL

(***************************************************************************)
(* Two of the planners' TT_FATALs are never reached: no two of a chunk's   *)
(* four results are ever left in one plane, and no plane of a forward      *)
(* chunk is without use (part of OnlyRequestRefused).                      *)
(***************************************************************************)
THEOREM PlanesTold == Spec => [](fault # "aliased" /\ (fault = "unused" => job.inverse))
<1>1. PlanKept => fault # "aliased" /\ (fault = "unused" => job.inverse)
  BY DEF PlanKept, BookKept
<1>2. QED
  BY <1>1, PlanKeptAlways, PTL

(***************************************************************************)
(* Every coefficient of a band, or sample of the image, is made by one of  *)
(* the chunks of the plan and by no more (MadeOnce, part of                *)
(* TransformExact; build_chunks).                                          *)
(***************************************************************************)
THEOREM OutputMadeOnce == Spec => [](phase = "planned" => MadeOnce)
<1>1. PlanKept => (phase = "planned" => MadeOnce)
  <2>1. SUFFICES ASSUME PlanKept, phase = "planned",
                        NEW y \in 0 .. OutputSize(job).y - 1,
                        NEW x \in 0 .. OutputSize(job).x - 1
                 PROVE  Cardinality({n \in 1 .. Len(best.chunks) :
                                       /\ y \in Elements(best.chunks[n].output.y)
                                       /\ x \in Elements(best.chunks[n].output.x)}) = 1
    BY DEF MadeOnce
  <2> DEFINE makers == {n \in 1 .. Len(best.chunks) :
                          /\ y \in Elements(best.chunks[n].output.y)
                          /\ x \in Elements(best.chunks[n].output.x)}
  <2>2. Candidate(job, best.tiles, best.chunks) /\ job \in Jobs
    BY <2>1, BestRuns DEF PlanKept, PlanesKept, BookKept, Found
  <2>3. PICK k \in 1 .. Len(best.chunks) : OnlyChunk(best.chunks, y, x, k)
    <3>1. y \in 0 .. OutputSize(job)["y"] - 1 /\ x \in 0 .. OutputSize(job)["x"] - 1
      BY <2>1
    <3> DEFINE t == best.tiles
               chunks == best.chunks
    <3>2. Candidate(job, t, chunks)
      BY <2>2
    <3> HIDE DEF t, chunks
    <3>3. \E k \in 1 .. Len(chunks) : OnlyChunk(chunks, y, x, k)
      BY <2>2, <3>1, <3>2, CandidateCovers
    <3>4. QED
      BY <3>3 DEF chunks
  <2>4. makers = {k}
    BY <2>3 DEF OnlyChunk, HasSample
  <2> HIDE DEF makers
  <2>5. Cardinality({k}) = 1
    BY FS_Singleton
  <2>6. Cardinality(makers) = 1
    BY <2>4, <2>5
  <2>7. QED
    BY <2>6 DEF makers
<1>2. QED
  BY <1>1, PlanKeptAlways, PTL

-----------------------------------------------------------------------------
(***************************************************************************)
(* Why a plan is refused.                                                  *)
(***************************************************************************)
ChunksAt(j, t) == ChunksOf(j, t, ConesOf(j, t))

\* Every chunk of so many tiles fits the budget by itself.
FitsBudget(j, t) ==
    \A n \in 1 .. Len(ChunksAt(j, t)) :
      Workspace([p \in Planes |-> PlaneShape(ChunksAt(j, t)[n], p)]) <= j.budget

Grid(j) == {t \in [Axes -> Nat \ {0}] : \A a \in Axes : t[a] <= TilesOf(j, a)}

Earlier(t, u) == t.y < u.y \/ (t.y = u.y /\ t.x < u.x)

\* No candidate tried so far fits, or the best one does.
SearchKept ==
    /\ phase = "trace" => tiles = [a \in Axes |-> 1] /\ best = NotFound
    /\ phase = "candidates" =>
         tiles.x \in 1 .. TilesOf(job, "x") /\ tiles.y \in 1 .. TilesOf(job, "y") + 1
    /\ phase = "candidates" /\ best = NotFound =>
         \A t \in Grid(job) : Earlier(t, tiles) => ~FitsBudget(job, t)
    /\ best # NotFound => best.tiles \in Grid(job) /\ FitsBudget(job, best.tiles)

ReasonKept ==
    /\ fault = "scheme" => ~Shaped(job)
    /\ fault = "mode" => ~job.inverse /\ job.mode \in {"reflect", "antireflect"}
                           /\ \E a \in Axes : job.size[a] = 1
    /\ fault = "dependency" => job.inverse \/ ~CoefficientsInside(job)
    /\ fault = "budget" => \A t \in Grid(job) : ~FitsBudget(job, t)
    /\ fault = "uniform" => \E t \in Grid(job) : FitsBudget(job, t)
    /\ fault # "none" => phase = "refused"

LEMMA TilesIs ==
  ASSUME NEW j \in Jobs, NEW a \in Axes
  PROVE  TilesOf(j, a) \in Nat \ {0}
<1>1. OutputSize(j)[a] \in Nat \ {0} /\ Tile \in Nat \ {0}
  BY OutputIs, TileAssumption
<1> DEFINE size == OutputSize(j)[a]
<1>2. TilesOf(j, a) = CeilDiv(size, Tile)
  BY DEF TilesOf
<1> HIDE DEF size
<1>3. size \in Nat \ {0} /\ 0 \in 0 .. size - 1
  BY <1>1 DEF size
<1>4. QED
  BY ONLY <1>1, <1>2, <1>3, ShareIs

LEMMA TilesEqual ==
  ASSUME NEW t, NEW u, t \in [Axes -> Nat \ {0}], u \in [Axes -> Nat \ {0}],
         t.y = u.y, t.x = u.x
  PROVE  t = u
<1>1. \A a \in Axes : t[a] = u[a]
  BY DEF Axes
<1>2. QED
  BY <1>1

LEMMA SearchInitially == Init => SearchKept /\ ReasonKept
BY DEF Init, SearchKept, ReasonKept

LEMMA MakeTracesSearches ==
  ASSUME PlanKept, SearchKept, ReasonKept, MakeTraces
  PROVE  SearchKept' /\ ReasonKept'
<1>1. /\ phase = "trace" /\ traces' = AxisTraces(job) /\ UNCHANGED <<job, tiles, best, planes>>
      /\ fault = "none" /\ job \in Jobs
  BY DEF MakeTraces, PlanKept, BookKept
<1>2. tiles = [a \in Axes |-> 1] /\ best = NotFound
  BY <1>1 DEF SearchKept
<1>3. IF ~ScalesAreTerminal(traces'["y"].routes) THEN phase' = "refused" /\ fault' = "scheme"
      ELSE IF ~job.inverse /\ job.mode \in {"reflect", "antireflect"} /\ \E a \in Axes : job.size[a] = 1
      THEN phase' = "refused" /\ fault' = "mode"
      ELSE phase' = "candidates" /\ fault' = fault
  BY DEF MakeTraces, Refuse
<1>4. tiles.x = 1 /\ tiles.y = 1
  BY <1>2 DEF Axes
<1>5. SearchKept'
  <2>1. phase' # "trace"
    BY <1>3
  <2>2. tiles'.x \in 1 .. TilesOf(job', "x") /\ tiles'.y \in 1 .. TilesOf(job', "y") + 1
    <3>1. TilesOf(job, "x") \in Nat \ {0} /\ TilesOf(job, "y") \in Nat \ {0}
      BY <1>1, TilesIs DEF Axes
    <3>2. QED
      BY <1>1, <1>4, <3>1
  <2>3. \A t \in Grid(job) : ~Earlier(t, tiles)
    <3>1. TAKE t \in Grid(job)
    <3>2. t.y \in Nat \ {0} /\ t.x \in Nat \ {0}
      BY DEF Grid, Axes
    <3>3. QED
      BY <1>4, <3>2 DEF Earlier
  <2>4. best' = NotFound' /\ job' = job /\ tiles' = tiles
    BY <1>1, <1>2 DEF NotFound
  <2>5. QED
    BY <2>1, <2>2, <2>3, <2>4 DEF SearchKept
<1>6. ReasonKept'
  <2>1. fault' = "scheme" => ~Shaped(job')
    BY <1>1, <1>3 DEF Shaped
  <2>2. fault' \in {"none", "scheme", "mode"} /\ (fault' # "none" => phase' = "refused")
    BY <1>1, <1>3
  <2>3. fault' = "mode" => ~job.inverse /\ job.mode \in {"reflect", "antireflect"}
                             /\ \E a \in Axes : job.size[a] = 1
    BY <1>1, <1>3
  <2>4. QED
    BY <1>1, <2>1, <2>2, <2>3 DEF ReasonKept
<1>7. QED
  BY <1>5, <1>6

LEMMA RefuseSchemeSearches ==
  ASSUME PlanKept, SearchKept, ReasonKept, RefuseScheme
  PROVE  SearchKept' /\ ReasonKept'
<1>1. /\ phase = "candidates" /\ phase' = "refused" /\ fault' = "scheme" /\ ~Inlinable
      /\ UNCHANGED <<job, traces, tiles, best, planes>>
  BY DEF RefuseScheme, Refuse
<1>2. ~Shaped(job)
  BY <1>1 DEF Inlinable, PlanKept, TracesKept, Shaped
<1>3. SearchKept'
  <2>1. best' # NotFound' => best.tiles \in Grid(job) /\ FitsBudget(job, best.tiles)
    BY <1>1 DEF SearchKept, NotFound
  <2>2. QED
    BY <1>1, <2>1 DEF SearchKept
<1>4. ReasonKept'
  BY <1>1, <1>2 DEF ReasonKept
<1>5. QED
  BY <1>3, <1>4

\* What comes before the next candidate: what came before this one, and it.
LEMMA NextEarlier ==
  ASSUME job \in Jobs, Positive(tiles), NEW t \in Grid(job),
         tiles.x \in 1 .. TilesOf(job, "x"), Earlier(t, NextTiles)
  PROVE  Earlier(t, tiles) \/ t = tiles
<1>1. /\ t.y \in Nat /\ t.x \in Nat \ {0} /\ t.x <= TilesOf(job, "x")
      /\ t \in [Axes -> Nat \ {0}]
  BY DEF Grid, Axes
<1>2. tiles.y \in Nat /\ tiles.x \in Nat /\ tiles \in [Axes -> Nat \ {0}]
  BY DEF Positive, Axes
<1>3. TilesOf(job, "x") \in Nat
  BY TilesIs DEF Axes
<1>4. CASE tiles.x < TilesOf(job, "x")
  <2>1. NextTiles.x = tiles.x + 1 /\ NextTiles.y = tiles.y
    BY <1>2, <1>4 DEF NextTiles, Axes
  <2>2. t.y < tiles.y \/ (t.y = tiles.y /\ t.x < tiles.x + 1)
    BY <2>1 DEF Earlier
  <2>3. t.y < tiles.y \/ (t.y = tiles.y /\ t.x < tiles.x) \/ (t.y = tiles.y /\ t.x = tiles.x)
    BY <1>1, <1>2, <2>2
  <2>4. QED
    BY <1>1, <1>2, <2>3, TilesEqual DEF Earlier
<1>5. CASE ~(tiles.x < TilesOf(job, "x"))
  <2>1. NextTiles.x = 1 /\ NextTiles.y = tiles.y + 1
    BY <1>5 DEF NextTiles
  <2>2. t.y < tiles.y + 1 \/ (t.y = tiles.y + 1 /\ t.x < 1)
    BY <2>1 DEF Earlier
  <2>3. tiles.x = TilesOf(job, "x")
    BY <1>2, <1>3, <1>5
  <2>4. t.y < tiles.y \/ (t.y = tiles.y /\ t.x < tiles.x) \/ (t.y = tiles.y /\ t.x = tiles.x)
    BY <1>1, <1>2, <2>2, <2>3
  <2>5. QED
    BY <1>1, <1>2, <2>4, TilesEqual DEF Earlier
<1>6. QED
  BY <1>4, <1>5

LEMMA ConsiderSearches ==
  ASSUME PlanKept, SearchKept, ReasonKept, Consider
  PROVE  SearchKept' /\ ReasonKept'
<1> DEFINE cones == AxisCones(job, traces, tiles)
           chunks == ChunksOf(job, tiles, cones)
           found == ChunkFault(cones, chunks)
           fits == \A n \in 1 .. Len(chunks) : FitsAlone(chunks[n])
           candidate == [tiles |-> tiles, chunks |-> chunks]
<1>1. /\ phase = "candidates" /\ Inlinable /\ UNCHANGED <<job, traces, planes>>
      /\ tiles.y <= TilesOf(job, "y")
  BY DEF Consider
<1>2. IF found # "none" THEN Refuse(found) /\ UNCHANGED <<tiles, best>>
      ELSE /\ tiles' = NextTiles
           /\ UNCHANGED <<phase, fault>>
           /\ IF fits
              THEN \/ best' = candidate
                   \/ best # NotFound /\ best' = best
              ELSE best' = best
  BY DEF Consider
<1>3. /\ job \in Jobs /\ Positive(tiles) /\ traces = AxisTraces(job) /\ Shaped(job)
      /\ fault = "none"
  BY <1>1 DEF PlanKept, BookKept, TracesKept, Shaped, Inlinable
<1>4. cones = ConesOf(job, tiles) /\ chunks = ChunksAt(job, tiles)
  BY <1>3 DEF ConesOf, ChunksAt
<1>5. fits <=> FitsBudget(job, tiles)
  BY <1>4 DEF FitsAlone, FitsBudget
<1>6. /\ found \in {"none", "dependency", "unused"}
      /\ found = "dependency" =>
           \E a \in Axes : \E n \in 1 .. Len(cones[a]) : ~cones[a][n].valid
  <2>1. found \in {"none", "dependency", "unused"}
    <3>1. cones = AxisCones(job, AxisTraces(job), tiles) /\ chunks = ChunksOf(job, tiles, cones)
      BY <1>3
    <3> HIDE DEF cones, chunks
    <3>2. QED
      BY <1>3, <3>1, CandidateFault
  <2> HIDE DEF cones, chunks
  <2>2. QED
    BY <2>1 DEF ChunkFault
<1>7. found = "dependency" => job.inverse \/ ~CoefficientsInside(job)
  <2> HIDE DEF cones, chunks, found
  <2>1. QED
    BY <1>3, <1>4, <1>6, ConesValid
<1>8. /\ tiles.x \in 1 .. TilesOf(job, "x") /\ tiles.y \in 1 .. TilesOf(job, "y") + 1
      /\ best = NotFound => \A t \in Grid(job) : Earlier(t, tiles) => ~FitsBudget(job, t)
      /\ best # NotFound => best.tiles \in Grid(job) /\ FitsBudget(job, best.tiles)
  BY <1>1 DEF SearchKept
<1> HIDE DEF cones, found, fits
<1>9. CASE found # "none"
  <2>1. phase' = "refused" /\ fault' = found /\ UNCHANGED <<job, traces, tiles, best, planes>>
    BY <1>1, <1>2, <1>9 DEF Refuse
  <2>2. SearchKept'
    BY <1>8, <2>1 DEF SearchKept, NotFound
  <2>3. ReasonKept'
    BY <1>6, <1>7, <1>9, <2>1 DEF ReasonKept
  <2>4. QED
    BY <2>2, <2>3
<1>10. CASE found = "none"
  <2>1. /\ tiles' = NextTiles /\ UNCHANGED <<phase, fault, job, traces, planes>>
        /\ \/ best' = candidate /\ fits
           \/ best' = best /\ (best = NotFound => ~fits)
    <3> HIDE DEF candidate
    <3>1. QED
      BY <1>1, <1>2, <1>10
  <2>2. TilesOf(job, "x") \in Nat \ {0} /\ TilesOf(job, "y") \in Nat \ {0}
    BY <1>3, TilesIs DEF Axes
  <2>3. /\ NextTiles.x \in 1 .. TilesOf(job, "x")
        /\ NextTiles.y \in 1 .. TilesOf(job, "y") + 1
    <3>1. tiles.y \in Nat \ {0} /\ tiles.x \in Nat \ {0} /\ tiles \in [Axes -> Nat \ {0}]
      BY <1>3 DEF Positive, Axes
    <3>2. CASE tiles.x < TilesOf(job, "x")
      <4>1. NextTiles.x = tiles.x + 1 /\ NextTiles.y = tiles.y
        BY <3>1, <3>2 DEF NextTiles, Axes
      <4>2. QED
        BY <1>8, <2>2, <3>1, <3>2, <4>1
    <3>3. CASE ~(tiles.x < TilesOf(job, "x"))
      <4>1. NextTiles.x = 1 /\ NextTiles.y = tiles.y + 1
        BY <3>3 DEF NextTiles
      <4>2. QED
        BY <1>1, <2>2, <3>1, <4>1
    <3>4. QED
      BY <3>2, <3>3
  <2>4. tiles \in Grid(job)
    <3>1. \A a \in Axes : tiles[a] <= TilesOf(job, a)
      BY <1>1, <1>8, <2>2 DEF Axes
    <3>2. QED
      BY <1>3, <3>1 DEF Grid, Positive
  <2>5. candidate # NotFound
    <3>1. candidate.tiles.y \in Nat \ {0} /\ NotFound.tiles.y = 0
      BY <1>3 DEF Positive, NotFound, Axes
    <3>2. QED
      BY <3>1
  <2>6. best' # NotFound => best'.tiles \in Grid(job) /\ FitsBudget(job, best'.tiles)
    <3>1. CASE best' = candidate /\ fits
      <4>1. best'.tiles = tiles
        BY <3>1
      <4>2. QED
        BY <1>5, <2>4, <3>1, <4>1
    <3>2. QED
      BY <1>8, <2>1, <3>1
  <2>7. best' = NotFound => \A t \in Grid(job) : Earlier(t, NextTiles) => ~FitsBudget(job, t)
    <3>1. HAVE best' = NotFound
    <3>2. best = NotFound /\ ~fits
      BY <2>1, <2>5, <3>1
    <3>3. TAKE t \in Grid(job)
    <3>4. HAVE Earlier(t, NextTiles)
    <3>5. Earlier(t, tiles) \/ t = tiles
      BY <1>3, <1>8, <3>4, NextEarlier
    <3>6. QED
      BY <1>5, <1>8, <3>2, <3>5
  <2> HIDE DEF candidate
  <2>8. SearchKept'
    BY <1>1, <2>1, <2>3, <2>6, <2>7 DEF SearchKept, NotFound
  <2>9. ReasonKept'
    BY <1>3, <2>1 DEF ReasonKept
  <2>10. QED
    BY <2>8, <2>9
<1>11. QED
  BY <1>9, <1>10

LEMMA AllocateSearches ==
  ASSUME PlanKept, SearchKept, ReasonKept, Allocate
  PROVE  SearchKept' /\ ReasonKept'
<1>1. /\ phase = "candidates" /\ UNCHANGED <<job, traces, tiles, best>>
      /\ tiles.y > TilesOf(job, "y") /\ job \in Jobs /\ Positive(tiles) /\ fault = "none"
  BY DEF Allocate, PlanKept, BookKept
<1>2. \/ best = NotFound /\ phase' = "refused" /\ fault' = "budget"
      \/ /\ best # NotFound
         /\ \/ phase' = "planned" /\ fault' = fault
            \/ phase' = "refused" /\ fault' = "uniform"
  BY DEF Allocate, Refuse
<1>3. /\ best = NotFound => \A t \in Grid(job) : Earlier(t, tiles) => ~FitsBudget(job, t)
      /\ best # NotFound => best.tiles \in Grid(job) /\ FitsBudget(job, best.tiles)
  BY <1>1 DEF SearchKept
<1>4. \A t \in Grid(job) : Earlier(t, tiles)
  <2>1. TAKE t \in Grid(job)
  <2>2. t.y \in Nat /\ t.y <= TilesOf(job, "y")
    BY DEF Grid, Axes
  <2>3. tiles.y \in Nat /\ TilesOf(job, "y") \in Nat
    BY <1>1, TilesIs DEF Positive, Axes
  <2>4. QED
    BY <1>1, <2>2, <2>3 DEF Earlier
<1>5. SearchKept'
  BY <1>1, <1>2, <1>3 DEF SearchKept, NotFound
<1>6. ReasonKept'
  BY <1>1, <1>2, <1>3, <1>4 DEF ReasonKept
<1>7. QED
  BY <1>5, <1>6

LEMMA ReasonAlways == Spec => [](SearchKept /\ ReasonKept)
<1>1. PlanKept /\ (SearchKept /\ ReasonKept) /\ [Next]_vars => (SearchKept /\ ReasonKept)'
  <2>1. SUFFICES ASSUME PlanKept, SearchKept, ReasonKept, [Next]_vars
                 PROVE  SearchKept' /\ ReasonKept'
    OBVIOUS
  <2>2. CASE MakeTraces
    BY <2>1, <2>2, MakeTracesSearches
  <2>3. CASE RefuseScheme
    BY <2>1, <2>3, RefuseSchemeSearches
  <2>4. CASE Consider
    BY <2>1, <2>4, ConsiderSearches
  <2>5. CASE Allocate
    BY <2>1, <2>5, AllocateSearches
  <2>6. CASE UNCHANGED vars
    BY <2>1, <2>6 DEF vars, SearchKept, ReasonKept, NotFound
  <2>7. QED
    BY <2>1, <2>2, <2>3, <2>4, <2>5, <2>6 DEF Next
<1>2. QED
  BY <1>1, SearchInitially, PlanKeptAlways, PTL DEF Spec

(***************************************************************************)
(* Of the checks that the code makes of the dependencies of a chunk none   *)
(* refuses a forward plan whose coefficients are where canonical_start     *)
(* says, in streams that are long enough; and where they are not, every    *)
(* forward plan is refused, however the output is divided (ForwardCone,    *)
(* build_axis_cone): what going back needs, the operands always have.  So  *)
(* a forward plan is refused for the scheme, the mode or the budget alone, *)
(* or because what all chunks are given together exceeds it ("uniform").   *)
(***************************************************************************)
THEOREM ForwardPlanRefusals ==
    Spec => [](~job.inverse =>
                 /\ fault \in {"none", "scheme", "mode", "dependency", "budget", "uniform"}
                 /\ fault = "scheme" => ~Shaped(job)
                 /\ fault = "dependency" => ~CoefficientsInside(job)
                 /\ phase = "planned" => CoefficientsInside(job))
<1> DEFINE Refused == ~job.inverse =>
                 /\ fault \in {"none", "scheme", "mode", "dependency", "budget", "uniform"}
                 /\ fault = "scheme" => ~Shaped(job)
                 /\ fault = "dependency" => ~CoefficientsInside(job)
                 /\ phase = "planned" => CoefficientsInside(job)
<1>1. PlanKept /\ (SearchKept /\ ReasonKept) => Refused
  <2>1. SUFFICES ASSUME PlanKept, ReasonKept, ~job.inverse PROVE Refused
    OBVIOUS
  <2>2. /\ fault \in {"none", "scheme", "mode", "dependency", "budget", "uniform"}
        /\ fault = "scheme" => ~Shaped(job)
        /\ fault = "dependency" => ~CoefficientsInside(job)
    BY <2>1 DEF PlanKept, BookKept, ReasonKept
  <2>3. ASSUME phase = "planned" PROVE CoefficientsInside(job)
    <3>1. job \in Jobs /\ Candidate(job, best.tiles, best.chunks)
      BY <2>1, <2>3 DEF PlanKept, BookKept, BestKept, PlanesKept, Found
    <3>2. Positive(best.tiles)
          /\ \A a \in Axes : \A n \in 1 .. Len(ConesOf(job, best.tiles)[a]) :
               ConesOf(job, best.tiles)[a][n].valid
      BY <3>1 DEF Candidate
    <3>3. QED
      BY <2>1, <3>1, <3>2, ConesValid
  <2>4. QED
    BY <2>2, <2>3
<1>2. QED
  BY <1>1, PlanKeptAlways, ReasonAlways, PTL

(***************************************************************************)
(* A plan of either direction is refused for its budget only if no         *)
(* division of the output into chunks of whole tiles has chunks that all   *)
(* fit; one that is refused in the end, when the planes are allocated, had *)
(* such a division, and so has every plan that is made                     *)
(* (make_lwt_2d_execution_plan, make_ilwt_2d_execution_plan: the loops     *)
(* over the candidates leave none out, and the first that fits is taken).  *)
(***************************************************************************)
THEOREM BudgetRefusals ==
    Spec => [](/\ fault = "budget" => \A t \in Grid(job) : ~FitsBudget(job, t)
               /\ fault = "uniform" => \E t \in Grid(job) : FitsBudget(job, t)
               /\ phase = "planned" =>
                    best.tiles \in Grid(job) /\ FitsBudget(job, best.tiles))
<1>1. PlanKept /\ (SearchKept /\ ReasonKept) =>
        (/\ fault = "budget" => \A t \in Grid(job) : ~FitsBudget(job, t)
         /\ fault = "uniform" => \E t \in Grid(job) : FitsBudget(job, t)
         /\ phase = "planned" =>
              best.tiles \in Grid(job) /\ FitsBudget(job, best.tiles))
  BY DEF PlanKept, PlanesKept, SearchKept, ReasonKept
<1>2. QED
  BY <1>1, PlanKeptAlways, ReasonAlways, PTL
=============================================================================
