--------------------------- MODULE LiftingRoutes ---------------------------
(***************************************************************************)
(* The routes of a lifting scheme applied to a signal of a given length    *)
(* (append_forward_route): for every step the slots its streams are in and *)
(* the lengths and offsets that the shifts of the two streams give it.     *)
(*                                                                         *)
(* A trace is [stream, active, routes]: shift and length of both streams,  *)
(* the slots they are in and the free one, and the routes so far.          *)
(***************************************************************************)
EXTENDS PlanArithmetic, LiftingScheme

FinalDram == [even |-> "finalEven", odd |-> "finalOdd"]

\* The signal is extended by tap_size - 1 samples on either side.
Pad(j) == j.scheme.taps - 1

PaddedLength(j) == j.length + 2 * Pad(j)

\* make_split_signal
SplitLength(j) ==
    [even |-> CeilDiv(PaddedLength(j), 2), odd |-> PaddedLength(j) \div 2]

InitialStreams(j) ==
    [s \in Streams |-> [shift |-> j.scheme.delay[s], length |-> SplitLength(j)[s]]]

\* Coefficients of either kind that the transform of the job hands over.
OutputLength(j) == (j.length + j.scheme.taps - 1) \div 2

\* Faulty variant: an even number of taps is halved after the last is lost.
CanonicalStartEarly(j) == Pad(j) \div 2

\* Absolute position of coefficient 0.
CanonicalStart(j) == (Pad(j) + 1) \div 2

HomeSlots == [even |-> "A", odd |-> "B", free |-> "Scratch"]

EmptyTrace(j) == [stream |-> InitialStreams(j), active |-> HomeSlots, routes |-> <<>>]

\* A stream moves to the free slot, and the slot it was in becomes free.
Moved(slots, s) == [slots EXCEPT ![s] = slots.free, !.free = slots[s]]

LiftTraced(trace, step) ==
    LET target == Target(step.type)
        operand == Other[target]
        stream == trace.stream
        geo == StepGeometry(stream[operand], step.shift, Len(step.coeff), stream[target])
    IN [stream |-> [stream EXCEPT
            ![target] = [shift |-> geo.shift, length |-> geo.length]],
        active |-> Moved(trace.active, target),
        routes |-> Append(trace.routes,
            [type |-> step.type, k |-> Len(step.coeff),
             source |-> trace.active[operand], base |-> trace.active[target],
             output |-> trace.active.free, storage |-> "workspace",
             sourceLength |-> stream[operand].length,
             baseLength |-> stream[target].length,
             sourceOffset |-> geo.sourceOffset, baseOffset |-> geo.baseOffset,
             outputLength |-> geo.length])]

ScaleTraced(trace, step) ==
    LET target == Target(step.type)
        len == trace.stream[target].length
    IN [trace EXCEPT
          !.active = Moved(@, target),
          !.routes = Append(@,
            [type |-> step.type, k |-> 1,
             source |-> trace.active[target], base |-> trace.active[target],
             output |-> trace.active.free, storage |-> "workspace",
             sourceLength |-> len, baseLength |-> len,
             sourceOffset |-> 0, baseOffset |-> 0, outputLength |-> len])]

\* A swap moves no data: the streams change names.
SwapTraced(trace) ==
    [stream |-> [s \in Streams |-> trace.stream[Other[s]]],
     active |-> [trace.active EXCEPT !.even = trace.active.odd,
                                     !.odd = trace.active.even],
     routes |-> Append(trace.routes,
        [type |-> "swap", k |-> 0,
         source |-> trace.active.even, base |-> trace.active.odd,
         output |-> trace.active.even, storage |-> "workspace",
         sourceLength |-> trace.stream.even.length,
         baseLength |-> trace.stream.odd.length,
         sourceOffset |-> 0, baseOffset |-> 0, outputLength |-> 0])]

Traced(trace, step) ==
    IF IsLift(step.type) THEN LiftTraced(trace, step)
    ELSE IF IsScale(step.type) THEN ScaleTraced(trace, step)
    ELSE SwapTraced(trace)

\* A scheme ends in one scale of each stream, and has no other.
ScalesAreTerminal(routes) ==
    LET n == Len(routes)
    IN /\ n >= 2
       /\ \A i \in 1 .. n - 2 : ~IsScale(routes[i].type)
       /\ {routes[n - 1].type, routes[n].type} = {"scale-even", "scale-odd"}

\* route_terminal_scales_to_final_dram
TerminalScalesRouted(routes) ==
    [i \in 1 .. Len(routes) |->
       IF i > Len(routes) - 2
       THEN [routes[i] EXCEPT !.storage = FinalDram[Target(routes[i].type)]]
       ELSE routes[i]]
============================================================================
