------------------------------ MODULE AxisCone ------------------------------
(***************************************************************************)
(* What one axis of a rectangle of output depends on, route by route: the  *)
(* cone of the forward transform, worked out backwards from coefficients,  *)
(* and that of the inverse, worked out forwards from samples and run in    *)
(* reverse.                                                                *)
(*                                                                         *)
(* A cone is [valid, initial, final, routes]: whether no interval left its *)
(* stream, what is needed of the two streams at its two ends, and for      *)
(* every route, in the order they are run, the intervals it reads and      *)
(* writes.                                                                 *)
(***************************************************************************)
EXTENDS AxisRequirements

Nothing == Interval(0, 0)

\* make_forward_lifting_plan
AxisTrace(j) ==
    LET trace == FoldLeft(Traced, EmptyTrace(j), j.scheme.steps)
    IN [trace EXCEPT !.routes = TerminalScalesRouted(@)]

FinalLength(trace) ==
    [even |-> trace.stream.even.length, odd |-> trace.stream.odd.length]

-----------------------------------------------------------------------------
(***************************************************************************)
(* Forward.                                                                *)
(***************************************************************************)
\* Where coefficients are in a final stream (canonical_to_stream_interval).
InStream(j, trace, s, canonical) ==
    LET offset == CanonicalStart(j) - trace.stream[s].shift
    IN Interval(canonical.begin + offset, canonical.end + offset)

\* The needs around every route, the first one first, from the last one.
Backpropagated(j, trace, need) ==
    LET Before(route, done) ==
            LET before == Needed(route, done.needs[1])
                len == LengthBefore(route, done.length)
            IN [needs |-> <<before>> \o done.needs, length |-> len,
                valid |-> /\ done.valid
                          /\ LeavesLengths(route, done.length)
                          /\ AllValid(before, len)]
        start == [needs |-> <<need>>, length |-> FinalLength(trace),
                  valid |-> AllValid(need, FinalLength(trace))]
        whole == FoldRight(Before, trace.routes, start)
    IN [whole EXCEPT !.valid = @ /\ whole.length = SplitLength(j)]

\* The scale that the last lift takes along has nothing left to write.
ForwardRoute(route, before, after, fused) ==
    LET output == after[Target(route.type)]
    IN IF route.type = "swap"
       THEN [type |-> "swap", source |-> before.even, base |-> before.odd,
             output |-> Nothing]
       ELSE [type |-> route.type,
             source |-> Translated(output, route.sourceOffset, route.k - 1),
             base |-> Translated(output, route.baseOffset, 0),
             output |-> IF fused THEN Nothing ELSE output]

ForwardCone(j, trace, canonical) ==
    LET final == [even |-> InStream(j, trace, "even", canonical),
                  odd |-> InStream(j, trace, "odd", canonical)]
        back == Backpropagated(j, trace, final)
        Fused(route) == route.type = ScaleOf[InlineResult(trace.routes)]
    IN [valid |-> back.valid /\ \A s \in Streams : final[s].begin >= 0,
        initial |-> back.needs[1],
        final |-> final,
        routes |-> [i \in 1 .. Len(trace.routes) |->
            ForwardRoute(trace.routes[i], back.needs[i], back.needs[i + 1],
                         Fused(trace.routes[i]))]]

-----------------------------------------------------------------------------
(***************************************************************************)
(* Inverse.                                                                *)
(***************************************************************************)
\* The samples of either parity (reconstructed_parity_interval).
SplitOf(j, output) ==
    LET b == output.begin + Pad(j)
        e == output.end + Pad(j)
    IN [even |-> Interval((b + 1) \div 2, (e + 1) \div 2),
        odd |-> Interval(b \div 2, e \div 2)]

\* The needs around every route, the first one first, from the first one.
Propagated(j, trace, need) ==
    LET After(done, route) ==
            LET before == Last(done.needs)
                after == NeededAfter(route, before)
                len == LengthAfter(route, done.length)
            IN [needs |-> Append(done.needs, after), length |-> len,
                valid |-> /\ done.valid
                          /\ FindsLengths(route, done.length)
                          /\ Kept(route, before)
                          /\ AllValid(after, len)]
        start == [needs |-> <<need>>, length |-> SplitLength(j),
                  valid |-> AllValid(need, SplitLength(j))]
        whole == FoldLeft(After, start, trace.routes)
    IN [whole EXCEPT !.valid = @ /\ whole.length = FinalLength(trace)]

\* A scale is left to the lifts that read the stream.
InverseRoute(route, found, left) ==
    LET target == Target(route.type)
        base == Undone(route, left)
    IN IF route.type = "swap"
       THEN [type |-> "swap", source |-> found.even, base |-> found.odd,
             output |-> Nothing]
       ELSE IF IsScale(route.type)
       THEN [type |-> route.type, source |-> found[target], base |-> Nothing,
             output |-> Nothing]
       ELSE [type |-> route.type,
             source |-> Translated(base, route.sourceOffset, route.k - 1),
             base |-> base, output |-> left[target]]

InverseCone(j, trace, output) ==
    LET final == SplitOf(j, output)
        forth == Propagated(j, trace, final)
    IN [valid |-> forth.valid,
        initial |-> Last(forth.needs),
        final |-> final,
        routes |-> Reverse([i \in 1 .. Len(trace.routes) |->
            InverseRoute(trace.routes[i], forth.needs[i + 1], forth.needs[i])])]
=============================================================================
