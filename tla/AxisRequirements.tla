-------------------------- MODULE AxisRequirements --------------------------
(***************************************************************************)
(* What is needed of the two streams at one end of a route, given what is  *)
(* needed at the other: backwards through the routes for the forward       *)
(* transform (backpropagate_requirements), forwards for the inverse        *)
(* (propagate_requirements).  A need maps either stream to an interval.    *)
(***************************************************************************)
EXTENDS LiftingRoutes

AllValid(need, len) == \A s \in Streams : ValidIn(need[s], len[s])

-----------------------------------------------------------------------------
\* Faulty variant: the filter window is one sample short.
NeededShort(route, need) ==
    LET t == Target(route.type)
    IN IF route.type = "swap" THEN [even |-> need.odd, odd |-> need.even]
       ELSE IF IsScale(route.type)
       THEN [need EXCEPT ![t] = Translated(@, route.sourceOffset, 0)]
       ELSE [need EXCEPT
               ![t] = Translated(@, route.baseOffset, 0),
               ![Other[t]] = Hull(@, Translated(need[t], route.sourceOffset,
                                                Larger(route.k - 2, 0)))]

\* What is needed before a route, from what is needed after it.
Needed(route, need) ==
    LET t == Target(route.type)
    IN IF route.type = "swap" THEN [even |-> need.odd, odd |-> need.even]
       ELSE IF IsScale(route.type)
       THEN [need EXCEPT ![t] = Translated(@, route.sourceOffset, 0)]
       ELSE [need EXCEPT
               ![t] = Translated(@, route.baseOffset, 0),
               ![Other[t]] = Hull(@, Translated(need[t], route.sourceOffset,
                                                route.k - 1))]

LengthBefore(route, len) ==
    LET t == Target(route.type)
    IN IF route.type = "swap"
       THEN [even |-> route.sourceLength, odd |-> route.baseLength]
       ELSE IF IsScale(route.type) THEN [len EXCEPT ![t] = route.sourceLength]
       ELSE [len EXCEPT ![t] = route.baseLength, ![Other[t]] = route.sourceLength]

\* The lengths a route is known to leave are those after it.
LeavesLengths(route, len) ==
    LET t == Target(route.type)
    IN IF route.type = "swap"
       THEN len = [even |-> route.baseLength, odd |-> route.sourceLength]
       ELSE /\ len[t] = route.outputLength
            /\ IsLift(route.type) => len[Other[t]] = route.sourceLength

-----------------------------------------------------------------------------
Undone(route, need) == Subtracted(need[Target(route.type)], route.baseOffset)

\* What is needed after a route, to undo it, from what is needed before it.
NeededAfter(route, need) ==
    LET t == Target(route.type)
    IN IF route.type = "swap" THEN [even |-> need.odd, odd |-> need.even]
       ELSE IF IsScale(route.type) THEN need
       ELSE [need EXCEPT
               ![t] = Undone(route, need),
               ![Other[t]] = Hull(@, Translated(Undone(route, need),
                                                route.sourceOffset, route.k - 1))]

LengthAfter(route, len) ==
    LET t == Target(route.type)
    IN IF route.type = "swap" THEN [even |-> len.odd, odd |-> len.even]
       ELSE IF IsScale(route.type) THEN [len EXCEPT ![t] = route.outputLength]
       ELSE [len EXCEPT ![t] = route.outputLength, ![Other[t]] = route.sourceLength]

\* The lengths a route is known to find are those before it.
FindsLengths(route, len) ==
    LET t == Target(route.type)
    IN IF route.type = "swap"
       THEN len = [even |-> route.sourceLength, odd |-> route.baseLength]
       ELSE IF IsScale(route.type) THEN len[t] = route.sourceLength
       ELSE len[t] = route.baseLength /\ len[Other[t]] = route.sourceLength

\* What the forward route discarded at the ends cannot be asked for.
Kept(route, need) ==
    IsLift(route.type) =>
      LET t == Target(route.type)
      IN /\ Covers(Interval(route.baseOffset, route.baseOffset + route.outputLength),
                   need[t])
         /\ CanSubtract(need[t], route.baseOffset)

-----------------------------------------------------------------------------
(***************************************************************************)
(* terminal_scale_inline: the last lift, which takes a terminal scale      *)
(* along, and the stream its result becomes.                               *)
(***************************************************************************)
HasLift(routes) == \E i \in 1 .. Len(routes) : IsLift(routes[i].type)

InlineRoute(routes) ==
    CHOOSE i \in 1 .. Len(routes) - 2 :
      IsLift(routes[i].type)
        /\ \A n \in i + 1 .. Len(routes) - 2 : ~IsLift(routes[n].type)

OnlySwapsFollow(routes) ==
    \A i \in InlineRoute(routes) + 1 .. Len(routes) - 2 : routes[i].type = "swap"

CanInline(routes) ==
    Len(routes) >= 3 /\ HasLift(routes) /\ OnlySwapsFollow(routes)

InlineResult(routes) ==
    LET target == Target(routes[InlineRoute(routes)].type)
    IN IF (Len(routes) - 2 - InlineRoute(routes)) % 2 = 1 THEN Other[target]
       ELSE target
=============================================================================
