-------------------------- MODULE LiftingTransform --------------------------
(***************************************************************************)
(* The 1D lifting transform of the work items of one core, as the host     *)
(* that planned it understands it: load the two streams of an item, run    *)
(* the routes one after the other, each replacing one stream by a value    *)
(* computed from both, then hand the two streams over as the result.       *)
(* There are no kernels, no slots and no buffers here; LwtPipeline is      *)
(* checked to implement this.                                              *)
(***************************************************************************)
EXTENDS LiftingData

CONSTANTS
    ItemCount,          \* work items of the core
    Input(_, _),        \* item, stream: the groups loaded for it
    GroupCount(_, _)    \* item, route: output groups of the route

VARIABLES
    phase,      \* "load" or "lift"
    done,       \* routes completed for the current item
    stream,     \* the two streams, each a sequence of groups
    result      \* the results handed over, one per finished item

vars == <<phase, done, stream, result>>

Item == Len(result)

NoStreams == [s \in Streams |-> <<>>]

Init ==
    /\ phase = "load"
    /\ done = 0
    /\ stream = NoStreams
    /\ result = <<>>

\* The part of a stream that is visible through a window.
View(seq, window) == [h \in window |-> seq[h]]

\* The new value of the stream that route r replaces.
Applied(r) ==
    LET source == stream[Routes[r].operand]
        base == stream[Routes[r].target]
        Shifted(g) == View(source, SourceWindow(Len(source), g))
        Straight(seq, g) == View(seq, BaseWindow(Len(seq), g))
    IN [g \in 1 .. GroupCount(Item, r) |->
          IF Routes[r].kind = "lift"
          THEN Lift(r, g, Shifted(g), Shifted(g), Straight(base, g))
          ELSE Scale(r, g, Straight(source, g))]

Load ==
    /\ phase = "load"
    /\ Item < ItemCount
    /\ stream' = [s \in Streams |-> Input(Item, s)]
    /\ phase' = "lift"
    /\ UNCHANGED <<done, result>>

RunRoute ==
    /\ phase = "lift"
    /\ done < RouteCount
    /\ stream' = [stream EXCEPT ![Routes[done + 1].target] = Applied(done + 1)]
    /\ done' = done + 1
    /\ UNCHANGED <<phase, result>>

HandOver ==
    /\ phase = "lift"
    /\ done = RouteCount
    /\ result' = Append(result, stream)
    /\ stream' = NoStreams
    /\ done' = 0
    /\ phase' = "load"

Next == Load \/ RunRoute \/ HandOver

Spec == Init /\ [][Next]_vars /\ WF_vars(Next)
=============================================================================
