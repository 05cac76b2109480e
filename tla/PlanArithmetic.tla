--------------------------- MODULE PlanArithmetic ---------------------------
(***************************************************************************)
(* The arithmetic of the 1D planners: half-open intervals of stream        *)
(* elements (IndexInterval), rounding, the length and the offsets of a     *)
(* predict or update (compute_step_geometry), and the division of a number *)
(* of units into almost equal consecutive shares, used for output groups   *)
(* over chunks and for work items over cores.                              *)
(***************************************************************************)
EXTENDS Integers, Sequences

CONSTANTS
    GroupElements,      \* samples of an output group (kLwtGroupOutputElements)
    StickWidth          \* samples of a stick

ASSUME UnitsAssumption ==
    /\ StickWidth \in Nat \ {0}
    /\ GroupElements \in Nat \ {0}
    /\ GroupElements % StickWidth = 0

Smaller(a, b) == IF a <= b THEN a ELSE b

Larger(a, b) == IF a <= b THEN b ELSE a

CeilDiv(n, d) == (n + d - 1) \div d

RoundUp(n, unit) == CeilDiv(n, unit) * unit

-----------------------------------------------------------------------------
Interval(b, e) == [begin |-> b, end |-> e]

Empty(i) == i.begin = i.end

Extent(i) == i.end - i.begin

\* contains
Covers(outer, inner) ==
    Empty(inner) \/ (outer.begin <= inner.begin /\ inner.end <= outer.end)

Hull(i, j) ==
    IF Empty(i) THEN j
    ELSE IF Empty(j) THEN i
    ELSE Interval(Smaller(i.begin, j.begin), Larger(i.end, j.end))

\* Shifted right by offset, and longer by expansion; nothing stays nothing.
Translated(i, offset, expansion) ==
    IF Empty(i) THEN i ELSE Interval(i.begin + offset, i.end + offset + expansion)

\* subtract_offset, which refuses to go below zero.
CanSubtract(i, offset) == Empty(i) \/ i.begin >= offset

Subtracted(i, offset) ==
    IF Empty(i) THEN i ELSE Interval(i.begin - offset, i.end - offset)

\* validate_interval
ValidIn(i, length) == i.begin <= i.end /\ i.end <= length

\* Where data required from a stream is in what is stored of it.
LocalOffset(storage, required) ==
    IF Empty(required) THEN 0 ELSE required.begin - storage.begin

-----------------------------------------------------------------------------
(***************************************************************************)
(* A predict or update adds to base(t) the sum over j of                   *)
(* coeff[j] * source(t - shift - j), t being an absolute position: a       *)
(* stream of a given shift keeps the value at t in element t - shift.  The *)
(* result exists where the base and the whole filter window do.            *)
(***************************************************************************)
\* Faulty variant: the result begins where the base does.
StepGeometryUncut(source, shift, k, base) ==
    LET convShift == source.shift + shift + Smaller(source.length, k) - 1
        convLength == IF source.length >= k THEN source.length - k + 1 ELSE 0
        outEnd == Smaller(base.shift + base.length, convShift + convLength)
    IN [shift        |-> base.shift,
        length       |-> Larger(outEnd - base.shift, 0),
        sourceOffset |-> base.shift - convShift,
        baseOffset   |-> 0]

StepGeometry(source, shift, k, base) ==
    LET convShift == source.shift + shift + Smaller(source.length, k) - 1
        convLength == IF source.length >= k THEN source.length - k + 1 ELSE 0
        outShift == Larger(base.shift, convShift)
        outEnd == Smaller(base.shift + base.length, convShift + convLength)
    IN [shift        |-> outShift,
        length       |-> Larger(outEnd - outShift, 0),
        sourceOffset |-> outShift - convShift,
        baseOffset   |-> outShift - base.shift]

-----------------------------------------------------------------------------
(***************************************************************************)
(* total units in parts consecutive shares, the first total % parts of     *)
(* which get one more than the others.                                     *)
(***************************************************************************)
\* Faulty variant: the remainder is dropped.
ShareSizeFloor(total, parts, p) == total \div parts

ShareSize(total, parts, p) ==
    total \div parts + (IF p < total % parts THEN 1 ELSE 0)

\* Units before share p, 0 <= p <= parts: the sum of the shares before it.
ShareBegin(total, parts, p) ==
    p * (total \div parts) + Smaller(p, total % parts)

GroupsOf(length, groupSize) == Larger(CeilDiv(length, groupSize), 1)
=============================================================================
