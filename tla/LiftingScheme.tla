--------------------------- MODULE LiftingScheme ---------------------------
(***************************************************************************)
(* Lifting schemes, and what the compute kernel makes of one.              *)
(*                                                                         *)
(* A scheme is [taps, delay, steps, undo]; a step is [type, shift, coeff], *)
(* where a scale has one coefficient and a swap none, and undo are the     *)
(* steps of the inverse scheme.  The kernel is compiled for one of the     *)
(* two: run_static_steps unrolls its steps into a sequence of              *)
(* operations, one per route, and decides at compile time where the        *)
(* terminal scales are applied.  The planner decides the same thing again  *)
(* for the routes; nothing but these two decisions being alike makes the   *)
(* operations fit the routes.                                              *)
(*                                                                         *)
(* FP32 arithmetic is replaced by integers modulo a prime, in which every  *)
(* scale has a reciprocal.                                                 *)
(***************************************************************************)
EXTENDS Integers, Sequences, SequencesExt

CONSTANT Modulus

Streams == {"even", "odd"}
Slots == {"A", "B", "Scratch"}

StepTypes == {"predict", "update", "scale-even", "scale-odd", "swap"}

Other == [even |-> "odd", odd |-> "even"]

IsLift(type) == type \in {"predict", "update"}
IsScale(type) == type \in {"scale-even", "scale-odd"}

\* The stream a step replaces.
Target(type) == IF type \in {"predict", "scale-odd"} THEN "odd" ELSE "even"

ScaleOf == [even |-> "scale-even", odd |-> "scale-odd"]

Reciprocal(a) == CHOOSE b \in 1 .. Modulus - 1 : (a * b) % Modulus = 1

(***************************************************************************)
(* inverse_steps: the steps in reverse, lifts subtracting what they added, *)
(* scales dividing by what they multiplied with.                           *)
(***************************************************************************)
InverseSteps(steps) ==
    [i \in 1 .. Len(steps) |->
       LET step == steps[Len(steps) + 1 - i]
       IN [step EXCEPT !.coeff =
             IF IsLift(step.type)
             THEN [j \in 1 .. Len(step.coeff) |-> (-step.coeff[j]) % Modulus]
             ELSE IF IsScale(step.type) THEN <<Reciprocal(step.coeff[1])>>
             ELSE step.coeff]]

\* The coefficient of the terminal scale of a stream.
ScaleFactor(steps, s) ==
    LET i == CHOOSE n \in 1 .. Len(steps) : steps[n].type = ScaleOf[s]
    IN steps[i].coeff[1]

\* last_predict_update_step_index
LastLift(steps) ==
    CHOOSE i \in 1 .. Len(steps) :
      IsLift(steps[i].type)
        /\ \A n \in i + 1 .. Len(steps) : ~IsLift(steps[n].type)

\* How often the streams change names from step i on.
Swaps(steps, i) ==
    Len(SelectSeq(SubSeq(steps, i, Len(steps)), LAMBDA x : x.type = "swap"))

\* Faulty variant: a swap after the last lift is overlooked.
InlineStreamUnswapped(steps) == Target(steps[LastLift(steps)].type)

\* inline_terminal_scale_type: the stream that leaves the last lift scaled.
InlineStream(steps) ==
    LET target == Target(steps[LastLift(steps)].type)
    IN IF Swaps(steps, LastLift(steps) + 1) % 2 = 1 THEN Other[target] ELSE target

\* An operation of the kernel: a lift that scales its operands on the way
\* in and its result on the way out, or a scale.
LiftOp(step, source, base, result) ==
    [kind |-> "lift", coeff |-> step.coeff, source |-> source, base |-> base,
     result |-> result]

ScaleOp(step) ==
    [kind |-> "scale", coeff |-> step.coeff, source |-> 1, base |-> 1,
     result |-> 1]

\* run_static_steps for LWT: the last lift scales its result.
ForwardProgram(steps) ==
    LET Op(i) ==
          IF IsLift(steps[i].type)
          THEN <<LiftOp(steps[i], 1, 1,
                        IF i = LastLift(steps)
                        THEN ScaleFactor(steps, InlineStream(steps)) ELSE 1)>>
          ELSE IF IsScale(steps[i].type) /\ steps[i].type # ScaleOf[InlineStream(steps)]
          THEN <<ScaleOp(steps[i])>>
          ELSE <<>>
    IN FoldLeftDomain(LAMBDA ops, i : ops \o Op(i), <<>>, steps)

(***************************************************************************)
(* run_static_steps for ILWT.  The two scales come first and are never     *)
(* materialised: each stream is scaled whenever it is read until it is     *)
(* first replaced, and a swap exchanges what is still owed.                *)
(***************************************************************************)
\* Faulty variant: only the first use of a stream is scaled.
OwedOnce(owed, step) ==
    IF step.type = "swap" THEN [s \in Streams |-> owed[Other[s]]]
    ELSE IF IsLift(step.type) THEN [s \in Streams |-> 1]
    ELSE owed

Owed(owed, step) ==
    IF step.type = "swap" THEN [s \in Streams |-> owed[Other[s]]]
    ELSE IF IsLift(step.type) THEN [owed EXCEPT ![Target(step.type)] = 1]
    ELSE owed

InverseProgram(steps) ==
    LET Op(owed, step) ==
          IF IsLift(step.type)
          THEN <<LiftOp(step, owed[Other[Target(step.type)]],
                        owed[Target(step.type)], 1)>>
          ELSE <<>>
        start == [owed |-> [s \in Streams |-> ScaleFactor(steps, s)], ops |-> <<>>]
    IN FoldLeft(LAMBDA state, step :
                  [owed |-> Owed(state.owed, step),
                   ops |-> state.ops \o Op(state.owed, step)],
                start, steps).ops

-----------------------------------------------------------------------------
(***************************************************************************)
(* One route of the device: an operation on what is stored at its offsets. *)
(* The window of an output sample is read in reverse order, as the stencil *)
(* shifts the sources to the right; what is not stored reads as zero.      *)
(***************************************************************************)
Stored(seq, i) == IF i < Len(seq) THEN seq[i + 1] ELSE 0

\* The sum of coeff[j] * Value(j).
Weighted(coeff, Value(_)) ==
    LET sum[j \in 0 .. Len(coeff)] ==
            IF j = 0 THEN 0 ELSE sum[j - 1] + coeff[j] * Value(j)
    IN sum[Len(coeff)]

\* f, with its values computed once and not at every use.
Evaluated(f) == CHOOSE g \in {f} : g = g

Computed(op, route, slot) ==
    LET k == Len(op.coeff)
        Source(i) == Stored(slot[route.source], route.sourceOffset + i)
        Base(i) == Stored(slot[route.base], route.baseOffset + i)
        Window(i) == Weighted(op.coeff, LAMBDA j : Source(i + k - j))
    IN Evaluated([i \in 1 .. route.outputLength |->
         IF op.kind = "lift"
         THEN (op.result * (op.base * Base(i - 1) + op.source * Window(i - 1))) % Modulus
         ELSE (op.coeff[1] * Base(i - 1)) % Modulus])
============================================================================
