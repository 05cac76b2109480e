-------------------------- MODULE LiftingReference --------------------------
(***************************************************************************)
(* What a lifting scheme computes, with no chunks, no slots and no         *)
(* trimming: every step applied to the two streams at every absolute       *)
(* position at which its operands exist.  The planners are checked against *)
(* this.                                                                   *)
(***************************************************************************)
EXTENDS LiftingScheme

CONSTANT Signal(_)      \* sample of the extended signal, in 0 .. Modulus - 1

\* No value exists at a position.
Missing == -1

(***************************************************************************)
(* The two streams after every step.  A step at t takes the operand at     *)
(* t - shift - j for coefficient j.                                        *)
(***************************************************************************)
IdealOf(scheme, padded, Sample(_)) ==
    LET times == 0 .. padded
        split == [even |-> (padded + 1) \div 2, odd |-> padded \div 2]
        Loaded(s, i) ==
            IF i \in 0 .. split[s] - 1
            THEN Sample(2 * i + (IF s = "odd" THEN 1 ELSE 0)) ELSE Missing
        Look(row, t) == IF t \in times THEN row[t] ELSE Missing
        Lifted(step, source, base) ==
            Evaluated([t \in times |->
               LET Window(j) == Look(source, t - step.shift - (j - 1))
               IN IF base[t] = Missing
                       \/ \E j \in 1 .. Len(step.coeff) : Window(j) = Missing
                  THEN Missing
                  ELSE (base[t] + Weighted(step.coeff, Window)) % Modulus])
        Scaled(factor, row) ==
            Evaluated([t \in times |-> IF row[t] = Missing THEN Missing
                                       ELSE (factor * row[t]) % Modulus])
        After(rows, step) ==
            LET target == Target(step.type)
            IN IF step.type = "swap" THEN [s \in Streams |-> rows[Other[s]]]
               ELSE [rows EXCEPT ![target] =
                       IF IsLift(step.type) THEN Lifted(step, rows[Other[target]], @)
                       ELSE Scaled(step.coeff[1], @)]
        start == [s \in Streams |-> [t \in times |-> Loaded(s, t - scheme.delay[s])]]
    IN FoldLeft(After, start, scheme.steps)

Ideal(scheme, padded) == IdealOf(scheme, padded, Signal)
=============================================================================
