-------------------------- MODULE LiftingSchemesMC --------------------------
(***************************************************************************)
(* The shipped schemes with small numbers for coefficients.  An inverse    *)
(* has the steps its header lists, and the coefficients of the steps it    *)
(* undoes.                                                                 *)
(***************************************************************************)
EXTENDS LiftingScheme, ShippedSchemes

\* Coefficient j of step i, and the two scales; none is zero.
MCCoefficient(i, j) == 2 + ((7 * i + 5 * j) % 89)

MCCoeff(step, i) ==
    IF step.type = "scale-even" THEN <<2>>
    ELSE IF step.type = "scale-odd" THEN <<3>>
    ELSE [j \in 1 .. step.k |-> MCCoefficient(i, j)]

MCSteps(steps) ==
    [i \in 1 .. Len(steps) |-> [type |-> steps[i].type, shift |-> steps[i].shift,
                               coeff |-> MCCoeff(steps[i], i)]]

MCUndo(inverse, undoing) ==
    [i \in 1 .. Len(inverse) |->
       [type |-> inverse[i].type, shift |-> inverse[i].shift,
        coeff |-> [j \in 1 .. inverse[i].k |-> undoing[i].coeff[j]]]]

MCScheme(scheme, inverse) ==
    LET steps == MCSteps(scheme.steps)
    IN [taps |-> scheme.taps, delay |-> scheme.delay, steps |-> steps,
        undo |-> MCUndo(inverse, InverseSteps(steps))]

MCHaar == MCScheme(haar, haar_inverse)
MCDb2 == MCScheme(db2, db2_inverse)
MCDb3 == MCScheme(db3, db3_inverse)
MCBior13 == MCScheme(bior1_3, bior1_3_inverse)
MCBior22 == MCScheme(bior2_2, bior2_2_inverse)
MCBior33 == MCScheme(bior3_3, bior3_3_inverse)
MCRbio22 == MCScheme(rbio2_2, rbio2_2_inverse)
MCRbio55 == MCScheme(rbio5_5, rbio5_5_inverse)

MCSchemes == {MCHaar, MCDb2, MCDb3, MCBior13, MCBior22, MCBior33, MCRbio55}

\* As many as there are structures: coefficients aside, many are alike.
MCShipped == {MCScheme(pair[1], pair[2]) : pair \in Shipped}

\* Not shipped: a scale before a lift is refused.
MCEarlyScale ==
    LET steps == MCSteps(<<ScaleOdd, Predict(0, 1)>> \o <<ScaleEven, ScaleOdd>>)
    IN [taps |-> 4, delay |-> [even |-> 1, odd |-> 1], steps |-> steps,
        undo |-> InverseSteps(steps)]

MCSignal(i) == (i * i * i + 7 * i + 3) % 97
=============================================================================
