--------------------------- MODULE LwtPipelineMC ---------------------------
(***************************************************************************)
(* Instances of LwtPipeline for model checking: the schedules of a forward *)
(* and an inverse transform, and an arithmetic that tells every value      *)
(* apart that a wrong read, a lost write or a missing group would change.  *)
(***************************************************************************)
EXTENDS LwtPipeline, TLC

(***************************************************************************)
(* Forward, the shape of the shipped wavelets: a predict and an update     *)
(* rotating through the slots, a last predict that takes its terminal      *)
(* scale inline and writes DRAM, the other scale, which writes DRAM.       *)
(***************************************************************************)
MCForward == <<
    [kind |-> "lift", operand |-> "even", target |-> "odd",
     source |-> "A", base |-> "B", output |-> "Scratch"],
    [kind |-> "lift", operand |-> "odd", target |-> "even",
     source |-> "Scratch", base |-> "A", output |-> "B"],
    [kind |-> "lift", operand |-> "even", target |-> "odd",
     source |-> "B", base |-> "Scratch", output |-> "dram"],
    [kind |-> "scale", operand |-> "even", target |-> "even",
     source |-> "B", base |-> "B", output |-> "dram"]>>

\* Inverse: every route writes a workspace slot.
MCInverse == <<
    [kind |-> "lift", operand |-> "odd", target |-> "even",
     source |-> "B", base |-> "A", output |-> "Scratch"],
    [kind |-> "lift", operand |-> "even", target |-> "odd",
     source |-> "Scratch", base |-> "B", output |-> "A"]>>

\* Two chunks to a sample, of which the core has the last of one sample and
\* the first of the next; dependency cones shrink along the routes.
MCForwardGroups == 0 :> <<3, 3, 3, 3>> @@ 1 :> <<3, 2, 2, 1>>
MCInverseGroups == 0 :> <<3, 3>> @@ 1 :> <<2, 1>>
MCDirectGroups == 0 :> <<2, 2>> @@ 1 :> <<2, 2>>
MCSingleGroups == 0 :> <<1, 1>> @@ 1 :> <<1, 1>>

MCModulus == 1000003

\* The contents of a window folded into one number, group by group.
MCDigest(window) ==
    FoldSet(LAMBDA c, acc : (acc * 31 + c * 7 + window[c]) % MCModulus,
            3, DOMAIN window)

MCLift(r, g, s0, s1, b) ==
    (r * 1009 + g * 101 + MCDigest(s0) * 11 + MCDigest(s1) * 17
       + MCDigest(b) * 23) % MCModulus

MCScale(r, g, w) == (r * 907 + g * 103 + MCDigest(w) * 29) % MCModulus

\* Every sample, chunk, stream and group is loaded with a number of its own.
MCLoad(groups, sample, chunk, s) ==
    [g \in 1 .. groups |->
       1 + g + 10 * chunk + 100 * sample + (IF s = "even" THEN 0 ELSE 1000)]

MCInput(sample, chunk, s) == MCLoad(3 - chunk, sample, chunk, s)
===========================================================================
