---------------------------- MODULE Planner2DMC ----------------------------
(***************************************************************************)
(* Jobs for Planner2D.  Tiles have their real size: how far a stream is    *)
(* shifted against its coefficients is a matter of samples, and whether    *)
(* that reaches into another tile depends on both.                         *)
(***************************************************************************)
EXTENDS Planner2D, LiftingSchemesMC

MCPixel(y, x) == (3 * y * y + 5 * y * x + 7 * x + y * x * x + 3) % 97

MCJob(inverse, scheme, height, width, mode, budget) ==
    [inverse |-> inverse, scheme |-> scheme, size |-> [y |-> height, x |-> width],
     mode |-> mode, budget |-> budget]

\* In Rbio22 the second lift trims what the inverse stores.
MCSchemes2D == MCSchemes \union {MCRbio22}

\* Scales only: no lift takes one along.
MCNoLift ==
    MCScheme(Lifting(2, 0, 1, <<Swap>>), Undoing(<<Swap>>))

\* A budget for everything, two for small chunks only, and one for nothing.
MCAmple == 157 * 1024
MCTight == 12 * 1024
MCMiddle == 20 * 1024
MCNone == 4 * 1024

\* Not shipped: as many taps as coif17 has, the longest filter, but few lifts.
\* Left of the image three of its tiles are needed, and both edges.
MCLong == [MCHaar EXCEPT !.taps = 102]

MCJobs ==
    {MCJob(inverse, scheme, image[1], image[2], image[3], MCAmple) :
       inverse \in BOOLEAN, scheme \in MCSchemes2D,
       image \in {<<1, 1, "smooth">>, <<3, 40, "symmetric">>, <<70, 5, "periodic">>}}
      \union
    {MCJob(FALSE, scheme, 5, 140, "antireflect", budget) :
       scheme \in MCSchemes2D, budget \in {MCAmple, MCTight, MCNone}}
      \union
    {MCJob(inverse, scheme, 40, 70, "antisymmetric", budget) : inverse \in BOOLEAN,
       scheme \in {MCHaar, MCDb2, MCRbio22}, budget \in {MCTight, MCNone}}
      \union
    {MCJob(FALSE, MCDb2, size[1], size[2], mode, MCAmple) :
       size \in {<<1, 9>>, <<9, 1>>, <<9, 9>>}, mode \in Modes}
      \union
    {MCJob(FALSE, scheme, 9, 9, "zero", MCAmple) : scheme \in {MCEarlyScale, MCNoLift}}
      \union
    {MCJob(FALSE, MCHaar, 127, 127, "constant", MCTight)}
      \union
    {MCJob(FALSE, MCLong, 2, 129, mode, MCMiddle) : mode \in {"antireflect", "symmetric"}}
=============================================================================
