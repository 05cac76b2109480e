------------------------ MODULE HorizontalStencilMC ------------------------
(***************************************************************************)
(* The two stencils at their real size, for every filter length, with and  *)
(* without the scales the inverse transform folds into a step.             *)
(***************************************************************************)
EXTENDS HorizontalStencil

MCFaces == 0 .. 15

MCNarrow ==
    [shape : {"narrow"}, passes : {NarrowPasses}, k : 1 .. Columns + 1,
     scaleSource : BOOLEAN, scaleBase : BOOLEAN]

MCDense ==
    [shape : {"dense"}, passes : {DensePasses}, k : 1 .. Columns + 1,
     scaleSource : {FALSE}, scaleBase : {FALSE}]

MCJobs == MCNarrow \union MCDense
=============================================================================
