------------------------- MODULE VerticalStencilMC -------------------------
(***************************************************************************)
(* Every filter length, with a base or without.  The sum goes to a tile of *)
(* its own, as the compute kernel calls it, over the base or over one of   *)
(* the two inputs.                                                         *)
(***************************************************************************)
EXTENDS VerticalStencil

MCJobs == [k : 1 .. LongestFilter, base : {2, NoTile}, output : {0, 2, 3}]
=============================================================================
