---------------------------- MODULE LiftingData ----------------------------
(***************************************************************************)
(* What one core of the 1D transform computes, without saying how: the     *)
(* executable routes of the lifting schedule, and the arithmetic of a      *)
(* route on a group of samples.                                            *)
(*                                                                         *)
(* A group is the unit the three kernels pass around: 32 rows of 48        *)
(* samples (lwt_config.hpp).  A stream is one of the two polyphase halves  *)
(* of the signal, named for how it is loaded; a swap step of the scheme    *)
(* only renames the streams for the steps that follow, so the routes name  *)
(* the streams they touch and swap needs no step here.                     *)
(***************************************************************************)
EXTENDS Integers, Sequences

CONSTANTS
    Routes,             \* the executable routes of a chunk, in order
    Lift(_, _, _, _, _),\* predict/update: route, group, two source parts, base
    Scale(_, _, _)      \* scale: route, group, input

Streams == {"even", "odd"}

\* The workspace slots a core owns (StorageSlot).
Slots == {"A", "B", "Scratch"}

RouteCount == Len(Routes)

RouteIndex == 1 .. RouteCount

\* kind: a predict/update or a scale; operand, target: the streams it reads
\* and replaces (the same one for a scale); source, base, output: where the
\* planner keeps them.
RouteType ==
    [kind    : {"lift", "scale"},
     operand : Streams,
     target  : Streams,
     source  : Slots,
     base    : Slots,
     output  : Slots \union {"dram"}]

(***************************************************************************)
(* For output group g a predict or update reads its source through a       *)
(* window that the filter offset shifts by less than one group either way, *)
(* and its base, like a scale its input, never to the left of group g.     *)
(* Samples outside the stored stream read as zero, so a window holds only  *)
(* the groups that exist.                                                  *)
(***************************************************************************)
SourceWindow(length, g) == {g - 1, g, g + 1} \intersect (1 .. length)

BaseWindow(length, g) == {g, g + 1} \intersect (1 .. length)

\* A scale reads the stream it replaces.
ASSUME RoutesAssumption ==
    /\ Routes \in Seq(RouteType) /\ Len(Routes) > 0
    /\ \A r \in RouteIndex :
         Routes[r].kind = "scale" => Routes[r].operand = Routes[r].target
=============================================================================
