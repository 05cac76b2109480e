------------------------------- MODULE Planner -------------------------------
(***************************************************************************)
(* The 1D planners of both directions: from the scheme of a job the full   *)
(* trace is built, then its chunks, forward (LwtPlanner) or inverse        *)
(* (IlwtPlanner).                                                          *)
(***************************************************************************)
EXTENDS ChunkPlanning, LiftingReference

Lwt == INSTANCE LwtPlanner

Ilwt == INSTANCE IlwtPlanner

Next == (TraceNext /\ UNCHANGED chunkVars) \/ Lwt!Plan \/ Ilwt!Plan

Spec == Init /\ [][Next]_vars /\ WF_vars(Next)

-----------------------------------------------------------------------------
\* Every forward route has output: LwtPlanner, RoutesProduce.
RoutesProduce == ~job.inverse => Lwt!RoutesProduce

\* The forward chunks write every coefficient once, and each of them computes
\* its coefficients of the whole transform: LwtPlanner, CoefficientsTiled and
\* CoefficientsExact.
CoefficientsExact ==
    ~job.inverse => Lwt!CoefficientsTiled /\ Lwt!CoefficientsExact

\* The inverse chunks follow one another without a gap, and each of them
\* reconstructs its samples: IlwtPlanner, SamplesTiled and SamplesExact.
SamplesExact == job.inverse => Ilwt!SamplesTiled /\ Ilwt!SamplesExact
=============================================================================
