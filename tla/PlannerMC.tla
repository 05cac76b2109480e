------------------------------ MODULE PlannerMC ------------------------------
(***************************************************************************)
(* Jobs for Planner.  Groups have 4 samples, sticks 2.                     *)
(***************************************************************************)
EXTENDS Planner, LiftingSchemesMC

\* From one coefficient to five groups of them, on one core and on three;
\* budgets that fit at once, after doubling, and never.
MCForwardJobs ==
    [inverse : {FALSE}, scheme : MCSchemes, length : {1, 2, 3, 6, 9, 16, 31},
     cores : {1, 3}, budget : {18, 36, 300}, tileNative : BOOLEAN]
      \union
    [inverse : {FALSE}, scheme : {MCEarlyScale}, length : {5}, cores : {1},
     budget : {300}, tileNative : {FALSE}]

MCInverseJob(scheme, len, cores, budget, layout, extra) ==
    [inverse |-> TRUE, scheme |-> scheme, length |-> len, cores |-> cores,
     budget |-> budget, tileNative |-> layout # "rows",
     direct |-> layout = "direct",
     coefficients |-> (len + scheme.taps - 1) \div 2 + extra]

\* From one sample to six groups of them, on one core and on three; budgets
\* that fit at once, after doubling, and never; as many coefficients as the
\* forward transform returns, one more, and one less.
MCInverseJobs ==
    {MCInverseJob(scheme, len, cores, budget, layout, 0) :
       scheme \in MCSchemes, len \in {1, 2, 3, 7, 16, 25, 41}, cores \in {1, 3},
       budget \in {30, 54, 300}, layout \in {"rows", "tiles", "direct"}}
      \union
    {MCInverseJob(scheme, len, 3, 300, "direct", extra) :
       scheme \in {MCHaar, MCBior22}, len \in {3, 16, 41}, extra \in {-1, 1}}

\* Every shipped scheme, on a signal of a sample and on one shorter or longer
\* than its filter, both ways.
MCShippedJobs ==
    [inverse : {FALSE}, scheme : MCShipped, length : {1, 21}, cores : {3},
     budget : {900}, tileNative : {FALSE}]
      \union
    {MCInverseJob(scheme, len, 3, 900, "rows", 0) :
       scheme \in MCShipped, len \in {2, 22}}

MCJobs == MCForwardJobs \union MCInverseJobs \union MCShippedJobs
=============================================================================
