-------------------------- MODULE ExtensionGrowth --------------------------
(***************************************************************************)
(* The boundary modes by what they mean: a signal that grows at both ends, *)
(* sample by sample, each new sample defined by those already there.  The  *)
(* direct formulas of SignalExtension are measured by it.                  *)
(***************************************************************************)
EXTENDS Integers, TLC, SequencesExt

\* What is known is a function on -reach .. n - 1 + reach.  The sample
\* opposite to i, about the edge sample or next to it.
Opposite(n, i, apart) == IF i < 0 THEN -i - apart ELSE 2 * (n - 1) - i + apart

Edge(known, n, i) == IF i < 0 THEN known[0] ELSE known[n - 1]

Slope(known, n, i) ==
    IF n = 1 THEN 0
    ELSE IF i < 0 THEN known[0] - known[1] ELSE known[n - 1] - known[n - 2]

\* (No signal of one sample is reflected: the program refuses it.)
Beyond(mode, known, n, i) ==
    LET before == IF i < 0 THEN known[i + 1] ELSE known[i - 1]
    IN CASE mode = "zero" -> 0
         [] mode = "constant" -> before
         [] mode = "periodic" -> IF i < 0 THEN known[i + n] ELSE known[i - n]
         [] mode = "symmetric" -> known[Opposite(n, i, 1)]
         [] mode = "antisymmetric" -> -known[Opposite(n, i, 1)]
         [] mode = "smooth" -> before + Slope(known, n, i)
         [] mode = "reflect" -> known[Opposite(n, i, 0)]
         [] mode = "antireflect" -> 2 * Edge(known, n, i) - known[Opposite(n, i, 0)]

\* The signal of n samples with so many more at either end.
Grown(mode, signal(_), n, reach) ==
    LET Grow(known, r) ==
            known @@ (-r :> Beyond(mode, known, n, -r))
                  @@ (n - 1 + r :> Beyond(mode, known, n, n - 1 + r))
    IN FoldLeft(Grow, [i \in 0 .. n - 1 |-> signal(i)], [r \in 1 .. reach |-> r])

\* The same without order: what is beyond a signal follows from the rest.
Extends(extended, mode, signal, n) ==
    /\ \A i \in 0 .. n - 1 : extended[i] = signal[i]
    /\ \A i \in DOMAIN extended \ (0 .. n - 1) :
         extended[i] = Beyond(mode, extended, n, i)
=============================================================================
