-------------------------- MODULE OrthogonalSchemes --------------------------
(***************************************************************************)
(* What a generated header says of a lifting scheme: the number of taps of *)
(* its filters, the delay of the even and of the odd stream, and its steps *)
(* with their shifts and numbers of coefficients; and the headers of the   *)
(* orthogonal wavelets (and of dmey, lifted like one), each with the       *)
(* inverse the kernels are compiled with.                                  *)
(*                                                                         *)
(* Of the coefficients only their number is kept.  That an inverse has     *)
(* those of its scheme negated, and the reciprocals of its scales, is what *)
(* LiftingScheme!InverseSteps says; the headers agree bit by bit.          *)
(***************************************************************************)
EXTENDS Integers, Sequences, SequencesExt

\* StaticStep: type, shift and number of coefficients.
Predict(shift, k) == [type |-> "predict", shift |-> shift, k |-> k]
Update(shift, k) == [type |-> "update", shift |-> shift, k |-> k]
Swap == [type |-> "swap", shift |-> 0, k |-> 0]

ScaleEven == [type |-> "scale-even", shift |-> 0, k |-> 1]
ScaleOdd == [type |-> "scale-odd", shift |-> 0, k |-> 1]

Lifting(taps, even, odd, steps) ==
    [taps |-> taps, delay |-> [even |-> even, odd |-> odd],
     steps |-> steps \o <<ScaleEven, ScaleOdd>>]

Undoing(steps) == <<ScaleOdd, ScaleEven>> \o steps

\* s, n times over.
Times(n, s) == FlattenSeq([i \in 1 .. n |-> s])

(***************************************************************************)
(* The orthogonal wavelets are ladders of rungs of two coefficients; their *)
(* first and last step have one.  With an odd number of pairs of taps the  *)
(* streams change names before the last step.                              *)
(***************************************************************************)
Rungs(n) == Times(n, <<Update(0, 2), Predict(-1, 2)>>)
RungsDown(n) == Times(n, <<Predict(-1, 2), Update(0, 2)>>)

EvenLadder(n) == <<Predict(-1, 1)>> \o Rungs(n) \o <<Update(0, 2), Predict(0, 1)>>
EvenDescent(n) == <<Predict(0, 1), Update(0, 2)>> \o RungsDown(n) \o <<Predict(-1, 1)>>

\* Faulty variant: the streams keep their names.
OddLadderUnswapped(n) == <<Predict(0, 1)>> \o Rungs(n) \o <<Predict(0, 1)>>

OddLadder(n) == <<Predict(0, 1)>> \o Rungs(n) \o <<Swap, Predict(0, 1)>>
OddDescent(n) == <<Predict(0, 1), Swap>> \o RungsDown(n) \o <<Predict(0, 1)>>

-----------------------------------------------------------------------------
\* Haar: one rung of either ladder and a swap.
haar == Lifting(2, 0, 1, OddLadder(0))
haar_inverse == Undoing(OddDescent(0))
-----------------------------------------------------------------------------
\* Daubechies.
db1 == Lifting(2, 0, 1, OddLadder(0))
db1_inverse == Undoing(OddDescent(0))
db2 == Lifting(4, 1, 1, EvenLadder(0))
db2_inverse == Undoing(EvenDescent(0))
db3 == Lifting(6, 1, 2, OddLadder(1))
db3_inverse == Undoing(OddDescent(1))
db4 == Lifting(8, 2, 2, EvenLadder(1))
db4_inverse == Undoing(EvenDescent(1))
db5 == Lifting(10, 2, 3, OddLadder(2))
db5_inverse == Undoing(OddDescent(2))
db6 == Lifting(12, 3, 3, EvenLadder(2))
db6_inverse == Undoing(EvenDescent(2))
db7 == Lifting(14, 3, 4, OddLadder(3))
db7_inverse == Undoing(OddDescent(3))
db8 == Lifting(16, 4, 4, EvenLadder(3))
db8_inverse == Undoing(EvenDescent(3))
db9 == Lifting(18, 4, 5, OddLadder(4))
db9_inverse == Undoing(OddDescent(4))
db10 == Lifting(20, 5, 5, EvenLadder(4))
db10_inverse == Undoing(EvenDescent(4))
db11 == Lifting(22, 5, 6, OddLadder(5))
db11_inverse == Undoing(OddDescent(5))
db12 == Lifting(24, 6, 6, EvenLadder(5))
db12_inverse == Undoing(EvenDescent(5))
db13 == Lifting(26, 6, 7, OddLadder(6))
db13_inverse == Undoing(OddDescent(6))
db14 == Lifting(28, 7, 7, EvenLadder(6))
db14_inverse == Undoing(EvenDescent(6))
db15 == Lifting(30, 7, 8, OddLadder(7))
db15_inverse == Undoing(OddDescent(7))
db16 == Lifting(32, 8, 8, EvenLadder(7))
db16_inverse == Undoing(EvenDescent(7))
db17 == Lifting(34, 8, 9, OddLadder(8))
db17_inverse == Undoing(OddDescent(8))
db18 == Lifting(36, 9, 9, EvenLadder(8))
db18_inverse == Undoing(EvenDescent(8))
db19 == Lifting(38, 9, 10, OddLadder(9))
db19_inverse == Undoing(OddDescent(9))
db20 == Lifting(40, 10, 10, EvenLadder(9))
db20_inverse == Undoing(EvenDescent(9))
db21 == Lifting(42, 10, 11, OddLadder(10))
db21_inverse == Undoing(OddDescent(10))
db22 == Lifting(44, 11, 11, EvenLadder(10))
db22_inverse == Undoing(EvenDescent(10))
db23 == Lifting(46, 11, 12, OddLadder(11))
db23_inverse == Undoing(OddDescent(11))
db24 == Lifting(48, 12, 12, EvenLadder(11))
db24_inverse == Undoing(EvenDescent(11))
db25 == Lifting(50, 12, 13, OddLadder(12))
db25_inverse == Undoing(OddDescent(12))
db26 == Lifting(52, 13, 13, EvenLadder(12))
db26_inverse == Undoing(EvenDescent(12))
db27 == Lifting(54, 13, 14, OddLadder(13))
db27_inverse == Undoing(OddDescent(13))
db28 == Lifting(56, 14, 14, EvenLadder(13))
db28_inverse == Undoing(EvenDescent(13))
db29 == Lifting(58, 14, 15, OddLadder(14))
db29_inverse == Undoing(OddDescent(14))
db30 == Lifting(60, 15, 15, EvenLadder(14))
db30_inverse == Undoing(EvenDescent(14))
db31 == Lifting(62, 15, 16, OddLadder(15))
db31_inverse == Undoing(OddDescent(15))
db32 == Lifting(64, 16, 16, EvenLadder(15))
db32_inverse == Undoing(EvenDescent(15))
db33 == Lifting(66, 16, 17, OddLadder(16))
db33_inverse == Undoing(OddDescent(16))
db34 == Lifting(68, 17, 17, EvenLadder(16))
db34_inverse == Undoing(EvenDescent(16))
db35 == Lifting(70, 17, 18, OddLadder(17))
db35_inverse == Undoing(OddDescent(17))
db36 == Lifting(72, 18, 18, EvenLadder(17))
db36_inverse == Undoing(EvenDescent(17))
db37 == Lifting(74, 18, 19, OddLadder(18))
db37_inverse == Undoing(OddDescent(18))
db38 == Lifting(76, 19, 19, EvenLadder(18))
db38_inverse == Undoing(EvenDescent(18))
-----------------------------------------------------------------------------
\* Symlets: lifted like the Daubechies wavelets of the same length.
sym2 == Lifting(4, 1, 1, EvenLadder(0))
sym2_inverse == Undoing(EvenDescent(0))
sym3 == Lifting(6, 1, 2, OddLadder(1))
sym3_inverse == Undoing(OddDescent(1))
sym4 == Lifting(8, 2, 2, EvenLadder(1))
sym4_inverse == Undoing(EvenDescent(1))
sym5 == Lifting(10, 2, 3, OddLadder(2))
sym5_inverse == Undoing(OddDescent(2))
sym6 == Lifting(12, 3, 3, EvenLadder(2))
sym6_inverse == Undoing(EvenDescent(2))
sym7 == Lifting(14, 3, 4, OddLadder(3))
sym7_inverse == Undoing(OddDescent(3))
sym8 == Lifting(16, 4, 4, EvenLadder(3))
sym8_inverse == Undoing(EvenDescent(3))
sym9 == Lifting(18, 4, 5, OddLadder(4))
sym9_inverse == Undoing(OddDescent(4))
sym10 == Lifting(20, 5, 5, EvenLadder(4))
sym10_inverse == Undoing(EvenDescent(4))
sym11 == Lifting(22, 5, 6, OddLadder(5))
sym11_inverse == Undoing(OddDescent(5))
sym12 == Lifting(24, 6, 6, EvenLadder(5))
sym12_inverse == Undoing(EvenDescent(5))
sym13 == Lifting(26, 6, 7, OddLadder(6))
sym13_inverse == Undoing(OddDescent(6))
sym14 == Lifting(28, 7, 7, EvenLadder(6))
sym14_inverse == Undoing(EvenDescent(6))
sym15 == Lifting(30, 7, 8, OddLadder(7))
sym15_inverse == Undoing(OddDescent(7))
sym16 == Lifting(32, 8, 8, EvenLadder(7))
sym16_inverse == Undoing(EvenDescent(7))
sym17 == Lifting(34, 8, 9, OddLadder(8))
sym17_inverse == Undoing(OddDescent(8))
sym18 == Lifting(36, 9, 9, EvenLadder(8))
sym18_inverse == Undoing(EvenDescent(8))
sym19 == Lifting(38, 9, 10, OddLadder(9))
sym19_inverse == Undoing(OddDescent(9))
sym20 == Lifting(40, 10, 10, EvenLadder(9))
sym20_inverse == Undoing(EvenDescent(9))
-----------------------------------------------------------------------------
\* Coiflets.
coif1 == Lifting(6, 1, 2, OddLadder(1))
coif1_inverse == Undoing(OddDescent(1))
coif2 == Lifting(12, 3, 3, EvenLadder(2))
coif2_inverse == Undoing(EvenDescent(2))
coif3 == Lifting(18, 4, 5, OddLadder(4))
coif3_inverse == Undoing(OddDescent(4))
coif4 == Lifting(24, 6, 6, EvenLadder(5))
coif4_inverse == Undoing(EvenDescent(5))
coif5 == Lifting(30, 7, 8, OddLadder(7))
coif5_inverse == Undoing(OddDescent(7))
coif6 == Lifting(36, 9, 9, EvenLadder(8))
coif6_inverse == Undoing(EvenDescent(8))
coif7 == Lifting(42, 10, 11, OddLadder(10))
coif7_inverse == Undoing(OddDescent(10))
coif8 == Lifting(48, 12, 12, EvenLadder(11))
coif8_inverse == Undoing(EvenDescent(11))
coif9 == Lifting(54, 13, 14, OddLadder(13))
coif9_inverse == Undoing(OddDescent(13))
coif10 == Lifting(60, 15, 15, EvenLadder(14))
coif10_inverse == Undoing(EvenDescent(14))
coif11 == Lifting(66, 16, 17, OddLadder(16))
coif11_inverse == Undoing(OddDescent(16))
coif12 == Lifting(72, 18, 18, EvenLadder(17))
coif12_inverse == Undoing(EvenDescent(17))
coif13 == Lifting(78, 19, 20, OddLadder(19))
coif13_inverse == Undoing(OddDescent(19))
coif14 == Lifting(84, 21, 21, EvenLadder(20))
coif14_inverse == Undoing(EvenDescent(20))
coif15 == Lifting(90, 22, 23, OddLadder(22))
coif15_inverse == Undoing(OddDescent(22))
coif16 == Lifting(96, 24, 24, EvenLadder(23))
coif16_inverse == Undoing(EvenDescent(23))
coif17 == Lifting(102, 25, 26, OddLadder(25))
coif17_inverse == Undoing(OddDescent(25))
-----------------------------------------------------------------------------
\* The discrete Meyer wavelet: as many rungs as an orthogonal wavelet of its
\* length, and no swap.
dmey == Lifting(62, 15, 16, <<Predict(0, 1)>> \o Rungs(15))
dmey_inverse == Undoing(RungsDown(15) \o <<Predict(0, 1)>>)
==============================================================================
