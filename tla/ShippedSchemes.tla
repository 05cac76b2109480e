--------------------------- MODULE ShippedSchemes ----------------------------
(***************************************************************************)
(* The schemes an operation can be asked for: beside the orthogonal ones   *)
(* the biorthogonal wavelets, each with the inverse the kernels are        *)
(* compiled with; and the registry.                                        *)
(***************************************************************************)
EXTENDS OrthogonalSchemes

\* Biorthogonal splines.
bior1_1 == Lifting(2, 0, 1, <<Predict(0, 1), Swap, Predict(0, 1)>>)
bior1_1_inverse == Undoing(<<Predict(0, 1), Swap, Predict(0, 1)>>)
bior1_3 == Lifting(6, 1, 2, <<Predict(0, 1), Update(-1, 3)>>)
bior1_3_inverse == Undoing(<<Update(-1, 3), Predict(0, 1)>>)
bior1_5 == Lifting(10, 2, 3, <<Predict(0, 1), Update(-2, 5)>>)
bior1_5_inverse == Undoing(<<Update(-2, 5), Predict(0, 1)>>)
bior2_2 == Lifting(6, 1, 2, <<Update(-1, 2), Predict(0, 2), Swap>>)
bior2_2_inverse == Undoing(<<Swap, Predict(0, 2), Update(-1, 2)>>)
bior2_4 == Lifting(10, 2, 3, <<Update(-1, 2), Predict(-1, 4), Swap>>)
bior2_4_inverse == Undoing(<<Swap, Predict(-1, 4), Update(-1, 2)>>)
bior2_6 == Lifting(14, 3, 4, <<Update(-1, 2), Predict(-2, 6), Swap>>)
bior2_6_inverse == Undoing(<<Swap, Predict(-2, 6), Update(-1, 2)>>)
bior2_8 == Lifting(18, 4, 5, <<Update(-1, 2), Predict(-3, 8), Swap>>)
bior2_8_inverse == Undoing(<<Swap, Predict(-3, 8), Update(-1, 2)>>)
bior3_1 == Lifting(4, 1, 1, <<Predict(-1, 1), Update(0, 2), Predict(0, 1)>>)
bior3_1_inverse == Undoing(<<Predict(0, 1), Update(0, 2), Predict(-1, 1)>>)
bior3_3 == Lifting(8, 2, 2,
    <<Predict(-1, 1), Update(0, 2), Predict(-1, 3), Swap>>)
bior3_3_inverse == Undoing(
    <<Swap, Predict(-1, 3), Update(0, 2), Predict(-1, 1)>>)
bior3_5 == Lifting(12, 3, 3,
    <<Predict(-1, 1), Update(0, 2), Predict(-2, 5), Swap>>)
bior3_5_inverse == Undoing(
    <<Swap, Predict(-2, 5), Update(0, 2), Predict(-1, 1)>>)
bior3_7 == Lifting(16, 4, 4,
    <<Predict(-1, 1), Update(0, 2), Predict(-3, 7), Swap>>)
bior3_7_inverse == Undoing(
    <<Swap, Predict(-3, 7), Update(0, 2), Predict(-1, 1)>>)
bior3_9 == Lifting(20, 5, 5,
    <<Predict(-1, 1), Update(0, 2), Predict(-4, 9), Swap>>)
bior3_9_inverse == Undoing(
    <<Swap, Predict(-4, 9), Update(0, 2), Predict(-1, 1)>>)
bior4_4 == Lifting(10, 2, 3,
    <<Update(-1, 2), Predict(0, 2), Update(-1, 2), Predict(0, 2), Swap>>)
bior4_4_inverse == Undoing(
    <<Swap, Predict(0, 2), Update(-1, 2), Predict(0, 2), Update(-1, 2)>>)
bior5_5 == Lifting(12, 3, 3,
    <<Predict(-1, 2), Update(0, 2), Predict(-1, 2), Update(0, 2),
      Predict(-1, 2)>>)
bior5_5_inverse == Undoing(
    <<Predict(-1, 2), Update(0, 2), Predict(-1, 2), Update(0, 2),
      Predict(-1, 2)>>)
bior6_8 == Lifting(18, 4, 5,
    <<Update(-1, 2), Predict(0, 2), Update(-1, 2), Predict(0, 2),
      Update(-1, 2), Predict(-1, 4), Swap>>)
bior6_8_inverse == Undoing(
    <<Swap, Predict(-1, 4), Update(-1, 2), Predict(0, 2), Update(-1, 2),
      Predict(0, 2), Update(-1, 2)>>)
-----------------------------------------------------------------------------
\* Reverse biorthogonal splines.
rbio1_1 == Lifting(2, 0, 1, <<Predict(0, 1), Swap, Predict(0, 1)>>)
rbio1_1_inverse == Undoing(<<Predict(0, 1), Swap, Predict(0, 1)>>)
rbio1_3 == Lifting(6, 1, 2, <<Predict(0, 1), Swap, Predict(-1, 3)>>)
rbio1_3_inverse == Undoing(<<Predict(-1, 3), Swap, Predict(0, 1)>>)
rbio1_5 == Lifting(10, 2, 3, <<Predict(0, 1), Swap, Predict(-2, 5)>>)
rbio1_5_inverse == Undoing(<<Predict(-2, 5), Swap, Predict(0, 1)>>)
rbio2_2 == Lifting(6, 1, 2, <<Predict(0, 2), Swap, Predict(-1, 2)>>)
rbio2_2_inverse == Undoing(<<Predict(-1, 2), Swap, Predict(0, 2)>>)
rbio2_4 == Lifting(10, 2, 3, <<Predict(0, 2), Swap, Predict(-2, 4)>>)
rbio2_4_inverse == Undoing(<<Predict(-2, 4), Swap, Predict(0, 2)>>)
rbio2_6 == Lifting(14, 3, 4, <<Predict(0, 2), Swap, Predict(-3, 6)>>)
rbio2_6_inverse == Undoing(<<Predict(-3, 6), Swap, Predict(0, 2)>>)
rbio2_8 == Lifting(18, 4, 5, <<Predict(0, 2), Swap, Predict(-4, 8)>>)
rbio2_8_inverse == Undoing(<<Predict(-4, 8), Swap, Predict(0, 2)>>)
rbio3_1 == Lifting(4, 1, 1, <<Predict(-1, 1), Update(0, 2), Predict(0, 1)>>)
rbio3_1_inverse == Undoing(<<Predict(0, 1), Update(0, 2), Predict(-1, 1)>>)
rbio3_3 == Lifting(8, 2, 2, <<Predict(-1, 1), Update(0, 2), Predict(-1, 3)>>)
rbio3_3_inverse == Undoing(<<Predict(-1, 3), Update(0, 2), Predict(-1, 1)>>)
rbio3_5 == Lifting(12, 3, 3, <<Predict(-1, 1), Update(0, 2), Predict(-2, 5)>>)
rbio3_5_inverse == Undoing(<<Predict(-2, 5), Update(0, 2), Predict(-1, 1)>>)
rbio3_7 == Lifting(16, 4, 4, <<Predict(-1, 1), Update(0, 2), Predict(-3, 7)>>)
rbio3_7_inverse == Undoing(<<Predict(-3, 7), Update(0, 2), Predict(-1, 1)>>)
rbio3_9 == Lifting(20, 5, 5, <<Predict(-1, 1), Update(0, 2), Predict(-4, 9)>>)
rbio3_9_inverse == Undoing(<<Predict(-4, 9), Update(0, 2), Predict(-1, 1)>>)
rbio4_4 == Lifting(10, 2, 3,
    <<Predict(0, 2), Update(-1, 2), Predict(0, 2), Swap, Predict(-1, 2)>>)
rbio4_4_inverse == Undoing(
    <<Predict(-1, 2), Swap, Predict(0, 2), Update(-1, 2), Predict(0, 2)>>)
rbio5_5 == Lifting(12, 3, 3,
    <<Update(0, 2), Predict(-1, 2), Update(0, 2), Predict(-1, 2),
      Update(0, 2)>>)
rbio5_5_inverse == Undoing(
    <<Update(0, 2), Predict(-1, 2), Update(0, 2), Predict(-1, 2),
      Update(0, 2)>>)
rbio6_8 == Lifting(18, 4, 5,
    <<Predict(0, 2), Update(-1, 2), Predict(0, 2), Update(-1, 2),
      Predict(0, 2), Swap, Predict(-2, 4)>>)
rbio6_8_inverse == Undoing(
    <<Predict(-2, 4), Swap, Predict(0, 2), Update(-1, 2), Predict(0, 2),
      Update(-1, 2), Predict(0, 2)>>)

-----------------------------------------------------------------------------
\* The registry: schemes with their inverses.
Shipped == {
    <<haar, haar_inverse>>, <<db1, db1_inverse>>, <<db2, db2_inverse>>,
    <<db3, db3_inverse>>, <<db4, db4_inverse>>, <<db5, db5_inverse>>,
    <<db6, db6_inverse>>, <<db7, db7_inverse>>, <<db8, db8_inverse>>,
    <<db9, db9_inverse>>, <<db10, db10_inverse>>, <<db11, db11_inverse>>,
    <<db12, db12_inverse>>, <<db13, db13_inverse>>, <<db14, db14_inverse>>,
    <<db15, db15_inverse>>, <<db16, db16_inverse>>, <<db17, db17_inverse>>,
    <<db18, db18_inverse>>, <<db19, db19_inverse>>, <<db20, db20_inverse>>,
    <<db21, db21_inverse>>, <<db22, db22_inverse>>, <<db23, db23_inverse>>,
    <<db24, db24_inverse>>, <<db25, db25_inverse>>, <<db26, db26_inverse>>,
    <<db27, db27_inverse>>, <<db28, db28_inverse>>, <<db29, db29_inverse>>,
    <<db30, db30_inverse>>, <<db31, db31_inverse>>, <<db32, db32_inverse>>,
    <<db33, db33_inverse>>, <<db34, db34_inverse>>, <<db35, db35_inverse>>,
    <<db36, db36_inverse>>, <<db37, db37_inverse>>, <<db38, db38_inverse>>,
    <<sym2, sym2_inverse>>, <<sym3, sym3_inverse>>, <<sym4, sym4_inverse>>,
    <<sym5, sym5_inverse>>, <<sym6, sym6_inverse>>, <<sym7, sym7_inverse>>,
    <<sym8, sym8_inverse>>, <<sym9, sym9_inverse>>, <<sym10, sym10_inverse>>,
    <<sym11, sym11_inverse>>, <<sym12, sym12_inverse>>,
    <<sym13, sym13_inverse>>, <<sym14, sym14_inverse>>,
    <<sym15, sym15_inverse>>, <<sym16, sym16_inverse>>,
    <<sym17, sym17_inverse>>, <<sym18, sym18_inverse>>,
    <<sym19, sym19_inverse>>, <<sym20, sym20_inverse>>,
    <<coif1, coif1_inverse>>, <<coif2, coif2_inverse>>,
    <<coif3, coif3_inverse>>, <<coif4, coif4_inverse>>,
    <<coif5, coif5_inverse>>, <<coif6, coif6_inverse>>,
    <<coif7, coif7_inverse>>, <<coif8, coif8_inverse>>,
    <<coif9, coif9_inverse>>, <<coif10, coif10_inverse>>,
    <<coif11, coif11_inverse>>, <<coif12, coif12_inverse>>,
    <<coif13, coif13_inverse>>, <<coif14, coif14_inverse>>,
    <<coif15, coif15_inverse>>, <<coif16, coif16_inverse>>,
    <<coif17, coif17_inverse>>, <<dmey, dmey_inverse>>,
    <<bior1_1, bior1_1_inverse>>, <<bior1_3, bior1_3_inverse>>,
    <<bior1_5, bior1_5_inverse>>, <<bior2_2, bior2_2_inverse>>,
    <<bior2_4, bior2_4_inverse>>, <<bior2_6, bior2_6_inverse>>,
    <<bior2_8, bior2_8_inverse>>, <<bior3_1, bior3_1_inverse>>,
    <<bior3_3, bior3_3_inverse>>, <<bior3_5, bior3_5_inverse>>,
    <<bior3_7, bior3_7_inverse>>, <<bior3_9, bior3_9_inverse>>,
    <<bior4_4, bior4_4_inverse>>, <<bior5_5, bior5_5_inverse>>,
    <<bior6_8, bior6_8_inverse>>, <<rbio1_1, rbio1_1_inverse>>,
    <<rbio1_3, rbio1_3_inverse>>, <<rbio1_5, rbio1_5_inverse>>,
    <<rbio2_2, rbio2_2_inverse>>, <<rbio2_4, rbio2_4_inverse>>,
    <<rbio2_6, rbio2_6_inverse>>, <<rbio2_8, rbio2_8_inverse>>,
    <<rbio3_1, rbio3_1_inverse>>, <<rbio3_3, rbio3_3_inverse>>,
    <<rbio3_5, rbio3_5_inverse>>, <<rbio3_7, rbio3_7_inverse>>,
    <<rbio3_9, rbio3_9_inverse>>, <<rbio4_4, rbio4_4_inverse>>,
    <<rbio5_5, rbio5_5_inverse>>, <<rbio6_8, rbio6_8_inverse>>}
==============================================================================
