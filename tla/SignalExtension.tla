-------------------------- MODULE SignalExtension --------------------------
(***************************************************************************)
(* What a signal of finite length is beyond its ends, in the eight         *)
(* boundary modes (make_extended_index, evaluate_extended_index), and the  *)
(* variants of it in 32 bits that the kernels of small cores use           *)
(* (make_symmetric_index_i32 and its relatives), here in Width bits.       *)
(*                                                                         *)
(* An access is described before anything is read: which operation, on     *)
(* which sample, its neighbour and its distance or period.                 *)
(***************************************************************************)
EXTENDS Integers, Sequences

CONSTANT Width      \* bits of the narrow variants

\* How many values of Width bits are not negative; as many are.
Half == 2^(Width - 1)

ASSUME WidthAssumption == Width \in Nat /\ Width >= 2 /\ Half \in Nat \ {0}

Modes == {"zero", "constant", "symmetric", "periodic", "antisymmetric",
          "smooth", "antireflect", "reflect"}

Access(op, source) ==
    [op |-> op, source |-> source, auxiliary |-> 0, quotient |-> 0,
     distance |-> 0, reflected |-> FALSE]

\* An antisymmetric period has four segments: the second and
\* the fourth are mirrored and negated.
Antisymmetric(i, n) ==
    LET phase == i % (4 * n)
        segment == phase \div n
    IN IF segment % 2 = 0 THEN Access("sample", phase - segment * n)
       ELSE Access("negated", (segment + 1) * n - 1 - phase)

\* Faulty variant: the edge sample is not repeated.
SymmetricWhole(i, n) ==
    LET period == IF n = 1 THEN 1 ELSE 2 * n - 2
        phase == i % period
    IN Access("sample", IF phase < n THEN phase ELSE period - phase)

Symmetric(i, n) ==
    LET phase == i % (2 * n)
    IN Access("sample", IF phase < n THEN phase ELSE 2 * n - 1 - phase)

Smooth(i, n) ==
    [Access("smooth", IF i < 0 THEN 0 ELSE n - 1) EXCEPT
       !.auxiliary = IF i < 0 THEN 1 ELSE n - 2,
       !.distance = IF i < 0 THEN -i ELSE i - (n - 1)]

Antireflect(i, n) ==
    LET period == 2 * (n - 1)
        remainder == i % period
    IN [Access("antireflect",
               IF remainder > n - 1 THEN period - remainder ELSE remainder) EXCEPT
          !.quotient = i \div period,
          !.reflected = remainder > n - 1]

Reflect(i, n) ==
    LET period == 2 * (n - 1)
        phase == i % period
    IN Access("sample", IF phase <= n - 1 THEN phase ELSE period - phase)

\* make_extended_index; a signal of one sample has no slope and no mirror.
ExtendedIndex(mode, i, n) ==
    IF n = 0 THEN Access("zero", 0)
    ELSE IF i \in 0 .. n - 1 THEN Access("sample", i)
    ELSE IF n = 1 /\ mode \in {"smooth", "reflect", "antireflect"}
    THEN Access("sample", 0)
    ELSE CASE mode = "zero" -> Access("zero", 0)
           [] mode = "constant" -> Access("sample", IF i < 0 THEN 0 ELSE n - 1)
           [] mode = "periodic" -> Access("sample", i % n)
           [] mode = "symmetric" -> Symmetric(i, n)
           [] mode = "antisymmetric" -> Antisymmetric(i, n)
           [] mode = "smooth" -> Smooth(i, n)
           [] mode = "reflect" -> Reflect(i, n)
           [] mode = "antireflect" -> Antireflect(i, n)

\* visit_extended_source_indices: the samples that are read, in this order.
Sources(access, n) ==
    CASE access.op = "zero" -> <<>>
      [] access.op \in {"sample", "negated"} -> <<access.source>>
      [] access.op = "smooth" -> <<access.source, access.auxiliary>>
      [] access.op = "antireflect" -> <<access.source, 0, n - 1>>

\* evaluate_extended_index, from the values of these samples.
Combined(access, value) ==
    CASE access.op = "zero" -> 0
      [] access.op = "sample" -> value[1]
      [] access.op = "negated" -> -value[1]
      [] access.op = "smooth" -> value[1] + access.distance * (value[1] - value[2])
      [] access.op = "antireflect" ->
           (IF access.reflected THEN 2 * value[3] - value[1] ELSE value[1])
             + access.quotient * 2 * (value[3] - value[2])

-----------------------------------------------------------------------------
(***************************************************************************)
(* The narrow variants.  Signed positions, lengths and quotients have      *)
(* Width bits in two's complement, what is unsigned is modulo 2 * Half.    *)
(***************************************************************************)
Unsigned(x) == x % (2 * Half)

Signed(x) ==
    LET u == Unsigned(x)
    IN IF u >= Half THEN u - 2 * Half ELSE u

\* index % period of C++, which has the sign of index.
Remainder(i, period) == IF i >= 0 THEN i % period ELSE 0 - ((-i) % period)

\* make_symmetric_index_i32
SymmetricNarrow(i, n) ==
    IF i \in 0 .. n - 1 THEN Access("sample", i)
    ELSE LET period == Signed(2 * n)
             phase == Remainder(i, period)
             positive == IF phase < 0 THEN Signed(phase + period) ELSE phase
         IN Access("sample", IF positive < n THEN positive ELSE period - 1 - positive)

\* Faulty variant: a position a whole number of periods to the left.
QuotientBelow(i, period) ==
    LET magnitude == Unsigned(-i)
    IN [quotient |-> -1 - (magnitude \div period),
        remainder |-> period - (magnitude % period)]

QuotientAndRemainder(i, period) ==
    LET magnitude == Unsigned(-i)
        tail == magnitude % period
    IN IF i >= 0 THEN [quotient |-> i \div period, remainder |-> i % period]
       ELSE IF tail = 0
       THEN [quotient |-> -(magnitude \div period), remainder |-> 0]
       ELSE [quotient |-> -1 - (magnitude \div period), remainder |-> period - tail]

\* make_antireflect_index_i32
AntireflectNarrow(i, n) ==
    IF i \in 0 .. n - 1 THEN Access("sample", i)
    ELSE IF n = 1 THEN Access("sample", 0)
    ELSE LET last == n - 1
             period == Unsigned(2 * last)
             at == QuotientAndRemainder(i, period)
         IN [Access("antireflect",
                    IF at.remainder > last THEN period - at.remainder
                                           ELSE at.remainder) EXCEPT
               !.quotient = at.quotient,
               !.reflected = at.remainder > last]

\* make_smooth_index_i32
SmoothNarrow(i, n) ==
    IF i \in 0 .. n - 1 THEN Access("sample", i)
    ELSE IF n = 1 THEN Access("sample", 0)
    ELSE [Access("smooth", IF i < 0 THEN 0 ELSE n - 1) EXCEPT
            !.auxiliary = IF i < 0 THEN 1 ELSE n - 2,
            !.distance = IF i < 0 THEN Unsigned(-i) ELSE Unsigned(i - (n - 1))]
=============================================================================
