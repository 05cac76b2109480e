--------------------------- MODULE AnySequences ---------------------------
(***************************************************************************)
(* Facts about sequences of whatever, because a circular buffer may hold   *)
(* anything, about bounded sets of integers and about division.            *)
(***************************************************************************)
EXTENDS Integers, Sequences, FiniteSetTheorems, TLAPS

IsSeq(q) == \E S : q \in Seq(S)

\* Nothing, appended to, and shortened: sequences of the expected length.
LEMMA EmptyIsSeq == IsSeq(<<>>) /\ Len(<<>>) = 0
<1>1. <<>> \in Seq({})
  OBVIOUS
<1>2. QED
  BY <1>1 DEF IsSeq

LEMMA AppendIsSeq ==
  ASSUME NEW q, NEW e, IsSeq(q)
  PROVE  IsSeq(Append(q, e)) /\ Len(Append(q, e)) = Len(q) + 1
<1>1. PICK S : q \in Seq(S)
  BY DEF IsSeq
<1>2. q \in Seq(S \union {e})
  BY <1>1
<1>3. Append(q, e) \in Seq(S \union {e})
  BY <1>2
<1>4. QED
  BY <1>2, <1>3 DEF IsSeq

LEMMA TailIsSeq ==
  ASSUME NEW q, IsSeq(q), q # <<>>
  PROVE  IsSeq(Tail(q)) /\ Len(Tail(q)) = Len(q) - 1 /\ Len(q) > 0
<1>1. PICK S : q \in Seq(S)
  BY DEF IsSeq
<1>2. QED
  BY <1>1 DEF IsSeq

\* Short ones.
LEMMA ZeroLength ==
  ASSUME NEW q, IsSeq(q), Len(q) = 0
  PROVE  q = <<>>
<1>1. PICK S : q \in Seq(S)
  BY DEF IsSeq
<1>2. QED
  BY <1>1

LEMMA SingletonIsSeq == \A e : IsSeq(<<e>>) /\ Len(<<e>>) = 1
<1>1. \A e : <<e>> \in Seq({e})
  OBVIOUS
<1>2. QED
  BY <1>1 DEF IsSeq

\* What is where after an element was added or removed.
LEMMA AppendElements ==
  ASSUME NEW q, NEW e, IsSeq(q)
  PROVE  /\ Append(q, e)[Len(q) + 1] = e /\ Len(q) \in Nat
         /\ \A j \in 1 .. Len(q) : Append(q, e)[j] = q[j]
<1>1. PICK S : q \in Seq(S)
  BY DEF IsSeq
<1>2. QED
  BY <1>1

LEMMA TailElements ==
  ASSUME NEW q, IsSeq(q), q # <<>>
  PROVE  /\ Head(q) = q[1]
         /\ \A j \in 1 .. Len(q) - 1 : Tail(q)[j] = q[j + 1]
<1>1. PICK S : q \in Seq(S)
  BY DEF IsSeq
<1>2. QED
  BY <1>1

\* A function on 1 .. n is a sequence; sequences with the same elements are equal.
LEMMA FunctionIsSeq ==
  ASSUME NEW n \in Nat, NEW f, f = [i \in 1 .. n |-> f[i]]
  PROVE  IsSeq(f) /\ Len(f) = n
<1> DEFINE S == {f[i] : i \in 1 .. n}
<1>1. f \in [1 .. n -> S]
  OBVIOUS
<1>2. f \in Seq(S) /\ Len(f) = n
  BY <1>1
<1>3. QED
  BY <1>2 DEF IsSeq

LEMMA SameElements ==
  ASSUME NEW n \in Nat, NEW p, NEW q, IsSeq(p), IsSeq(q), Len(p) = n, Len(q) = n,
         \A i \in 1 .. n : p[i] = q[i]
  PROVE  p = q
<1>1. PICK S, T : p \in Seq(S) /\ q \in Seq(T)
  BY DEF IsSeq
<1>2. p = [i \in 1 .. n |-> p[i]] /\ q = [i \in 1 .. n |-> q[i]]
  BY <1>1
<1>3. QED
  BY <1>2

\* What is where in a concatenation.
LEMMA ConcatElements ==
  ASSUME NEW p, NEW q, IsSeq(p), IsSeq(q)
  PROVE  /\ IsSeq(p \o q) /\ Len(p) \in Nat /\ Len(q) \in Nat
         /\ p \o q = [i \in 1 .. Len(p) + Len(q) |->
                        IF i <= Len(p) THEN p[i] ELSE q[i - Len(p)]]
<1>1. PICK S, T : p \in Seq(S) /\ q \in Seq(T)
  BY DEF IsSeq
<1>2. p \in Seq(S \union T) /\ q \in Seq(S \union T)
  BY <1>1
<1>3. p \o q \in Seq(S \union T) /\ Len(p \o q) = Len(p) + Len(q)
  BY <1>2
<1>4. \A i \in 1 .. Len(p) + Len(q) :
        (p \o q)[i] = IF i <= Len(p) THEN p[i] ELSE q[i - Len(p)]
  BY <1>2
<1>5. p \o q = [i \in 1 .. Len(p) + Len(q) |-> (p \o q)[i]]
  <2> DEFINE r == p \o q
  <2>1. r \in Seq(S \union T)
    BY <1>3
  <2> HIDE DEF r
  <2>2. r = [i \in 1 .. Len(r) |-> r[i]]
    BY <2>1
  <2>3. QED
    BY <1>3, <2>2 DEF r
<1>6. IsSeq(p \o q) /\ Len(p) \in Nat /\ Len(q) \in Nat
  BY <1>1, <1>3 DEF IsSeq
<1>7. QED
  BY <1>4, <1>5, <1>6

LEMMA ConcatNothing ==
  ASSUME NEW p, NEW q, IsSeq(p), IsSeq(q), Len(q) = 0
  PROVE  p \o q = p
<1>1. PICK S : p \in Seq(S)
  BY DEF IsSeq
<1>2. p = [i \in 1 .. Len(p) |-> p[i]]
  BY <1>1
<1>3. QED
  BY <1>2, ConcatElements

LEMMA ConcatAppend ==
  \A p, q, e : IsSeq(p) /\ IsSeq(q) => Append(p \o q, e) = p \o Append(q, e)
<1>1. TAKE p, q, e
<1>2. HAVE IsSeq(p) /\ IsSeq(q)
<1>3. PICK S, T : p \in Seq(S) /\ q \in Seq(T)
  BY <1>2 DEF IsSeq
<1>4. p \in Seq(S \union T \union {e}) /\ q \in Seq(S \union T \union {e})
  BY <1>3
<1>5. QED
  BY <1>4

(***************************************************************************)
(* A nonempty finite set of integers has a greatest element, and one       *)
(* within bounds a greatest and a least.                                   *)
(***************************************************************************)
LEMMA FiniteHasGreatest ==
  ASSUME NEW T, T \subseteq Int, IsFiniteSet(T), T # {}
  PROVE  \E m \in T : \A x \in T : m >= x
<1> DEFINE Above(x) == {y \in T : y > x}
           C == {Above(x) : x \in T}
<1>1. C \subseteq FiniteSubsetsOf(T) /\ C # {}
  <2>1. \A x \in T : Above(x) \in SUBSET T
    OBVIOUS
  <2>2. FiniteSubsetsOf(T) = SUBSET T
    BY FS_FiniteSubsetsOfFinite
  <2>3. C # {}
    <3>1. PICK x : x \in T
      OBVIOUS
    <3>2. Above(x) \in C
      BY <3>1
    <3>3. QED
      BY <3>2
  <2>4. C \subseteq SUBSET T
    BY <2>1
  <2>5. QED
    BY <2>2, <2>3, <2>4
<1>2. PICK U \in C : \A V \in C : ~(<<V, U>> \in StrictSubsetOrdering(T))
  <2>1. IsWellFoundedOn(StrictSubsetOrdering(T), FiniteSubsetsOf(T))
    BY FS_StrictSubsetOrderingWellFounded
  <2>2. QED
    BY <1>1, <2>1, WFMin
<1>3. PICK m \in T : U = Above(m)
  OBVIOUS
<1>4. ASSUME NEW y \in T, y > m PROVE FALSE
  <2>1. Above(y) \subseteq U /\ y \in U /\ y \notin Above(y)
    <3>1. \A v \in Above(y) : v \in T /\ v > y /\ v \in Int /\ y \in Int /\ m \in Int
      BY <1>3, <1>4
    <3>2. \A v \in Above(y) : v > m
      BY <1>4, <3>1
    <3>3. y \notin Above(y)
      BY <3>1
    <3>4. y \in Above(m) /\ Above(y) \subseteq Above(m)
      BY <1>4, <3>1, <3>2
    <3>5. QED
      BY <1>3, <3>3, <3>4
  <2>2. <<Above(y), U>> \in StrictSubsetOrdering(T)
    BY <2>1, <1>3 DEF StrictSubsetOrdering
  <2>3. QED
    BY <1>2, <2>2
<1>5. QED
  BY <1>4

LEMMA HasGreatest ==
  ASSUME NEW a \in Int, NEW b \in Int, NEW T, T \subseteq a .. b, T # {}
  PROVE  \E m \in T : \A x \in T : m >= x
<1>1. IsFiniteSet(T)
  BY FS_Interval, FS_Subset
<1>2. T \subseteq Int
  OBVIOUS
<1>3. QED
  BY <1>1, <1>2, FiniteHasGreatest

\* So do finitely many numbers, each of an index.
LEMMA ImageIsFinite ==
  ASSUME NEW n \in Nat, NEW f, DOMAIN f = 1 .. n
  PROVE  IsFiniteSet({f[i] : i \in 1 .. n})
<1> DEFINE T == {f[i] : i \in 1 .. n}
           g == [i \in 1 .. n |-> f[i]]
<1>1. g \in Surjection(1 .. n, T)
  BY DEF Surjection
<1>2. IsFiniteSet(1 .. n)
  BY FS_Interval
<1>3. QED
  BY <1>1, <1>2, FS_Surjection

LEMMA HasLeast ==
  ASSUME NEW a \in Int, NEW b \in Int, NEW T, T \subseteq a .. b, T # {}
  PROVE  \E m \in T : \A x \in T : m <= x
<1> DEFINE M == {-x : x \in T}
<1>1. M \subseteq (-b) .. (-a) /\ M # {}
  <2>1. \A x \in T : -x \in (-b) .. (-a)
    OBVIOUS
  <2>2. PICK x \in T : TRUE
    OBVIOUS
  <2>3. -x \in M
    OBVIOUS
  <2>4. QED
    BY <2>1, <2>3
<1>2. PICK m \in M : \A y \in M : m >= y
  <2> HIDE DEF M
  <2>1. -b \in Int /\ -a \in Int
    OBVIOUS
  <2>2. QED
    BY ONLY <1>1, <2>1, HasGreatest
<1>3. -m \in T /\ \A x \in T : -m <= x
  <2>1. PICK z \in T : m = -z
    OBVIOUS
  <2>2. -m \in T /\ m \in Int
    BY <2>1
  <2>3. ASSUME NEW x \in T PROVE -m <= x
    <3>1. -x \in M /\ x \in Int
      OBVIOUS
    <3>2. m >= -x
      BY <1>2, <3>1
    <3>3. QED
      BY <2>2, <3>1, <3>2
  <2>4. QED
    BY <2>2, <2>3
<1>4. QED
  BY <1>3

\* The page of a ring of n that is i behind page h.
LEMMA RingIndex ==
  ASSUME NEW n \in Nat \ {0}, NEW h \in 0 .. n - 1, NEW i \in 0 .. n
  PROVE  (h + i) % n = IF h + i < n THEN h + i ELSE h + i - n
<1>1. CASE h + i < n
  <2>1. h + i \in 0 .. n - 1
    BY <1>1
  <2>2. QED
    BY <1>1, <2>1
<1>2. CASE ~(h + i < n)
  <2>1. h + i - n \in 0 .. n - 1 /\ h + i \in Int
    BY <1>2
  <2>2. h + i = n * 1 + (h + i - n)
    BY <2>1
  <2>3. QED
    BY <1>2, <2>1, <2>2
<1>3. QED
  BY <1>1, <1>2

\* A sequence that goes one place further has had an element added.
LEMMA AppendSame ==
  ASSUME NEW n \in Nat, NEW m \in Nat, NEW p, NEW q, m = n + 1,
         IsSeq(p), IsSeq(q), Len(p) = n, Len(q) = m, \A j \in 1 .. n : p[j] = q[j]
  PROVE  Append(p, q[m]) = q
<1> DEFINE e == q[m]
<1>1. IsSeq(Append(p, e)) /\ Len(Append(p, e)) = m
  BY AppendIsSeq
<1>2. \A j \in 1 .. m : Append(p, e)[j] = q[j]
  <2>1. Append(p, e)[m] = e /\ \A j \in 1 .. n : Append(p, e)[j] = p[j]
    BY AppendElements
  <2>2. \A j \in 1 .. m : j = m \/ j \in 1 .. n
    OBVIOUS
  <2>3. QED
    BY <2>1, <2>2
<1>3. QED
  BY <1>1, <1>2, SameElements

(***************************************************************************)
(* Division, from quotient and remainder and back.                         *)
(***************************************************************************)
LEMMA Divided ==
  ASSUME NEW n \in Nat \ {0}, NEW a \in Int
  PROVE  /\ a = n * (a \div n) + (a % n) /\ a % n \in 0 .. n - 1
         /\ a \div n \in Int /\ (a \in Nat => a \div n \in Nat)
<1>1. a = n * (a \div n) + (a % n) /\ a % n \in 0 .. n - 1 /\ a \div n \in Int
  BY SMT
<1>2. ASSUME a \in Nat, a \div n < 0 PROVE FALSE
  <2>1. n * (a \div n) <= n * (-1)
    BY <1>1, <1>2, SMT
  <2>2. QED
    BY <1>1, <1>2, <2>1, SMT
<1>3. QED
  BY <1>1, <1>2

LEMMA Quotient ==
  ASSUME NEW n \in Nat \ {0}, NEW q \in Int, NEW m \in 0 .. n - 1,
         NEW a \in Int, a = n * q + m
  PROVE  a \div n = q /\ a % n = m
<1> DEFINE p == a \div n
           d == p - q
<1>1. a = n * p + (a % n) /\ a % n \in 0 .. n - 1 /\ p \in Int /\ a \in Int
  BY SMT
<1>2. d \in Int /\ n * d = n * p - n * q /\ n * p \in Int /\ n * q \in Int
  BY <1>1, SMT
<1>3. n * d = m - (a % n)
  BY <1>1, <1>2, SMT
<1>4. CASE d <= -1
  <2>1. n * d <= n * (-1)
    BY <1>2, <1>4, SMT
  <2>2. QED
    BY <1>1, <1>3, <2>1, SMT
<1>5. CASE d >= 1
  <2>1. n * d >= n
    BY <1>2, <1>5, SMT
  <2>2. QED
    BY <1>1, <1>3, <2>1, SMT
<1>6. CASE d = 0
  <2>1. n * d = 0
    BY <1>6, SMT
  <2>2. QED
    BY <1>1, <1>3, <1>6, <2>1, SMT
<1>7. QED
  BY <1>2, <1>4, <1>5, <1>6

\* Two such decompositions of one number are the same.
LEMMA SameParts ==
  ASSUME NEW n \in Nat \ {0}, NEW p \in Int, NEW q \in Int,
         NEW l \in 0 .. n - 1, NEW m \in 0 .. n - 1, n * p + l = n * q + m
  PROVE  p = q /\ l = m
<1> DEFINE a == n * p + l
<1>1. a \in Int
  BY SMT
<1>2. a = n * q + m
  OBVIOUS
<1>3. a \div n = p /\ a % n = l
  BY ONLY <1>1, Quotient, n \in Nat \ {0}, p \in Int, l \in 0 .. n - 1
<1>4. a \div n = q /\ a % n = m
  <2> HIDE DEF a
  <2>1. QED
    BY ONLY <1>1, <1>2, Quotient, n \in Nat \ {0}, q \in Int, m \in 0 .. n - 1
<1>5. QED
  BY <1>3, <1>4

\* Two digits make a number that is less than the product of their bases.
LEMMA PartsBound ==
  ASSUME NEW n \in Nat \ {0}, NEW m \in Nat \ {0}, NEW q \in 0 .. m - 1,
         NEW r \in 0 .. n - 1
  PROVE  n * q + r \in 0 .. n * m - 1
<1>1. n * q <= n * (m - 1) /\ n * (m - 1) = n * m - n /\ n * q >= 0
  BY SMT
<1>2. n * q \in Int /\ n * m \in Int
  BY SMT
<1>3. QED
  BY <1>1, <1>2

LEMMA PartsOf ==
  ASSUME NEW n \in Nat \ {0}, NEW m \in Nat \ {0}, NEW a \in 0 .. n * m - 1
  PROVE  a \div n \in 0 .. m - 1 /\ a % n \in 0 .. n - 1
<1>1. n * m \in Nat
  BY SMT
<1>2. a \in Nat /\ a \in Int /\ n \in Nat \ {0}
  BY <1>1
<1>3. a = n * (a \div n) + (a % n) /\ a % n \in 0 .. n - 1 /\ a \div n \in Nat
  BY ONLY <1>2, Divided
<1>4. ASSUME a \div n >= m PROVE FALSE
  <2>1. n * (a \div n) >= n * m
    BY <1>3, <1>4, SMT
  <2>2. QED
    BY <1>1, <1>3, <2>1, SMT
<1>5. QED
  BY <1>3, <1>4

\* A number of four digits, the lowest of which has base B, the next ones m
\* and k, and what it says about the digits that two of them are the same.
Numbered(B, m, k, g, r, b, l) == B * m * k * g + (B * m * r + (B * b + l))

DigitsOK(B, m, k, g, r, b, l) ==
  /\ B \in Nat \ {0} /\ m \in Nat \ {0} /\ k \in Nat \ {0}
  /\ g \in Nat /\ r \in 0 .. k - 1 /\ b \in 0 .. m - 1 /\ l \in 0 .. B - 1

LEMMA MixedRadix ==
  ASSUME NEW B, NEW m, NEW k, NEW g, NEW r, NEW b, NEW l, NEW h, NEW s, NEW c, NEW n,
         DigitsOK(B, m, k, g, r, b, l), DigitsOK(B, m, k, h, s, c, n),
         Numbered(B, m, k, g, r, b, l) = Numbered(B, m, k, h, s, c, n)
  PROVE  g = h /\ r = s /\ b = c /\ l = n
<1> USE DEF DigitsOK
<1> DEFINE W == B * m
           G == W * k
<1>1. W \in Nat \ {0} /\ B * b + l \in 0 .. W - 1 /\ B * c + n \in 0 .. W - 1
  <2>1. \A x, y \in Nat \ {0} : x * y \in Nat \ {0}
    BY SMT
  <2>2. B * b + l \in 0 .. B * m - 1
    BY ONLY PartsBound, B \in Nat \ {0}, m \in Nat \ {0}, b \in 0 .. m - 1, l \in 0 .. B - 1
  <2>3. B * c + n \in 0 .. B * m - 1
    BY ONLY PartsBound, B \in Nat \ {0}, m \in Nat \ {0}, c \in 0 .. m - 1, n \in 0 .. B - 1
  <2>4. QED
    BY <2>1, <2>2, <2>3
<1> DEFINE x == B * b + l
           y == B * c + n
<1> HIDE DEF W
<1>2. x \in 0 .. W - 1 /\ y \in 0 .. W - 1
  BY <1>1
<1>3. G * g + (W * r + x) = G * h + (W * s + y)
  BY DEF W, Numbered
<1> HIDE DEF x, y
<1>4. /\ G \in Nat \ {0} /\ W * r + x \in 0 .. G - 1 /\ W * s + y \in 0 .. G - 1
  <2>1. \A a, e \in Nat \ {0} : a * e \in Nat \ {0}
    BY SMT
  <2>2. W * r + x \in 0 .. W * k - 1
    BY ONLY PartsBound, <1>1, <1>2, k \in Nat \ {0}, r \in 0 .. k - 1
  <2>3. W * s + y \in 0 .. W * k - 1
    BY ONLY PartsBound, <1>1, <1>2, k \in Nat \ {0}, s \in 0 .. k - 1
  <2>4. QED
    BY <1>1, <2>1, <2>2, <2>3
<1> DEFINE p == W * r + x
           q == W * s + y
<1> HIDE DEF G
<1>5. p \in 0 .. G - 1 /\ q \in 0 .. G - 1 /\ G * g + p = G * h + q
  BY <1>3, <1>4
<1> HIDE DEF p, q
<1>6. g = h /\ p = q
  <2>1. g \in Int /\ h \in Int
    OBVIOUS
  <2>2. QED
    BY ONLY <1>4, <1>5, <2>1, SameParts
<1>7. r = s /\ x = y
  <2>1. r \in Int /\ s \in Int /\ W * r + x = W * s + y
    BY <1>6 DEF p, q
  <2>2. QED
    BY ONLY <1>1, <1>2, <2>1, SameParts
<1>8. b = c /\ l = n
  <2>1. b \in Int /\ c \in Int /\ B * b + l = B * c + n
    BY <1>7 DEF x, y
  <2>2. QED
    BY ONLY <2>1, SameParts, B \in Nat \ {0}, l \in 0 .. B - 1, n \in 0 .. B - 1
<1>9. QED
  BY <1>6, <1>7, <1>8
=============================================================================
