--------------------------- MODULE StencilProofs ---------------------------
(***************************************************************************)
(* The row stencil is exact for every number of lanes, every filter length *)
(* that fits and every sequence of passes that does not overwrite its own  *)
(* operands.  The column stencil is exact for every filter length it       *)
(* accepts, unless the sum goes over the second input.                     *)
(***************************************************************************)
EXTENDS HorizontalStencil, AnySequences

CONSTANT ColumnJobs         \* the jobs of the column stencil

VARIABLES colJob, colRow, colTap, colPhase, window, sums, colDst

\* The column stencil, next to the row stencil that this module extends.
V == INSTANCE VerticalStencil WITH
        Jobs <- ColumnJobs, job <- colJob, row <- colRow, tap <- colTap,
        phase <- colPhase, f <- window, g <- sums, dst <- colDst

JobType(jb) ==
    /\ jb.k \in 1 .. Columns + 1
    /\ jb.passes \in Seq(PassType)
    /\ \A a, b \in 1 .. Len(jb.passes) :
         a < b => jb.passes[a].output \notin
                    {jb.passes[b].previous, jb.passes[b].current,
                     jb.passes[b].base, jb.passes[b].output}

TypeOK ==
    /\ JobType(job)
    /\ pass \in 1 .. Len(job.passes) + 1
    /\ tap \in 0 .. job.k
    /\ phase \in {"load", "tap"}
    /\ phase = "tap" => pass <= Len(job.passes)
    /\ phase = "load" => tap = 0

\* A face no finished pass has written is as the unpacker left it.
Untouched ==
    \A f \in Faces :
      (\A b \in 1 .. pass - 1 : job.passes[b].output # f) =>
         dst[f] = [c \in ColumnIndex |-> Cell(f, c)]

DstOK == DOMAIN dst = Faces /\ Exact /\ Untouched

\* r rotations have brought column q - 2 * r to where column q was.
RotatedBy(r) ==
    /\ r \in 0 .. Lanes
    /\ tap = 2 * r \/ tap = 2 * r + 1
    /\ \A l \in LaneIndex :
         /\ fe1[l] = At(Pass, Columns + 2 * (l - r))
         /\ fo1[l] = At(Pass, Columns + 2 * (l - r) + 1)
         /\ l >= r => /\ fe0[l] = At(Pass, 2 * (l - r))
                      /\ fo0[l] = At(Pass, 2 * (l - r) + 1)

\* Before the last tap the registers are rotated, the sums as far as the
\* taps.
RegsOK ==
    phase = "tap" =>
      /\ tap < job.k => \E r \in Int : RotatedBy(r)
      /\ ge = [l \in LaneIndex |-> Sum(Pass, 2 * l, tap)]
      /\ go = [l \in LaneIndex |-> Sum(Pass, 2 * l + 1, tap)]

IInv == TypeOK /\ DstOK /\ RegsOK

-----------------------------------------------------------------------------
\* One more tap at the end of a sum.
LEMMA SumStep ==
  ASSUME NEW p, NEW i \in Int, NEW j \in Nat
  PROVE  Append(Sum(p, i, j), <<j, At(p, Columns + i - j)>>) = Sum(p, i, j + 1)
<1> DEFINE term(n) == IF n = 1 THEN Scaled(job.scaleBase, Cell(p.base, i))
                               ELSE <<n - 2, At(p, Columns + i - (n - 2))>>
<1>1. Sum(p, i, j) = [n \in 1 .. j + 1 |-> term(n)]
  BY DEF Sum
<1>2. Sum(p, i, j + 1) = [n \in 1 .. (j + 1) + 1 |-> term(n)]
  BY DEF Sum
<1>3. term((j + 1) + 1) = <<j, At(p, Columns + i - j)>>
  <2>1. (j + 1) + 1 # 1 /\ ((j + 1) + 1) - 2 = j
    OBVIOUS
  <2>2. QED
    BY <2>1
<1> HIDE DEF term
<1>4. Append([n \in 1 .. j + 1 |-> term(n)], term((j + 1) + 1))
        = [n \in 1 .. (j + 1) + 1 |-> term(n)]
  OBVIOUS
<1>5. QED
  BY <1>1, <1>2, <1>3, <1>4

LEMMA InitInv == Init => IInv
<1> SUFFICES ASSUME Init PROVE IInv
  OBVIOUS
<1>1. TypeOK
  BY JobsAssumption DEF Init, TypeOK, JobType
<1>2. DstOK
  BY <1>1 DEF Init, DstOK, Exact, Untouched
<1>3. RegsOK
  BY DEF Init, RegsOK
<1>4. QED
  BY <1>1, <1>2, <1>3 DEF IInv

-----------------------------------------------------------------------------
\* What a pass loads no finished pass has written.
LEMMA PassFresh ==
  ASSUME IInv, pass <= Len(job.passes)
  PROVE  /\ Pass \in PassType
         /\ \A f \in {Pass.previous, Pass.current, Pass.base} :
              dst[f] = [c \in ColumnIndex |-> Cell(f, c)]
<1>1. pass \in 1 .. Len(job.passes)
  BY DEF IInv, TypeOK
<1>2. Pass \in PassType
  BY <1>1 DEF IInv, TypeOK, JobType, Pass
<1>3. ASSUME NEW f \in {Pass.previous, Pass.current, Pass.base}
      PROVE  dst[f] = [c \in ColumnIndex |-> Cell(f, c)]
  <2>1. f \in Faces
    BY <1>2 DEF PassType
  <2>2. ASSUME NEW b \in 1 .. pass - 1 PROVE job.passes[b].output # f
    <3>1. b \in 1 .. Len(job.passes) /\ b < pass
      BY <1>1, Len(job.passes) \in Nat DEF IInv, TypeOK, JobType
    <3>2. job.passes[b].output \notin
            {job.passes[pass].previous, job.passes[pass].current,
             job.passes[pass].base, job.passes[pass].output}
      BY <1>1, <3>1 DEF IInv, TypeOK, JobType
    <3>3. QED
      BY <3>2 DEF Pass
  <2>3. QED
    BY <2>1, <2>2 DEF IInv, DstOK, Untouched
<1>4. QED
  BY <1>2, <1>3

LEMMA LoadStep ==
  ASSUME IInv, Load
  PROVE  IInv'
<1>1. /\ Pass \in PassType
      /\ \A f \in {Pass.previous, Pass.current, Pass.base} :
           dst[f] = [c \in ColumnIndex |-> Cell(f, c)]
  BY PassFresh DEF Load
<1>2. Lanes \in Nat \ {0} /\ Columns = 2 * Lanes
  BY JobsAssumption DEF Columns
<1>3. TypeOK'
  BY DEF IInv, Load, TypeOK, JobType
<1>4. DstOK'
  BY DEF IInv, Load, DstOK, Exact, Untouched, Sum, At
<1>5. Pass' = Pass /\ job' = job /\ tap' = 0
  BY DEF Load, Pass
<1>6. ASSUME NEW l \in LaneIndex
      PROVE  /\ fe0'[l] = At(Pass, 2 * l) /\ fo0'[l] = At(Pass, 2 * l + 1)
             /\ fe1'[l] = At(Pass, Columns + 2 * l)
             /\ fo1'[l] = At(Pass, Columns + 2 * l + 1)
  <2>1. /\ {2 * l, 2 * l + 1} \subseteq ColumnIndex
        /\ 2 * l < Columns /\ 2 * l + 1 < Columns
        /\ ~(Columns + 2 * l < Columns) /\ ~(Columns + 2 * l + 1 < Columns)
        /\ (Columns + 2 * l) - Columns = 2 * l + 0
        /\ (Columns + 2 * l + 1) - Columns = 2 * l + 1
        /\ 2 * l + 0 = 2 * l
    BY <1>2 DEF LaneIndex, ColumnIndex
  <2>2. /\ fe0'[l] = Scaled(job.scaleSource, dst[Pass.previous][2 * l + 0])
        /\ fo0'[l] = Scaled(job.scaleSource, dst[Pass.previous][2 * l + 1])
        /\ fe1'[l] = Scaled(job.scaleSource, dst[Pass.current][2 * l + 0])
        /\ fo1'[l] = Scaled(job.scaleSource, dst[Pass.current][2 * l + 1])
    BY DEF Load, Source
  <2>3. QED
    BY <1>1, <2>1, <2>2 DEF At
<1>7. RegsOK'
  <2>1. RotatedBy(0)'
    <3>1. ASSUME NEW l \in LaneIndex
          PROVE  /\ 2 * (l - 0) = 2 * l /\ Columns + 2 * (l - 0) = Columns + 2 * l
      BY <1>2 DEF LaneIndex
    <3>2. 0 \in 0 .. Lanes
      BY <1>2
    <3>3. ASSUME NEW l \in LaneIndex
          PROVE  /\ At(Pass, 2 * l)' = At(Pass, 2 * l)
                 /\ At(Pass, 2 * l + 1)' = At(Pass, 2 * l + 1)
                 /\ At(Pass, Columns + 2 * l)' = At(Pass, Columns + 2 * l)
                 /\ At(Pass, Columns + 2 * l + 1)' = At(Pass, Columns + 2 * l + 1)
      BY <1>5 DEF At
    <3>4. QED
      BY <1>5, <1>6, <3>1, <3>2, <3>3 DEF RotatedBy
  <2>2. ASSUME NEW l \in LaneIndex, NEW q \in {0, 1}
        PROVE  <<Scaled(job.scaleBase, dst[Pass.base][2 * l + q])>>
                 = Sum(Pass, 2 * l + q, 0)'
    <3>1. 2 * l + q \in ColumnIndex
      BY <1>2 DEF LaneIndex, ColumnIndex
    <3>2. dst[Pass.base][2 * l + q] = Cell(Pass.base, 2 * l + q)
      BY <1>1, <3>1
    <3>3. Sum(Pass, 2 * l + q, 0)' = [n \in 1 .. 1 |-> Scaled(job.scaleBase, Cell(Pass.base, 2 * l + q))]
      BY <1>5 DEF Sum
    <3>4. QED
      BY <3>2, <3>3
  <2>3. /\ ge' = [l \in LaneIndex |-> Sum(Pass, 2 * l, tap)']
        /\ go' = [l \in LaneIndex |-> Sum(Pass, 2 * l + 1, tap)']
    <3>1. ASSUME NEW l \in LaneIndex PROVE 2 * l + 0 = 2 * l
      BY <1>2 DEF LaneIndex
    <3>2. QED
      BY <1>5, <2>2, <3>1 DEF Load, Base
  <2>4. QED
    BY <2>1, <2>3 DEF RegsOK
<1>8. QED
  BY <1>3, <1>4, <1>7 DEF IInv

-----------------------------------------------------------------------------
LEMMA EvenTapStep ==
  ASSUME IInv, EvenTap
  PROVE  IInv'
<1>1. /\ Pass' = Pass /\ job' = job /\ tap' = tap + 1 /\ tap \in Nat /\ phase = "tap"
      /\ job.k \in Int /\ tap < job.k /\ tap % 2 = 0
  BY JobsAssumption DEF EvenTap, Pass, IInv, TypeOK, JobType, Columns
<1>2. Lanes \in Nat \ {0} /\ Columns = 2 * Lanes
  BY JobsAssumption DEF Columns
<1>3. PICK r \in Int : RotatedBy(r)
  BY <1>1 DEF IInv, RegsOK
<1>4. tap = 2 * r /\ r \in 0 .. Lanes
  BY <1>1, <1>3 DEF RotatedBy
<1>5. TypeOK'
  BY <1>1 DEF EvenTap, IInv, TypeOK, JobType
<1>6. DstOK'
  BY DEF EvenTap, IInv, DstOK, Exact, Untouched, Sum, At
<1>7. ASSUME NEW l \in LaneIndex
      PROVE  /\ fe1[l] = At(Pass, Columns + 2 * l - tap)
             /\ fo1[l] = At(Pass, Columns + (2 * l + 1) - tap)
  <2>1. /\ Columns + 2 * (l - r) = Columns + 2 * l - tap
        /\ Columns + 2 * (l - r) + 1 = Columns + (2 * l + 1) - tap
    BY <1>2, <1>4 DEF LaneIndex
  <2>2. QED
    BY <1>3, <2>1 DEF RotatedBy
<1>8. ASSUME NEW i, NEW j PROVE Sum(Pass, i, j)' = Sum(Pass, i, j)
  BY <1>1 DEF Sum, At
<1>9. /\ ge' = [l \in LaneIndex |-> Sum(Pass, 2 * l, tap)']
      /\ go' = [l \in LaneIndex |-> Sum(Pass, 2 * l + 1, tap)']
  <2>1. ASSUME NEW l \in LaneIndex
        PROVE  /\ Append(ge[l], <<tap, fe1[l]>>) = Sum(Pass, 2 * l, tap + 1)
               /\ Append(go[l], <<tap, fo1[l]>>) = Sum(Pass, 2 * l + 1, tap + 1)
    <3>1. 2 * l \in Int /\ 2 * l + 1 \in Int
      BY <1>2 DEF LaneIndex
    <3>2. ge[l] = Sum(Pass, 2 * l, tap) /\ go[l] = Sum(Pass, 2 * l + 1, tap)
      BY <1>1 DEF IInv, RegsOK
    <3>3. QED
      BY <1>1, <1>7, <3>1, <3>2, SumStep
  <2>2. QED
    BY <1>1, <1>8, <2>1 DEF EvenTap, Mad
<1>10. tap' < job.k' => RotatedBy(r)'
  <2>1. ASSUME NEW q PROVE At(Pass, q)' = At(Pass, q)
    BY <1>1 DEF At
  <2>2. QED
    BY <1>1, <1>3, <1>4, <2>1 DEF RotatedBy, EvenTap
<1>11. RegsOK'
  BY <1>9, <1>10 DEF RegsOK
<1>12. QED
  BY <1>5, <1>6, <1>11 DEF IInv

-----------------------------------------------------------------------------
LEMMA OddTapStep ==
  ASSUME IInv, OddTap
  PROVE  IInv'
<1>1. /\ Pass' = Pass /\ job' = job /\ tap' = tap + 1 /\ tap \in Nat /\ phase = "tap"
      /\ job.k \in 1 .. Columns + 1 /\ tap < job.k /\ tap % 2 = 1
  BY JobsAssumption DEF OddTap, Pass, IInv, TypeOK, JobType
<1>2. Lanes \in Nat \ {0} /\ Columns = 2 * Lanes
  BY JobsAssumption DEF Columns
<1>3. PICK r \in Int : RotatedBy(r)
  BY <1>1 DEF IInv, RegsOK
<1>4. tap = 2 * r + 1 /\ r \in 0 .. Lanes - 1
  BY <1>1, <1>2, <1>3 DEF RotatedBy
<1>5. TypeOK'
  BY <1>1 DEF OddTap, IInv, TypeOK, JobType
<1>6. DstOK'
  BY DEF OddTap, IInv, DstOK, Exact, Untouched, Sum, At
\* The odd columns after the rotation.
<1>7. ASSUME NEW l \in LaneIndex
      PROVE  /\ fo1'[l] = At(Pass, Columns + 2 * (l - (r + 1)) + 1)
             /\ l >= r + 1 => fo0'[l] = At(Pass, 2 * (l - (r + 1)) + 1)
  <2>1. CASE l = 0
    <3>1. /\ Lanes - 1 \in LaneIndex /\ Lanes - 1 >= r
          /\ 2 * ((Lanes - 1) - r) + 1 = Columns + 2 * (l - (r + 1)) + 1
          /\ ~(l >= r + 1)
      BY <1>2, <1>4, <2>1 DEF LaneIndex
    <3>2. fo1'[l] = fo0[Lanes - 1]
      BY <2>1 DEF OddTap, ShiftedIn
    <3>3. QED
      BY <1>3, <3>1, <3>2 DEF RotatedBy
  <2>2. CASE l # 0
    <3>1. /\ l - 1 \in LaneIndex
          /\ Columns + 2 * ((l - 1) - r) + 1 = Columns + 2 * (l - (r + 1)) + 1
          /\ 2 * ((l - 1) - r) + 1 = 2 * (l - (r + 1)) + 1
          /\ l >= r + 1 => l - 1 >= r
      BY <1>2, <1>4, <2>2 DEF LaneIndex
    <3>2. fo1'[l] = fo1[l - 1] /\ fo0'[l] = fo0[l - 1]
      BY <2>2 DEF OddTap, ShiftedIn, Rotated
    <3>3. QED
      BY <1>3, <3>1, <3>2 DEF RotatedBy
  <2>3. QED
    BY <2>1, <2>2
\* The even columns, if they are rotated.
<1>8. ASSUME tap # job.k - 1, NEW l \in LaneIndex
      PROVE  /\ fe1'[l] = At(Pass, Columns + 2 * (l - (r + 1)))
             /\ l >= r + 1 => fe0'[l] = At(Pass, 2 * (l - (r + 1)))
  <2>1. CASE l = 0
    <3>1. /\ Lanes - 1 \in LaneIndex /\ Lanes - 1 >= r
          /\ 2 * ((Lanes - 1) - r) = Columns + 2 * (l - (r + 1))
          /\ ~(l >= r + 1)
      BY <1>2, <1>4, <2>1 DEF LaneIndex
    <3>2. fe1'[l] = fe0[Lanes - 1]
      BY <1>8, <2>1 DEF OddTap, ShiftedIn
    <3>3. QED
      BY <1>3, <3>1, <3>2 DEF RotatedBy
  <2>2. CASE l # 0
    <3>1. /\ l - 1 \in LaneIndex
          /\ Columns + 2 * ((l - 1) - r) = Columns + 2 * (l - (r + 1))
          /\ 2 * ((l - 1) - r) = 2 * (l - (r + 1))
          /\ l >= r + 1 => l - 1 >= r
      BY <1>2, <1>4, <2>2 DEF LaneIndex
    <3>2. fe1'[l] = fe1[l - 1] /\ fe0'[l] = fe0[l - 1]
      BY <1>8, <2>2 DEF OddTap, ShiftedIn, Rotated
    <3>3. QED
      BY <1>3, <3>1, <3>2 DEF RotatedBy
  <2>3. QED
    BY <2>1, <2>2
<1>9. ASSUME NEW i, NEW j PROVE Sum(Pass, i, j)' = Sum(Pass, i, j)
  BY <1>1 DEF Sum, At
<1>10. /\ ge' = [l \in LaneIndex |-> Sum(Pass, 2 * l, tap)']
       /\ go' = [l \in LaneIndex |-> Sum(Pass, 2 * l + 1, tap)']
  <2>1. ASSUME NEW l \in LaneIndex
        PROVE  /\ Append(ge[l], <<tap, fo1'[l]>>) = Sum(Pass, 2 * l, tap + 1)
               /\ Append(go[l], <<tap, fe1[l]>>) = Sum(Pass, 2 * l + 1, tap + 1)
    <3>1. 2 * l \in Int /\ 2 * l + 1 \in Int
      BY <1>2 DEF LaneIndex
    <3>2. ge[l] = Sum(Pass, 2 * l, tap) /\ go[l] = Sum(Pass, 2 * l + 1, tap)
      BY <1>1 DEF IInv, RegsOK
    <3>3. fe1[l] = At(Pass, Columns + (2 * l + 1) - tap)
      <4>1. Columns + 2 * (l - r) = Columns + (2 * l + 1) - tap
        BY <1>2, <1>4 DEF LaneIndex
      <4>2. QED
        BY <1>3, <4>1 DEF RotatedBy
    <3>4. fo1'[l] = At(Pass, Columns + 2 * l - tap)
      <4>1. Columns + 2 * (l - (r + 1)) + 1 = Columns + 2 * l - tap
        BY <1>2, <1>4 DEF LaneIndex
      <4>2. QED
        BY <1>7, <4>1
    <3>5. QED
      BY <1>1, <3>1, <3>2, <3>3, <3>4, SumStep
  <2>2. QED
    BY <1>1, <1>9, <2>1 DEF OddTap, Mad
<1>11. tap' < job.k' => RotatedBy(r + 1)'
  <2>1. ASSUME NEW q PROVE At(Pass, q)' = At(Pass, q)
    BY <1>1 DEF At
  <2>2. SUFFICES ASSUME tap' < job.k' PROVE RotatedBy(r + 1)'
    OBVIOUS
  <2>3. tap # job.k - 1 /\ tap' = 2 * (r + 1) /\ r + 1 \in 0 .. Lanes
    BY <1>1, <1>2, <1>4, <2>2
  <2>4. QED
    BY <1>7, <1>8, <2>1, <2>3 DEF RotatedBy
<1>12. r + 1 \in Int
  OBVIOUS
<1>13. RegsOK'
  BY <1>10, <1>11, <1>12 DEF RegsOK
<1>14. QED
  BY <1>5, <1>6, <1>13 DEF IInv

-----------------------------------------------------------------------------
LEMMA StoreStep ==
  ASSUME IInv, Store
  PROVE  IInv'
<1>1. /\ job' = job /\ tap = job.k /\ job.k \in Nat /\ phase = "tap"
      /\ pass \in 1 .. Len(job.passes) /\ Len(job.passes) \in Nat /\ pass' = pass + 1
  BY JobsAssumption DEF Store, IInv, TypeOK, JobType, Columns
<1>2. Lanes \in Nat \ {0} /\ Columns = 2 * Lanes
  BY JobsAssumption DEF Columns
<1>3. Pass \in PassType /\ Pass = job.passes[pass]
  BY <1>1 DEF IInv, TypeOK, JobType, Pass
<1>4. TypeOK'
  BY <1>1 DEF Store, IInv, TypeOK, JobType
<1>5. ASSUME NEW p, NEW i, NEW j PROVE Sum(p, i, j)' = Sum(p, i, j)
  BY <1>1 DEF Sum, At
\* The sums of the two registers are those of the columns they stand for.
<1>6. dst' = [dst EXCEPT ![Pass.output] = [i \in ColumnIndex |-> Sum(Pass, i, job.k)]]
  <2>1. ASSUME NEW c \in ColumnIndex
        PROVE  (IF c % 2 = 0 THEN ge[c \div 2] ELSE go[c \div 2])
                  = Sum(Pass, c, job.k)
    <3>1. c \in 0 .. 2 * Lanes - 1
      BY <1>2 DEF ColumnIndex
    <3>2. PICK l \in LaneIndex : c = 2 * l \/ c = 2 * l + 1
      <4>1. c \div 2 \in 0 .. Lanes - 1
        BY <1>2, <3>1
      <4>2. c = 2 * (c \div 2) \/ c = 2 * (c \div 2) + 1
        BY <3>1
      <4>3. QED
        BY <4>1, <4>2 DEF LaneIndex
    <3>3. ge[l] = Sum(Pass, 2 * l, job.k) /\ go[l] = Sum(Pass, 2 * l + 1, job.k)
      BY <1>1 DEF IInv, RegsOK
    <3>4. CASE c = 2 * l
      <4>1. c % 2 = 0 /\ c \div 2 = l
        BY <3>4, <1>2 DEF LaneIndex
      <4>2. QED
        BY <3>3, <3>4, <4>1
    <3>5. CASE c = 2 * l + 1
      <4>1. c % 2 = 1 /\ c \div 2 = l
        BY <3>5, <1>2 DEF LaneIndex
      <4>2. QED
        BY <3>3, <3>5, <4>1
    <3>6. QED
      BY <3>2, <3>4, <3>5
  <2>2. QED
    BY <2>1 DEF Store
<1>7. Pass.output \in Faces /\ DOMAIN dst = Faces
  BY <1>3 DEF PassType, IInv, DstOK
<1>8. Exact'
  <2>1. ASSUME NEW b \in 1 .. pass
        PROVE  dst'[job.passes[b].output]
                 = [i \in ColumnIndex |-> Sum(job.passes[b], i, job.k)]
    <3>1. CASE b = pass
      BY <1>3, <1>6, <1>7, <3>1
    <3>2. CASE b # pass
      <4>1. b \in 1 .. pass - 1 /\ b \in 1 .. Len(job.passes) /\ b < pass
        BY <1>1, <3>2
      <4>2. job.passes[b].output # job.passes[pass].output
        BY <1>1, <4>1 DEF IInv, TypeOK, JobType
      <4>3. job.passes[b].output \in Faces
        <5>1. job.passes[b] \in PassType
          BY <4>1 DEF IInv, TypeOK, JobType
        <5>2. QED
          BY <5>1 DEF PassType
      <4>4. dst[job.passes[b].output]
              = [i \in ColumnIndex |-> Sum(job.passes[b], i, job.k)]
        BY <4>1 DEF IInv, DstOK, Exact
      <4>5. QED
        BY <1>3, <1>6, <1>7, <4>2, <4>3, <4>4
    <3>3. QED
      BY <3>1, <3>2
  <2>2. pass' - 1 = pass
    BY <1>1
  <2>3. QED
    BY <1>1, <1>5, <2>1, <2>2 DEF Exact
<1>9. Untouched'
  <2>1. SUFFICES ASSUME NEW f \in Faces,
                        \A b \in 1 .. pass : job.passes[b].output # f
                 PROVE  dst'[f] = [c \in ColumnIndex |-> Cell(f, c)]
    <3>1. pass' - 1 = pass
      BY <1>1
    <3>2. QED
      BY <1>1, <3>1 DEF Untouched
  <2>2. Pass.output # f
    BY <1>1, <1>3, <2>1
  <2>3. dst[f] = [c \in ColumnIndex |-> Cell(f, c)]
    BY <1>1, <2>1 DEF IInv, DstOK, Untouched
  <2>4. QED
    BY <1>6, <1>7, <2>2, <2>3
<1>10. DstOK'
  BY <1>6, <1>7, <1>8, <1>9 DEF DstOK
<1>11. RegsOK'
  BY DEF Store, RegsOK
<1>12. QED
  BY <1>4, <1>10, <1>11 DEF IInv

-----------------------------------------------------------------------------
LEMMA StutterStep ==
  ASSUME IInv, UNCHANGED vars
  PROVE  IInv'
BY DEF vars, regs, IInv, TypeOK, JobType, DstOK, Exact, Untouched, RegsOK,
       RotatedBy, Sum, At, Pass

LEMMA NextInv == IInv /\ [Next]_vars => IInv'
<1> SUFFICES ASSUME IInv, [Next]_vars PROVE IInv'
  OBVIOUS
<1>1. CASE Load
  BY <1>1, LoadStep
<1>2. CASE EvenTap
  BY <1>2, EvenTapStep
<1>3. CASE OddTap
  BY <1>3, OddTapStep
<1>4. CASE Store
  BY <1>4, StoreStep
<1>5. CASE UNCHANGED vars
  BY <1>5, StutterStep
<1>6. QED
  BY <1>1, <1>2, <1>3, <1>4, <1>5 DEF Next

(***************************************************************************)
(* Every face _horizontal_stencil_plus_base_face has finished holds the    *)
(* sums the stencil is defined by, however many lanes a register has and   *)
(* however long the filter is, up to one tap more than a face has columns. *)
(***************************************************************************)
THEOREM StencilExact == Spec => []Exact
<1>1. IInv => Exact
  BY DEF IInv, DstOK
<1>2. QED
  BY <1>1, InitInv, NextInv, PTL DEF Spec

-----------------------------------------------------------------------------
(***************************************************************************)
(* A job runs the passes of its shape, as the kernels do.                  *)
(***************************************************************************)
KernelPasses ==
    \A jb \in Jobs :
      \/ jb.shape = "narrow" /\ jb.passes = NarrowPasses
      \/ jb.shape = "dense" /\ jb.passes = DensePasses

\* The pass that computes a block of a half of the rows.
PassOf(h, block) == IF job.shape = "narrow" THEN 2 * block + h + 1 ELSE 2 * h + block + 1

\* Its faces are those the window has there, and it is paired with the
\* block after it.
LEMMA FacesOfPass ==
  ASSUME job \in Jobs, KernelPasses, NEW h \in 0 .. 1, NEW block \in 0 .. Blocks - 1
  PROVE  /\ PassOf(h, block) \in 1 .. Len(job.passes)
         /\ LET p == job.passes[PassOf(h, block)]
            IN /\ p.output = PackedFace(h, block) /\ p.base = BaseFace(h, block)
               /\ p.previous = SourceFace(h, block) /\ p.current = SourceFace(h, block + 1)
<1>1. CASE job.shape = "narrow" /\ job.passes = NarrowPasses
  <2> DEFINE n == 2 * block + h + 1
  <2>1. Len(job.passes) = 6 /\ block \in {0, 1, 2} /\ h \in {0, 1}
    BY <1>1 DEF NarrowPasses, Blocks
  <2>2. n \in 1 .. 6 /\ (n + 1) \div 2 = block + 1 /\ (n - 1) % 2 = h /\ PassOf(h, block) = n
    BY <1>1, <2>1 DEF PassOf
  <2>3. job.passes[n] =
          [previous |-> NarrowFace(NarrowSources[block + 1], h),
           current |-> NarrowFace(NarrowSources[block + 1 + 1], h),
           base |-> NarrowFace(NarrowBases[block + 1], h),
           output |-> NarrowFace(NarrowBases[block + 1], h)]
    <3> HIDE DEF n
    <3>1. QED
      BY <1>1, <2>2 DEF NarrowPasses
  <2>4. NarrowFace(NarrowBases[block + 1], h) = DstFace(block, h)
    BY <2>1 DEF NarrowFace, NarrowBases, DstFace
  <2>5. QED
    BY <1>1, <2>1, <2>2, <2>3, <2>4 DEF PackedFace, BaseFace, SourceFace
<1>2. CASE job.shape = "dense" /\ job.passes = DensePasses
  <2> DEFINE n == 2 * h + block + 1
  <2>1. Len(job.passes) = 4 /\ block \in {0, 1} /\ h \in {0, 1}
    BY <1>2 DEF DensePasses, Blocks
  <2>2. /\ n \in 1 .. 4 /\ PassOf(h, block) = n /\ n - 1 = 2 * h + block
        /\ (n % 2 = 1 <=> block = 0)
    BY <1>2, <2>1 DEF PassOf
  <2>3. job.passes[n] =
          [previous |-> DstFace(0, n - 1),
           current |-> IF n % 2 = 1 THEN DstFace(0, n) ELSE DstFace(1, n - 2),
           base |-> DstFace(2, n - 1), output |-> DstFace(3, n - 1)]
    <3> HIDE DEF n
    <3>1. QED
      BY <1>2, <2>2 DEF DensePasses
  <2>4. (IF n % 2 = 1 THEN DstFace(0, n) ELSE DstFace(1, n - 2)) = SourceFace(h, block + 1)
    <3>1. CASE block = 0
      BY <1>2, <2>1, <2>2, <3>1 DEF SourceFace, DstFace
    <3>2. CASE block = 1
      BY <1>2, <2>1, <2>2, <3>2 DEF SourceFace, DstFace
    <3>3. QED
      BY <2>1, <3>1, <3>2
  <2>5. /\ DstFace(0, n - 1) = SourceFace(h, block) /\ DstFace(2, n - 1) = BaseFace(h, block)
        /\ DstFace(3, n - 1) = PackedFace(h, block)
    BY <1>2, <2>1, <2>2 DEF PackedFace, BaseFace, SourceFace
  <2> HIDE DEF n
  <2>6. QED
    BY <2>1, <2>2, <2>3, <2>4, <2>5
<1>3. QED
  BY <1>1, <1>2 DEF KernelPasses

\* A column of the window, counted in faces.
LEMMA WindowColumn ==
  ASSUME NEW m \in Nat \ {0}, NEW block \in Nat, NEW q \in 0 .. 2 * m - 1
  PROVE  /\ q < m => (m * block + q) \div m = block /\ (m * block + q) % m = q
         /\ q >= m => (m * block + q) \div m = block + 1 /\ (m * block + q) % m = q - m
<1> DEFINE x == m * block + q
           after == block + 1
<1>1. m * block \in Int /\ m * after = m * block + m
  BY SMT
<1>2. x \in Int /\ block \in Int /\ after \in Int /\ x = m * block + q /\ x = m * after + (q - m)
  BY <1>1
<1> HIDE DEF x, after
<1>3. q < m => x \div m = block /\ x % m = q
  <2>1. SUFFICES ASSUME q < m PROVE x \div m = block /\ x % m = q
    OBVIOUS
  <2>2. q \in 0 .. m - 1
    BY <2>1
  <2>3. QED
    BY ONLY <1>2, <2>2, m \in Nat \ {0}, Quotient
<1>4. q >= m => x \div m = after /\ x % m = q - m
  <2>1. SUFFICES ASSUME q >= m PROVE x \div m = after /\ x % m = q - m
    OBVIOUS
  <2> DEFINE r == q - m
  <2>2. r \in 0 .. m - 1 /\ x = m * after + r
    BY <1>2, <2>1
  <2> HIDE DEF r
  <2>3. x \div m = after /\ x % m = r
    BY ONLY <1>2, <2>2, m \in Nat \ {0}, Quotient
  <2>4. QED
    BY <2>3 DEF r
<1>5. QED
  BY <1>3, <1>4 DEF x, after

\* The job stays one of the jobs.
LEMMA JobKept == Init => job \in Jobs
  BY DEF Init

LEMMA JobKeptOn == job \in Jobs /\ [Next]_vars => job' \in Jobs
  BY DEF Next, vars, Load, EvenTap, OddTap, Store

LEMMA FinishedConvolved ==
  ASSUME IInv, job \in Jobs, KernelPasses, Finished
  PROVE  Convolved
<1>1. Lanes \in Nat \ {0} /\ Columns \in Nat \ {0} /\ Columns = 2 * Lanes
  BY JobsAssumption DEF Columns
<1>2. job.k \in 1 .. Columns + 1 /\ pass = Len(job.passes) + 1 /\ Len(job.passes) \in Nat
  BY DEF Finished, IInv, TypeOK, JobType
<1>3. Blocks \in {2, 3}
  BY DEF Blocks
<1> SUFFICES ASSUME NEW h \in 0 .. 1, NEW c \in 0 .. Blocks * Columns - 1
             PROVE  dst[PackedFace(h, c \div Columns)][c % Columns] =
               [n \in 1 .. job.k + 1 |->
                 IF n = 1
                 THEN Scaled(job.scaleBase, Cell(BaseFace(h, c \div Columns), c % Columns))
                 ELSE LET q == c + Columns - (n - 2)
                      IN <<n - 2, Scaled(job.scaleSource,
                                    Cell(SourceFace(h, q \div Columns), q % Columns))>>]
  BY DEF Convolved
<1> DEFINE m == Columns
           block == c \div m
           i == c % m
           b == PassOf(h, block)
           p == job.passes[b]
<1>4. c = m * block + i /\ i \in 0 .. m - 1 /\ block \in 0 .. Blocks - 1 /\ c \in Nat
  <2>1. c \in Nat /\ c \in Int /\ m \in Nat \ {0} /\ c < Blocks * m
    BY <1>1, <1>3
  <2> HIDE DEF m
  <2>2. c = m * block + i /\ i \in 0 .. m - 1 /\ block \in Nat
    BY ONLY <2>1, Divided
  <2> HIDE DEF block, i
  <2>3. ASSUME block >= Blocks PROVE FALSE
    <3>1. m * block >= m * Blocks /\ m * Blocks = Blocks * m /\ m * block \in Int /\ Blocks * m \in Int
      BY <1>3, <2>1, <2>2, <2>3, SMT
    <3>2. QED
      BY <2>1, <2>2, <3>1
  <2>4. QED
    BY <1>3, <2>1, <2>2, <2>3
<1> HIDE DEF m, block, i, p, b
<1>5. /\ b \in 1 .. Len(job.passes)
      /\ p.output = PackedFace(h, block) /\ p.base = BaseFace(h, block)
      /\ p.previous = SourceFace(h, block) /\ p.current = SourceFace(h, block + 1)
  BY <1>4, FacesOfPass DEF p, b
<1>6. dst[PackedFace(h, block)] = [x \in ColumnIndex |-> Sum(p, x, job.k)]
  <2>1. b \in 1 .. pass - 1
    BY <1>2, <1>5
  <2>2. QED
    BY <1>5, <2>1 DEF IInv, DstOK, Exact, p
<1>7. dst[PackedFace(h, block)][i] = Sum(p, i, job.k)
  BY <1>4, <1>6 DEF ColumnIndex, m
<1>8. ASSUME NEW n \in 1 .. job.k + 1, n # 1
      PROVE  LET q == c + Columns - (n - 2)
             IN At(p, Columns + i - (n - 2))
                  = Scaled(job.scaleSource, Cell(SourceFace(h, q \div Columns), q % Columns))
  <2> DEFINE q == c + m - (n - 2)
             w == m + i - (n - 2)
  <2>1. m \in Nat \ {0} /\ w \in 0 .. 2 * m - 1 /\ block \in Nat
    <3> DEFINE k == job.k
    <3>1. m \in Nat \ {0} /\ k \in 1 .. m + 1
      BY <1>1, <1>2 DEF m
    <3> HIDE DEF k
    <3>2. n \in 1 .. k + 1
      BY DEF k
    <3>3. i \in Int /\ i >= 0 /\ i <= m - 1 /\ n \in Int /\ n >= 2 /\ n <= m + 2
      BY <1>4, <1>8, <3>1, <3>2
    <3>4. w \in 0 .. 2 * m - 1
      BY <3>1, <3>3
    <3>5. block \in Nat
      BY <1>3, <1>4
    <3>6. QED
      BY <3>1, <3>4, <3>5
  <2>2. q = m * block + w
    <3>1. m * block \in Int
      BY <2>1, SMT
    <3>2. QED
      BY <1>4, <2>1, <3>1
  <2>3. At(p, w) = Scaled(job.scaleSource, IF w < m THEN Cell(p.previous, w) ELSE Cell(p.current, w - m))
    BY DEF At, m
  <2> HIDE DEF q, w
  <2>4. CASE w < m
    <3>1. q \div m = block /\ q % m = w
      BY <2>1, <2>2, <2>4, WindowColumn
    <3>2. QED
      BY <1>5, <2>3, <2>4, <3>1 DEF m, q, w
  <2>5. CASE ~(w < m)
    <3>1. w >= m
      BY <2>1, <2>5
    <3>2. q \div m = block + 1 /\ q % m = w - m
      BY <2>1, <2>2, <3>1, WindowColumn
    <3>3. QED
      BY <1>5, <2>3, <2>5, <3>2 DEF m, q, w
  <2>6. QED
    BY <2>4, <2>5
<1>9. QED
  BY <1>5, <1>7, <1>8 DEF Sum, m, block, i

(***************************************************************************)
(* What the kernels pack is the convolution over the whole window, across  *)
(* the faces, in both shapes they run the stencil in and for every length  *)
(* of filter: each block of columns is paired with the one after it.       *)
(***************************************************************************)
THEOREM WindowConvolved == KernelPasses => (Spec => []Convolved)
<1> SUFFICES ASSUME KernelPasses
             PROVE  Spec => []Convolved
  OBVIOUS
<1> DEFINE Inv == IInv /\ job \in Jobs
<1>1. Init => Inv
  BY InitInv, JobKept
<1>2. Inv /\ [Next]_vars => Inv'
  BY NextInv, JobKeptOn
<1>3. Inv => Convolved
  <2>1. SUFFICES ASSUME Inv PROVE Convolved
    OBVIOUS
  <2>2. CASE Finished
    BY <2>1, <2>2, FinishedConvolved
  <2>3. CASE ~Finished
    BY <2>3 DEF Convolved
  <2>4. QED
    BY <2>2, <2>3
<1>4. QED
  BY <1>1, <1>2, <1>3, PTL DEF Spec

-----------------------------------------------------------------------------
(***************************************************************************)
(* The column stencil.                                                     *)
(***************************************************************************)
NotOverSecond == \A jb \in ColumnJobs : jb.output # 1

ColumnTypeOK ==
    /\ colJob.k \in 1 .. V!LongestFilter
    /\ colJob.base \in V!Tiles \union {V!NoTile}
    /\ colJob.output \in V!Tiles \ {1}
    /\ colRow \in Nat /\ colTap \in 0 .. colJob.k
    /\ colPhase \in {"load", "tap", "tail"}
    /\ colPhase = "tap" => colTap <= V!FirstTaps /\ colRow < V!TileRows
    /\ colPhase = "tail" => colTap >= V!FirstTaps /\ colJob.k > V!FirstTaps /\ colRow < V!TileRows
    /\ DOMAIN colDst = V!Tiles
    /\ \A t \in V!Tiles : DOMAIN colDst[t] = 0 .. V!TileRows - 1

\* Only rows above the block have been written, and only of one tile.
ColumnUntouched ==
    \A t \in V!Tiles, r \in 0 .. V!TileRows - 1 :
      t # colJob.output \/ r >= colRow => colDst[t][r] = V!Cell(t, r)

\* While a tap is still to come, the window starts `tap` rows further down
\* than the block, and has lost as many rows at its end since it was loaded.
ColumnWindowOK ==
    /\ colPhase = "tap" /\ colTap < V!Taps(colJob.k) =>
         \A i \in V!WindowIndex : colTap + i < V!Window => window[i] = V!SourceCell(colRow + colTap + i)
    /\ colPhase = "tail" /\ colTap < colJob.k =>
         \A i \in V!WindowIndex : colTap + i < V!Window + 12 => window[i] = V!SourceCell(colRow + colTap + i)

\* Sums below the end of the tile are not looked at.
ColumnSumsOK ==
    colPhase # "load" =>
      \A i \in V!SumIndex : colRow + i < V!TileRows => sums[i] = V!Sum(colRow + i, colTap)

ColumnIInv == ColumnTypeOK /\ ColumnUntouched /\ V!Exact /\ ColumnWindowOK /\ ColumnSumsOK

-----------------------------------------------------------------------------
LEMMA ColumnSumStep ==
  ASSUME NEW r \in Int, NEW j \in Nat
  PROVE  Append(V!Sum(r, j), <<colJob.k - 1 - j, V!SourceCell(r + j)>>) = V!Sum(r, j + 1)
<1> DEFINE term(n) == IF n = 1 THEN (IF colJob.base = V!NoTile THEN "zero" ELSE V!Cell(colJob.base, r))
                               ELSE <<colJob.k - 1 - (n - 2), V!SourceCell(r + (n - 2))>>
<1>1. V!Sum(r, j) = [n \in 1 .. j + 1 |-> term(n)]
  BY DEF V!Sum
<1>2. V!Sum(r, j + 1) = [n \in 1 .. (j + 1) + 1 |-> term(n)]
  BY DEF V!Sum
<1>3. term((j + 1) + 1) = <<colJob.k - 1 - j, V!SourceCell(r + j)>>
  <2>1. (j + 1) + 1 # 1 /\ ((j + 1) + 1) - 2 = j
    OBVIOUS
  <2>2. QED
    BY <2>1
<1> HIDE DEF term
<1>4. Append([n \in 1 .. j + 1 |-> term(n)], term((j + 1) + 1))
        = [n \in 1 .. (j + 1) + 1 |-> term(n)]
  OBVIOUS
<1>5. QED
  BY <1>1, <1>2, <1>3, <1>4

LEMMA ColumnInitInv ==
  ASSUME V!JobsAssumption, NotOverSecond, V!Init
  PROVE  ColumnIInv
<1>1. ColumnTypeOK
  <2>1. colJob \in [k : 1 .. V!LongestFilter, base : V!Tiles \union {V!NoTile}, output : V!Tiles]
    BY DEF V!JobsAssumption, V!Init
  <2>2. colJob.output # 1
    BY DEF V!Init, NotOverSecond
  <2>3. 0 \in 0 .. colJob.k
    BY <2>1 DEF V!LongestFilter
  <2>4. QED
    BY <2>1, <2>2, <2>3 DEF V!Init, ColumnTypeOK
<1>2. ColumnUntouched
  BY DEF V!Init, ColumnUntouched, V!Tiles, V!TileRows
<1>3. V!Exact /\ ColumnWindowOK /\ ColumnSumsOK
  BY DEF V!Init, V!Exact, ColumnWindowOK, ColumnSumsOK
<1>4. QED
  BY <1>1, <1>2, <1>3 DEF ColumnIInv

-----------------------------------------------------------------------------
\* The rows a window is loaded with are still as they were.
LEMMA ColumnSourceFresh ==
  ASSUME ColumnIInv, NEW r \in Nat, colRow <= r, r < 2 * V!TileRows
  PROVE  V!Source(r) = V!SourceCell(r)
<1>1. CASE r < V!TileRows
  <2>1. r % V!TileRows = r /\ r \in 0 .. V!TileRows - 1 /\ 0 \in V!Tiles
    BY <1>1 DEF V!TileRows, V!Tiles
  <2>2. r >= colRow
    BY DEF ColumnIInv, ColumnTypeOK
  <2>3. QED
    BY <1>1, <2>1, <2>2 DEF ColumnIInv, ColumnUntouched, V!Source, V!Block, V!SourceCell
<1>2. CASE ~(r < V!TileRows)
  <2>1. r % V!TileRows = r - V!TileRows /\ r - V!TileRows \in 0 .. V!TileRows - 1 /\ 1 \in V!Tiles
    BY <1>2 DEF V!TileRows, V!Tiles
  <2>2. colJob.output # 1
    BY DEF ColumnIInv, ColumnTypeOK
  <2>3. QED
    BY <1>2, <2>1, <2>2 DEF ColumnIInv, ColumnUntouched, V!Source, V!Block, V!SourceCell
<1>3. QED
  BY <1>1, <1>2

LEMMA ColumnLoadStep ==
  ASSUME ColumnIInv, V!Load
  PROVE  ColumnIInv'
<1>1. /\ colJob' = colJob /\ colRow' = colRow /\ colDst' = colDst /\ colTap' = 0 /\ colPhase' = "tap"
      /\ colRow \in Nat /\ colRow < V!TileRows
  BY DEF V!Load, ColumnIInv, ColumnTypeOK
<1>2. colJob.k \in 1 .. V!LongestFilter
  BY DEF ColumnIInv, ColumnTypeOK
<1>3. ColumnTypeOK'
  BY <1>1, <1>2 DEF ColumnIInv, ColumnTypeOK, V!FirstTaps, V!LongestFilter
<1>4. ColumnUntouched' /\ V!Exact'
  BY <1>1 DEF ColumnIInv, ColumnUntouched, V!Exact, V!Sum
<1>5. ColumnWindowOK'
  <2>1. ASSUME NEW i \in V!WindowIndex PROVE window'[i] = V!SourceCell(colRow + 0 + i)
    <3>1. /\ colRow + i \in Nat /\ colRow <= colRow + i /\ colRow + i < 2 * V!TileRows
          /\ colRow + 0 + i = colRow + i
      BY <1>1 DEF V!WindowIndex, V!Window, V!TileRows
    <3>2. QED
      BY <3>1, ColumnSourceFresh DEF V!Load
  <2>2. QED
    BY <1>1, <2>1 DEF ColumnWindowOK
<1>6. ColumnSumsOK'
  <2>1. ASSUME NEW i \in V!SumIndex, colRow + i < V!TileRows
        PROVE  sums'[i] = V!Sum(colRow + i, 0)
    <3>1. colRow + i \in 0 .. V!TileRows - 1 /\ (colRow + i) % V!TileRows = colRow + i /\ colRow + i >= colRow
      BY <1>1, <1>2, <2>1 DEF V!SumIndex, V!RowStride, V!TileRows, V!LongestFilter
    <3>2. CASE colJob.base = V!NoTile
      <4>1. sums'[i] = <<"zero">>
        BY <3>2 DEF V!Load
      <4>2. V!Sum(colRow + i, 0) = [n \in 1 .. 1 |-> "zero"]
        BY <3>2 DEF V!Sum
      <4>3. QED
        BY <4>1, <4>2
    <3>3. CASE colJob.base # V!NoTile
      <4>1. colJob.base \in V!Tiles
        BY <3>3 DEF ColumnIInv, ColumnTypeOK
      <4>2. V!Block(colJob.base, colJob.base, colRow + i) = V!Cell(colJob.base, colRow + i)
        BY <3>1, <4>1 DEF ColumnIInv, ColumnUntouched, V!Block
      <4>3. sums'[i] = <<V!Cell(colJob.base, colRow + i)>>
        BY <3>3, <4>2 DEF V!Load
      <4>4. V!Sum(colRow + i, 0) = [n \in 1 .. 1 |-> V!Cell(colJob.base, colRow + i)]
        BY <3>3 DEF V!Sum
      <4>5. QED
        BY <4>3, <4>4
    <3>4. QED
      BY <3>2, <3>3
  <2>2. QED
    BY <1>1, <2>1 DEF ColumnSumsOK, V!SumIndex, V!Sum
<1>7. QED
  BY <1>3, <1>4, <1>5, <1>6 DEF ColumnIInv

-----------------------------------------------------------------------------
\* What a multiplication adds to the sums, given the window under it.
LEMMA ColumnMadExact ==
  ASSUME ColumnIInv, colPhase # "load", colTap \in Nat, colRow \in Nat,
         \A i \in V!SumIndex : window[i] = V!SourceCell(colRow + colTap + i)
  PROVE  \A i \in V!SumIndex : colRow + i < V!TileRows => V!Mad(sums)[i] = V!Sum(colRow + i, colTap + 1)
<1> SUFFICES ASSUME NEW i \in V!SumIndex, colRow + i < V!TileRows
             PROVE  V!Mad(sums)[i] = V!Sum(colRow + i, colTap + 1)
  OBVIOUS
<1>1. i \in Int /\ colRow + i \in Int /\ colRow + colTap + i = (colRow + i) + colTap
  BY DEF V!SumIndex
<1>2. sums[i] = V!Sum(colRow + i, colTap)
  BY DEF ColumnIInv, ColumnSumsOK
<1>3. window[i] = V!SourceCell((colRow + i) + colTap)
  BY <1>1
<1>4. V!Mad(sums)[i] = Append(sums[i], <<colJob.k - 1 - colTap, window[i]>>)
  BY DEF V!Mad
<1>5. QED
  BY <1>1, <1>2, <1>3, <1>4, ColumnSumStep

LEMMA ColumnTapStep ==
  ASSUME ColumnIInv, V!Tap
  PROVE  ColumnIInv'
<1>1. /\ colJob' = colJob /\ colRow' = colRow /\ colDst' = colDst /\ colTap' = colTap + 1
      /\ colPhase = "tap" /\ colPhase' = "tap"
      /\ colRow \in Nat /\ colRow < V!TileRows /\ colTap \in Nat /\ colTap < V!Taps(colJob.k)
  BY DEF V!Tap, ColumnIInv, ColumnTypeOK
<1>2. colJob.k \in 1 .. V!LongestFilter
  BY DEF ColumnIInv, ColumnTypeOK
<1>3. ColumnTypeOK'
  BY <1>1, <1>2 DEF ColumnIInv, ColumnTypeOK, V!Taps, V!FirstTaps, V!LongestFilter
<1>4. ColumnUntouched' /\ V!Exact'
  BY <1>1 DEF ColumnIInv, ColumnUntouched, V!Exact, V!Sum
<1>5. ColumnWindowOK'
  <2>1. ASSUME colTap + 1 < V!Taps(colJob.k), NEW i \in V!WindowIndex, colTap + 1 + i < V!Window
        PROVE  window'[i] = V!SourceCell(colRow + (colTap + 1) + i)
    <3>1. /\ i + 1 \in V!WindowIndex /\ colTap + (i + 1) < V!Window /\ i # V!Window - 1
          /\ colRow + (colTap + 1) + i = colRow + colTap + (i + 1)
      BY <1>1, <2>1 DEF V!WindowIndex, V!Window
    <3>2. window'[i] = window[i + 1]
      BY <2>1, <3>1 DEF V!Tap, V!Rotated
    <3>3. window[i + 1] = V!SourceCell(colRow + colTap + (i + 1))
      BY <1>1, <3>1 DEF ColumnIInv, ColumnWindowOK
    <3>4. QED
      BY <3>1, <3>2, <3>3
  <2>2. QED
    BY <1>1, <2>1 DEF ColumnWindowOK
<1>6. ColumnSumsOK'
  <2>1. ASSUME NEW i \in V!SumIndex PROVE window[i] = V!SourceCell(colRow + colTap + i)
    <3>1. i \in V!WindowIndex /\ colTap + i < V!Window
      BY <1>1, <1>2 DEF V!SumIndex, V!RowStride, V!WindowIndex, V!Window, V!Taps, V!FirstTaps,
                        V!LongestFilter
    <3>2. QED
      BY <1>1, <3>1 DEF ColumnIInv, ColumnWindowOK
  <2>2. \A i \in V!SumIndex : colRow + i < V!TileRows => sums'[i] = V!Sum(colRow + i, colTap + 1)
    BY <1>1, <2>1, ColumnMadExact DEF V!Tap
  <2>3. QED
    BY <1>1, <2>2 DEF ColumnSumsOK, V!SumIndex, V!Sum
<1>7. QED
  BY <1>3, <1>4, <1>5, <1>6 DEF ColumnIInv

LEMMA ColumnReloadStep ==
  ASSUME ColumnIInv, V!Reload
  PROVE  ColumnIInv'
<1>1. /\ colJob' = colJob /\ colRow' = colRow /\ colDst' = colDst /\ colTap' = colTap /\ sums' = sums
      /\ colPhase = "tap" /\ colPhase' = "tail" /\ colTap = 13
      /\ colRow \in Nat /\ colRow < V!TileRows
  BY DEF V!Reload, ColumnIInv, ColumnTypeOK, V!FirstTaps
<1>2. ColumnTypeOK'
  BY <1>1 DEF ColumnIInv, ColumnTypeOK, V!Reload, V!FirstTaps
<1>3. ColumnUntouched' /\ V!Exact'
  BY <1>1 DEF ColumnIInv, ColumnUntouched, V!Exact, V!Sum
<1>4. ColumnWindowOK'
  <2>1. ASSUME NEW i \in V!WindowIndex, colTap + i < V!Window + 12
        PROVE  window'[i] = V!SourceCell(colRow + colTap + i)
    <3>1. /\ i + 1 \in V!WindowIndex /\ i # V!Window - 1
          /\ colRow + 12 + (i + 1) = colRow + colTap + i
          /\ colRow + colTap + i \in Nat /\ colRow <= colRow + colTap + i
          /\ colRow + colTap + i < 2 * V!TileRows
      BY <1>1, <2>1 DEF V!WindowIndex, V!Window, V!TileRows
    <3>2. window'[i] = V!Source(colRow + 12 + (i + 1))
      BY <3>1 DEF V!Reload, V!Rotated
    <3>3. QED
      BY <3>1, <3>2, ColumnSourceFresh
  <2>2. QED
    BY <1>1, <2>1 DEF ColumnWindowOK
<1>5. ColumnSumsOK'
  BY <1>1 DEF ColumnIInv, ColumnSumsOK, V!SumIndex, V!Sum
<1>6. QED
  BY <1>2, <1>3, <1>4, <1>5 DEF ColumnIInv

LEMMA ColumnTailTapStep ==
  ASSUME ColumnIInv, V!TailTap
  PROVE  ColumnIInv'
<1>1. /\ colJob' = colJob /\ colRow' = colRow /\ colDst' = colDst /\ colTap' = colTap + 1
      /\ colPhase = "tail" /\ colPhase' = "tail"
      /\ colRow \in Nat /\ colRow < V!TileRows /\ colTap \in Nat /\ colTap < colJob.k /\ colTap >= 13
      /\ colJob.k \in 14 .. 17
  BY DEF V!TailTap, ColumnIInv, ColumnTypeOK, V!FirstTaps, V!LongestFilter
<1>2. ColumnTypeOK'
  BY <1>1 DEF ColumnIInv, ColumnTypeOK, V!FirstTaps, V!LongestFilter
<1>3. ColumnUntouched' /\ V!Exact'
  BY <1>1 DEF ColumnIInv, ColumnUntouched, V!Exact, V!Sum
<1>4. ColumnWindowOK'
  <2>1. ASSUME colTap + 1 < colJob.k, NEW i \in V!WindowIndex, colTap + 1 + i < V!Window + 12
        PROVE  window'[i] = V!SourceCell(colRow + (colTap + 1) + i)
    <3>1. /\ i + 1 \in V!WindowIndex /\ colTap + (i + 1) < V!Window + 12 /\ i # V!Window - 1
          /\ colRow + (colTap + 1) + i = colRow + colTap + (i + 1)
      BY <1>1, <2>1 DEF V!WindowIndex, V!Window
    <3>2. window'[i] = window[i + 1]
      BY <2>1, <3>1 DEF V!TailTap, V!Rotated
    <3>3. window[i + 1] = V!SourceCell(colRow + colTap + (i + 1))
      BY <1>1, <3>1 DEF ColumnIInv, ColumnWindowOK
    <3>4. QED
      BY <3>1, <3>2, <3>3
  <2>2. QED
    BY <1>1, <2>1 DEF ColumnWindowOK
<1>5. ColumnSumsOK'
  <2>1. ASSUME NEW i \in V!SumIndex PROVE window[i] = V!SourceCell(colRow + colTap + i)
    <3>1. i \in V!WindowIndex /\ colTap + i < V!Window + 12
      BY <1>1 DEF V!SumIndex, V!RowStride, V!WindowIndex, V!Window
    <3>2. QED
      BY <1>1, <3>1 DEF ColumnIInv, ColumnWindowOK
  <2>2. \A i \in V!SumIndex : colRow + i < V!TileRows => sums'[i] = V!Sum(colRow + i, colTap + 1)
    BY <1>1, <2>1, ColumnMadExact DEF V!TailTap
  <2>3. QED
    BY <1>1, <2>2 DEF ColumnSumsOK, V!SumIndex, V!Sum
<1>6. QED
  BY <1>2, <1>3, <1>4, <1>5 DEF ColumnIInv

-----------------------------------------------------------------------------
LEMMA ColumnStoreStep ==
  ASSUME ColumnIInv, V!Store
  PROVE  ColumnIInv'
<1> DEFINE stride == V!RowStride(colJob.k)
<1>1. /\ colJob' = colJob /\ colRow' = colRow + stride /\ colTap' = 0 /\ colPhase' = "load"
      /\ colRow \in Nat /\ colTap = colJob.k /\ colPhase # "load" /\ colJob.output \in V!Tiles
      /\ colJob.k \in 1 .. V!LongestFilter
  BY DEF V!Store, ColumnIInv, ColumnTypeOK
<1>2. stride \in {4, 8, 12} /\ V!SumIndex = 0 .. stride - 1
  BY DEF V!RowStride, V!SumIndex
<1> HIDE DEF stride
<1>3. \A t \in V!Tiles : colDst'[t] = IF t = colJob.output
                                 THEN [r \in 0 .. V!TileRows - 1 |->
                                         IF r - colRow \in V!SumIndex THEN sums[r - colRow]
                                                                 ELSE colDst[t][r]]
                                 ELSE colDst[t]
  BY DEF V!Store, ColumnIInv, ColumnTypeOK
<1>4. DOMAIN colDst' = V!Tiles
  BY DEF V!Store, ColumnIInv, ColumnTypeOK
<1>5. ColumnTypeOK'
  <2>1. \A t \in V!Tiles : DOMAIN colDst'[t] = 0 .. V!TileRows - 1
    BY <1>3 DEF ColumnIInv, ColumnTypeOK
  <2>2. colRow' \in Nat
    BY <1>1, <1>2
  <2>3. QED
    BY <1>1, <1>4, <2>1, <2>2 DEF ColumnIInv, ColumnTypeOK
<1>6. ColumnUntouched'
  <2>1. ASSUME NEW t \in V!Tiles, NEW r \in 0 .. V!TileRows - 1,
               t # colJob.output \/ r >= colRow + stride
        PROVE  colDst'[t][r] = V!Cell(t, r)
    <3>1. CASE t # colJob.output
      BY <1>3, <3>1 DEF ColumnIInv, ColumnUntouched
    <3>2. CASE t = colJob.output
      <4>1. r >= colRow /\ r - colRow \notin V!SumIndex
        BY <1>1, <1>2, <2>1, <3>2 DEF V!TileRows
      <4>2. colDst[t][r] = V!Cell(t, r)
        BY <4>1 DEF ColumnIInv, ColumnUntouched
      <4>3. QED
        BY <1>3, <3>2, <4>1, <4>2
    <3>3. QED
      BY <3>1, <3>2
  <2>2. QED
    BY <1>1, <2>1 DEF ColumnUntouched
<1>7. V!Exact'
  <2>1. ASSUME NEW r \in 0 .. V!TileRows - 1, r < colRow + stride
        PROVE  colDst'[colJob.output][r] = V!Sum(r, colJob.k)
    <3>1. CASE r < colRow
      <4>1. r - colRow \notin V!SumIndex
        BY <1>1, <1>2, <3>1 DEF V!TileRows
      <4>2. colDst[colJob.output][r] = V!Sum(r, colJob.k)
        BY <3>1 DEF ColumnIInv, V!Exact
      <4>3. QED
        BY <1>1, <1>3, <4>1, <4>2
    <3>2. CASE r >= colRow
      <4>1. r - colRow \in V!SumIndex /\ colRow + (r - colRow) = r /\ r < V!TileRows
        BY <1>1, <1>2, <2>1, <3>2 DEF V!TileRows
      <4>2. sums[r - colRow] = V!Sum(colRow + (r - colRow), colTap)
        BY <1>1, <4>1 DEF ColumnIInv, ColumnSumsOK
      <4>3. QED
        BY <1>1, <1>3, <4>1, <4>2
    <3>3. QED
      BY <1>1, <3>1, <3>2 DEF V!TileRows
  <2>2. QED
    BY <1>1, <2>1 DEF V!Exact, V!Sum
<1>8. ColumnWindowOK' /\ ColumnSumsOK'
  BY <1>1 DEF ColumnWindowOK, ColumnSumsOK
<1>9. QED
  BY <1>5, <1>6, <1>7, <1>8 DEF ColumnIInv

-----------------------------------------------------------------------------
LEMMA ColumnNextInv == ColumnIInv /\ [V!Next]_V!vars => ColumnIInv'
<1> SUFFICES ASSUME ColumnIInv, [V!Next]_V!vars PROVE ColumnIInv'
  OBVIOUS
<1>1. CASE V!Load
  BY <1>1, ColumnLoadStep
<1>2. CASE V!Tap
  BY <1>2, ColumnTapStep
<1>3. CASE V!Reload
  BY <1>3, ColumnReloadStep
<1>4. CASE V!TailTap
  BY <1>4, ColumnTailTapStep
<1>5. CASE V!Store
  BY <1>5, ColumnStoreStep
<1>6. CASE UNCHANGED V!vars
  <2>1. /\ colJob' = colJob /\ colRow' = colRow /\ colTap' = colTap /\ colPhase' = colPhase
        /\ window' = window /\ sums' = sums /\ colDst' = colDst
    BY <1>6 DEF V!vars
  <2>2. ColumnTypeOK' /\ ColumnUntouched'
    BY <2>1 DEF ColumnIInv, ColumnTypeOK, ColumnUntouched
  <2>3. ColumnWindowOK'
    BY <2>1 DEF ColumnIInv, ColumnWindowOK
  <2>4. V!Exact' /\ ColumnSumsOK'
    BY <2>1 DEF ColumnIInv, V!Exact, ColumnSumsOK, V!SumIndex, V!Sum
  <2>5. QED
    BY <2>2, <2>3, <2>4 DEF ColumnIInv
<1>7. QED
  BY <1>1, <1>2, <1>3, <1>4, <1>5, <1>6 DEF V!Next

(***************************************************************************)
(* Every row _vertical_stencil has finished holds the sum the stencil is   *)
(* defined by, for filters of up to seventeen taps, provided that the      *)
(* output is not the tile of the second input.                             *)
(***************************************************************************)
THEOREM ColumnStencilExact ==
  V!JobsAssumption /\ NotOverSecond => (V!Spec => []V!Exact)
<1> SUFFICES ASSUME V!JobsAssumption, NotOverSecond PROVE V!Spec => []V!Exact
  OBVIOUS
<1>1. V!Init => ColumnIInv
  BY ColumnInitInv
<1>2. ColumnIInv => V!Exact
  BY DEF ColumnIInv
<1>3. QED
  BY <1>1, <1>2, ColumnNextInv, PTL DEF V!Spec
=============================================================================
