------------------------- MODULE HorizontalStencil -------------------------
(***************************************************************************)
(* The row stencil of the SFPI kernels: output column i of a row gets, on  *)
(* top of its base, h[j] times the source column Columns + i - j for every *)
(* tap j.  The vector unit holds even and odd columns in registers of      *)
(* their own and has no access across lanes but a rotation by one, so the  *)
(* source is moved past the accumulators: an even tap pairs registers of   *)
(* equal parity, an odd tap crosses them, with the odd columns rotated one *)
(* lane in between and the even ones after it.                             *)
(*                                                                         *)
(* Values are symbolic: a cell of the register file is named, a sum is the *)
(* sequence of its summands in the order they are added, floating-point    *)
(* addition not being associative.  Rows do not interact; one row of each  *)
(* face is modelled.                                                       *)
(***************************************************************************)
EXTENDS Integers, Sequences

CONSTANTS
    Lanes,      \* lanes of a register in a row: 8
    Faces,      \* addresses of the faces of the destination registers
    Jobs        \* [shape, k, passes, scaleSource, scaleBase]

VARIABLES
    job,
    pass, tap,          \* the next face to compute, the next tap
    phase,              \* "load", "tap"
    fe0, fo0, fe1, fo1, \* source columns: even and odd, preceding and current
    ge, go,             \* the sums of the even and of the odd columns
    dst                 \* the destination registers, by face and column

regs == <<fe0, fo0, fe1, fo1, ge, go>>
vars == <<job, pass, tap, phase, regs, dst>>

Columns == 2 * Lanes

LaneIndex == 0 .. Lanes - 1
ColumnIndex == 0 .. Columns - 1

PassType == [previous : Faces, current : Faces, base : Faces, output : Faces]

\* Coefficients reach as far back as the window does, and no face is
\* written that a later pass reads or writes.
ASSUME JobsAssumption ==
    /\ Lanes \in Nat \ {0}
    /\ \A jb \in Jobs :
         /\ jb.k \in 1 .. Columns + 1
         /\ jb.passes \in Seq(PassType)
         /\ \A a, b \in 1 .. Len(jb.passes) :
              a < b => jb.passes[a].output \notin
                         {jb.passes[b].previous, jb.passes[b].current,
                          jb.passes[b].base, jb.passes[b].output}

-----------------------------------------------------------------------------
(***************************************************************************)
(* Where a tile is in the destination registers, and the faces of the two  *)
(* stencils the compute kernels run.                                       *)
(***************************************************************************)
DstFace(tile, face) == 4 * tile + face

NarrowFace(tile, face) == 2 * tile + face

NarrowSources == <<1, 3, 5, 6>>
NarrowBases == <<0, 2, 4>>

\* Faulty variant: a block is not paired with the one after it.
NarrowPassesUnpaired ==
    [n \in 1 .. 6 |->
       LET block == (n + 1) \div 2
           face == (n - 1) % 2
       IN [previous |-> NarrowFace(NarrowSources[1], face),
           current |-> NarrowFace(NarrowSources[block + 1], face),
           base |-> NarrowFace(NarrowBases[block], face),
           output |-> NarrowFace(NarrowBases[block], face)]]

\* 32x16 tiles, two faces of 16 rows: the sum replaces the base.
NarrowPasses ==
    [n \in 1 .. 6 |->
       LET block == (n + 1) \div 2
           face == (n - 1) % 2
       IN [previous |-> NarrowFace(NarrowSources[block], face),
           current |-> NarrowFace(NarrowSources[block + 1], face),
           base |-> NarrowFace(NarrowBases[block], face),
           output |-> NarrowFace(NarrowBases[block], face)]]

\* 32x32 tiles, four faces: sources 0 and 1, base 2, output 3.
DensePasses ==
    [n \in 1 .. 4 |->
       [previous |-> DstFace(0, n - 1),
        current |-> IF n % 2 = 1 THEN DstFace(0, n) ELSE DstFace(1, n - 2),
        base |-> DstFace(2, n - 1),
        output |-> DstFace(3, n - 1)]]

-----------------------------------------------------------------------------
\* What the unpacker left in column c of a face.
Cell(face, c) == <<face, c>>

Scaled(flag, value) == [scaled |-> flag, value |-> value]

Init ==
    /\ job \in Jobs
    /\ pass = 1 /\ tap = 0 /\ phase = "load"
    /\ fe0 = <<>> /\ fo0 = <<>> /\ fe1 = <<>> /\ fo1 = <<>>
    /\ ge = <<>> /\ go = <<>>
    /\ dst = [f \in Faces |-> [c \in ColumnIndex |-> Cell(f, c)]]

Pass == job.passes[pass]

Source(face, parity) ==
    [l \in LaneIndex |-> Scaled(job.scaleSource, dst[face][2 * l + parity])]

\* A sum starts with the base alone.
Base(parity) ==
    [l \in LaneIndex |-> <<Scaled(job.scaleBase, dst[Pass.base][2 * l + parity])>>]

Load ==
    /\ phase = "load" /\ pass <= Len(job.passes)
    /\ fe0' = Source(Pass.previous, 0) /\ fo0' = Source(Pass.previous, 1)
    /\ fe1' = Source(Pass.current, 0) /\ fo1' = Source(Pass.current, 1)
    /\ ge' = Base(0) /\ go' = Base(1)
    /\ tap' = 0 /\ phase' = "tap"
    /\ UNCHANGED <<job, pass, dst>>

\* Multiply by coefficient h[tap] and add.
Mad(source, sum) == [l \in LaneIndex |-> Append(sum[l], <<tap, source[l]>>)]

Rotated(a) == [l \in LaneIndex |-> IF l = 0 THEN a[Lanes - 1] ELSE a[l - 1]]

\* Faulty variant: the register rotates within itself.
ShiftedInWrapping(a, b) == Rotated(b)

\* What rotating a and then b leaves in b: lane 0 comes out of a.
ShiftedIn(a, b) == [l \in LaneIndex |-> IF l = 0 THEN a[Lanes - 1] ELSE b[l - 1]]

EvenTap ==
    /\ phase = "tap" /\ tap < job.k /\ tap % 2 = 0
    /\ ge' = Mad(fe1, ge) /\ go' = Mad(fo1, go)
    /\ tap' = tap + 1
    /\ UNCHANGED <<job, pass, phase, fe0, fo0, fe1, fo1, dst>>

\* The even columns stay when no tap follows.
OddTap ==
    /\ phase = "tap" /\ tap < job.k /\ tap % 2 = 1
    /\ go' = Mad(fe1, go)
    /\ fo0' = Rotated(fo0) /\ fo1' = ShiftedIn(fo0, fo1)
    /\ ge' = Mad(fo1', ge)
    /\ IF tap # job.k - 1 THEN fe0' = Rotated(fe0) /\ fe1' = ShiftedIn(fe0, fe1)
                          ELSE UNCHANGED <<fe0, fe1>>
    /\ tap' = tap + 1
    /\ UNCHANGED <<job, pass, phase, dst>>

Store ==
    /\ phase = "tap" /\ tap = job.k
    /\ dst' = [dst EXCEPT ![Pass.output] =
                 [c \in ColumnIndex |-> IF c % 2 = 0 THEN ge[c \div 2] ELSE go[c \div 2]]]
    /\ pass' = pass + 1 /\ tap' = 0 /\ phase' = "load"
    /\ UNCHANGED <<job, regs>>

Finished == phase = "load" /\ pass > Len(job.passes)

Next == Load \/ EvenTap \/ OddTap \/ Store \/ (Finished /\ UNCHANGED vars)

Spec == Init /\ [][Next]_vars

-----------------------------------------------------------------------------
(***************************************************************************)
(* Properties.                                                             *)
(***************************************************************************)
\* Column q of the two source faces of a pass, side by side.
At(p, q) ==
    Scaled(job.scaleSource, IF q < Columns THEN Cell(p.previous, q)
                                           ELSE Cell(p.current, q - Columns))

\* The base of column i and its first j taps.
Sum(p, i, j) ==
    [n \in 1 .. j + 1 |->
       IF n = 1 THEN Scaled(job.scaleBase, Cell(p.base, i))
                ELSE <<n - 2, At(p, Columns + i - (n - 2))>>]

(***************************************************************************)
(* Every finished face holds the sums the stencil is defined by, the taps  *)
(* added in the order of the coefficients: the rotations bring the right   *)
(* column under every tap, up to the longest filter there is room for.     *)
(***************************************************************************)
Exact ==
    \A b \in 1 .. pass - 1 :
      dst[job.passes[b].output] =
        [i \in ColumnIndex |-> Sum(job.passes[b], i, job.k)]

(***************************************************************************)
(* The tiles by their place in the window: half h of the rows (one row of  *)
(* each is modelled), columns in blocks of a face.  Base and source as the *)
(* unpacker copied them, the result as the packer addresses it.            *)
(***************************************************************************)
Blocks == IF job.shape = "narrow" THEN 3 ELSE 2

SourceFace(h, block) ==
    IF job.shape = "narrow" THEN NarrowFace(NarrowSources[block + 1], h)
    ELSE IF block < 2 THEN DstFace(0, 2 * h + block) ELSE DstFace(1, 2 * h)

BaseFace(h, block) ==
    IF job.shape = "narrow" THEN NarrowFace(NarrowBases[block + 1], h)
                            ELSE DstFace(2, 2 * h + block)

PackedFace(h, block) ==
    IF job.shape = "narrow" THEN DstFace(block, h) ELSE DstFace(3, 2 * h + block)

(***************************************************************************)
(* What is packed is the convolution over the whole window, across the     *)
(* faces: column c of half h has source columns c + Columns - j of the     *)
(* same half, for every tap j in order.                                    *)
(***************************************************************************)
Convolved ==
    Finished =>
      \A h \in 0 .. 1, c \in 0 .. Blocks * Columns - 1 :
        dst[PackedFace(h, c \div Columns)][c % Columns] =
          [n \in 1 .. job.k + 1 |->
             IF n = 1
             THEN Scaled(job.scaleBase, Cell(BaseFace(h, c \div Columns), c % Columns))
             ELSE LET q == c + Columns - (n - 2)
                  IN <<n - 2, Scaled(job.scaleSource,
                                Cell(SourceFace(h, q \div Columns), q % Columns))>>]
=============================================================================
