-------------------------- MODULE VerticalStencil --------------------------
(***************************************************************************)
(* The column stencil of the SFPI kernels, over a column of 64 source rows *)
(* in two tiles: output row r gets, on top of its base, h[k - 1 - j] times *)
(* source row r + j for every tap j.  Four registers of four rows hold a   *)
(* window of sixteen source rows, which a tap moves up by one; as many of  *)
(* the three sums of four rows are kept as the window has rows for, and    *)
(* filters of more than thirteen taps load a second window for the rest.   *)
(*                                                                         *)
(* Values are symbolic, as in HorizontalStencil.  Columns do not interact; *)
(* one is modelled.                                                        *)
(***************************************************************************)
EXTENDS Integers, Sequences

CONSTANT
    Jobs    \* [k, base, output]: taps, tile of the base or NoTile, of the sum

VARIABLES
    job,
    row, tap,       \* first row of the block, next tap
    phase,          \* "load", "tap", "tail"
    f,              \* the window: the rows of registers f_0 .. f_3
    g,              \* the sums: the rows of registers g_0 .. g_2 in use
    dst             \* the destination registers, by tile and row

vars == <<job, row, tap, phase, f, g, dst>>

TileRows == 32
Window == 16
FirstTaps == 13
LongestFilter == 17

\* The tile of a block beyond the end: nothing is there.
NoTile == 8

Tiles == 0 .. 3

ASSUME JobsAssumption ==
    Jobs \subseteq [k : 1 .. LongestFilter, base : Tiles \union {NoTile},
                    output : Tiles]

\* ROW_STRIDE, and the rows of the sums in use.
RowStride(k) == IF k >= 10 THEN 4 ELSE IF k >= 6 THEN 8 ELSE 12

Taps(k) == IF k < FirstTaps THEN k ELSE FirstTaps

WindowIndex == 0 .. Window - 1
SumIndex == 0 .. RowStride(job.k) - 1

-----------------------------------------------------------------------------
Cell(tile, r) == <<tile, r>>

Unspecified == <<"unspecified">>

Init ==
    /\ job \in Jobs
    /\ row = 0 /\ tap = 0 /\ phase = "load"
    /\ f = <<>> /\ g = <<>>
    /\ dst = [t \in Tiles |-> [r \in 0 .. TileRows - 1 |-> Cell(t, r)]]

\* _get_block(tile1, tile2, ..): the contents of row r of two tiles.
Block(tile1, tile2, r) == dst[IF r < TileRows THEN tile1 ELSE tile2][r % TileRows]

Source(r) == Block(0, 1, r)

Load ==
    /\ phase = "load" /\ row < TileRows
    /\ f' = [i \in WindowIndex |-> Source(row + i)]
    /\ g' = [i \in SumIndex |->
               IF job.base = NoTile THEN <<"zero">>
                                    ELSE <<Block(job.base, job.base, row + i)>>]
    /\ tap' = 0 /\ phase' = "tap"
    /\ UNCHANGED <<job, row, dst>>

\* Multiply by coefficient h[k - 1 - tap] and add.
Mad(sum) == [i \in SumIndex |-> Append(sum[i], <<job.k - 1 - tap, f[i]>>)]

\* _vertical_stencil_rotate_
Rotated(window) ==
    [i \in WindowIndex |-> IF i = Window - 1 THEN Unspecified ELSE window[i + 1]]

Tap ==
    /\ phase = "tap" /\ tap < Taps(job.k)
    /\ g' = Mad(g)
    /\ f' = IF tap + 1 < Taps(job.k) THEN Rotated(f) ELSE f
    /\ tap' = tap + 1
    /\ UNCHANGED <<job, row, phase, dst>>

\* Faulty variant: the second window starts where the first one stopped.
ReloadUnrotated ==
    /\ phase = "tap" /\ tap = FirstTaps /\ job.k > FirstTaps
    /\ f' = [i \in WindowIndex |-> Source(row + 12 + i)]
    /\ phase' = "tail"
    /\ UNCHANGED <<job, row, tap, g, dst>>

\* The window from source row + 12 on, moved up once.
Reload ==
    /\ phase = "tap" /\ tap = FirstTaps /\ job.k > FirstTaps
    /\ f' = Rotated([i \in WindowIndex |-> Source(row + 12 + i)])
    /\ phase' = "tail"
    /\ UNCHANGED <<job, row, tap, g, dst>>

TailTap ==
    /\ phase = "tail" /\ tap < job.k
    /\ g' = Mad(g)
    /\ f' = IF tap + 1 < job.k THEN Rotated(f) ELSE f
    /\ tap' = tap + 1
    /\ UNCHANGED <<job, row, phase, dst>>

Store ==
    /\ phase \in {"tap", "tail"} /\ tap = job.k
    /\ dst' = [dst EXCEPT ![job.output] =
                 [r \in 0 .. TileRows - 1 |->
                    IF r - row \in SumIndex THEN g[r - row] ELSE @[r]]]
    /\ row' = row + RowStride(job.k)
    /\ tap' = 0 /\ phase' = "load"
    /\ UNCHANGED <<job, f, g>>

Finished == phase = "load" /\ row >= TileRows

Next == Load \/ Tap \/ Reload \/ TailTap \/ Store \/ (Finished /\ UNCHANGED vars)

Spec == Init /\ [][Next]_vars

-----------------------------------------------------------------------------
(***************************************************************************)
(* Properties.                                                             *)
(***************************************************************************)
SourceCell(r) == IF r < TileRows THEN Cell(0, r) ELSE Cell(1, r - TileRows)

\* The base of row r and its first j taps.
Sum(r, j) ==
    [n \in 1 .. j + 1 |->
       IF n = 1 THEN (IF job.base = NoTile THEN "zero" ELSE Cell(job.base, r))
                ELSE <<job.k - 1 - (n - 2), SourceCell(r + (n - 2))>>]

(***************************************************************************)
(* Every finished row holds the sum the stencil is defined by, the taps    *)
(* added in the order of the rows: no tap meets a row the window has lost  *)
(* or one that has already been overwritten, whichever of the three block  *)
(* sizes the filter length selects, and with one window or two.            *)
(***************************************************************************)
Exact ==
    \A r \in 0 .. TileRows - 1 : r < row => dst[job.output][r] = Sum(r, job.k)
=============================================================================
