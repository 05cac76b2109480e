-------------------------- MODULE WorkspaceLayout --------------------------
(***************************************************************************)
(* How a stream is laid out in a tile-native workspace slot.  A group has  *)
(* RowsPerGroup rows of BlocksPerRow blocks of BlockElements elements; the *)
(* logical order is row by row, the physical order is tile by tile, a tile *)
(* being one column of blocks.  WorkspaceIndexCursor keeps the place of an *)
(* element in both and moves on without dividing again.                    *)
(***************************************************************************)
EXTENDS Integers

CONSTANTS BlockElements, BlocksPerRow, RowsPerGroup

ASSUME LayoutAssumption ==
    /\ BlockElements \in Nat \ {0}
    /\ BlocksPerRow \in Nat \ {0}
    /\ RowsPerGroup \in Nat \ {0}

RowElements == BlocksPerRow * BlockElements

NarrowTileElements == RowsPerGroup * BlockElements

GroupElements == RowsPerGroup * RowElements

Place(group, row, block, lane) ==
    group * GroupElements + block * NarrowTileElements + row * BlockElements + lane

CursorAt(group, row, block, lane) ==
    [group |-> group, row |-> row, block |-> block, lane |-> lane,
     physical |-> Place(group, row, block, lane)]

\* WorkspaceIndexCursor(logical_index)
Cursor(i) ==
    LET inGroup == i % GroupElements
        inRow == inGroup % RowElements
    IN CursorAt(i \div GroupElements, inGroup \div RowElements,
                inRow \div BlockElements, inRow % BlockElements)

\* Faulty variant: the last block of a row is not followed by the next row.
AdvanceBlockSameRow(c) ==
    CursorAt(c.group, c.row, (c.block + 1) % BlocksPerRow, c.lane)

AdvanceBlock(c) ==
    IF c.block + 1 < BlocksPerRow THEN CursorAt(c.group, c.row, c.block + 1, c.lane)
    ELSE IF c.row + 1 < RowsPerGroup THEN CursorAt(c.group, c.row + 1, 0, c.lane)
    ELSE CursorAt(c.group + 1, 0, 0, c.lane)

Advance(c) ==
    IF c.lane + 1 < BlockElements
    THEN [c EXCEPT !.lane = @ + 1, !.physical = @ + 1]
    ELSE AdvanceBlock([c EXCEPT !.lane = 0])

\* The element a cursor is at.
Logical(c) ==
    c.group * GroupElements + c.row * RowElements + c.block * BlockElements + c.lane

\* workspace_physical_index
PhysicalIndex(tileNative, i) == IF tileNative THEN Cursor(i).physical ELSE i
=============================================================================
