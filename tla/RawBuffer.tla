----------------------------- MODULE RawBuffer -----------------------------
(***************************************************************************)
(* A circular buffer that one kernel uses as scratch memory: it reserves   *)
(* pages, writes them through the raw write pointer, pushes them, reads    *)
(* them through the raw read pointer and pops them.  A pointer goes back   *)
(* to the origin only when it reaches the end exactly; the pages of a      *)
(* reservation are contiguous, and nothing checks that they lie inside.    *)
(***************************************************************************)
EXTENDS Integers

EmptyBuffer == [write |-> 0, read |-> 0, held |-> 0]

\* cb_reserve_back waits until there is room, counting pages only.
CanReserve(buffer, pages, capacity) == buffer.held + pages <= capacity

Onward(pointer, pages, capacity) ==
    IF pointer + pages = capacity THEN 0 ELSE pointer + pages

Push(buffer, pages, capacity) ==
    [buffer EXCEPT !.write = Onward(@, pages, capacity), !.held = @ + pages]

Pop(buffer, pages, capacity) ==
    [buffer EXCEPT !.read = Onward(@, pages, capacity), !.held = @ - pages]
=============================================================================
