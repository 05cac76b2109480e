---------------------------- MODULE LwtPipeline ----------------------------
(***************************************************************************)
(* One core of the 1D transform: the reader, compute and writer kernels    *)
(* (lwt_reader.cpp, lwt_compute.cpp, lwt_writer.cpp), the circular buffers *)
(* between them, the NoC that carries their asynchronous reads and writes, *)
(* and the L1 workspace and DRAM it writes to.                             *)
(*                                                                         *)
(* Reader -> src0, src1, base -> compute -> page ring -> writer.  The      *)
(* writer gives the reader a sync page once a route is complete; that page *)
(* is all that keeps the reader of one route behind the writer of the one  *)
(* before.  A leg is one route of one work item of the core.               *)
(***************************************************************************)
EXTENDS LiftingData, FiniteSetsExt

CONSTANTS
    ItemCount,          \* work items of this core (chunk_count)
    ChunkBegin,         \* its first global work item (chunk_begin)
    ChunksPerSample,
    IsInverse,            \* ILWT: reconstruct from workspace; LWT: write DRAM
    DirectInterleave,   \* ILWT interleaves the last route straight from L1
    HybridTileMirror,   \* workspace groups are also stored tile by tile
    Buffering,          \* groups a circular buffer holds (kTileGroupBuffering)
    MaxGroups,          \* groups a slot or an output has room for
    GroupCount,         \* [chunk -> [route -> output groups]]
    Input(_, _, _),     \* sample, chunk, stream: the groups the reader loads
    Junk                \* what memory holds before it is written

VARIABLES
    rpc, rleg, rgrp,    \* reader: where it is, its leg, its group
    pending,            \* reads the reader has issued and not yet received
    fetched,            \* what arrived: operand -> window of groups
    src0, src1, base,   \* input circular buffers
    cleg, cgrp, regs,   \* compute: leg, group, operands in the registers
    page, head, count,  \* output circular buffer: pages, oldest, occupancy
    wpc, wleg, wgrp,    \* writer
    issued,             \* NoC writes that still have to read their page
    inflight,           \* NoC writes on their way
    sync,               \* pages in the sync circular buffer (capacity 1)
    mem                 \* location -> cell -> contents

rvars == <<rpc, rleg, rgrp>>
cvars == <<cleg, cgrp, regs>>
wvars == <<wpc, wleg, wgrp>>
inputs == <<src0, src1, base>>
ring == <<page, head, count>>
noc == <<issued, inflight>>
vars == <<rvars, pending, fetched, inputs, cvars, ring, wvars, noc, sync, mem>>

-----------------------------------------------------------------------------
(***************************************************************************)
(* Legs and the work they stand for.                                       *)
(***************************************************************************)
Legs == ItemCount * RouteCount

ItemOf(leg) == (leg - 1) \div RouteCount

RouteOf(leg) == ((leg - 1) % RouteCount) + 1

Sample(item) == (ChunkBegin + item) \div ChunksPerSample

Chunk(item) == (ChunkBegin + item) - Sample(item) * ChunksPerSample

Route(leg) == Routes[RouteOf(leg)]

\* What the route config page tells the reader and the writer.
Groups(leg) == GroupCount[Chunk(ItemOf(leg))][RouteOf(leg)]

\* What the compute kernel's runtime arguments tell it.
ComputeGroups(leg) ==
    GroupCount[(ChunkBegin + ItemOf(leg)) % ChunksPerSample][RouteOf(leg)]

\* The last of the first k routes that replaces stream s; 0 if none does.
LastRoute(s, k) == Max({0} \union {r \in 1 .. k : Routes[r].target = s})

Loaded(item, s) == Input(Sample(item), Chunk(item), s)

\* Groups in stream s after k routes: the storage ends of the route config.
Length(item, s, k) ==
    IF LastRoute(s, k) = 0 THEN Len(Loaded(item, s))
    ELSE GroupCount[Chunk(item)][LastRoute(s, k)]

-----------------------------------------------------------------------------
(***************************************************************************)
(* Memory: a slot has row-major storage and, in the hybrid layout, a tile  *)
(* mirror of it; each sample and chunk has its place in the two outputs.   *)
(***************************************************************************)
Planes == {"rows", "mirror"}
Cells == 1 .. MaxGroups

Local(slot, plane) == <<slot, plane>>
Dram(item, s) == <<Sample(item), Chunk(item), s>>

Locations ==
    {Local(slot, plane) : slot \in Slots, plane \in Planes} \union
    {Dram(i, s) : i \in 0 .. ItemCount - 1, s \in Streams}

Home == [even |-> "A", odd |-> "B"]

\* Where stream s is kept after k routes.
SlotOf(s, k) ==
    IF LastRoute(s, k) = 0 THEN Home[s] ELSE Routes[LastRoute(s, k)].output

Direct(leg) == DirectInterleave /\ RouteOf(leg) = RouteCount

\* Faulty variant: validity is not reset at the start of a chunk.
MirroredEver(leg, slot) ==
    HybridTileMirror /\ \E r \in RouteIndex : Routes[r].output = slot

\* An earlier route of the same chunk has written the mirror of the slot.
Mirrored(leg, slot) ==
    HybridTileMirror /\ \E r \in 1 .. RouteOf(leg) - 1 : Routes[r].output = slot

Destinations(leg) ==
    IF Route(leg).output = "dram" THEN {Dram(ItemOf(leg), Route(leg).target)}
    ELSE {Local(Route(leg).output, p) :
            p \in IF HybridTileMirror THEN Planes ELSE {"rows"}}

-----------------------------------------------------------------------------
ASSUME SizesAssumption ==
    /\ ItemCount \in Nat \ {0} /\ ChunkBegin \in Nat
    /\ ChunksPerSample \in Nat \ {0}
    /\ Buffering \in Nat \ {0} /\ MaxGroups \in Nat \ {0}
    /\ {IsInverse, DirectInterleave, HybridTileMirror} \subseteq BOOLEAN

\* Every route of every chunk has output, and at every stage there is room
\* for both streams.
ASSUME GroupsAssumption ==
    /\ \A leg \in 1 .. Legs : Groups(leg) \in Cells
    /\ \A i \in 0 .. ItemCount - 1, s \in Streams, k \in 0 .. RouteCount :
         Length(i, s, k) \in Cells

\* What the planner promises: a route finds its operands where the routes
\* before it left them, and overwrites neither stream.
ASSUME SlotsAssumption ==
    \A r \in RouteIndex :
      /\ Routes[r].source = SlotOf(Routes[r].operand, r - 1)
      /\ Routes[r].kind = "lift" => Routes[r].base = SlotOf(Routes[r].target, r - 1)
      /\ \A s \in Streams : Routes[r].output \in Slots =>
                               Routes[r].output # SlotOf(s, r - 1)

\* Only the inverse interleaves directly, and then from tile-native storage
\* (architecture_policy, prefer_tile_native_inverse_workspace).
ASSUME DirectAssumption ==
    DirectInterleave => /\ IsInverse /\ ~HybridTileMirror
                        /\ Routes[RouteCount].kind = "lift"
                        /\ Routes[RouteCount].output # "dram"

\* The forward transform ends with the two scales that leave the streams in
\* DRAM (route_terminal_scales_to_final_dram); the inverse leaves them in the
\* workspace, from where they are interleaved.
ASSUME OutputsAssumption ==
    \A s \in Streams : SlotOf(s, RouteCount) = "dram" <=> ~IsInverse

\* What is loaded are sequences of groups.
ASSUME InputsAssumption ==
    \A i \in 0 .. ItemCount - 1, s \in Streams :
      Loaded(i, s) = [g \in 1 .. Len(Loaded(i, s)) |-> Loaded(i, s)[g]]

-----------------------------------------------------------------------------
Init ==
    /\ rpc = "even" /\ rleg = 1 /\ rgrp = 1
    /\ pending = {}
    /\ fetched = [p \in {"source", "base"} |-> <<>>]
    /\ src0 = <<>> /\ src1 = <<>> /\ base = <<>>
    /\ cleg = 1 /\ cgrp = 1 /\ regs = <<>>
    /\ page = [p \in 0 .. Buffering - 1 |-> Junk] /\ head = 0 /\ count = 0
    /\ wpc = "take" /\ wleg = 1 /\ wgrp = 1
    /\ issued = {} /\ inflight = {}
    /\ sync = 0
    /\ mem = [l \in Locations |-> [c \in Cells |-> Junk]]

(***************************************************************************)
(* Reader.                                                                 *)
(***************************************************************************)
\* Where the reader starts a group of a leg: a scale has no source operand.
Start(leg) == IF Route(leg).kind = "lift" THEN "source" ELSE "base"

\* Faulty variant: the reader does not wait for the writer's page.
RSyncUnwaited ==
    /\ rpc = "sync"
    /\ sync' = 0
    /\ rpc' = IF RouteOf(rleg) = 1 THEN "even" ELSE Start(rleg)
    /\ UNCHANGED <<rleg, rgrp, pending, fetched, inputs, cvars, ring, wvars,
                   noc, mem>>

RSync ==
    /\ rpc = "sync"
    /\ sync = 1
    /\ sync' = 0
    /\ rpc' = IF RouteOf(rleg) = 1 THEN "even" ELSE Start(rleg)
    /\ UNCHANGED <<rleg, rgrp, pending, fetched, inputs, cvars, ring, wvars,
                   noc, mem>>

\* Load one stream of the work item into its home slot, row-major.
RLoad(s) ==
    /\ rpc = s
    /\ LET seq == Loaded(ItemOf(rleg), s)
           home == Local(Home[s], "rows")
       IN mem' = [mem EXCEPT ![home] =
                    [c \in Cells |-> IF c <= Len(seq) THEN seq[c] ELSE @[c]]]
    /\ rpc' = IF s = "even" THEN "odd" ELSE Start(rleg)
    /\ UNCHANGED <<rleg, rgrp, pending, fetched, inputs, cvars, ring, wvars,
                   noc, sync>>

\* Reserve both source buffers and issue the reads of the source window.
RSource ==
    /\ rpc = "source"
    /\ Len(src0) < Buffering /\ Len(src1) < Buffering
    /\ pending' = {"source"}
    /\ rpc' = "base"
    /\ UNCHANGED <<rleg, rgrp, fetched, inputs, cvars, ring, wvars, noc, sync,
                   mem>>

\* Reserve the base buffer and issue the reads of the base, or of the input
\* of a scale.
RBase ==
    /\ rpc = "base"
    /\ Len(base) < Buffering
    /\ pending' = pending \union {"base"}
    /\ rpc' = "fetch"
    /\ UNCHANGED <<rleg, rgrp, fetched, inputs, cvars, ring, wvars, noc, sync,
                   mem>>

\* The slot and the groups of a read.
ReadSlot(leg, p) ==
    IF p = "source" \/ Route(leg).kind = "scale" THEN Route(leg).source
                                                 ELSE Route(leg).base

ReadWindow(leg, g, p) ==
    LET k == RouteOf(leg) - 1
    IN IF p = "source"
       THEN SourceWindow(Length(ItemOf(leg), Route(leg).operand, k), g)
       ELSE BaseWindow(Length(ItemOf(leg), Route(leg).target, k), g)

ReadPlanes(leg, p) ==
    {"rows"} \union (IF Mirrored(leg, ReadSlot(leg, p)) THEN {"mirror"} ELSE {})

(***************************************************************************)
(* A read returns what its slot holds at some moment before the reader's   *)
(* barrier.  Which plane it comes from depends on alignment and density,   *)
(* left open here.                                                         *)
(***************************************************************************)
NocRead(p) ==
    /\ p \in pending
    /\ \E plane \in ReadPlanes(rleg, p) :
         fetched' = [fetched EXCEPT ![p] =
             [c \in ReadWindow(rleg, rgrp, p) |->
                mem[Local(ReadSlot(rleg, p), plane)][c]]]
    /\ pending' = pending \ {p}
    /\ UNCHANGED <<rvars, inputs, cvars, ring, wvars, noc, sync, mem>>

\* The read barrier has been passed: push the group, go on.
RPush ==
    /\ rpc = "fetch"
    /\ pending = {}
    /\ IF Route(rleg).kind = "lift"
       THEN /\ src0' = Append(src0, fetched["source"])
            /\ src1' = Append(src1, fetched["source"])
       ELSE UNCHANGED <<src0, src1>>
    /\ base' = Append(base, fetched["base"])
    /\ fetched' = [p \in {"source", "base"} |-> <<>>]
    /\ IF rgrp < Groups(rleg)
       THEN /\ rgrp' = rgrp + 1
            /\ rpc' = Start(rleg)
            /\ rleg' = rleg
       ELSE /\ rgrp' = 1
            /\ rpc' = IF rleg < Legs THEN "sync" ELSE "done"
            /\ rleg' = rleg + 1
    /\ UNCHANGED <<pending, cvars, ring, wvars, noc, sync, mem>>

(***************************************************************************)
(* Compute: takes the operands of a group into registers one buffer at a   *)
(* time, then packs the result into a reserved page of the ring.           *)
(***************************************************************************)
CTake0 ==
    /\ cleg <= Legs /\ Route(cleg).kind = "lift" /\ Len(regs) = 0
    /\ src0 # <<>>
    /\ regs' = <<Head(src0)>>
    /\ src0' = Tail(src0)
    /\ UNCHANGED <<rvars, pending, fetched, src1, base, cleg, cgrp, ring,
                   wvars, noc, sync, mem>>

CTake1 ==
    /\ Len(regs) = 1
    /\ src1 # <<>>
    /\ regs' = Append(regs, Head(src1))
    /\ src1' = Tail(src1)
    /\ UNCHANGED <<rvars, pending, fetched, src0, base, cleg, cgrp, ring,
                   wvars, noc, sync, mem>>

CTakeBase ==
    /\ Len(regs) = 2
    /\ base # <<>>
    /\ regs' = Append(regs, Head(base))
    /\ base' = Tail(base)
    /\ UNCHANGED <<rvars, pending, fetched, src0, src1, cleg, cgrp, ring,
                   wvars, noc, sync, mem>>

FreePage == (head + count) % Buffering

\* Faulty variant: the page is not reserved.
EmitUnreserved(value) ==
    /\ page' = [page EXCEPT ![FreePage] = value]
    /\ count' = count + 1
    /\ head' = head
    /\ IF cgrp < ComputeGroups(cleg)
       THEN cgrp' = cgrp + 1 /\ cleg' = cleg
       ELSE cgrp' = 1 /\ cleg' = cleg + 1

\* Reserve a page, pack the value into it, push it; on to the next group.
Emit(value) ==
    /\ count < Buffering
    /\ page' = [page EXCEPT ![FreePage] = value]
    /\ count' = count + 1
    /\ head' = head
    /\ IF cgrp < ComputeGroups(cleg)
       THEN cgrp' = cgrp + 1 /\ cleg' = cleg
       ELSE cgrp' = 1 /\ cleg' = cleg + 1

CPack ==
    /\ Len(regs) = 3
    /\ Emit(Lift(RouteOf(cleg), cgrp, regs[1], regs[2], regs[3]))
    /\ regs' = <<>>
    /\ UNCHANGED <<rvars, pending, fetched, inputs, wvars, noc, sync, mem>>

\* Faulty variant: the input of a scale is not popped.
CScaleKept ==
    /\ cleg <= Legs /\ Route(cleg).kind = "scale"
    /\ base # <<>>
    /\ Emit(Scale(RouteOf(cleg), cgrp, Head(base)))
    /\ UNCHANGED <<rvars, pending, fetched, inputs, regs, wvars, noc, sync, mem>>

CScale ==
    /\ cleg <= Legs /\ Route(cleg).kind = "scale"
    /\ base # <<>>
    /\ Emit(Scale(RouteOf(cleg), cgrp, Head(base)))
    /\ base' = Tail(base)
    /\ UNCHANGED <<rvars, pending, fetched, src0, src1, regs, wvars, noc, sync,
                   mem>>

(***************************************************************************)
(* Writer.                                                                 *)
(***************************************************************************)
PopPage == head' = (head + 1) % Buffering /\ count' = count - 1 /\ page' = page

\* Issue the asynchronous writes of a group, one per destination.
WIssue ==
    /\ wpc = "take" /\ ~Direct(wleg)
    /\ count > 0
    /\ issued' = {[page |-> head, loc |-> l, cell |-> wgrp] :
                    l \in Destinations(wleg)}
    /\ wpc' = "flush"
    /\ UNCHANGED <<rvars, pending, fetched, inputs, cvars, ring, wleg, wgrp,
                   inflight, sync, mem>>

\* A write reads its page, and leaves.
NocDepart ==
    \E w \in issued :
      /\ issued' = issued \ {w}
      /\ inflight' = inflight \union
           {[loc |-> w.loc, cell |-> w.cell, value |-> page[w.page]]}
      /\ UNCHANGED <<rvars, pending, fetched, inputs, cvars, ring, wvars, sync,
                     mem>>

\* A write arrives.
NocLand ==
    \E w \in inflight :
      /\ inflight' = inflight \ {w}
      /\ mem' = [mem EXCEPT ![w.loc][w.cell] = w.value]
      /\ UNCHANGED <<rvars, pending, fetched, inputs, cvars, ring, wvars,
                     issued, sync>>

\* Faulty variant: the page is popped without a flush.
WPopUnflushed ==
    /\ wpc = "flush"
    /\ PopPage
    /\ IF wgrp < Groups(wleg) THEN wgrp' = wgrp + 1 /\ wpc' = "take"
                              ELSE wgrp' = 1 /\ wpc' = "barrier"
    /\ UNCHANGED <<rvars, pending, fetched, inputs, cvars, wleg, noc, sync, mem>>

\* Workspace writes are only flushed before their page is popped, DRAM
\* writes are waited for.
WPop ==
    /\ wpc = "flush"
    /\ issued = {}
    /\ Route(wleg).output = "dram" => inflight = {}
    /\ PopPage
    /\ IF wgrp < Groups(wleg) THEN wgrp' = wgrp + 1 /\ wpc' = "take"
                              ELSE wgrp' = 1 /\ wpc' = "barrier"
    /\ UNCHANGED <<rvars, pending, fetched, inputs, cvars, wleg, noc, sync, mem>>

\* What is in the workspace for stream s after the last route.
Final(s) == mem[Local(SlotOf(s, RouteCount), "rows")]

FinalLength(item, s) == Length(item, s, RouteCount)

OutputGroups(item) == Max({FinalLength(item, s) : s \in Streams})

(***************************************************************************)
(* One pass of the direct interleave: every output stick of the chunk is   *)
(* composed from the page of this group where that covers it and from the  *)
(* workspace where it does not, and written with a barrier.                *)
(***************************************************************************)
DirectValue(s, g, c) ==
    IF s = Route(wleg).target /\ g <= Groups(wleg) /\ c = g THEN page[head]
                                                            ELSE Final(s)[c]

WDirect ==
    /\ wpc = "take" /\ Direct(wleg)
    /\ wgrp <= Groups(wleg) => count > 0
    /\ mem' = [l \in Locations |->
         IF \E s \in Streams : l = Dram(ItemOf(wleg), s)
         THEN LET s == CHOOSE t \in Streams : l = Dram(ItemOf(wleg), t)
              IN [c \in Cells |->
                    IF c <= FinalLength(ItemOf(wleg), s)
                    THEN DirectValue(s, wgrp, c) ELSE mem[l][c]]
         ELSE mem[l]]
    /\ IF wgrp <= Groups(wleg) THEN PopPage ELSE UNCHANGED ring
    /\ IF wgrp < OutputGroups(ItemOf(wleg))
       THEN wgrp' = wgrp + 1 /\ wpc' = wpc
       ELSE wgrp' = 1 /\ wpc' = "barrier"
    /\ UNCHANGED <<rvars, pending, fetched, inputs, cvars, wleg, noc, sync>>

\* Faulty variant: writes are flushed at the end of a route, not waited for.
WBarrierFlush ==
    /\ wpc = "barrier"
    /\ issued = {}
    /\ wpc' = IF IsInverse /\ RouteOf(wleg) = RouteCount /\ ~Direct(wleg)
              THEN "emit" ELSE "signal"
    /\ UNCHANGED <<rvars, pending, fetched, inputs, cvars, ring, wleg, wgrp,
                   noc, sync, mem>>

\* The write barrier at the end of a route; after the last one the inverse
\* still has to interleave the two streams, unless that was done directly.
WBarrier ==
    /\ wpc = "barrier"
    /\ issued = {} /\ inflight = {}
    /\ wpc' = IF IsInverse /\ RouteOf(wleg) = RouteCount /\ ~Direct(wleg)
              THEN "emit" ELSE "signal"
    /\ UNCHANGED <<rvars, pending, fetched, inputs, cvars, ring, wleg, wgrp,
                   noc, sync, mem>>

\* Faulty variant: the batch loop does not advance.
WEmitStuck ==
    /\ wpc = "emit"
    /\ UNCHANGED vars

\* One batch of the reconstructed signal, read from the workspace.
WEmit ==
    LET item == ItemOf(wleg)
    IN /\ wpc = "emit"
       /\ mem' = [l \in Locations |->
            IF \E s \in Streams : l = Dram(item, s) /\ wgrp <= FinalLength(item, s)
            THEN LET s == CHOOSE t \in Streams : l = Dram(item, t)
                 IN [mem[l] EXCEPT ![wgrp] = Final(s)[wgrp]]
            ELSE mem[l]]
       /\ IF wgrp < OutputGroups(item) THEN wgrp' = wgrp + 1 /\ wpc' = wpc
                                       ELSE wgrp' = 1 /\ wpc' = "signal"
       /\ UNCHANGED <<rvars, pending, fetched, inputs, cvars, ring, wleg, noc,
                      sync>>

\* Faulty variant: signals after the last route too.
WSignalLast ==
    /\ wpc = "signal"
    /\ sync = 0 /\ sync' = 1
    /\ wpc' = IF wleg < Legs THEN "take" ELSE "done"
    /\ wleg' = wleg + 1
    /\ UNCHANGED <<rvars, pending, fetched, inputs, cvars, ring, wgrp, noc, mem>>

\* Let the reader go on to the next leg, if there is one.
WSignal ==
    /\ wpc = "signal"
    /\ IF wleg < Legs THEN sync = 0 /\ sync' = 1 /\ wpc' = "take"
                      ELSE sync' = sync /\ wpc' = "done"
    /\ wleg' = wleg + 1
    /\ UNCHANGED <<rvars, pending, fetched, inputs, cvars, ring, wgrp, noc, mem>>

-----------------------------------------------------------------------------
AllDone == rpc = "done" /\ cleg > Legs /\ wpc = "done"

Terminated == AllDone /\ UNCHANGED vars

Reader == RSync \/ (\E s \in Streams : RLoad(s)) \/ RSource \/ RBase \/ RPush
Compute == CTake0 \/ CTake1 \/ CTakeBase \/ CPack \/ CScale
Writer == WIssue \/ WPop \/ WDirect \/ WBarrier \/ WEmit \/ WSignal
Noc == (\E p \in {"source", "base"} : NocRead(p)) \/ NocDepart \/ NocLand

Next == Reader \/ Compute \/ Writer \/ Noc \/ Terminated

Fairness ==
    /\ WF_vars(Reader)
    /\ WF_vars(Compute)
    /\ WF_vars(Writer)
    /\ \A p \in {"source", "base"} : WF_vars(NocRead(p))
    /\ WF_vars(NocDepart)
    /\ WF_vars(NocLand)

Spec == Init /\ [][Next]_vars /\ Fairness
-----------------------------------------------------------------------------
(***************************************************************************)
(* Properties.                                                             *)
(***************************************************************************)
(***************************************************************************)
(* Every variable has its type, and no circular buffer holds more than it  *)
(* has room for.  (What a group of samples is, is left open.)              *)
(***************************************************************************)
TypeOK ==
    /\ rpc \in {"sync", "even", "odd", "source", "base", "fetch", "done"}
    /\ wpc \in {"take", "flush", "barrier", "emit", "signal", "done"}
    /\ {rleg, cleg, wleg} \subseteq 1 .. Legs + 1
    /\ {rgrp, cgrp, wgrp} \subseteq Cells
    /\ pending \subseteq {"source", "base"}
    /\ DOMAIN fetched = {"source", "base"}
    /\ \A q \in {src0, src1, base} : Len(q) \in 0 .. Buffering
    /\ Len(regs) \in 0 .. 3
    /\ DOMAIN page = 0 .. Buffering - 1
    /\ head \in 0 .. Buffering - 1
    /\ count \in 0 .. Buffering
    /\ issued \subseteq [page : 0 .. Buffering - 1, loc : Locations, cell : Cells]
    /\ \A w \in inflight : w.loc \in Locations /\ w.cell \in Cells
    /\ sync \in {0, 1}
    /\ DOMAIN mem = Locations /\ \A l \in Locations : DOMAIN mem[l] = Cells

(***************************************************************************)
(* While the reader loads a stream, or may have a read of a route under    *)
(* way, the NoC carries no write to a slot it reads or loads, and the      *)
(* interleaver is not at work on the slots.  Only the one sync page per    *)
(* leg keeps lwt_writer.cpp out of the slots of lwt_reader.cpp.            *)
(***************************************************************************)
ReadSlots(leg) == {ReadSlot(leg, p) : p \in {"source", "base"}}

NoRacingWrite ==
    /\ rpc \in {"source", "base", "fetch"} =>
         \A w \in issued \union inflight, slot \in ReadSlots(rleg), p \in Planes :
           w.loc # Local(slot, p)
    /\ rpc \in {"even", "odd"} =>
         issued = {} /\ inflight = {} /\ wpc = "take"

(***************************************************************************)
(* The page compute would pack next is never one that a NoC write has      *)
(* still to read: flushing before cb_pop_front is enough.                  *)
(***************************************************************************)
PagesHeld == count < Buffering => \A w \in issued : w.page # FreePage

(***************************************************************************)
(* Where a route's config lets the reader use the tile mirror of a slot,   *)
(* the mirror holds what the rows hold, groups of an earlier chunk having  *)
(* been loaded over the rows alone.                                        *)
(***************************************************************************)
MirrorCoherent ==
    rpc \in {"source", "base", "fetch"} =>
      \A p \in {"source", "base"} :
        Mirrored(rleg, ReadSlot(rleg, p)) =>
          \A c \in ReadWindow(rleg, rgrp, p) :
            mem[Local(ReadSlot(rleg, p), "mirror")][c] =
              mem[Local(ReadSlot(rleg, p), "rows")][c]

(***************************************************************************)
(* When the three kernels have returned nothing is left in a circular      *)
(* buffer or on the NoC: the next program on the core starts clean.        *)
(***************************************************************************)
Drained ==
    AllDone => /\ src0 = <<>> /\ src1 = <<>> /\ base = <<>> /\ regs = <<>>
               /\ count = 0 /\ sync = 0
               /\ pending = {} /\ issued = {} /\ inflight = {}

(***************************************************************************)
(* The reader only gets past a sync point when every write of the leg      *)
(* before has landed.                                                      *)
(***************************************************************************)
SignalMeansLanded ==
    [][rpc = "sync" /\ rpc' # "sync" => issued = {} /\ inflight = {}]_vars

(***************************************************************************)
(* All three kernels return: the buffers and the handshake never leave     *)
(* them waiting for one another.                                           *)
(***************************************************************************)
Termination == <>AllDone

-----------------------------------------------------------------------------
(***************************************************************************)
(* Why the handshake works, as an inductive invariant.                     *)
(***************************************************************************)
(***************************************************************************)
(* Reader and compute are on the writer's leg or have finished it; the     *)
(* reader is past its sync point only on the writer's leg, and a sync page *)
(* is there only while the reader is at the sync point of that leg.        *)
(***************************************************************************)
Lockstep ==
    /\ rleg \in {wleg, wleg + 1} /\ cleg \in {wleg, wleg + 1}
    /\ rpc \in {"even", "odd", "source", "base", "fetch"} => rleg = wleg
    /\ rleg > wleg => rgrp = 1 /\ sync = 0
    /\ rpc \in {"sync", "even", "odd"} => rgrp = 1
    /\ rpc = "sync" /\ rleg = wleg => sync = 1
    /\ sync = 1 => rpc = "sync" /\ rleg = wleg
    /\ rpc = "done" <=> rleg > Legs
    /\ wpc = "done" <=> wleg > Legs
    /\ cleg > wleg \/ cleg > Legs => cgrp = 1 /\ Len(regs) = 0
    /\ rleg > Legs => rgrp = 1
    /\ wpc \in {"barrier", "signal", "done"} => wgrp = 1
    /\ pending # {} => rpc \in {"base", "fetch"}

\* Groups of the writer's leg that each kernel is finished with.
Pushed == IF rleg > wleg THEN Groups(wleg) ELSE rgrp - 1
Packed == IF cleg > wleg THEN Groups(wleg) ELSE cgrp - 1
Popped ==
    IF wpc = "done" THEN 0
    ELSE IF wpc \in {"take", "flush"} /\ wgrp <= Groups(wleg) THEN wgrp - 1
    ELSE Groups(wleg)

(***************************************************************************)
(* No group is lost or made up between the kernels: what is in a buffer is *)
(* what its producer has finished and its consumer has not.                *)
(***************************************************************************)
Conservation ==
    /\ count = Packed - Popped
    /\ Len(base) = Pushed - Packed - (IF Len(regs) = 3 THEN 1 ELSE 0)
    /\ wleg <= Legs /\ Route(wleg).kind = "lift" =>
         /\ Len(src0) = Pushed - Packed - (IF Len(regs) >= 1 THEN 1 ELSE 0)
         /\ Len(src1) = Pushed - Packed - (IF Len(regs) >= 2 THEN 1 ELSE 0)
    /\ wleg > Legs \/ Route(wleg).kind = "scale" =>
         Len(src0) = 0 /\ Len(src1) = 0 /\ Len(regs) = 0
    /\ rleg <= Legs => rgrp <= Groups(rleg)
    /\ cleg <= Legs => cgrp <= Groups(cleg)
    /\ wpc = "take" /\ ~Direct(wleg) => wgrp <= Groups(wleg)

(***************************************************************************)
(* The room the reader has reserved is still there when it pushes.         *)
(***************************************************************************)
Reserved ==
    /\ rpc \in {"base", "fetch"} /\ Route(rleg).kind = "lift" =>
         Len(src0) < Buffering /\ Len(src1) < Buffering
    /\ rpc = "fetch" => Len(base) < Buffering

(***************************************************************************)
(* The NoC only carries writes of the writer's leg, to its destinations,   *)
(* and those that have not left yet read the oldest page, not yet popped.  *)
(***************************************************************************)
WritesOfLeg ==
    /\ \A w \in issued : w.page = head /\ w.loc \in Destinations(wleg)
    /\ \A w \in inflight : w.loc \in Destinations(wleg)
    /\ issued # {} => wpc = "flush"
    /\ wpc = "flush" => count > 0 /\ wgrp <= Groups(wleg) /\ ~Direct(wleg)
    /\ inflight # {} => \/ wpc \in {"flush", "barrier"}
                         \/ (wpc = "take" /\ wgrp > 1)

-----------------------------------------------------------------------------
(***************************************************************************)
(* The pipeline implements the transform.  A route counts as completed     *)
(* when the writer has passed its barrier; an item is being transformed    *)
(* once the reader has loaded it.                                          *)
(***************************************************************************)
CurrentItem == ItemOf(wleg)

Completed ==
    RouteOf(wleg) - 1 + (IF wpc \in {"emit", "signal"} THEN 1 ELSE 0)

Lifting ==
    /\ wleg <= Legs
    /\ RouteOf(wleg) > 1 \/ rleg > wleg \/ rpc \notin {"sync", "even", "odd"}

\* Where stream s of the current item is after k routes.
StreamLoc(s, k) ==
    IF SlotOf(s, k) = "dram" \/ (DirectInterleave /\ k = RouteCount)
    THEN Dram(CurrentItem, s) ELSE Local(SlotOf(s, k), "rows")

AbstractStream ==
    [s \in Streams |->
       IF Lifting
       THEN [c \in 1 .. Length(CurrentItem, s, Completed) |->
               mem[StreamLoc(s, Completed)][c]]
       ELSE <<>>]

AbstractResult ==
    [i \in 1 .. CurrentItem |->
       [s \in Streams |->
          [c \in 1 .. FinalLength(i - 1, s) |-> mem[Dram(i - 1, s)][c]]]]

ItemGroups(item, r) == GroupCount[Chunk(item)][r]

Transform == INSTANCE LiftingTransform
    WITH phase <- IF Lifting THEN "lift" ELSE "load",
         done <- Completed,
         stream <- AbstractStream,
         result <- AbstractResult,
         Input <- Loaded,
         GroupCount <- ItemGroups

(***************************************************************************)
(* Whatever the order in which kernels and NoC proceed, the outputs are    *)
(* those of the routes run one after the other on whole streams, and every *)
(* work item gets its turn.                                                *)
(***************************************************************************)
ImplementsTransform == Transform!Spec
=============================================================================
