------------------------- MODULE InterleaveStaging -------------------------
(***************************************************************************)
(* How the writer of the inverse transform merges the even and the odd     *)
(* stream of its chunks into sticks of the signal: it stages a batch of    *)
(* sticks in the interleave buffer, lets the NoC write them to DRAM, and   *)
(* gives the pages back.  write_reconstructed_signal takes both streams    *)
(* from their slots; write_direct_interleaved_signal takes the one the     *)
(* last route updates from the pages of that route, one group in a pass.   *)
(*                                                                         *)
(* The work items of a core follow one another through one buffer.  An     *)
(* item is [sample, begin, length] and, per stream, where in its slot the  *)
(* stream is: offset and begin.                                            *)
(***************************************************************************)
EXTENDS RawBuffer, WorkspaceLayout, Sequences

CONSTANTS
    StickWidth,         \* elements of a stick
    Jobs,               \* [items, tileNative, leftPad, length, direct, batch]
    Signal(_, _),       \* sample, index: the reconstructed value there
    Junk                \* what memory holds that nothing has written

\* Chunks begin and, but for the last of a signal, end with a stick; their
\* streams begin with the first of their samples, as build_chunk has it.
ItemAssumed(j, it) ==
    /\ it.begin \in Nat /\ it.begin % StickWidth = 0
    /\ it.length \in Nat \ {0} /\ it.begin + it.length <= j.length
    /\ it.begin + it.length = j.length \/ it.length % StickWidth = 0
    /\ it.streamBegin["even"] = (j.leftPad + it.begin + 1) \div 2
    /\ it.streamBegin["odd"] = (j.leftPad + it.begin) \div 2
    /\ it.offset["even"] \in Nat /\ it.offset["odd"] \in Nat

ASSUME InterleaveAssumption ==
    /\ StickWidth \in Nat \ {0}
    /\ \A j \in Jobs :
         /\ j.tileNative \in BOOLEAN /\ j.direct \in {"no", "even", "odd"}
         /\ j.leftPad \in Nat /\ j.length \in Nat /\ j.batch \in Nat \ {0}
         /\ Len(j.items) \in Nat \ {0}
         /\ \A k \in 1 .. Len(j.items) : ItemAssumed(j, j.items[k])

VARIABLES
    job, item,          \* the job, and which of its items
    pass, batch,        \* pass over the item, first stick of the batch in it
    phase,              \* "reserve", "stage", "barrier", "done"
    staged,             \* sticks of the batch staged so far
    buffer, page,       \* the interleave buffer and the memory at its base
    flight,             \* NoC writes that have not read the staging yet
    dram                \* sticks written, by [sample, stick]

vars == <<job, item, pass, batch, phase, staged, buffer, page, flight, dram>>

Item == job.items[item]

\* kIlwtInterleaveBatchSticks, or 1
BatchSticks == job.batch

SignalGroup == 2 * GroupElements

Parts(n, size) == (n + size - 1) \div size

StickCount == Parts(Item.length, StickWidth)

FirstStick == Item.begin \div StickWidth

BatchCount ==
    IF StickCount - batch < BatchSticks THEN StickCount - batch ELSE BatchSticks

\* One pass, or one for every group of the signal.
Passes == IF job.direct = "no" THEN 1 ELSE Parts(Item.length, SignalGroup)

Init ==
    /\ job \in Jobs
    /\ item = 1 /\ pass = 0 /\ batch = 0
    /\ phase = "reserve" /\ staged = 0
    /\ buffer = EmptyBuffer
    /\ page = [p \in 0 .. BatchSticks - 1 |-> [l \in 0 .. StickWidth - 1 |-> Junk]]
    /\ flight = {}
    /\ dram = <<>>

-----------------------------------------------------------------------------
\* What a slot holds: element i of the stream at its place of the layout.
StreamAt(s, i) ==
    Signal(Item.sample, 2 * i + (IF s = "even" THEN 0 ELSE 1) - job.leftPad)

SlotAt(s, p) ==
    LET held == {i \in Item.begin \div 2 .. Item.begin + Item.length + job.leftPad :
                   /\ i >= Item.streamBegin[s]
                   /\ p = PhysicalIndex(job.tileNative,
                            Item.offset[s] + i - Item.streamBegin[s])}
    IN IF held = {} \/ job.direct = s THEN Junk ELSE StreamAt(s, CHOOSE i \in held : TRUE)

\* A page of the last route: tile `block`, and the element in it.
TileAt(s, block, e) ==
    StreamAt(s, Item.streamBegin[s] + pass * GroupElements
                  + (e \div BlockElements) * RowElements + block * BlockElements
                  + (e % BlockElements))

\* read_direct_output_value
ReadDirect(s, i) ==
    LET inRow == i % RowElements
    IN TileAt(s, inRow \div BlockElements,
              (i \div RowElements) * BlockElements + (inRow % BlockElements))

FromSlot(s, split) ==
    SlotAt(s, PhysicalIndex(job.tileNative, Item.offset[s] + split - Item.streamBegin[s]))

\* One value of a batch, of the stream and at the element `padded` names.
SplitValue(padded) ==
    LET s == IF padded % 2 = 0 THEN "even" ELSE "odd"
        split == padded \div 2
        inGroup == split - Item.streamBegin[s] - pass * GroupElements
    IN IF s = job.direct /\ inGroup \in 0 .. GroupElements - 1
       THEN ReadDirect(s, inGroup) ELSE FromSlot(s, split)

LaneValue(i) ==
    IF i \in Item.begin .. Item.begin + Item.length - 1
    THEN SplitValue(job.leftPad + i) ELSE 0

Staging(stick) == [l \in 0 .. StickWidth - 1 |-> LaneValue(stick * StickWidth + l)]

-----------------------------------------------------------------------------
Reserve ==
    /\ phase = "reserve"
    /\ CanReserve(buffer, BatchCount, BatchSticks)
    /\ phase' = "stage" /\ staged' = 0
    /\ UNCHANGED <<job, item, pass, batch, buffer, page, flight, dram>>

\* The next stick of the batch through the raw write pointer.
Stage ==
    /\ phase = "stage" /\ staged < BatchCount
    /\ LET at == buffer.write + staged
           stick == FirstStick + batch + staged
       IN /\ page' = [p \in DOMAIN page \union {at} |->
                        IF p = at THEN Staging(stick) ELSE page[p]]
          /\ flight' = flight \union {[from |-> at, to |-> <<Item.sample, stick>>]}
    /\ staged' = staged + 1
    /\ phase' = IF staged + 1 = BatchCount THEN "barrier" ELSE phase
    /\ UNCHANGED <<job, item, pass, batch, buffer, dram>>

\* The NoC reads a staged stick and writes it.
Land ==
    \E w \in flight :
      /\ flight' = flight \ {w}
      /\ dram' = [k \in DOMAIN dram \union {w.to} |->
                    IF k = w.to THEN page[w.from] ELSE dram[k]]
      /\ UNCHANGED <<job, item, pass, batch, phase, staged, buffer, page>>

\* Faulty variant: the pages are given back without waiting for the writes.
LandedAny == TRUE

\* noc_async_write_barrier
Landed == flight = {}

\* Faulty variant: a page is pushed and popped, whatever the batch.
CycledOne == Pop(Push(buffer, 1, BatchSticks), 1, BatchSticks)

\* push_back, wait_front and pop_front of the batch, and on to the next.
Cycled == Pop(Push(buffer, BatchCount, BatchSticks), BatchCount, BatchSticks)

Release ==
    /\ phase = "barrier" /\ Landed
    /\ buffer' = Cycled
    /\ phase' = IF /\ batch + BatchSticks >= StickCount
                   /\ pass + 1 = Passes
                   /\ item = Len(job.items)
                THEN "done" ELSE "reserve"
    /\ IF batch + BatchSticks < StickCount
       THEN batch' = batch + BatchSticks /\ UNCHANGED <<pass, item>>
       ELSE IF pass + 1 < Passes
       THEN batch' = 0 /\ pass' = pass + 1 /\ UNCHANGED item
       ELSE /\ batch' = 0 /\ pass' = 0
            /\ item' = IF item < Len(job.items) THEN item + 1 ELSE item
    /\ UNCHANGED <<job, staged, page, flight, dram>>

Next == Reserve \/ Stage \/ Land \/ Release

Spec == Init /\ [][Next]_vars

-----------------------------------------------------------------------------
(***************************************************************************)
(* No stick is staged outside the pages of the interleave buffer, whatever *)
(* the items before it left its write pointer at (stick_cache.hpp says of  *)
(* raw pointers that they "do not wrap at a circular-buffer boundary").    *)
(***************************************************************************)
StagingInBounds == DOMAIN page = 0 .. BatchSticks - 1

(***************************************************************************)
(* A stick in DRAM holds the samples of its place in its signal, and zeros *)
(* past the end; at the end of the job every stick of its items is there.  *)
(* It is so although the NoC takes the sticks of a batch in any order, and *)
(* the writer goes on to the next batch in the same pages.                 *)
(***************************************************************************)
Reconstructed ==
    /\ \A k \in DOMAIN dram : \A l \in 0 .. StickWidth - 1 :
         LET i == k[2] * StickWidth + l
         IN dram[k][l] = IF i < job.length THEN Signal(k[1], i) ELSE 0
    /\ phase = "done" =>
         DOMAIN dram =
           UNION {{<<it.sample, s>> : s \in it.begin \div StickWidth ..
                                        (it.begin + it.length - 1) \div StickWidth} :
                  it \in {job.items[n] : n \in 1 .. Len(job.items)}}
=============================================================================
