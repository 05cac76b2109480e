--------------------------- MODULE Lwt2DPipeline ---------------------------
(***************************************************************************)
(* One core of the 2D transform: the reader, compute and writer kernels    *)
(* (lwt_2d_reader.cpp, lwt_2d_compute.cpp, lwt_2d_writer.cpp), the         *)
(* circular buffers between them, the five planes of the workspace, and    *)
(* the scratch memory that reader and writer share.                        *)
(*                                                                         *)
(* The scratch is used for three things: whole, to split the input into    *)
(* the planes of a work item; then one half for the route pages of the     *)
(* reader and the other for those of the writer; and in the end the        *)
(* reader's half again, to put results together on their way to DRAM.      *)
(*                                                                         *)
(* A leg is what one sync page stands for: an executable route of a work   *)
(* item, or the delivery of its results.  It is a record:                  *)
(*   item     its work item                                                *)
(*   kind     "lift", "scale" or "results"                                 *)
(*   loads    what is loaded before it: for the first leg of an item       *)
(*            [staged, places], tile by tile, for the others nothing       *)
(*   staged   for each tile and operand [class, places], what the reader   *)
(*            makes a tile of, and how                                     *)
(*   writes   for each tile the place that the writer gives it             *)
(*   skips    whether pages of routes that are not executed follow         *)
(*   results  [staged, places], what is delivered, tile by tile or band by *)
(*            band: the parts of the scratch through which it goes (none   *)
(*            if it goes straight from a plane), and its places            *)
(* A place is a tile of a plane.                                           *)
(***************************************************************************)
EXTENDS Integers, Sequences, FiniteSets

CONSTANTS
    Programs,           \* what a core may be given: legs, in order
    Places,
    Buffering,          \* tiles a circular buffer holds
    Image(_, _),        \* item, place: what is loaded there
    Lift(_, _, _, _, _),\* leg, tile, the two source tiles, the base
    Scale(_, _, _),     \* leg, tile, the tile
    Junk                \* what memory holds before it is written

VARIABLES
    legs,               \* what the core has been given
    rpc, rleg, rtile,   \* reader: where it is, its leg, its tile or load
    pending, arrived,   \* operands it has still to push; those that were read
    input,              \* circular buffers of the operands
    cleg, ctile, regs,  \* compute: leg, tile, operands in the registers
    page, head, count,  \* output circular buffer: pages, oldest, occupancy
    wpc, wleg, wtile,   \* writer
    issued,             \* NoC writes on their way to a plane
    sync,               \* pages in the sync circular buffer (capacity 1)
    memory,             \* place -> contents
    scratch,            \* the parts of the scratch
    delivered           \* the results in DRAM, in the order of delivery

rvars == <<rpc, rleg, rtile>>
staging == <<pending, arrived>>
cvars == <<cleg, ctile, regs>>
ring == <<page, head, count>>
wvars == <<wpc, wleg, wtile>>
vars == <<legs, rvars, staging, input, cvars, ring, wvars, issued, sync, memory,
          scratch, delivered>>

-----------------------------------------------------------------------------
Operands == {"source0", "source1", "base"}

Classes == {"exact", "bounded", "shifted"}

LegCount == Len(legs)

Leg(n) == legs[n]

IsRoute(n) == Leg(n).kind # "results"

IsFirst(n) == Leg(n).loads # <<>>

Tiles(n) == Len(Leg(n).writes)

\* Operands of a leg; a scale has one.
Needs(n) == IF Leg(n).kind = "lift" THEN Operands ELSE {"source0"}

\* The pages in the reader's half of the routes up to the last executed one,
\* those of the routes after it, and the writer's half.
Parts == {"executed", "trailing", "writer"}

Contents(kind, item) == [kind |-> kind, item |-> item]

RoutePages(n) == Contents("pages", Leg(n).item)

-----------------------------------------------------------------------------
ASSUME BufferingAssumption == Buffering \in Nat /\ Buffering >= 2

Loading == [staged : BOOLEAN, places : SUBSET Places]

Delivery == [staged : SUBSET Parts, places : SUBSET Places]

LegType ==
    [item    : Nat,
     kind    : {"lift", "scale", "results"},
     loads   : Seq(Loading),
     staged  : Seq([Operands -> [class : Classes, places : SUBSET Places]]),
     writes  : Seq(Places),
     skips   : BOOLEAN,
     results : Seq(Delivery)]

(***************************************************************************)
(* An item begins with something to load, and a route, and ends with its   *)
(* results.  Routes without output are no legs: no kernel executes them.   *)
(***************************************************************************)
ASSUME ProgramsAssumption ==
    \A given \in Programs :
      /\ given \in Seq(LegType)
      /\ Len(given) > 0 /\ given[Len(given)].kind = "results"
      /\ \A n \in 1 .. Len(given) :
           LET leg == given[n]
           IN /\ IF leg.kind = "results"
                 THEN leg.results # <<>> /\ leg.loads = <<>> /\ ~leg.skips
                 ELSE leg.writes # <<>> /\ Len(leg.staged) = Len(leg.writes)
              /\ leg.loads # <<>> <=> (n = 1 \/ given[n - 1].kind = "results")
              /\ leg.loads = <<>> => leg.item = given[n - 1].item

(***************************************************************************)
(* While the reader still goes through the pages of routes that are not    *)
(* executed, results may be staged already: on other bytes of the scratch. *)
(***************************************************************************)
ASSUME SkipsAssumption ==
    \A given \in Programs : \A n \in 1 .. Len(given) - 1 :
      given[n].skips =>
        \A i \in 1 .. Len(given[n + 1].results) :
          "trailing" \notin given[n + 1].results[i].staged

(***************************************************************************)
(* A route writes every tile once, and none that it still reads for a tile *)
(* after it: in place only where a tile is made of itself alone.           *)
(***************************************************************************)
ASSUME TilesAssumption ==
    \A given \in Programs : \A n \in 1 .. Len(given) :
      given[n].kind # "results" =>
        \A t, u \in 1 .. Len(given[n].writes) :
          t < u =>
            /\ given[n].writes[t] # given[n].writes[u]
            /\ \A o \in IF given[n].kind = "lift" THEN Operands ELSE {"source0"} :
                 given[n].writes[t] \notin given[n].staged[u][o].places

-----------------------------------------------------------------------------
Init ==
    /\ legs \in Programs
    /\ rpc = "load" /\ rleg = 1 /\ rtile = 1
    /\ pending = {} /\ arrived = <<>>
    /\ input = [o \in Operands |-> <<>>]
    /\ cleg = 1 /\ ctile = 1 /\ regs = <<>>
    /\ page = [p \in 0 .. Buffering - 1 |-> Junk] /\ head = 0 /\ count = 0
    /\ wpc = "first" /\ wleg = 1 /\ wtile = 1
    /\ issued = {}
    /\ sync = 0
    /\ memory = [q \in Places |-> Junk]
    /\ scratch = [h \in Parts |-> Contents("junk", 0)]
    /\ delivered = <<>>

(***************************************************************************)
(* Reader.                                                                 *)
(***************************************************************************)
\* Stage input in the scratch, unless it goes to its plane directly.
RLoad ==
    /\ rpc = "load"
    /\ scratch' = IF Leg(rleg).loads[rtile].staged
                  THEN [h \in Parts |-> Contents("input", Leg(rleg).item)]
                  ELSE scratch
    /\ rpc' = "split"
    /\ UNCHANGED <<legs, rleg, rtile, staging, input, cvars, ring, wvars, issued,
                   sync, memory, delivered>>

\* Write the tiles of the planes that it belongs to.
RSplit ==
    /\ rpc = "split"
    /\ memory' = [q \in DOMAIN memory |->
                    IF q \in Leg(rleg).loads[rtile].places
                    THEN Image(Leg(rleg).item, q) ELSE memory[q]]
    /\ IF rtile < Len(Leg(rleg).loads)
       THEN rtile' = rtile + 1 /\ rpc' = "load"
       ELSE rtile' = 1 /\ rpc' = "pages"
    /\ UNCHANGED <<legs, rleg, staging, input, cvars, ring, wvars, issued, sync,
                   scratch, delivered>>

\* preload_config_pages
RPages ==
    /\ rpc = "pages"
    /\ scratch' = [scratch EXCEPT !["executed"] = RoutePages(rleg),
                                  !["trailing"] = RoutePages(rleg)]
    /\ rpc' = "source0"
    /\ UNCHANGED <<legs, rleg, rtile, staging, input, cvars, ring, wvars, issued,
                   sync, memory, delivered>>

After == [source0 |-> "source1", source1 |-> "base", base |-> "barrier"]

StagedTile(o) == Leg(rleg).staged[rtile][o]

View(o) == [q \in StagedTile(o).places |-> memory[q]]

(***************************************************************************)
(* stage_optimized_tile: reserve a tile and issue the read that fills it.  *)
(* A tile that is put together from shifted parts is pushed at once.       *)
(***************************************************************************)
RStage(o) ==
    /\ rpc = o
    /\ Len(input[o]) < Buffering
    /\ IF StagedTile(o).class = "shifted"
       THEN input' = [input EXCEPT ![o] = Append(@, View(o))] /\ pending' = pending
       ELSE pending' = pending \union {o} /\ input' = input
    /\ rpc' = IF After[o] \in Needs(rleg) THEN After[o] ELSE "barrier"
    /\ UNCHANGED <<legs, rleg, rtile, arrived, cvars, ring, wvars, issued, sync,
                   memory, scratch, delivered>>

Exact == {o \in pending : StagedTile(o).class = "exact"}

\* A read returns what the plane holds at some moment before the barrier.
NocRead ==
    \E o \in Exact \ DOMAIN arrived :
      /\ arrived' = [a \in DOMAIN arrived \union {o} |->
                       IF a = o THEN View(o) ELSE arrived[a]]
      /\ UNCHANGED <<legs, rvars, pending, input, cvars, ring, wvars, issued, sync,
                     memory, scratch, delivered>>

(***************************************************************************)
(* The barrier has been passed.  A tile that lies partly outside of what   *)
(* is stored has been zeroed by its read and is only now put together      *)
(* (finish_pending_tile).                                                  *)
(***************************************************************************)
RPush ==
    /\ rpc = "barrier"
    /\ Exact \subseteq DOMAIN arrived
    /\ input' = [o \in Operands |->
                   IF o \in pending
                   THEN Append(input[o], IF o \in Exact THEN arrived[o] ELSE View(o))
                   ELSE input[o]]
    /\ pending' = {} /\ arrived' = <<>>
    /\ IF rtile < Tiles(rleg)
       THEN rtile' = rtile + 1 /\ rpc' = "source0" /\ rleg' = rleg
       ELSE rtile' = 1 /\ rpc' = "sync" /\ rleg' = rleg + 1
    /\ UNCHANGED <<legs, cvars, ring, wvars, issued, sync, memory, scratch, delivered>>

\* With the next route, after the pages of those that are not executed, or
\* for the results.
Continue ==
    IF rleg > LegCount THEN rpc' = "done" /\ rleg' = rleg
    ELSE IF IsRoute(rleg)
    THEN rpc' = (IF IsFirst(rleg) THEN "load" ELSE "source0") /\ rleg' = rleg
    ELSE IF rpc = "sync" /\ Leg(rleg - 1).skips THEN rpc' = "skip" /\ rleg' = rleg
    ELSE rpc' = "sync" /\ rleg' = rleg + 1

\* Faulty variant: the delivery of the results is not waited for.
RSyncRoutesOnly ==
    /\ rpc = "sync"
    /\ IsRoute(rleg - 1) => sync = 1
    /\ sync' = IF IsRoute(rleg - 1) THEN 0 ELSE sync
    /\ Continue
    /\ UNCHANGED <<legs, rtile, staging, input, cvars, ring, wvars, issued, memory,
                   scratch, delivered>>

\* Wait for the page of the leg before; for results there is nothing to do
\* but to wait again.
RSync ==
    /\ rpc = "sync"
    /\ sync = 1
    /\ sync' = 0
    /\ Continue
    /\ UNCHANGED <<legs, rtile, staging, input, cvars, ring, wvars, issued, memory,
                   scratch, delivered>>

\* Find in their pages that there is no route left to execute.
RSkip ==
    /\ rpc = "skip"
    /\ Continue
    /\ UNCHANGED <<legs, rtile, staging, input, cvars, ring, wvars, issued, sync,
                   memory, scratch, delivered>>

(***************************************************************************)
(* Compute: takes the operands of a tile into registers one buffer at a    *)
(* time, then packs the result into a reserved page of the ring.           *)
(***************************************************************************)
Computes(kind) == cleg <= LegCount /\ Leg(cleg).kind = kind

Register == <<"source0", "source1", "base">>

CTake ==
    /\ Computes("lift") /\ Len(regs) < 3
    /\ LET o == Register[Len(regs) + 1]
       IN /\ input[o] # <<>>
          /\ regs' = Append(regs, Head(input[o]))
          /\ input' = [input EXCEPT ![o] = Tail(@)]
    /\ UNCHANGED <<legs, rvars, staging, cleg, ctile, ring, wvars, issued, sync,
                   memory, scratch, delivered>>

\* The next leg with something to compute.
NextRoute(n) == IF n < LegCount /\ ~IsRoute(n + 1) THEN n + 2 ELSE n + 1

\* Faulty variant: the page is not reserved.
EmitUnreserved(value) ==
    /\ page' = [page EXCEPT ![(head + count) % Buffering] = value]
    /\ count' = count + 1
    /\ head' = head
    /\ IF ctile < Tiles(cleg) THEN ctile' = ctile + 1 /\ cleg' = cleg
                              ELSE ctile' = 1 /\ cleg' = NextRoute(cleg)

\* Reserve a page, pack the value into it, push it; on to the next tile.
Emit(value) ==
    /\ count < Buffering
    /\ page' = [page EXCEPT ![(head + count) % Buffering] = value]
    /\ count' = count + 1
    /\ head' = head
    /\ IF ctile < Tiles(cleg) THEN ctile' = ctile + 1 /\ cleg' = cleg
                              ELSE ctile' = 1 /\ cleg' = NextRoute(cleg)

CPack ==
    /\ Len(regs) = 3
    /\ Emit(Lift(cleg, ctile, regs[1], regs[2], regs[3]))
    /\ regs' = <<>>
    /\ UNCHANGED <<legs, rvars, staging, input, wvars, issued, sync, memory, scratch,
                   delivered>>

CScale ==
    /\ Computes("scale")
    /\ input["source0"] # <<>>
    /\ Emit(Scale(cleg, ctile, Head(input["source0"])))
    /\ input' = [input EXCEPT !["source0"] = Tail(@)]
    /\ UNCHANGED <<legs, rvars, staging, regs, wvars, issued, sync, memory, scratch,
                   delivered>>

(***************************************************************************)
(* Writer.                                                                 *)
(***************************************************************************)
\* Faulty variant: preloads as soon as it is done with the item before.
WFirstUnwaited ==
    /\ wpc = "first"
    /\ scratch' = [scratch EXCEPT !["writer"] = RoutePages(wleg)]
    /\ wpc' = "take"
    /\ UNCHANGED <<legs, rvars, staging, input, cvars, ring, wleg, wtile, issued, sync,
                   memory, delivered>>

\* The first tile of an item shows that the reader has left the scratch but
\* for its own half.
WFirst ==
    /\ wpc = "first"
    /\ count > 0
    /\ scratch' = [scratch EXCEPT !["writer"] = RoutePages(wleg)]
    /\ wpc' = "take"
    /\ UNCHANGED <<legs, rvars, staging, input, cvars, ring, wleg, wtile, issued, sync,
                   memory, delivered>>

\* Faulty variant: also takes a second tile where the route has none.
BatchGreedy == IF head + 2 <= Buffering THEN 2 ELSE 1

\* Two tiles at a time, where the route has and the buffer does not wrap.
Batch == IF wtile < Tiles(wleg) /\ head + 2 <= Buffering THEN 2 ELSE 1

WIssue ==
    /\ wpc = "take"
    /\ count >= Batch
    /\ issued' = {[page |-> head + i, place |-> Leg(wleg).writes[wtile + i]] :
                    i \in 0 .. Batch - 1}
    /\ wpc' = "flush"
    /\ UNCHANGED <<legs, rvars, staging, input, cvars, ring, wleg, wtile, sync, memory,
                   scratch, delivered>>

NocLand ==
    \E w \in issued :
      /\ issued' = issued \ {w}
      /\ memory' = [memory EXCEPT ![w.place] = page[w.page]]
      /\ UNCHANGED <<legs, rvars, staging, input, cvars, ring, wvars, sync, scratch,
                     delivered>>

WPop ==
    /\ wpc = "flush"
    /\ issued = {}
    /\ head' = (head + Batch) % Buffering /\ count' = count - Batch /\ page' = page
    /\ IF wtile + Batch <= Tiles(wleg)
       THEN wtile' = wtile + Batch /\ wpc' = "take"
       ELSE wtile' = 1 /\ wpc' = "signal"
    /\ UNCHANGED <<legs, rvars, staging, input, cvars, wleg, issued, sync, memory,
                   scratch, delivered>>

\* One tile or band of results.
WDeliver ==
    /\ wpc = "deliver"
    /\ LET result == Leg(wleg).results[wtile]
       IN /\ delivered' = Append(delivered, [q \in result.places |-> memory[q]])
          /\ scratch' = [h \in Parts |->
                           IF h \in result.staged
                           THEN Contents("result", Leg(wleg).item) ELSE scratch[h]]
    /\ IF wtile < Len(Leg(wleg).results)
       THEN wtile' = wtile + 1 /\ wpc' = wpc
       ELSE wtile' = 1 /\ wpc' = "signal"
    /\ UNCHANGED <<legs, rvars, staging, input, cvars, ring, wleg, issued, sync, memory>>

\* Let the reader go on.
WSignal ==
    /\ wpc = "signal"
    /\ sync = 0 /\ sync' = 1
    /\ wleg' = wleg + 1
    /\ wpc' = IF wleg' > LegCount THEN "done"
              ELSE IF ~IsRoute(wleg') THEN "deliver"
              ELSE IF IsFirst(wleg') THEN "first" ELSE "take"
    /\ UNCHANGED <<legs, rvars, staging, input, cvars, ring, wtile, issued, memory,
                   scratch, delivered>>

-----------------------------------------------------------------------------
Reader == RLoad \/ RSplit \/ RPages \/ (\E o \in Operands : RStage(o)) \/ RPush \/ RSync
          \/ RSkip
Compute == CTake \/ CPack \/ CScale
Writer == WFirst \/ WIssue \/ WPop \/ WDeliver \/ WSignal

Next == Reader \/ Compute \/ Writer \/ NocRead \/ NocLand

Fairness ==
    /\ WF_vars(Reader)
    /\ WF_vars(Compute)
    /\ WF_vars(Writer)
    /\ WF_vars(NocRead)
    /\ WF_vars(NocLand)

Spec == Init /\ [][Next]_vars /\ Fairness

-----------------------------------------------------------------------------
(***************************************************************************)
(* Every variable has its type, and no circular buffer holds more than it  *)
(* has room for.  (What a tile of samples is, is left open.)               *)
(***************************************************************************)
TypeOK ==
    /\ legs \in Programs
    /\ rpc \in {"load", "split", "pages", "barrier", "sync", "skip", "done"} \union Operands
    /\ wpc \in {"first", "take", "flush", "deliver", "signal", "done"}
    /\ {rleg, wleg} \subseteq 1 .. LegCount + 1 /\ cleg \in 1 .. LegCount + 2
    /\ {rtile, ctile, wtile} \subseteq Nat \ {0}
    /\ pending \subseteq Operands /\ DOMAIN arrived \subseteq pending
    /\ DOMAIN input = Operands
    /\ \A o \in Operands : Len(input[o]) \in 0 .. Buffering
    /\ Len(regs) \in 0 .. 3
    /\ DOMAIN page = 0 .. Buffering - 1
    /\ head \in 0 .. Buffering - 1 /\ count \in 0 .. Buffering
    /\ issued \subseteq [page : 0 .. Buffering - 1, place : Places]
    /\ sync \in {0, 1}
    /\ DOMAIN memory = Places
    /\ DOMAIN scratch = Parts

(***************************************************************************)
(* Every user of the scratch finds in it what it put there: the reader the *)
(* input while it splits it, then the pages of its routes up to the last,  *)
(* those that are not executed after the last one that is included, the    *)
(* writer its own.  Nothing but the order of the handshakes keeps the two  *)
(* apart (lwt_2d_writer.cpp waits for a tile before it preloads), and      *)
(* while the reader still goes through its last pages nothing but that the *)
(* bytes of the results are not those of these pages.                      *)
(***************************************************************************)
ReaderExecutes ==
    \/ rpc \in Operands \/ pending # {}
    \/ rpc = "sync" /\ rleg <= LegCount /\ IsRoute(rleg) /\ ~IsFirst(rleg)

ReaderSkips == rpc = "skip" \/ (rpc = "sync" /\ Leg(rleg - 1).skips)

WriterExecutes ==
    \/ wpc \in {"take", "flush"}
    \/ wpc = "signal" /\ IsRoute(wleg)
    \/ wpc = "deliver" /\ wtile = 1

ScratchOwned ==
    /\ rpc = "split" /\ Leg(rleg).loads[rtile].staged =>
         \A h \in Parts : scratch[h] = Contents("input", Leg(rleg).item)
    /\ ReaderExecutes =>
         scratch["executed"] = RoutePages(rleg) /\ scratch["trailing"] = RoutePages(rleg)
    /\ ReaderSkips => scratch["trailing"] = RoutePages(rleg - 1)
    /\ WriterExecutes => scratch["writer"] = RoutePages(wleg)

-----------------------------------------------------------------------------
(***************************************************************************)
(* What the planes hold and what is delivered if the legs are carried out  *)
(* one after the other, each on the planes as the one before left them.    *)
(***************************************************************************)
LoadedBefore(n, planes) ==
    LET loaded == UNION {Leg(n).loads[i].places : i \in 1 .. Len(Leg(n).loads)}
    IN [q \in DOMAIN planes |-> IF q \in loaded THEN Image(Leg(n).item, q) ELSE planes[q]]

OperandOf(n, t, o, planes) == [q \in Leg(n).staged[t][o].places |-> planes[q]]

ValueOf(n, t, planes) ==
    IF Leg(n).kind = "lift"
    THEN Lift(n, t, OperandOf(n, t, "source0", planes),
              OperandOf(n, t, "source1", planes), OperandOf(n, t, "base", planes))
    ELSE Scale(n, t, OperandOf(n, t, "source0", planes))

Routed(n, planes) ==
    [q \in DOMAIN planes |->
       IF \E t \in 1 .. Tiles(n) : Leg(n).writes[t] = q
       THEN ValueOf(n, CHOOSE t \in 1 .. Tiles(n) : Leg(n).writes[t] = q, planes)
       ELSE planes[q]]

Delivered(n, planes) ==
    [i \in 1 .. Len(Leg(n).results) |->
       [q \in Leg(n).results[i].places |-> planes[q]]]

Sequential[n \in 0 .. LegCount] ==
    IF n = 0 THEN [planes |-> [q \in Places |-> Junk], results |-> <<>>]
    ELSE LET before == Sequential[n - 1]
         IN IF IsRoute(n)
            THEN [planes |-> Routed(n, LoadedBefore(n, before.planes)),
                  results |-> before.results]
            ELSE [planes |-> before.planes,
                  results |-> before.results \o Delivered(n, before.planes)]

(***************************************************************************)
(* Whatever the order in which kernels and NoC proceed, and although a     *)
(* scale writes the plane that is still read for its next tiles: when the  *)
(* writer ends a leg the planes and the results are those of the legs      *)
(* carried out one after the other.                                        *)
(***************************************************************************)
LegsExact ==
    wpc = "signal" =>
      LET expected == Sequential[wleg]
      IN memory = expected.planes /\ delivered = expected.results

AllDone == rpc = "done" /\ cleg > LegCount /\ wpc = "done"

(***************************************************************************)
(* All three kernels return, and leave nothing in a circular buffer: the   *)
(* next program on the core starts clean.                                  *)
(***************************************************************************)
Clean ==
    /\ \A o \in Operands : input[o] = <<>>
    /\ regs = <<>> /\ count = 0 /\ sync = 0 /\ issued = {} /\ pending = {}

Termination == <>(AllDone /\ Clean)
=============================================================================
