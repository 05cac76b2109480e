---------------------------- MODULE StreamLoader ----------------------------
(***************************************************************************)
(* How the reader of the 1D transform fills the two home slots of a chunk: *)
(* initialize_lwt_streams from the extended signal, alternating between    *)
(* the streams, initialize_inverse_stream from the coefficients, one       *)
(* stream after the other.  Samples are read through a cache of sticks     *)
(* (StickReadCache) in a circular buffer that all loads of a core share.   *)
(*                                                                         *)
(* A load is [sample, inverse, mode, length, pad, begin, count]: begin and *)
(* count of the even and the odd stream.  The pages of a source are its    *)
(* sticks or whole signals.                                                *)
(***************************************************************************)
EXTENDS RawBuffer, SignalExtension, ExtensionGrowth, WorkspaceLayout,
        FiniteSets

CONSTANTS
    StickWidth,         \* elements of a stick
    CacheSticks,        \* pages of the buffer (kLwtCacheStickCount)
    Jobs,               \* [loads, tileNative, pagePerStick]
    Signal(_, _),       \* sample, index: the value there
    Junk                \* what fills up the last stick of a source

\* A chunk begins and ends in its streams, a load of coefficients in the
\* signal; nothing is loaded from an empty signal, and a signal of one
\* sample has no mirror about it: both are refused.
LoadAssumed(load) ==
    /\ load.sample \in Nat /\ load.pad \in Nat /\ load.length \in Nat \ {0}
    /\ load.inverse \in BOOLEAN /\ load.mode \in Modes
    /\ \A s \in {"even", "odd"} :
         /\ load.begin[s] \in Nat /\ load.count[s] \in Nat
         /\ load.inverse => load.begin[s] + load.count[s] <= load.length
    /\ load.mode \in {"reflect", "antireflect"} => load.length >= 2
    /\ \A i \in 0 .. load.length - 1 : Signal(load.sample, i) \in Int

ASSUME LoaderAssumption ==
    /\ StickWidth \in Nat \ {0} /\ CacheSticks \in Nat \ {0}
    /\ \A j \in Jobs :
         /\ Len(j.loads) \in Nat \ {0}
         /\ j.tileNative \in BOOLEAN /\ j.pagePerStick \in BOOLEAN
         /\ \A k \in 1 .. Len(j.loads) : LoadAssumed(j.loads[k])

VARIABLES
    job, item,          \* the job, and which of its loads
    phase,              \* "seek", "read", "done"
    stream, index,      \* the stream whose turn it is, and the element of it
    access, todo, got,  \* the value being put together
    cache,              \* [valid, first, count]: the sticks in the cache
    buffer, page,       \* the circular buffer and its memory
    cursor, slot        \* per stream: where to write, and what was written

vars == <<job, item, phase, stream, index, access, todo, got, cache, buffer, page,
          cursor, slot>>

Load == job.loads[item]

Streams == {"even", "odd"}

Parity == [even |-> 0, odd |-> 1]

NoCache == [valid |-> FALSE, first |-> 0, count |-> 0]

Begin(load, s) == load.begin[s]
End(load, s) == load.begin[s] + load.count[s]

\* The first element looked at, and the one past the last.
First(load) ==
    IF load.inverse THEN load.begin.even
    ELSE IF load.begin.even < load.begin.odd THEN load.begin.even ELSE load.begin.odd

Past(load) ==
    IF End(load, "even") > End(load, "odd") THEN End(load, "even") ELSE End(load, "odd")

StartOf(load) ==
    /\ phase' = "seek" /\ stream' = "even" /\ index' = First(load)
    /\ cursor' = [s \in Streams |-> [at |-> Cursor(0), written |-> 0]]
    /\ slot' = [s \in Streams |-> <<>>]

Init ==
    /\ job \in Jobs
    /\ item = 1
    /\ phase = "seek" /\ stream = "even" /\ index = First(Load)
    /\ access = Access("zero", 0) /\ todo = <<>> /\ got = <<>>
    /\ cache = NoCache
    /\ buffer = EmptyBuffer
    /\ page = [p \in 0 .. CacheSticks - 1 |-> [l \in 0 .. StickWidth - 1 |-> Junk]]
    /\ cursor = [s \in Streams |-> [at |-> Cursor(0), written |-> 0]]
    /\ slot = [s \in Streams |-> <<>>]

-----------------------------------------------------------------------------
\* Faulty variant: what is cached is not given back.
ReleasedNever(b) == b

\* release_cache
Released(b) == IF cache.valid THEN Pop(b, CacheSticks, CacheSticks) ELSE b

Finished ==
    IF Load.inverse THEN stream = "odd" /\ index >= End(Load, "odd")
                    ELSE index >= Past(Load)

\* The streams take turns, or the second follows the first.
Proceed ==
    IF Load.inverse
    THEN stream' = stream /\ index' = index + 1
    ELSE IF stream = "even" THEN stream' = "odd" /\ index' = index
    ELSE stream' = "even" /\ index' = index + 1

\* The inverse has a cache for each stream.
SecondStream ==
    /\ phase = "seek" /\ Load.inverse
    /\ stream = "even" /\ index >= End(Load, "even")
    /\ stream' = "odd" /\ index' = Begin(Load, "odd")
    /\ cache' = NoCache /\ buffer' = Released(buffer)
    /\ UNCHANGED <<job, item, phase, access, todo, got, page, cursor, slot>>

Skip ==
    /\ phase = "seek" /\ ~Load.inverse /\ ~Finished
    /\ index \notin Begin(Load, stream) .. End(Load, stream) - 1
    /\ Proceed
    /\ UNCHANGED <<job, item, phase, access, todo, got, cache, buffer, page, cursor,
                   slot>>

\* Where element i of a stream is in the signal, and how it is obtained.
Position(load, s, i) == IF load.inverse THEN i ELSE 2 * i + Parity[s] - load.pad

AccessTo(load, position) ==
    IF load.inverse THEN Access("sample", position)
    ELSE ExtendedIndex(load.mode, position, load.length)

Seek ==
    /\ phase = "seek" /\ ~Finished
    /\ index \in Begin(Load, stream) .. End(Load, stream) - 1
    /\ phase' = "read"
    /\ access' = AccessTo(Load, Position(Load, stream, index))
    /\ todo' = Sources(access', Load.length)
    /\ got' = <<>>
    /\ UNCHANGED <<job, item, stream, index, cache, buffer, page, cursor, slot>>

-----------------------------------------------------------------------------
StickCount == (Load.length + StickWidth - 1) \div StickWidth

StickOf(i) == i \div StickWidth

\* Faulty variant: the stick past the last is taken to be there.
CachedOneMore(stick) ==
    cache.valid /\ stick \in cache.first .. cache.first + cache.count

\* cache_contains_stick
Cached(stick) ==
    cache.valid /\ stick \in cache.first .. cache.first + cache.count - 1

Fetched(stick) ==
    IF CacheSticks <= StickCount - stick THEN CacheSticks ELSE StickCount - stick

\* A page of sticks is read whole; of a page that is the whole signal, the
\* end of the last stick is zeroed and not read.
PagesPerSample == IF job.pagePerStick THEN StickCount ELSE 1

SourceLane(pageId, stick, lane) ==
    LET i == IF job.pagePerStick THEN (pageId % PagesPerSample) * StickWidth + lane
             ELSE stick * StickWidth + lane
    IN IF i < Load.length THEN Signal(pageId \div PagesPerSample, i)
       ELSE IF job.pagePerStick THEN Junk ELSE 0

StickRead(stick) ==
    LET pageId == Load.sample * PagesPerSample + IF job.pagePerStick THEN stick ELSE 0
    IN [lane \in 0 .. StickWidth - 1 |-> SourceLane(pageId, stick, lane)]

Blank == [lane \in 0 .. StickWidth - 1 |-> 0]

\* What cache_source_sticks leaves behind when it reserves a number of pages.
RefillWith(first, reserved) ==
    LET free == IF cache.valid THEN Pop(buffer, reserved, CacheSticks) ELSE buffer
        origin == free.write
    IN /\ CanReserve(free, reserved, CacheSticks)
       /\ page' = [p \in DOMAIN page \union origin .. origin + reserved - 1 |->
            IF p \notin origin .. origin + reserved - 1 THEN page[p]
            ELSE IF p - origin < Fetched(first) THEN StickRead(first + p - origin)
            ELSE Blank]
       /\ buffer' = Push(free, reserved, CacheSticks)
       /\ cache' = [valid |-> TRUE, first |-> first, count |-> Fetched(first)]

\* Faulty variant: only the pages that are needed are reserved.
RefillShort(first) == RefillWith(first, Fetched(first))

\* cache_source_sticks: every transaction is one cycle of the buffer.
Refill(first) == RefillWith(first, CacheSticks)

Fetch ==
    /\ phase = "read" /\ todo # <<>>
    /\ ~Cached(StickOf(Head(todo)))
    /\ Refill(StickOf(Head(todo)))
    /\ UNCHANGED <<job, item, phase, stream, index, access, todo, got, cursor, slot>>

\* The sample through the raw read pointer.
Raw(i) ==
    LET p == buffer.read + StickOf(i) - cache.first
    IN IF p \in DOMAIN page THEN page[p][i % StickWidth] ELSE Junk

TakeSample ==
    /\ phase = "read" /\ todo # <<>>
    /\ Cached(StickOf(Head(todo)))
    /\ got' = Append(got, Raw(Head(todo)))
    /\ todo' = Tail(todo)
    /\ UNCHANGED <<job, item, phase, stream, index, access, cache, buffer, page,
                   cursor, slot>>

\* The cursor of a tile-native slot, the count of a row-major one.
Target(s) ==
    IF job.tileNative THEN cursor[s].at.physical ELSE cursor[s].written

Written(s, value) ==
    [p \in DOMAIN slot[s] \union {Target(s)} |->
       IF p = Target(s) THEN value ELSE slot[s][p]]

Store ==
    /\ phase = "read" /\ todo = <<>>
    /\ slot' = [slot EXCEPT ![stream] = Written(stream, Combined(access, got))]
    /\ cursor' = [cursor EXCEPT ![stream] =
                    [at |-> Advance(@.at), written |-> @.written + 1]]
    /\ Proceed
    /\ phase' = "seek"
    /\ UNCHANGED <<job, item, access, todo, got, cache, buffer, page>>

NextLoad ==
    /\ phase = "seek" /\ Finished
    /\ cache' = NoCache /\ buffer' = Released(buffer)
    /\ IF item < Len(job.loads)
       THEN item' = item + 1 /\ StartOf(job.loads[item + 1])
       ELSE phase' = "done" /\ UNCHANGED <<item, stream, index, cursor, slot>>
    /\ UNCHANGED <<job, access, todo, got, page>>

Next == SecondStream \/ Skip \/ Seek \/ Fetch \/ TakeSample \/ Store \/ NextLoad

Spec == Init /\ [][Next]_vars /\ WF_vars(Next)

-----------------------------------------------------------------------------
(***************************************************************************)
(* Every element stored so far is the sample of the extended signal, or    *)
(* the coefficient, that belongs at its place of the layout, whatever the  *)
(* cache held in between and whatever was stored after it; and nothing     *)
(* else in the slot has been written.  The signal is extended by what the  *)
(* accesses make of its samples, and that is what its mode demands: beyond *)
(* the ends each sample follows from those nearer to the signal.           *)
(***************************************************************************)
\* Samples that a load looks at beyond either end of its signal.
Reach(load) ==
    IF load.inverse THEN 0
    ELSE Max({0, load.pad - 2 * First(load), 2 * Past(load) - load.pad - load.length})

Samples(load) == [i \in 0 .. load.length - 1 |-> Signal(load.sample, i)]

Evaluated(accessed, samples, n) ==
    LET source == Sources(accessed, n)
    IN Combined(accessed, [k \in DOMAIN source |-> samples[source[k]]])

Described(load, position) ==
    Evaluated(AccessTo(load, position), Samples(load), load.length)

Extended(load) ==
    [x \in -Reach(load) .. load.length - 1 + Reach(load) |-> Described(load, x)]

LoadedExact ==
    phase # "read" =>
      \A extended \in {Extended(Load)} :
        /\ Extends(extended, Load.mode, Samples(Load), Load.length)
        /\ \A s \in Streams :
             /\ \A i \in 0 .. cursor[s].written - 1 :
                  LET p == PhysicalIndex(job.tileNative, i)
                  IN /\ p \in DOMAIN slot[s]
                     /\ slot[s][p] = extended[Position(Load, s, Load.begin[s] + i)]
             /\ Cardinality(DOMAIN slot[s]) = cursor[s].written
             /\ phase = "done" => cursor[s].written = Load.count[s]

(***************************************************************************)
(* The narrow variants describe the same access as the unrestricted one    *)
(* that is made, for every position that has Width bits and every length   *)
(* that, as the 2D entry points demand, has one bit less, for symmetric    *)
(* two.                                                                    *)
(***************************************************************************)
NarrowAgrees ==
    phase = "read" /\ ~Load.inverse =>
      LET i == Position(Load, stream, index)
          n == Load.length
      IN n < Half /\ i \in -Half .. Half - 1 =>
           CASE Load.mode = "symmetric" /\ 2 * n < Half ->
                  SymmetricNarrow(i, n) = access
             [] Load.mode = "antireflect" -> AntireflectNarrow(i, n) = access
             [] Load.mode = "smooth" -> SmoothNarrow(i, n) = access
             [] OTHER -> TRUE

(***************************************************************************)
(* The raw pointers are at the origin whenever the cache begins a          *)
(* transaction, and no page outside the buffer is ever touched; only so    *)
(* may the sticks be addressed without looking at the end of the buffer.   *)
(***************************************************************************)
CacheInBuffer ==
    /\ DOMAIN page = 0 .. CacheSticks - 1
    /\ buffer.write = 0 /\ buffer.read = 0
    /\ buffer.held = IF cache.valid THEN CacheSticks ELSE 0

(***************************************************************************)
(* Every load ends: the cache always finds room for another transaction,   *)
(* also after the loads before it.                                         *)
(***************************************************************************)
LoadsEnd == <>(phase = "done")
=============================================================================
