---------------------- MODULE InterleaveStagingProofs ----------------------
(***************************************************************************)
(* Proofs about InterleaveStaging for every layout, split of a signal in   *)
(* chunks, batch, stick and padding: that staging stays in its buffer, and *)
(* that DRAM holds the reconstructed samples.                              *)
(*                                                                         *)
(* Neither holds of every chunk that build_chunk makes: WholeBatches and   *)
(* OneGroupDirect say of which they do.                                    *)
(***************************************************************************)
EXTENDS InterleaveStaging, AnySequences

(***************************************************************************)
(* The sizes of the layout, and how an element is counted in it: block by  *)
(* block, row by row, group by group; or lane, row, block, group.          *)
(***************************************************************************)
LEMMA LayoutSizes ==
  /\ BlockElements \in Nat \ {0} /\ BlocksPerRow \in Nat \ {0}
  /\ RowsPerGroup \in Nat \ {0} /\ RowElements \in Nat \ {0}
  /\ NarrowTileElements \in Nat \ {0} /\ GroupElements \in Nat \ {0}
  /\ RowElements = BlockElements * BlocksPerRow
  /\ NarrowTileElements = BlockElements * RowsPerGroup
  /\ GroupElements = RowElements * RowsPerGroup
  /\ GroupElements = NarrowTileElements * BlocksPerRow
<1>1. \A a, b \in Nat \ {0} : a * b \in Nat \ {0} /\ a * b = b * a
  BY SMT
<1>2. \A a, b, c \in Nat : a * (b * c) = (c * a) * b
  BY SMT
<1>3. RowElements \in Nat \ {0} /\ RowElements = BlockElements * BlocksPerRow
  BY <1>1, LayoutAssumption DEF RowElements
<1>4. NarrowTileElements \in Nat \ {0} /\ NarrowTileElements = BlockElements * RowsPerGroup
  BY <1>1, LayoutAssumption DEF NarrowTileElements
<1>5. GroupElements \in Nat \ {0} /\ GroupElements = RowElements * RowsPerGroup
  BY <1>1, <1>3, LayoutAssumption DEF GroupElements
<1>6. GroupElements = NarrowTileElements * BlocksPerRow
  BY <1>1, <1>2, <1>4, LayoutAssumption DEF GroupElements, RowElements
<1>7. QED
  BY <1>3, <1>4, <1>5, <1>6, LayoutAssumption

\* A cursor at some place of the layout.
CursorOK(c) ==
  /\ c = CursorAt(c.group, c.row, c.block, c.lane)
  /\ c.group \in Nat /\ c.row \in 0 .. RowsPerGroup - 1
  /\ c.block \in 0 .. BlocksPerRow - 1 /\ c.lane \in 0 .. BlockElements - 1

LEMMA CursorIsOK ==
  ASSUME NEW i \in Nat
  PROVE  CursorOK(Cursor(i)) /\ Logical(Cursor(i)) = i
<1> DEFINE G == GroupElements
           W == RowElements
           B == BlockElements
           g == i \div G
           u == i % G
           r == u \div W
           v == u % W
           b == v \div B
           l == v % B
<1>1. Cursor(i) = CursorAt(g, r, b, l)
  BY DEF Cursor
<1>2. i = G * g + u /\ u \in 0 .. G - 1 /\ g \in Nat
  <2>1. G \in Nat \ {0} /\ i \in Int /\ i \in Nat
    BY LayoutSizes
  <2> HIDE DEF G
  <2>2. QED
    BY ONLY <2>1, Divided
<1>3. u = W * r + v /\ r \in 0 .. RowsPerGroup - 1 /\ v \in 0 .. W - 1
  <2> HIDE DEF u
  <2>1. u \in 0 .. W * RowsPerGroup - 1 /\ u \in Int
    BY <1>2, LayoutSizes
  <2>2. QED
    BY <2>1, LayoutSizes, Divided, PartsOf
<1>4. v = B * b + l /\ b \in 0 .. BlocksPerRow - 1 /\ l \in 0 .. B - 1
  <2> HIDE DEF v
  <2>1. v \in 0 .. B * BlocksPerRow - 1 /\ v \in Int
    BY <1>3, LayoutSizes
  <2>2. QED
    BY <2>1, LayoutSizes, Divided, PartsOf
<1>5. /\ Cursor(i).group = g /\ Cursor(i).row = r /\ Cursor(i).block = b
      /\ Cursor(i).lane = l
  BY <1>1 DEF CursorAt
<1>6. CursorOK(Cursor(i))
  BY <1>1, <1>2, <1>3, <1>4, <1>5 DEF CursorOK
<1>7. Logical(Cursor(i)) = i
  <2>1. Logical(Cursor(i)) = g * G + r * W + b * B + l
    BY <1>5 DEF Logical
  <2> HIDE DEF G, W, B, g, u, r, v, b, l
  <2>2. \A x, y \in Int : x * y = y * x /\ x * y \in Int
    BY SMT
  <2>3. G \in Int /\ W \in Int /\ B \in Int /\ g \in Int /\ r \in Int /\ b \in Int /\ l \in Int
    BY <1>2, <1>3, <1>4, LayoutSizes DEF G, W, B
  <2>4. g * G = G * g /\ r * W = W * r /\ b * B = B * b
    BY <2>2, <2>3
  <2>5. g * G \in Int /\ r * W \in Int /\ b * B \in Int
    BY <2>2, <2>3
  <2>6. QED
    BY <2>1, <2>3, <2>4, <2>5, <1>2, <1>3, <1>4
<1>8. QED
  BY <1>6, <1>7

\* Both counts of a cursor, in the form of the lemma.
LEMMA CountsOf ==
  ASSUME NEW c, CursorOK(c)
  PROVE  /\ Logical(c) = Numbered(BlockElements, BlocksPerRow, RowsPerGroup,
                              c.group, c.row, c.block, c.lane)
         /\ c.physical = Numbered(BlockElements, RowsPerGroup, BlocksPerRow,
                               c.group, c.block, c.row, c.lane)
<1> DEFINE B == BlockElements
           g == c.group
           r == c.row
           b == c.block
           l == c.lane
<1>1. /\ B \in Nat /\ BlocksPerRow \in Nat /\ RowsPerGroup \in Nat
      /\ g \in Int /\ r \in Int /\ b \in Int /\ l \in Int
  BY LayoutSizes DEF CursorOK
<1>2. \A x, y \in Int : x * y = y * x /\ x * y \in Int
  BY SMT
<1>3. GroupElements \in Int /\ RowElements \in Int /\ NarrowTileElements \in Int
  BY LayoutSizes
<1>4. Logical(c) = GroupElements * g + (RowElements * r + (B * b + l))
  <2>1. Logical(c) = g * GroupElements + r * RowElements + b * B + l
    BY DEF Logical
  <2> HIDE DEF g, r, b, l, B
  <2>2. /\ g * GroupElements = GroupElements * g /\ r * RowElements = RowElements * r
        /\ b * B = B * b /\ GroupElements * g \in Int /\ RowElements * r \in Int
        /\ B * b \in Int
    BY <1>1, <1>2, <1>3
  <2>3. QED
    BY <1>1, <2>1, <2>2
<1>5. c.physical = GroupElements * g + (NarrowTileElements * b + (B * r + l))
  <2>1. c.physical = g * GroupElements + b * NarrowTileElements + r * B + l
    <3>1. CursorAt(c.group, c.row, c.block, c.lane).physical
            = Place(c.group, c.row, c.block, c.lane)
      BY DEF CursorAt
    <3>2. QED
      BY <3>1 DEF CursorOK, Place
  <2> HIDE DEF g, r, b, l, B
  <2>2. /\ g * GroupElements = GroupElements * g
        /\ b * NarrowTileElements = NarrowTileElements * b
        /\ r * B = B * r /\ GroupElements * g \in Int /\ NarrowTileElements * b \in Int
        /\ B * r \in Int
    BY <1>1, <1>2, <1>3
  <2>3. QED
    BY <1>1, <2>1, <2>2
<1>6. QED
  BY <1>4, <1>5, LayoutSizes DEF Numbered

\* A cursor is known by either of its counts.
LEMMA SameCursor ==
  ASSUME NEW c, NEW d, CursorOK(c), CursorOK(d),
         Logical(c) = Logical(d) \/ c.physical = d.physical
  PROVE  c = d
<1>1. /\ c.group \in Nat /\ d.group \in Nat
      /\ c.row \in 0 .. RowsPerGroup - 1 /\ d.row \in 0 .. RowsPerGroup - 1
      /\ c.block \in 0 .. BlocksPerRow - 1 /\ d.block \in 0 .. BlocksPerRow - 1
      /\ c.lane \in 0 .. BlockElements - 1 /\ d.lane \in 0 .. BlockElements - 1
  BY DEF CursorOK
<1>2. /\ BlockElements \in Nat \ {0} /\ BlocksPerRow \in Nat \ {0}
      /\ RowsPerGroup \in Nat \ {0}
  BY LayoutSizes
<1> DEFINE g == c.group
           r == c.row
           b == c.block
           l == c.lane
           h == d.group
           s == d.row
           e == d.block
           n == d.lane
<1> HIDE DEF g, r, b, l, h, s, e, n
<1>3. /\ g \in Nat /\ h \in Nat
      /\ r \in 0 .. RowsPerGroup - 1 /\ s \in 0 .. RowsPerGroup - 1
      /\ b \in 0 .. BlocksPerRow - 1 /\ e \in 0 .. BlocksPerRow - 1
      /\ l \in 0 .. BlockElements - 1 /\ n \in 0 .. BlockElements - 1
  BY <1>1 DEF g, r, b, l, h, s, e, n
<1>4. g = h /\ r = s /\ b = e /\ l = n
  <2>1. CASE Logical(c) = Logical(d)
    <3>1. Numbered(BlockElements, BlocksPerRow, RowsPerGroup, g, r, b, l)
            = Numbered(BlockElements, BlocksPerRow, RowsPerGroup, h, s, e, n)
      BY <2>1, CountsOf DEF g, r, b, l, h, s, e, n
    <3>2. /\ DigitsOK(BlockElements, BlocksPerRow, RowsPerGroup, g, r, b, l)
          /\ DigitsOK(BlockElements, BlocksPerRow, RowsPerGroup, h, s, e, n)
      BY <1>2, <1>3 DEF DigitsOK
    <3>3. QED
      BY ONLY <3>1, <3>2, MixedRadix
  <2>2. CASE c.physical = d.physical
    <3>1. Numbered(BlockElements, RowsPerGroup, BlocksPerRow, g, b, r, l)
            = Numbered(BlockElements, RowsPerGroup, BlocksPerRow, h, e, s, n)
      BY <2>2, CountsOf DEF g, r, b, l, h, s, e, n
    <3>2. /\ DigitsOK(BlockElements, RowsPerGroup, BlocksPerRow, g, b, r, l)
          /\ DigitsOK(BlockElements, RowsPerGroup, BlocksPerRow, h, e, s, n)
      BY <1>2, <1>3 DEF DigitsOK
    <3>3. QED
      BY ONLY <3>1, <3>2, MixedRadix
  <2>3. QED
    BY <2>1, <2>2
<1>5. QED
  BY <1>4 DEF CursorOK, g, r, b, l, h, s, e, n

\* Different elements have different places.
LEMMA PlacesDiffer ==
  ASSUME NEW t \in BOOLEAN, NEW i \in Nat, NEW j \in Nat,
         PhysicalIndex(t, i) = PhysicalIndex(t, j)
  PROVE  i = j
<1>1. CASE t
  <2>1. Cursor(i).physical = Cursor(j).physical
    BY <1>1 DEF PhysicalIndex
  <2>2. Cursor(i) = Cursor(j)
    BY <2>1, CursorIsOK, SameCursor
  <2>3. QED
    BY <2>2, CursorIsOK
<1>2. QED
  BY <1>1 DEF PhysicalIndex

-----------------------------------------------------------------------------
(***************************************************************************)
(* What the buffer needs of the chunks: a batch may be partial only when   *)
(* it is the last that is staged.  On Blackhole a batch is one stick.      *)
(***************************************************************************)
WholeBatches ==
  \A j \in Jobs : \A k \in 1 .. Len(j.items) :
    \/ Parts(j.items[k].length, StickWidth) % j.batch = 0
    \/ k = Len(j.items) /\ (j.direct = "no" \/ j.items[k].length <= SignalGroup)

(***************************************************************************)
(* What the direct interleave needs: a chunk of one group, so one pass.    *)
(***************************************************************************)
OneGroupDirect ==
  \A j \in Jobs : j.direct # "no" =>
    \A k \in 1 .. Len(j.items) : j.items[k].length <= SignalGroup

-----------------------------------------------------------------------------
(***************************************************************************)
(* Where the writer is.                                                    *)
(***************************************************************************)
JobOK == job \in Jobs /\ item \in 1 .. Len(job.items)

PlaceOK ==
  /\ phase \in {"reserve", "stage", "barrier", "done"}
  /\ batch \in 0 .. StickCount - 1 /\ \E m \in Nat : batch = BatchSticks * m
  /\ pass \in 0 .. Passes - 1
  /\ phase = "stage" => staged \in 0 .. BatchCount - 1
  /\ phase = "barrier" => staged = BatchCount
  /\ phase = "done" => /\ item = Len(job.items)

\* The raw pointer is at the origin of the buffer until the job is done.
BufferOK ==
  /\ DOMAIN page = 0 .. BatchSticks - 1
  /\ DOMAIN buffer = {"write", "read", "held"}
  /\ phase # "done" => buffer.write = 0

BInv == JobOK /\ PlaceOK /\ BufferOK

(***************************************************************************)
(* The job and its items.                                                  *)
(***************************************************************************)
LEMMA JobIsAssumed ==
  ASSUME JobOK
  PROVE  /\ ItemAssumed(job, Item) /\ job \in Jobs
         /\ \A k \in 1 .. Len(job.items) : ItemAssumed(job, job.items[k])
         /\ job.tileNative \in BOOLEAN /\ job.direct \in {"no", "even", "odd"}
         /\ job.leftPad \in Nat /\ job.length \in Nat /\ BatchSticks \in Nat \ {0}
         /\ Len(job.items) \in Nat \ {0} /\ item \in Nat \ {0}
         /\ StickWidth \in Nat \ {0}
  BY InterleaveAssumption DEF JobOK, Item, BatchSticks

LEMMA GroupSizes ==
  GroupElements \in Nat \ {0} /\ SignalGroup \in Nat \ {0} /\ SignalGroup = 2 * GroupElements
  BY LayoutSizes DEF SignalGroup

\* As many parts as it takes.
LEMMA PartsNeeded ==
  ASSUME NEW n \in Nat \ {0}, NEW w \in Nat \ {0}
  PROVE  /\ Parts(n, w) \in Nat \ {0}
         /\ Parts(n, w) = ((n - 1) \div w) + 1
         /\ (n <= w => Parts(n, w) = 1)
         /\ (n % w = 0 => w * Parts(n, w) = n)
<1> DEFINE a == (n - 1) \div w
           r == (n - 1) % w
           c == a + 1
           x == n + w - 1
<1>1. n - 1 \in Int /\ n - 1 \in Nat /\ n \in Int /\ w \in Int
  OBVIOUS
<1>2. n - 1 = w * a + r /\ r \in 0 .. w - 1 /\ a \in Nat
  <2> DEFINE y == n - 1
  <2>1. y \in Int /\ y \in Nat
    BY <1>1
  <2> HIDE DEF y
  <2>2. y = w * (y \div w) + (y % w) /\ y % w \in 0 .. w - 1 /\ y \div w \in Nat
    BY ONLY <2>1, w \in Nat \ {0}, Divided
  <2>3. QED
    BY <2>2 DEF y
<1> HIDE DEF a, r
<1>3. w * c = w * a + w /\ w * a \in Int
  BY <1>2, SMT
<1>4. x = w * c + r /\ x \in Int /\ c \in Int
  BY <1>2, <1>3
<1>5. x \div w = c
  <2> HIDE DEF x, c
  <2>1. QED
    BY ONLY <1>2, <1>4, w \in Nat \ {0}, Quotient
<1>6. Parts(n, w) = c
  BY <1>5 DEF Parts
<1>7. ASSUME n <= w PROVE a = 0
  <2>1. ASSUME a >= 1 PROVE FALSE
    <3>1. w * a >= w
      BY <1>2, <2>1, SMT
    <3>2. QED
      BY <1>2, <1>3, <1>7, <3>1
  <2>2. QED
    BY <1>2, <2>1
<1>8. ASSUME n % w = 0 PROVE w * c = n
  <2>1. n = w * (n \div w) + 0 /\ n \div w \in Int
    <3>1. n = w * (n \div w) + (n % w) /\ n \div w \in Int
      BY ONLY n \in Nat \ {0}, w \in Nat \ {0}, Divided
    <3>2. QED
      BY <1>8, <3>1
  <2> DEFINE q == n \div w
  <2>2. w * q = w * a + r + 1 /\ q \in Int
    BY <1>2, <1>3, <2>1
  <2> HIDE DEF q
  <2>3. CASE q <= a
    <3>1. w * q <= w * a
      BY <1>2, <2>2, <2>3, SMT
    <3>2. QED
      BY <1>2, <1>3, <2>2, <3>1
  <2>4. CASE q >= a + 2
    <3>1. w * q >= w * (a + 2) /\ w * (a + 2) = w * a + 2 * w
      BY <1>2, <2>2, <2>4, SMT
    <3>2. QED
      BY <1>2, <1>3, <2>2, <3>1
  <2>5. CASE q = c
    BY <2>1, <2>5 DEF q
  <2>6. QED
    BY <1>2, <2>2, <2>3, <2>4, <2>5
<1>9. QED
  BY <1>2, <1>6, <1>7, <1>8 DEF a

LEMMA SticksOfItem ==
  ASSUME NEW j, NEW it, ItemAssumed(j, it), StickWidth \in Nat \ {0}
  PROVE  LET f == it.begin \div StickWidth
             c == Parts(it.length, StickWidth)
         IN /\ f \in Nat /\ c \in Nat \ {0} /\ it.begin = StickWidth * f
            /\ (it.begin + it.length - 1) \div StickWidth = f + c - 1
            /\ it.length % StickWidth = 0 => StickWidth * c = it.length
<1> DEFINE w == StickWidth
           b == it.begin
           n == it.length
           f == b \div w
           c == Parts(n, w)
<1>1. b \in Nat /\ b % w = 0 /\ n \in Nat \ {0} /\ w \in Nat \ {0}
  BY DEF ItemAssumed
<1>2. c \in Nat \ {0} /\ c = ((n - 1) \div w) + 1 /\ (n % w = 0 => w * c = n)
  <2> HIDE DEF w, n
  <2>1. QED
    BY <1>1, PartsNeeded
<1>3. b = w * f /\ f \in Nat
  <2>1. b \in Int /\ b = w * f + (b % w) /\ f \in Nat
    <3> HIDE DEF b, w
    <3>1. b \in Int
      BY <1>1
    <3>2. QED
      BY ONLY <1>1, <3>1, Divided
  <2> HIDE DEF b, w, f
  <2>2. w * f \in Int
    BY <1>1, <2>1, SMT
  <2>3. QED
    BY <1>1, <2>1, <2>2
<1>4. (b + n - 1) \div w = f + c - 1
  <2> DEFINE y == n - 1
             a == y \div w
             r == y % w
             x == b + n - 1
             q == f + a
  <2>1. y \in Nat /\ y \in Int
    BY <1>1
  <2>2. y = w * a + r /\ r \in 0 .. w - 1 /\ a \in Nat
    <3> HIDE DEF y, w
    <3>1. QED
      BY ONLY <1>1, <2>1, Divided
  <2> HIDE DEF b, w, n, f, a, r
  <2>3. w * q = w * f + w * a /\ w * f \in Int /\ w * a \in Int
    BY <1>1, <1>3, <2>2, SMT
  <2>4. x = w * q + r /\ x \in Int /\ q \in Int
    BY <1>1, <1>3, <2>2, <2>3
  <2>5. x \div w = q
    <3> HIDE DEF x, q
    <3>1. QED
      BY ONLY <1>1, <2>2, <2>4, Quotient
  <2>6. c = a + 1
    BY <1>2 DEF a
  <2>7. QED
    BY <1>3, <2>2, <2>5, <2>6
<1>5. QED
  BY <1>2, <1>3, <1>4

\* Every item has a stick and takes a pass.
LEMMA CountsOfItem ==
  ASSUME NEW j \in Jobs, NEW k \in 1 .. Len(j.items)
  PROVE  /\ Parts(j.items[k].length, StickWidth) \in Nat \ {0}
         /\ Parts(j.items[k].length, SignalGroup) \in Nat \ {0}
         /\ (j.items[k].length <= SignalGroup => Parts(j.items[k].length, SignalGroup) = 1)
<1> DEFINE n == j.items[k].length
<1>1. n \in Nat \ {0} /\ StickWidth \in Nat \ {0} /\ SignalGroup \in Nat \ {0}
  BY InterleaveAssumption, GroupSizes DEF ItemAssumed
<1> HIDE DEF n
<1>2. /\ Parts(n, StickWidth) \in Nat \ {0} /\ Parts(n, SignalGroup) \in Nat \ {0}
      /\ (n <= SignalGroup => Parts(n, SignalGroup) = 1)
  BY ONLY <1>1, PartsNeeded
<1>3. QED
  BY <1>2 DEF n

LEMMA CountsOfCurrent ==
  ASSUME JobOK
  PROVE  /\ StickCount \in Nat \ {0} /\ Passes \in Nat \ {0} /\ BatchSticks \in Nat \ {0}
         /\ FirstStick \in Nat /\ Item.begin = StickWidth * FirstStick
         /\ (Item.begin + Item.length - 1) \div StickWidth = FirstStick + StickCount - 1
         /\ (job.direct = "no" \/ Item.length <= SignalGroup => Passes = 1)
<1>1. job \in Jobs /\ item \in 1 .. Len(job.items)
  BY DEF JobOK
<1>2. /\ StickCount \in Nat \ {0} /\ Passes \in Nat \ {0}
      /\ (job.direct = "no" \/ Item.length <= SignalGroup => Passes = 1)
  BY <1>1, CountsOfItem DEF StickCount, Passes, Item
<1>3. ItemAssumed(job, Item) /\ StickWidth \in Nat \ {0} /\ BatchSticks \in Nat \ {0}
  BY JobIsAssumed
<1>4. /\ FirstStick \in Nat /\ Item.begin = StickWidth * FirstStick
      /\ (Item.begin + Item.length - 1) \div StickWidth = FirstStick + StickCount - 1
  BY <1>3, SticksOfItem DEF FirstStick, StickCount
<1>5. QED
  BY <1>2, <1>3, <1>4

(***************************************************************************)
(* The batch at hand: all of it lies in the item, and only the last of an  *)
(* item may be partial.                                                    *)
(***************************************************************************)
LEMMA BatchBounds ==
  ASSUME JobOK, PlaceOK
  PROVE  /\ BatchCount \in 1 .. BatchSticks /\ batch + BatchCount <= StickCount
         /\ batch \in Nat /\ pass \in Nat
         /\ (batch + BatchSticks < StickCount => BatchCount = BatchSticks)
         /\ (batch + BatchSticks >= StickCount => batch + BatchCount = StickCount)
<1>1. StickCount \in Nat \ {0} /\ Passes \in Nat \ {0} /\ BatchSticks \in Nat \ {0}
  BY CountsOfCurrent
<1>2. batch \in 0 .. StickCount - 1 /\ pass \in 0 .. Passes - 1
  BY DEF PlaceOK
<1>3. CASE StickCount - batch < BatchSticks
  <2>1. BatchCount = StickCount - batch
    BY <1>3 DEF BatchCount
  <2>2. QED
    BY <1>1, <1>2, <1>3, <2>1
<1>4. CASE ~(StickCount - batch < BatchSticks)
  <2>1. BatchCount = BatchSticks
    BY <1>4 DEF BatchCount
  <2>2. QED
    BY <1>1, <1>2, <1>4, <2>1
<1>5. QED
  BY <1>3, <1>4

LastBatch ==
  batch + BatchSticks >= StickCount /\ pass + 1 = Passes /\ item = Len(job.items)

LEMMA WholeBatch ==
  ASSUME JobOK, PlaceOK, WholeBatches, ~LastBatch
  PROVE  BatchCount = BatchSticks
<1>1. /\ StickCount \in Nat \ {0} /\ Passes \in Nat \ {0} /\ BatchSticks \in Nat \ {0}
      /\ (job.direct = "no" \/ Item.length <= SignalGroup => Passes = 1)
  BY CountsOfCurrent
<1>2. batch \in 0 .. StickCount - 1 /\ pass \in 0 .. Passes - 1
  BY DEF PlaceOK
<1>3. CASE StickCount % BatchSticks = 0
  <2>1. PICK m \in Nat : batch = BatchSticks * m
    BY DEF PlaceOK
  <2> DEFINE B == BatchSticks
             n == StickCount
             q == n \div B
  <2>2. n = B * q + (n % B) /\ q \in Nat /\ n \in Int /\ B \in Nat \ {0}
    <3> HIDE DEF n, B
    <3>1. n \in Int /\ B \in Nat \ {0} /\ n \in Nat
      BY <1>1 DEF n, B
    <3>2. QED
      BY ONLY <3>1, Divided
  <2>3. n % B = 0
    BY <1>3
  <2> HIDE DEF B, q, n
  <2>4. B * q \in Int /\ B * m \in Int
    BY <2>2, SMT
  <2>5. B * m < B * q
    BY <1>2, <2>1, <2>2, <2>3, <2>4 DEF B, n
  <2>6. ASSUME q <= m PROVE FALSE
    <3>1. B * q <= B * m
      BY <2>2, <2>6, SMT
    <3>2. QED
      BY <2>4, <2>5, <3>1
  <2>7. B * q >= B * (m + 1) /\ B * (m + 1) = B * m + B
    <3>1. q >= m + 1
      BY <2>2, <2>6
    <3>2. QED
      BY <2>2, <3>1, SMT
  <2>8. n - batch >= B
    BY <1>1, <1>2, <2>1, <2>2, <2>3, <2>4, <2>7 DEF B
  <2>9. QED
    BY <1>1, <1>2, <2>8 DEF B, n, BatchCount
<1>4. CASE StickCount % BatchSticks # 0
  <2>1. /\ item = Len(job.items)
        /\ (job.direct = "no" \/ Item.length <= SignalGroup)
    BY <1>4 DEF WholeBatches, JobOK, Item, StickCount, BatchSticks
  <2>2. Passes = 1 /\ pass + 1 = Passes
    BY <1>1, <1>2, <2>1
  <2>3. batch + BatchSticks < StickCount
    BY <1>1, <1>2, <2>1, <2>2 DEF LastBatch
  <2>4. QED
    BY <2>3, BatchBounds
<1>5. QED
  BY <1>3, <1>4

(***************************************************************************)
(* The invariant of the place and of the buffer.                           *)
(***************************************************************************)
\* What the counts of the item at hand depend on.
LEMMA SameItem ==
  ASSUME UNCHANGED <<job, item>>
  PROVE  /\ Item' = Item /\ StickCount' = StickCount /\ FirstStick' = FirstStick
         /\ Passes' = Passes /\ BatchSticks' = BatchSticks
         /\ (batch' = batch => BatchCount' = BatchCount)
  BY DEF Item, StickCount, FirstStick, Passes, BatchSticks, BatchCount

LEMMA BInit ==
  ASSUME Init
  PROVE  BInv
<1>1. JobOK
  BY InterleaveAssumption DEF Init, JobOK
<1>2. StickCount \in Nat \ {0} /\ Passes \in Nat \ {0} /\ BatchSticks \in Nat \ {0}
  BY <1>1, CountsOfCurrent
<1>3. BatchSticks * 0 = 0 /\ 0 \in Nat
  BY <1>2
<1>4. PlaceOK
  <2>1. batch = 0 /\ pass = 0 /\ phase = "reserve"
    BY DEF Init
  <2>2. \E m \in Nat : batch = BatchSticks * m
    BY <1>3, <2>1
  <2>3. QED
    BY <1>2, <2>1, <2>2 DEF PlaceOK
<1>5. BufferOK
  BY DEF Init, BufferOK, EmptyBuffer
<1>6. QED
  BY <1>1, <1>4, <1>5 DEF BInv

LEMMA BReserve ==
  ASSUME BInv, Reserve
  PROVE  BInv'
<1>1. JobOK /\ PlaceOK /\ BufferOK
  BY DEF BInv
<1>2. /\ UNCHANGED <<job, item>> /\ batch' = batch /\ pass' = pass
      /\ buffer' = buffer /\ page' = page
      /\ phase = "reserve" /\ phase' = "stage" /\ staged' = 0
  BY DEF Reserve
<1>3. /\ StickCount' = StickCount /\ Passes' = Passes /\ BatchSticks' = BatchSticks
      /\ BatchCount' = BatchCount
  BY <1>2, SameItem
<1>4. BatchCount \in 1 .. BatchSticks /\ BatchSticks \in Nat
  BY <1>1, BatchBounds, CountsOfCurrent
<1>5. JobOK'
  BY <1>1, <1>2 DEF JobOK
<1>6. PlaceOK'
  BY <1>1, <1>2, <1>3, <1>4 DEF PlaceOK
<1>7. BufferOK'
  BY <1>1, <1>2, <1>3 DEF BufferOK
<1>8. QED
  BY <1>5, <1>6, <1>7 DEF BInv

LEMMA BStage ==
  ASSUME BInv, Stage
  PROVE  BInv' /\ buffer.write + staged = staged /\ staged \in 0 .. BatchSticks - 1
<1>1. JobOK /\ PlaceOK /\ BufferOK
  BY DEF BInv
<1>2. /\ UNCHANGED <<job, item>> /\ batch' = batch /\ pass' = pass
      /\ buffer' = buffer /\ phase = "stage" /\ staged' = staged + 1
      /\ phase' = IF staged + 1 = BatchCount THEN "barrier" ELSE phase
      /\ DOMAIN page' = DOMAIN page \union {buffer.write + staged}
  BY DEF Stage
<1>3. /\ StickCount' = StickCount /\ Passes' = Passes /\ BatchSticks' = BatchSticks
      /\ BatchCount' = BatchCount
  BY <1>2, SameItem
<1>4. /\ BatchCount \in 1 .. BatchSticks /\ BatchSticks \in Nat
      /\ staged \in 0 .. BatchCount - 1 /\ buffer.write = 0
  BY <1>1, <1>2, BatchBounds, CountsOfCurrent DEF PlaceOK, BufferOK
<1>5. JobOK'
  BY <1>1, <1>2 DEF JobOK
<1>6. PlaceOK'
  <2>1. phase' \in {"stage", "barrier"}
    BY <1>2
  <2>2. phase' = "stage" => staged' \in 0 .. BatchCount' - 1
    BY <1>2, <1>3, <1>4
  <2>3. phase' = "barrier" => staged' = BatchCount'
    BY <1>2, <1>3, <1>4
  <2>4. QED
    BY <1>1, <1>2, <1>3, <2>1, <2>2, <2>3 DEF PlaceOK
<1>7. DOMAIN page' = 0 .. BatchSticks' - 1
  <2>1. DOMAIN page = 0 .. BatchSticks - 1
    BY <1>1 DEF BufferOK
  <2>2. buffer.write + staged \in 0 .. BatchSticks - 1
    BY <1>4
  <2>3. QED
    BY <1>2, <1>3, <2>1, <2>2
<1>8. BufferOK'
  BY <1>1, <1>2, <1>7 DEF BufferOK
<1>9. QED
  BY <1>4, <1>5, <1>6, <1>8 DEF BInv

LEMMA BSame ==
  ASSUME BInv, UNCHANGED <<job, item, pass, batch, phase, staged, buffer, page>>
  PROVE  BInv'
<1>1. JobOK /\ PlaceOK /\ BufferOK
  BY DEF BInv
<1>2. /\ StickCount' = StickCount /\ Passes' = Passes /\ BatchSticks' = BatchSticks
      /\ BatchCount' = BatchCount
  BY SameItem
<1>3. JobOK' /\ PlaceOK' /\ BufferOK'
  BY <1>1, <1>2 DEF JobOK, PlaceOK, BufferOK
<1>4. QED
  BY <1>3 DEF BInv

LEMMA BRelease ==
  ASSUME BInv, WholeBatches, Release
  PROVE  BInv'
<1>1. JobOK /\ PlaceOK /\ BufferOK
  BY DEF BInv
<1>2. /\ job' = job /\ page' = page /\ phase = "barrier"
      /\ phase' = IF LastBatch THEN "done" ELSE "reserve"
      /\ buffer' = Cycled
  BY DEF Release, LastBatch
<1>3. /\ StickCount \in Nat \ {0} /\ Passes \in Nat \ {0} /\ BatchSticks \in Nat \ {0}
      /\ BatchCount \in 1 .. BatchSticks
      /\ batch \in 0 .. StickCount - 1 /\ pass \in 0 .. Passes - 1
      /\ item \in 1 .. Len(job.items) /\ Len(job.items) \in Nat
  BY <1>1, CountsOfCurrent, BatchBounds, JobIsAssumed DEF PlaceOK, JobOK
<1>4. BatchSticks' = BatchSticks
  BY <1>2 DEF BatchSticks
<1>5. JobOK'
  <2>1. item' = item \/ (item < Len(job.items) /\ item' = item + 1)
    BY DEF Release
  <2>2. item' \in 1 .. Len(job.items)
    BY <1>3, <2>1
  <2>3. QED
    BY <1>1, <1>2, <2>2 DEF JobOK
<1>6. StickCount' \in Nat \ {0} /\ Passes' \in Nat \ {0}
  <2>1. job' \in Jobs /\ item' \in 1 .. Len(job'.items)
    BY <1>5 DEF JobOK
  <2>2. /\ Parts(job'.items[item'].length, StickWidth) \in Nat \ {0}
        /\ Parts(job'.items[item'].length, SignalGroup) \in Nat \ {0}
    BY <2>1, CountsOfItem
  <2>3. QED
    BY <2>2 DEF StickCount, Passes, Item
<1>7. /\ batch' \in 0 .. StickCount' - 1 /\ pass' \in 0 .. Passes' - 1
      /\ \E m \in Nat : batch' = BatchSticks' * m
  <2>1. CASE batch + BatchSticks < StickCount
    <3>1. batch' = batch + BatchSticks /\ pass' = pass /\ item' = item
      BY <2>1 DEF Release
    <3>2. StickCount' = StickCount /\ Passes' = Passes
      BY <1>2, <3>1, SameItem
    <3>3. PICK m \in Nat : batch = BatchSticks * m
      BY <1>1 DEF PlaceOK
    <3>4. batch' = BatchSticks * (m + 1) /\ m + 1 \in Nat
      <4>1. BatchSticks * (m + 1) = BatchSticks * m + BatchSticks
        BY <1>3, SMT
      <4>2. QED
        BY <3>1, <3>3, <4>1
    <3>5. batch' \in 0 .. StickCount' - 1 /\ pass' \in 0 .. Passes' - 1
      BY <1>3, <2>1, <3>1, <3>2
    <3>6. \E m2 \in Nat : batch' = BatchSticks' * m2
      BY <1>4, <3>4
    <3>7. QED
      BY <3>5, <3>6
  <2>2. CASE ~(batch + BatchSticks < StickCount)
    <3>1. batch' = 0 /\ BatchSticks' * 0 = 0
      BY <1>3, <1>4, <2>2 DEF Release
    <3>2. \E m \in Nat : batch' = BatchSticks' * m
      BY <3>1
    <3>3. pass' \in 0 .. Passes' - 1
      <4>1. CASE pass + 1 < Passes
        <5>1. pass' = pass + 1 /\ item' = item
          BY <2>2, <4>1 DEF Release
        <5>2. Passes' = Passes
          BY <1>2, <5>1, SameItem
        <5>3. QED
          BY <1>3, <4>1, <5>1, <5>2
      <4>2. CASE ~(pass + 1 < Passes)
        <5>1. pass' = 0
          BY <2>2, <4>2 DEF Release
        <5>2. \A p \in Nat \ {0} : 0 \in 0 .. p - 1
          OBVIOUS
        <5>3. QED
          BY <1>6, <5>1, <5>2, Zenon
      <4>3. QED
        BY <4>1, <4>2
    <3>4. \A p \in Nat \ {0} : 0 \in 0 .. p - 1
      OBVIOUS
    <3>5. batch' \in 0 .. StickCount' - 1
      BY <1>6, <3>1, <3>4, Zenon
    <3>6. QED
      BY <3>2, <3>3, <3>5
  <2>3. QED
    BY <2>1, <2>2
<1>8. LastBatch => item' = Len(job'.items)
  <2>1. SUFFICES ASSUME LastBatch PROVE item' = Len(job'.items)
    OBVIOUS
  <2>2. ~(batch + BatchSticks < StickCount) /\ ~(pass + 1 < Passes)
    BY <1>3, <2>1 DEF LastBatch
  <2>3. item' = item
    BY <1>3, <2>1, <2>2 DEF LastBatch, Release
  <2>4. QED
    BY <1>2, <2>1, <2>3 DEF LastBatch
<1>9. PlaceOK'
  BY <1>2, <1>7, <1>8 DEF PlaceOK
<1>10. DOMAIN buffer' = {"write", "read", "held"}
  <2>1. DOMAIN buffer' = DOMAIN buffer
    BY <1>2 DEF Cycled, Push, Pop
  <2>2. QED
    BY <1>1, <2>1 DEF BufferOK
<1>11. phase' # "done" => buffer'.write = 0
  <2>1. SUFFICES ASSUME phase' # "done" PROVE buffer'.write = 0
    OBVIOUS
  <2>2. BatchCount = BatchSticks
    BY <1>1, <1>2, <2>1, WholeBatch
  <2>3. buffer.write = 0 /\ DOMAIN buffer = {"write", "read", "held"}
    BY <1>1, <1>2 DEF BufferOK
  <2>4. Push(buffer, BatchSticks, BatchSticks).write = 0
    BY <1>3, <2>3 DEF Push, Onward
  <2>5. buffer'.write = 0
    BY <1>2, <2>2, <2>3, <2>4 DEF Cycled, Push, Pop
  <2>6. QED
    BY <2>5
<1>12. BufferOK'
  BY <1>1, <1>2, <1>4, <1>10, <1>11 DEF BufferOK
<1>13. QED
  BY <1>5, <1>9, <1>12 DEF BInv

LEMMA BStep ==
  ASSUME BInv, WholeBatches, [Next]_vars
  PROVE  BInv'
<1>1. CASE Reserve
  BY <1>1, BReserve
<1>2. CASE Stage
  BY <1>2, BStage
<1>3. CASE Land
  BY <1>3, BSame DEF Land
<1>4. CASE Release
  BY <1>4, BRelease
<1>5. CASE UNCHANGED vars
  BY <1>5, BSame DEF vars
<1>6. QED
  BY <1>1, <1>2, <1>3, <1>4, <1>5 DEF Next

(***************************************************************************)
(* Staging stays in the buffer, for any stick, batch and signal, as long   *)
(* as only the last batch of a job is partial: then every batch before it  *)
(* brings the raw pointer back to the origin.                              *)
(***************************************************************************)
THEOREM StagedInBuffer == WholeBatches => (Spec => []StagingInBounds)
<1> SUFFICES ASSUME WholeBatches
             PROVE  Spec => []StagingInBounds
  OBVIOUS
<1>1. Init => BInv
  BY BInit
<1>2. BInv /\ [Next]_vars => BInv'
  BY BStep
<1>3. BInv => StagingInBounds
  BY DEF BInv, BufferOK, StagingInBounds
<1>4. QED
  BY <1>1, <1>2, <1>3, PTL DEF Spec

(***************************************************************************)
(* What a stick of a signal is to hold.                                    *)
(***************************************************************************)
StickOf(length, sample, stick) ==
  [l \in 0 .. StickWidth - 1 |->
     IF stick * StickWidth + l < length THEN Signal(sample, stick * StickWidth + l) ELSE 0]

LEMMA StreamsOfItem ==
  ASSUME JobOK
  PROVE  /\ \A s \in {"even", "odd"} : Item.streamBegin[s] \in Nat /\ Item.offset[s] \in Nat
         /\ Item.streamBegin["even"] = (job.leftPad + Item.begin + 1) \div 2
         /\ Item.streamBegin["odd"] = (job.leftPad + Item.begin) \div 2
         /\ job.leftPad \in Nat /\ Item.begin \in Nat /\ Item.length \in Nat \ {0}
<1>1. ItemAssumed(job, Item) /\ job.leftPad \in Nat
  BY JobIsAssumed
<1>2. /\ Item.begin \in Nat /\ Item.length \in Nat \ {0}
      /\ Item.streamBegin["even"] = (job.leftPad + Item.begin + 1) \div 2
      /\ Item.streamBegin["odd"] = (job.leftPad + Item.begin) \div 2
      /\ Item.offset["even"] \in Nat /\ Item.offset["odd"] \in Nat
  BY <1>1 DEF ItemAssumed
<1>3. Item.streamBegin["even"] \in Nat /\ Item.streamBegin["odd"] \in Nat
  BY <1>1, <1>2
<1>4. QED
  BY <1>1, <1>2, <1>3

\* An element of a page of the last route is the one of its group.
LEMMA DirectElement ==
  ASSUME JobOK, pass = 0, NEW s \in {"even", "odd"}, NEW g \in 0 .. GroupElements - 1
  PROVE  ReadDirect(s, g) = StreamAt(s, Item.streamBegin[s] + g)
<1> DEFINE B == BlockElements
           R == RowElements
           r == g \div R
           v == g % R
           b == v \div B
           l == v % B
           e == r * B + l
           sb == Item.streamBegin[s]
<1>1. sb \in Int /\ GroupElements \in Nat \ {0}
  BY StreamsOfItem, GroupSizes
<1>2. g = R * r + v /\ r \in Nat /\ v \in 0 .. R - 1
  <2>1. R \in Nat \ {0} /\ g \in Int /\ g \in Nat
    BY LayoutSizes, <1>1
  <2> HIDE DEF R
  <2>2. QED
    BY ONLY <2>1, Divided
<1>3. v = B * b + l /\ b \in Nat /\ l \in 0 .. B - 1
  <2>1. B \in Nat \ {0} /\ v \in Int /\ v \in Nat
    BY LayoutSizes, <1>2
  <2> HIDE DEF B, v
  <2>2. QED
    BY ONLY <2>1, Divided
<1>4. e \div B = r /\ e % B = l
  <2>1. e = B * r + l /\ e \in Int /\ r \in Int /\ B \in Nat \ {0}
    <3>1. B \in Nat \ {0} /\ r \in Int /\ l \in Int
      BY <1>2, <1>3, LayoutSizes
    <3> HIDE DEF B, r, l
    <3>2. r * B = B * r /\ B * r \in Int
      BY <3>1, SMT
    <3>3. QED
      BY <3>1, <3>2
  <2> HIDE DEF B, r, l, e
  <2>2. QED
    BY ONLY <1>3, <2>1, Quotient
<1>5. ReadDirect(s, g) = TileAt(s, b, e)
  BY DEF ReadDirect
<1>6. TileAt(s, b, e) = StreamAt(s, sb + 0 * GroupElements + r * R + b * B + l)
  <2> HIDE DEF b, e, r, l
  <2>1. TileAt(s, b, e) = StreamAt(s, sb + pass * GroupElements + (e \div B) * R + b * B + (e % B))
    BY DEF TileAt
  <2>2. QED
    BY <1>4, <2>1
<1>7. sb + 0 * GroupElements + r * R + b * B + l = sb + g
  <2>1. B \in Int /\ R \in Int /\ r \in Int /\ b \in Int /\ l \in Int /\ g \in Int
    BY <1>1, <1>2, <1>3, LayoutSizes
  <2> HIDE DEF sb, r, R, b, B, l, v
  <2>2. r * R = R * r /\ b * B = B * b /\ R * r \in Int /\ B * b \in Int
        /\ 0 * GroupElements = 0
    BY <1>1, <2>1, SMT
  <2>3. QED
    BY <1>1, <1>2, <1>3, <2>1, <2>2
<1>8. QED
  BY <1>5, <1>6, <1>7

\* The element of a stream that is at a place of its slot is the only one.
LEMMA SlotElement ==
  ASSUME JobOK, NEW s \in {"even", "odd"}, job.direct # s, NEW i \in Nat,
         i >= Item.streamBegin[s],
         i \in Item.begin \div 2 .. Item.begin + Item.length + job.leftPad
  PROVE  FromSlot(s, i) = StreamAt(s, i)
<1> DEFINE sb == Item.streamBegin[s]
           o == Item.offset[s]
           t == job.tileNative
           p == PhysicalIndex(t, o + i - sb)
           R == Item.begin \div 2 .. Item.begin + Item.length + job.leftPad
           held == {x \in R : x >= sb /\ p = PhysicalIndex(t, o + x - sb)}
<1>1. sb \in Nat /\ o \in Nat /\ t \in BOOLEAN /\ R \subseteq Int
  <2>1. sb \in Nat /\ o \in Nat
    BY StreamsOfItem
  <2>2. R \subseteq Int
    OBVIOUS
  <2>3. t \in BOOLEAN
    BY JobIsAssumed
  <2>4. QED
    BY <2>1, <2>2, <2>3, Zenon
<1>2. held = {i}
  <2>1. i \in held
    OBVIOUS
  <2>2. ASSUME NEW x \in held PROVE x = i
    <3>1. x \in Int /\ x >= sb /\ p = PhysicalIndex(t, o + x - sb)
      BY <1>1
    <3> HIDE DEF sb, o, t, R, held
    <3>2. o + x - sb \in Nat /\ o + i - sb \in Nat
      BY <1>1, <3>1 DEF sb
    <3>3. o + x - sb = o + i - sb
      BY <1>1, <3>1, <3>2, PlacesDiffer
    <3>4. QED
      BY <1>1, <3>1, <3>3
  <2> HIDE DEF held
  <2>3. QED
    BY <2>1, <2>2
<1>3. SlotAt(s, p) = IF held = {} \/ job.direct = s THEN Junk
                     ELSE StreamAt(s, CHOOSE x \in held : TRUE)
  BY DEF SlotAt
<1> HIDE DEF held
<1>4. SlotAt(s, p) = StreamAt(s, i)
  <2>1. (CHOOSE x \in held : TRUE) = i
    BY <1>2
  <2>2. held # {}
    BY <1>2
  <2>3. QED
    BY <1>3, <2>1, <2>2
<1>5. QED
  BY <1>4 DEF FromSlot

(***************************************************************************)
(* The value of an element of a chunk is the sample it stands for, from    *)
(* whichever stream and place it is taken.                                 *)
(***************************************************************************)
LEMMA LaneIsSample ==
  ASSUME JobOK, OneGroupDirect, pass = 0,
         NEW i \in Item.begin .. Item.begin + Item.length - 1
  PROVE  SplitValue(job.leftPad + i) = Signal(Item.sample, i)
<1> DEFINE x == job.leftPad + i
           s == IF x % 2 = 0 THEN "even" ELSE "odd"
           h == x \div 2
           b == Item.begin
           n == Item.length
           sb == Item.streamBegin[s]
           G == GroupElements
           pad == job.leftPad
<1>1. /\ b \in Nat /\ n \in Nat \ {0} /\ pad \in Nat /\ i \in Nat /\ G \in Nat
      /\ i >= b /\ i <= b + n - 1 /\ s \in {"even", "odd"}
      /\ x = pad + i
  BY JobIsAssumed, GroupSizes DEF ItemAssumed
<1>2. (s = "even" => sb = (pad + b + 1) \div 2) /\ (s = "odd" => sb = (pad + b) \div 2)
  BY JobIsAssumed DEF ItemAssumed
<1>3. s = "even" => x = 2 * h
  <2>1. s = "even" => x % 2 = 0
    OBVIOUS
  <2>2. QED
    BY <1>1, <2>1
<1>4. s = "odd" => x = 2 * h + 1
  <2>1. s = "odd" => x % 2 # 0
    OBVIOUS
  <2>2. x \in Nat
    BY <1>1
  <2> HIDE DEF x, s
  <2>3. x % 2 # 0 => x = 2 * (x \div 2) + 1
    BY <2>2
  <2>4. QED
    BY <2>1, <2>3
<1> HIDE DEF x, h, s, b, n, sb, G, pad
<1>5. /\ sb \in Nat /\ h \in Nat /\ h >= sb
      /\ h \in b \div 2 .. b + n + pad
  <2>1. x \in Nat
    BY <1>1
  <2>2. h \in Int
    BY <2>1 DEF h
  <2>3. CASE s = "even"
    BY <1>1, <1>2, <1>3, <2>2, <2>3
  <2>4. CASE s = "odd"
    BY <1>1, <1>2, <1>4, <2>2, <2>4
  <2>5. QED
    BY <1>1, <2>3, <2>4
<1>6. StreamAt(s, h) = Signal(Item.sample, i)
  <2>1. CASE s = "even"
    <3>1. 2 * h + 0 - pad = i
      BY <1>1, <1>3, <1>5, <2>1
    <3>2. QED
      BY <2>1, <3>1 DEF StreamAt, pad
  <2>2. CASE s = "odd"
    <3>1. 2 * h + 1 - pad = i
      BY <1>1, <1>4, <1>5, <2>2
    <3>2. s # "even"
      BY <2>2
    <3>3. QED
      BY <3>1, <3>2 DEF StreamAt, pad
  <2>3. QED
    BY <1>1, <2>1, <2>2
<1>7. SplitValue(x) = IF s = job.direct /\ h - sb - pass * G \in 0 .. G - 1
                      THEN ReadDirect(s, h - sb - pass * G) ELSE FromSlot(s, h)
  BY DEF SplitValue, s, h, sb, G
<1>8. h - sb - pass * G = h - sb
  <2>1. 0 * G = 0
    BY <1>1
  <2>2. QED
    BY <1>5, <2>1
<1>9. CASE s = job.direct
  <2>1. n <= 2 * G
    <3>1. job.direct # "no"
      BY <1>1, <1>9
    <3>2. Item.length <= SignalGroup
      BY <3>1 DEF OneGroupDirect, JobOK, Item
    <3>3. QED
      BY <3>2, GroupSizes DEF n, G
  <2>2. h - sb \in 0 .. G - 1
    <3>1. CASE s = "even"
      BY <1>1, <1>2, <1>3, <1>5, <2>1, <3>1
    <3>2. CASE s = "odd"
      BY <1>1, <1>2, <1>4, <1>5, <2>1, <3>2
    <3>3. QED
      BY <1>1, <3>1, <3>2
  <2>3. SplitValue(x) = ReadDirect(s, h - sb)
    BY <1>7, <1>8, <1>9, <2>2
  <2>4. ReadDirect(s, h - sb) = StreamAt(s, sb + (h - sb))
    <3> DEFINE g == h - sb
    <3>1. g \in 0 .. GroupElements - 1
      BY <2>2 DEF G
    <3> HIDE DEF g
    <3>2. ReadDirect(s, g) = StreamAt(s, sb + g)
      BY <1>1, <3>1, DirectElement DEF sb
    <3>3. QED
      BY <3>2 DEF g
  <2>5. sb + (h - sb) = h
    BY <1>5
  <2>6. QED
    BY <1>6, <2>3, <2>4, <2>5 DEF x
<1>10. CASE s # job.direct
  <2>1. SplitValue(x) = FromSlot(s, h)
    BY <1>7, <1>10
  <2>2. h >= Item.streamBegin[s]
        /\ h \in Item.begin \div 2 .. Item.begin + Item.length + job.leftPad
    BY <1>5 DEF b, n, pad, sb
  <2>3. FromSlot(s, h) = StreamAt(s, h)
    BY <1>1, <1>5, <1>10, <2>2, SlotElement
  <2>4. QED
    BY <1>6, <2>1, <2>3 DEF x
<1>11. QED
  BY <1>9, <1>10

(***************************************************************************)
(* A staged stick is the stick of the signal: past the end of a chunk that *)
(* is not the last there is no lane, past the end of the last the signal   *)
(* ends.                                                                   *)
(***************************************************************************)
LEMMA StagedIsStick ==
  ASSUME JobOK, OneGroupDirect, pass = 0, NEW n \in 0 .. StickCount - 1
  PROVE  Staging(FirstStick + n) = StickOf(job.length, Item.sample, FirstStick + n)
<1> DEFINE W == StickWidth
           f == FirstStick
           c == StickCount
           k == f + n
           b == Item.begin
           len == Item.length
           last == b + len
<1>1. /\ W \in Nat \ {0} /\ f \in Nat /\ c \in Nat \ {0} /\ b = W * f /\ n \in Nat
      /\ b \in Nat /\ len \in Nat \ {0} /\ last <= job.length /\ job.length \in Nat
      /\ n <= c - 1
  BY CountsOfCurrent, JobIsAssumed DEF ItemAssumed
<1>2. last = job.length \/ W * c = len
  <2>1. ItemAssumed(job, Item) /\ W \in Nat \ {0}
    BY JobIsAssumed
  <2>2. Item.length % W = 0 => W * StickCount = Item.length
    BY <2>1, SticksOfItem DEF StickCount
  <2>3. QED
    BY <2>1, <2>2 DEF ItemAssumed
<1>3. ASSUME NEW l \in 0 .. W - 1
      PROVE  LaneValue(k * W + l)
               = IF k * W + l < job.length THEN Signal(Item.sample, k * W + l) ELSE 0
  <2> DEFINE i == k * W + l
  <2>1. i \in Nat /\ i >= b /\ (W * c = len => i < last)
    <3> HIDE DEF W, f, c, b, len
    <3>1. k * W = W * f + W * n /\ W * f \in Nat /\ W * n \in Nat
      BY <1>1, SMT
    <3>2. W * n <= W * (c - 1) /\ W * (c - 1) = W * c - W /\ W * c \in Int
      BY <1>1, SMT
    <3>3. QED
      BY <1>1, <3>1, <3>2
  <2>0. Item.begin .. Item.begin + Item.length - 1 = b .. last - 1
    <3>1. Item.begin + Item.length - 1 = last - 1
      BY <1>1
    <3>2. QED
      BY <3>1
  <2>2. CASE i \in b .. last - 1
    <3>1. i \in Item.begin .. Item.begin + Item.length - 1
      BY <2>0, <2>2
    <3> HIDE DEF i
    <3>2. SplitValue(job.leftPad + i) = Signal(Item.sample, i)
      BY <3>1, LaneIsSample
    <3>3. LaneValue(i) = Signal(Item.sample, i)
      BY <3>1, <3>2 DEF LaneValue
    <3>4. i < job.length
      BY <1>1, <2>1, <2>2
    <3>5. QED
      BY <3>3, <3>4 DEF i
  <2>3. CASE i \notin b .. last - 1
    <3>1. LaneValue(i) = 0
      <4>1. i \notin Item.begin .. Item.begin + Item.length - 1
        BY <2>0, <2>3
      <4> HIDE DEF i
      <4>2. QED
        BY <4>1 DEF LaneValue
    <3> HIDE DEF i, b, len, c, W
    <3>2. i >= last
      BY <1>1, <2>1, <2>3
    <3>3. i >= job.length
      BY <1>1, <1>2, <2>1, <3>2
    <3>4. ~(i < job.length)
      BY <1>1, <2>1, <3>3
    <3>5. QED
      BY <3>1, <3>4 DEF i, W
  <2>4. QED
    BY <2>2, <2>3
<1>4. QED
  BY <1>3 DEF Staging, StickOf

(***************************************************************************)
(* The sticks that are written or on their way, and what they hold.        *)
(***************************************************************************)
\* Sticks of item n.
SticksOf(n) ==
  LET it == job.items[n]
  IN {<<it.sample, s>> : s \in it.begin \div StickWidth ..
                               (it.begin + it.length - 1) \div StickWidth}

\* Sticks of the item at hand that have been staged.
Reached ==
  IF phase = "done" THEN StickCount
  ELSE IF phase = "reserve" THEN batch ELSE batch + staged

Sent(k) == k \in DOMAIN dram \/ \E w \in flight : k = w.to

Owed(k) ==
  \/ \E n \in 1 .. item - 1 : k \in SticksOf(n)
  \/ \E n \in 0 .. Reached - 1 : k = <<Item.sample, FirstStick + n>>

FlightOK ==
  /\ phase \in {"reserve", "done"} => flight = {}
  /\ \A w \in flight :
       /\ w.from \in 0 .. staged - 1
       /\ page[w.from] = StickOf(job.length, w.to[1], w.to[2])

DramOK ==
  /\ \A k \in DOMAIN dram : dram[k] = StickOf(job.length, k[1], k[2])
  /\ \A k : Sent(k) <=> Owed(k)

WInv == BInv /\ FlightOK /\ DramOK

\* All the sticks of an item.
LEMMA SticksOfCurrent ==
  ASSUME JobOK, NEW k
  PROVE  k \in SticksOf(item)
           <=> \E n \in 0 .. StickCount - 1 : k = <<Item.sample, FirstStick + n>>
<1> DEFINE f == FirstStick
           c == StickCount
<1>1. /\ f \in Nat /\ c \in Nat \ {0}
      /\ (Item.begin + Item.length - 1) \div StickWidth = f + c - 1
  BY CountsOfCurrent
<1>2. SticksOf(item) = {<<Item.sample, s>> : s \in f .. f + c - 1}
  BY <1>1 DEF SticksOf, Item, FirstStick
<1> HIDE DEF f, c
<1>3. ASSUME NEW s \in f .. f + c - 1
      PROVE  \E n \in 0 .. c - 1 : s = f + n
  <2>1. s - f \in 0 .. c - 1 /\ s = f + (s - f)
    BY <1>1
  <2>2. QED
    BY <2>1
<1>4. ASSUME NEW n \in 0 .. c - 1
      PROVE  f + n \in f .. f + c - 1
  BY <1>1
<1>5. QED
  BY <1>2, <1>3, <1>4 DEF f, c

\* With one pass an item is finished by its last batch.
LEMMA OnePass ==
  ASSUME JobOK, PlaceOK, OneGroupDirect
  PROVE  Passes = 1 /\ pass = 0
<1>1. job.direct = "no" \/ Item.length <= SignalGroup
  BY DEF OneGroupDirect, JobOK, Item
<1>2. Passes = 1
  BY <1>1, CountsOfCurrent
<1>3. QED
  BY <1>2 DEF PlaceOK

LEMMA WInit ==
  ASSUME Init
  PROVE  WInv
<1>1. BInv
  BY BInit
<1>2. phase = "reserve" /\ batch = 0 /\ item = 1 /\ flight = {} /\ dram = <<>>
  BY DEF Init
<1>3. FlightOK
  BY <1>2 DEF FlightOK
<1>4. DOMAIN dram = {}
  BY <1>2
<1>5. \A k : ~Sent(k) /\ ~Owed(k)
  BY <1>2, <1>4 DEF Sent, Owed, Reached
<1>6. QED
  BY <1>1, <1>3, <1>4, <1>5 DEF WInv, DramOK

LEMMA WReserve ==
  ASSUME WInv, WholeBatches, Reserve
  PROVE  WInv'
<1>1. BInv' /\ JobOK
  BY BReserve DEF WInv, BInv
<1>2. /\ job' = job /\ item' = item /\ batch' = batch /\ page' = page /\ flight' = flight
      /\ dram' = dram /\ staged' = 0 /\ phase = "reserve" /\ phase' = "stage"
      /\ flight = {} /\ batch \in Nat
  BY <1>1, BatchBounds DEF Reserve, WInv, FlightOK, BInv
<1>3. Item' = Item /\ FirstStick' = FirstStick
  BY <1>2, SameItem
<1>4. FlightOK'
  BY <1>2 DEF FlightOK
<1>5. Reached' = Reached
  BY <1>2 DEF Reached
<1>6. DramOK'
  BY <1>2, <1>3, <1>5 DEF WInv, DramOK, Sent, Owed, SticksOf
<1>7. QED
  BY <1>1, <1>4, <1>6 DEF WInv

LEMMA WStage ==
  ASSUME WInv, WholeBatches, OneGroupDirect, Stage
  PROVE  WInv'
<1> DEFINE at == buffer.write + staged
           stick == FirstStick + batch + staged
           new == [from |-> at, to |-> <<Item.sample, stick>>]
<1>1. BInv' /\ JobOK /\ PlaceOK /\ at = staged /\ staged \in Nat
  BY BStage DEF WInv, BInv
<1>2. /\ job' = job /\ item' = item /\ batch' = batch /\ dram' = dram
      /\ phase = "stage" /\ phase' \in {"stage", "barrier"} /\ staged' = staged + 1
      /\ page' = [p \in DOMAIN page \union {at} |->
                    IF p = at THEN Staging(stick) ELSE page[p]]
      /\ flight' = flight \union {new}
  BY DEF Stage
<1>3. Item' = Item /\ FirstStick' = FirstStick /\ StickCount' = StickCount
  BY <1>2, SameItem
<1>4. /\ batch \in Nat /\ staged \in 0 .. BatchCount - 1 /\ BatchCount \in Nat
      /\ batch + BatchCount <= StickCount /\ StickCount \in Nat /\ FirstStick \in Nat
  BY <1>1, <1>2, BatchBounds, CountsOfCurrent DEF PlaceOK
<1>5. batch + staged \in 0 .. StickCount - 1 /\ stick = FirstStick + (batch + staged)
  BY <1>4
<1>6. Staging(stick) = StickOf(job.length, Item.sample, stick)
  <2>1. pass = 0
    BY <1>1, OnePass
  <2> DEFINE n == batch + staged
  <2>2. n \in 0 .. StickCount - 1 /\ stick = FirstStick + n
    BY <1>5
  <2> HIDE DEF n, stick
  <2>3. Staging(FirstStick + n) = StickOf(job.length, Item.sample, FirstStick + n)
    BY <1>1, <2>1, <2>2, StagedIsStick
  <2>4. QED
    BY <2>2, <2>3
<1> HIDE DEF at, stick
<1>7. FlightOK'
  <2>1. ASSUME NEW w \in flight'
        PROVE  /\ w.from \in 0 .. staged' - 1
               /\ page'[w.from] = StickOf(job.length, w.to[1], w.to[2])
    <3>1. CASE w \in flight
      <4>1. /\ w.from \in 0 .. staged - 1
            /\ page[w.from] = StickOf(job.length, w.to[1], w.to[2])
        BY <3>1 DEF WInv, FlightOK
      <4>2. w.from \in DOMAIN page
        <5>1. BatchCount <= BatchSticks /\ BatchSticks \in Nat
          BY <1>1, BatchBounds, CountsOfCurrent
        <5>2. QED
          BY <1>4, <4>1, <5>1 DEF WInv, BInv, BufferOK
      <4>3. w.from # at
        BY <1>1, <4>1
      <4>4. page'[w.from] = page[w.from]
        BY <1>2, <4>2, <4>3
      <4>5. QED
        BY <1>1, <1>2, <4>1, <4>4
    <3>2. CASE w = new
      <4>1. w.from = at /\ w.to[1] = Item.sample /\ w.to[2] = stick
        BY <3>2
      <4>2. page'[at] = Staging(stick)
        BY <1>2
      <4>3. QED
        BY <1>1, <1>2, <1>6, <4>1, <4>2
    <3>3. QED
      BY <1>2, <2>1, <3>1, <3>2
  <2>2. QED
    BY <1>2, <2>1 DEF FlightOK
<1>8. DramOK'
  <2>1. \A k : Sent(k)' <=> (Sent(k) \/ k = <<Item.sample, stick>>)
    <3>1. new.to = <<Item.sample, stick>>
      OBVIOUS
    <3> HIDE DEF new
    <3>2. QED
      BY <1>2, <3>1 DEF Sent
  <2>2. Reached = batch + staged /\ Reached' = batch + staged + 1
    <3>1. Reached = batch + staged
      BY <1>2 DEF Reached
    <3>2. Reached' = batch + (staged + 1)
      BY <1>2 DEF Reached
    <3>3. QED
      BY <1>4, <3>1, <3>2
  <2>3. \A k : Owed(k)' <=> (Owed(k) \/ k = <<Item.sample, stick>>)
    <3> DEFINE m == batch + staged
               Before(k) == \E n \in 1 .. item - 1 : k \in SticksOf(n)
    <3>1. m \in Nat /\ stick = FirstStick + m /\ batch + staged + 1 = m + 1
      BY <1>4, <1>5
    <3>2. \A k : Owed(k) <=> (Before(k) \/ \E n \in 0 .. m - 1 : k = <<Item.sample, FirstStick + n>>)
      BY <2>2 DEF Owed
    <3>3. \A k : Owed(k)' <=> (Before(k) \/ \E n \in 0 .. m : k = <<Item.sample, FirstStick + n>>)
      <4>1. Reached' - 1 = m
        BY <2>2, <3>1
      <4>2. QED
        BY <1>2, <1>3, <4>1 DEF Owed, SticksOf
    <3> HIDE DEF m, Before
    <3>4. 0 .. m = (0 .. m - 1) \union {m}
      BY <3>1
    <3>5. QED
      BY <3>1, <3>2, <3>3, <3>4
  <2>4. QED
    BY <1>2, <2>1, <2>3 DEF WInv, DramOK
<1>9. QED
  BY <1>1, <1>7, <1>8 DEF WInv

LEMMA WLand ==
  ASSUME WInv, Land
  PROVE  WInv'
<1>1. PICK w \in flight :
        /\ flight' = flight \ {w}
        /\ dram' = [k \in DOMAIN dram \union {w.to} |->
                      IF k = w.to THEN page[w.from] ELSE dram[k]]
  BY DEF Land
<1>2. UNCHANGED <<job, item, pass, batch, phase, staged, buffer, page>>
  BY DEF Land
<1>3. BInv'
  BY <1>2, BSame DEF WInv
<1>4. /\ Item' = Item /\ FirstStick' = FirstStick /\ StickCount' = StickCount
      /\ Reached' = Reached
  BY <1>2, SameItem DEF Reached
<1>5. FlightOK'
  BY <1>1, <1>2 DEF WInv, FlightOK
<1>6. \A k \in DOMAIN dram' : dram'[k] = StickOf(job.length, k[1], k[2])
  <2>1. page[w.from] = StickOf(job.length, w.to[1], w.to[2])
    BY DEF WInv, FlightOK
  <2>2. \A k \in DOMAIN dram : dram[k] = StickOf(job.length, k[1], k[2])
    BY DEF WInv, DramOK
  <2>3. TAKE k \in DOMAIN dram'
  <2>4. dram'[k] = IF k = w.to THEN page[w.from] ELSE dram[k]
    BY <1>1
  <2>5. QED
    BY <1>1, <2>1, <2>2, <2>4
<1>7. \A k : Sent(k)' <=> Sent(k)
  <2>1. DOMAIN dram' = DOMAIN dram \union {w.to}
    BY <1>1
  <2>2. QED
    BY <1>1, <2>1 DEF Sent
<1>8. \A k : Owed(k)' <=> Owed(k)
  BY <1>2, <1>4 DEF Owed, SticksOf
<1>9. DramOK'
  BY <1>2, <1>6, <1>7, <1>8 DEF WInv, DramOK
<1>10. QED
  BY <1>3, <1>5, <1>9 DEF WInv

LEMMA WRelease ==
  ASSUME WInv, WholeBatches, OneGroupDirect, Release
  PROVE  WInv'
<1>1. BInv' /\ JobOK /\ PlaceOK
  BY BRelease DEF WInv, BInv
<1>2. /\ job' = job /\ staged' = staged /\ page' = page /\ flight' = flight /\ dram' = dram
      /\ flight = {} /\ phase = "barrier"
      /\ phase' = IF LastBatch THEN "done" ELSE "reserve"
  BY DEF Release, LastBatch, Landed
<1>3. /\ StickCount \in Nat \ {0} /\ BatchSticks \in Nat \ {0} /\ BatchCount \in Nat
      /\ batch \in Nat /\ Passes = 1 /\ pass = 0 /\ staged = BatchCount
      /\ (batch + BatchSticks < StickCount => BatchCount = BatchSticks)
      /\ (batch + BatchSticks >= StickCount => batch + BatchCount = StickCount)
      /\ item \in 1 .. Len(job.items) /\ item \in Nat /\ Len(job.items) \in Nat
  BY <1>1, <1>2, OnePass, CountsOfCurrent, BatchBounds, JobIsAssumed DEF PlaceOK, JobOK
<1>4. FlightOK'
  BY <1>2 DEF FlightOK
<1>5. Reached = batch + BatchCount
  BY <1>2, <1>3 DEF Reached
<1>6. \A k : Owed(k)' <=> Owed(k)
  <2>1. CASE batch + BatchSticks < StickCount
    <3>1. ~LastBatch /\ batch' = batch + BatchSticks /\ item' = item
      BY <1>3, <2>1 DEF LastBatch, Release
    <3>2. Reached' = Reached
      BY <1>2, <1>3, <1>5, <2>1, <3>1 DEF Reached
    <3>3. Item' = Item /\ FirstStick' = FirstStick
      BY <1>2, <3>1, SameItem
    <3>4. QED
      BY <1>2, <3>1, <3>2, <3>3 DEF Owed, SticksOf
  <2>2. CASE batch + BatchSticks >= StickCount /\ item = Len(job.items)
    <3>1. LastBatch /\ item' = item
      <4>1. ~(batch + BatchSticks < StickCount) /\ ~(pass + 1 < Passes) /\ pass + 1 = Passes
        BY <1>3, <2>2
      <4>2. QED
        BY <1>3, <2>2, <4>1 DEF LastBatch, Release
    <3>2. /\ Item' = Item /\ FirstStick' = FirstStick /\ StickCount' = StickCount
      BY <1>2, <3>1, SameItem
    <3>3. Reached' = Reached
      BY <1>2, <1>3, <1>5, <2>2, <3>1, <3>2 DEF Reached
    <3>4. QED
      BY <1>2, <3>1, <3>2, <3>3 DEF Owed, SticksOf
  <2>3. CASE batch + BatchSticks >= StickCount /\ item < Len(job.items)
    <3>1. ~LastBatch /\ batch' = 0 /\ item' = item + 1
      <4>1. ~(batch + BatchSticks < StickCount) /\ ~(pass + 1 < Passes) /\ item # Len(job.items)
        BY <1>3, <2>3
      <4>2. QED
        BY <1>3, <2>3, <4>1 DEF LastBatch, Release
    <3>2. Reached = StickCount /\ Reached' = 0
      BY <1>2, <1>3, <1>5, <2>3, <3>1 DEF Reached
    <3> DEFINE Before(k) == \E n \in 1 .. item - 1 : k \in SticksOf(n)
    <3>3. \A k : Owed(k) <=> (Before(k) \/ k \in SticksOf(item))
      <4>1. TAKE k
      <4>2. Owed(k) <=> \/ Before(k)
                        \/ \E n \in 0 .. StickCount - 1 : k = <<Item.sample, FirstStick + n>>
        BY <3>2 DEF Owed
      <4>3. QED
        BY <1>1, <4>2, SticksOfCurrent
    <3>4. \A k : Owed(k)' <=> \E n \in 1 .. item : k \in SticksOf(n)
      <4>1. item' - 1 = item /\ 0 .. Reached' - 1 = {}
        BY <1>3, <3>1, <3>2
      <4>2. \A n : SticksOf(n)' = SticksOf(n)
        BY <1>2 DEF SticksOf
      <4>3. QED
        BY <4>1, <4>2 DEF Owed
    <3>5. 1 .. item = (1 .. item - 1) \union {item}
      BY <1>3
    <3>6. QED
      BY <3>3, <3>4, <3>5
  <2>4. QED
    BY <1>3, <2>1, <2>2, <2>3
<1>7. DramOK'
  BY <1>2, <1>6 DEF WInv, DramOK, Sent
<1>8. QED
  BY <1>1, <1>4, <1>7 DEF WInv

LEMMA WStep ==
  ASSUME WInv, WholeBatches, OneGroupDirect, [Next]_vars
  PROVE  WInv'
<1>1. CASE Reserve
  BY <1>1, WReserve
<1>2. CASE Stage
  BY <1>2, WStage
<1>3. CASE Land
  BY <1>3, WLand
<1>4. CASE Release
  BY <1>4, WRelease
<1>5. CASE UNCHANGED vars
  <2>1. /\ UNCHANGED <<job, item, pass, batch, phase, staged, buffer, page>>
        /\ flight' = flight /\ dram' = dram
    BY <1>5 DEF vars
  <2>2. BInv'
    BY <2>1, BSame DEF WInv
  <2>3. Item' = Item /\ FirstStick' = FirstStick /\ Reached' = Reached
    BY <2>1, SameItem DEF Reached
  <2>4. FlightOK' /\ DramOK'
    BY <2>1, <2>3 DEF WInv, FlightOK, DramOK, Sent, Owed, SticksOf
  <2>5. QED
    BY <2>2, <2>4 DEF WInv
<1>6. QED
  BY <1>1, <1>2, <1>3, <1>4, <1>5 DEF Next

LEMMA WReconstructed ==
  ASSUME WInv
  PROVE  Reconstructed
<1>1. ASSUME NEW k \in DOMAIN dram, NEW l \in 0 .. StickWidth - 1
      PROVE  dram[k][l] = IF k[2] * StickWidth + l < job.length
                          THEN Signal(k[1], k[2] * StickWidth + l) ELSE 0
  <2>1. dram[k] = StickOf(job.length, k[1], k[2])
    BY DEF WInv, DramOK
  <2>2. QED
    BY <2>1 DEF StickOf
<1>2. ASSUME phase = "done"
      PROVE  DOMAIN dram =
               UNION {{<<it.sample, s>> : s \in it.begin \div StickWidth ..
                                            (it.begin + it.length - 1) \div StickWidth} :
                      it \in {job.items[n] : n \in 1 .. Len(job.items)}}
  <2>1. /\ JobOK /\ item = Len(job.items) /\ flight = {} /\ Reached = StickCount
        /\ item \in Nat \ {0}
    BY <1>2, JobIsAssumed DEF WInv, BInv, PlaceOK, FlightOK, Reached
  <2>2. \A k : k \in DOMAIN dram <=> Owed(k)
    BY <2>1 DEF WInv, DramOK, Sent
  <2>3. \A k : Owed(k) <=> \E n \in 1 .. Len(job.items) : k \in SticksOf(n)
    <3>1. TAKE k
    <3>2. Owed(k) <=> (\E n \in 1 .. item - 1 : k \in SticksOf(n)) \/ k \in SticksOf(item)
      BY <2>1, SticksOfCurrent DEF Owed
    <3>3. 1 .. Len(job.items) = (1 .. item - 1) \union {item}
      BY <2>1
    <3>4. QED
      BY <3>2, <3>3
  <2>4. DOMAIN dram = UNION {SticksOf(n) : n \in 1 .. Len(job.items)}
    BY <2>2, <2>3
  <2>5. QED
    BY <2>4 DEF SticksOf
<1>3. QED
  BY <1>1, <1>2 DEF Reconstructed

(***************************************************************************)
(* Whatever the order in which the NoC takes the sticks, DRAM holds the    *)
(* reconstructed samples, and at the end all of them: for any layout,      *)
(* split of the signal in chunks, batch and stick, in chunks of one group  *)
(* where a stream is taken from the last route.                            *)
(***************************************************************************)
THEOREM SticksReconstructed ==
  WholeBatches /\ OneGroupDirect => (Spec => []Reconstructed)
<1> SUFFICES ASSUME WholeBatches, OneGroupDirect
             PROVE  Spec => []Reconstructed
  OBVIOUS
<1>1. Init => WInv
  BY WInit
<1>2. WInv /\ [Next]_vars => WInv'
  BY WStep
<1>3. WInv => Reconstructed
  BY WReconstructed
<1>4. QED
  BY <1>1, <1>2, <1>3, PTL DEF Spec
=============================================================================
