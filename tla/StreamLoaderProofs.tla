------------------------- MODULE StreamLoaderProofs -------------------------
(***************************************************************************)
(* Proofs about StreamLoader for every signal, chunk, boundary mode, size  *)
(* of stick and cache, layout and sequence of loads: the cache stays in    *)
(* its buffer, and what is stored is the signal, extended as its mode      *)
(* demands, in its place.                                                  *)
(*                                                                         *)
(* The proof is in four parts: that the accesses signal_extension.hpp      *)
(* describes make of a signal the one extension that its mode defines;     *)
(* whose turn it is and how far the streams have come (Progress); the      *)
(* inductive invariant IInv and its lemmas; that each action preserves it. *)
(***************************************************************************)
EXTENDS StreamLoader, AnySequences

(***************************************************************************)
(* The sizes of the layout, and how an element is counted in it: block by  *)
(* block, row by row, group by group; or lane, row, block, group.          *)
(***************************************************************************)
LEMMA LayoutSizes ==
  /\ BlockElements \in Nat \ {0} /\ BlocksPerRow \in Nat \ {0}
  /\ RowsPerGroup \in Nat \ {0} /\ RowElements \in Nat \ {0}
  /\ NarrowTileElements \in Nat \ {0} /\ GroupElements \in Nat \ {0}
  /\ RowElements = BlockElements * BlocksPerRow
  /\ NarrowTileElements = BlockElements * RowsPerGroup
  /\ GroupElements = RowElements * RowsPerGroup
  /\ GroupElements = NarrowTileElements * BlocksPerRow
<1>1. \A a, b \in Nat \ {0} : a * b \in Nat \ {0} /\ a * b = b * a
  BY SMT
<1>2. \A a, b, c \in Nat : a * (b * c) = (c * a) * b
  BY SMT
<1>3. RowElements \in Nat \ {0} /\ RowElements = BlockElements * BlocksPerRow
  BY <1>1, LayoutAssumption DEF RowElements
<1>4. NarrowTileElements \in Nat \ {0} /\ NarrowTileElements = BlockElements * RowsPerGroup
  BY <1>1, LayoutAssumption DEF NarrowTileElements
<1>5. GroupElements \in Nat \ {0} /\ GroupElements = RowElements * RowsPerGroup
  BY <1>1, <1>3, LayoutAssumption DEF GroupElements
<1>6. GroupElements = NarrowTileElements * BlocksPerRow
  BY <1>1, <1>2, <1>4, LayoutAssumption DEF GroupElements, RowElements
<1>7. QED
  BY <1>3, <1>4, <1>5, <1>6, LayoutAssumption

\* A cursor at some place of the layout.
CursorOK(c) ==
  /\ c = CursorAt(c.group, c.row, c.block, c.lane)
  /\ c.group \in Nat /\ c.row \in 0 .. RowsPerGroup - 1
  /\ c.block \in 0 .. BlocksPerRow - 1 /\ c.lane \in 0 .. BlockElements - 1

LEMMA CursorIsOK ==
  ASSUME NEW i \in Nat
  PROVE  CursorOK(Cursor(i)) /\ Logical(Cursor(i)) = i
<1> DEFINE G == GroupElements
           W == RowElements
           B == BlockElements
           g == i \div G
           u == i % G
           r == u \div W
           v == u % W
           b == v \div B
           l == v % B
<1>1. Cursor(i) = CursorAt(g, r, b, l)
  BY DEF Cursor
<1>2. i = G * g + u /\ u \in 0 .. G - 1 /\ g \in Nat
  <2>1. G \in Nat \ {0} /\ i \in Int /\ i \in Nat
    BY LayoutSizes
  <2> HIDE DEF G
  <2>2. QED
    BY ONLY <2>1, Divided
<1>3. u = W * r + v /\ r \in 0 .. RowsPerGroup - 1 /\ v \in 0 .. W - 1
  <2> HIDE DEF u
  <2>1. u \in 0 .. W * RowsPerGroup - 1 /\ u \in Int
    BY <1>2, LayoutSizes
  <2>2. QED
    BY <2>1, LayoutSizes, Divided, PartsOf
<1>4. v = B * b + l /\ b \in 0 .. BlocksPerRow - 1 /\ l \in 0 .. B - 1
  <2> HIDE DEF v
  <2>1. v \in 0 .. B * BlocksPerRow - 1 /\ v \in Int
    BY <1>3, LayoutSizes
  <2>2. QED
    BY <2>1, LayoutSizes, Divided, PartsOf
<1>5. /\ Cursor(i).group = g /\ Cursor(i).row = r /\ Cursor(i).block = b
      /\ Cursor(i).lane = l
  BY <1>1 DEF CursorAt
<1>6. CursorOK(Cursor(i))
  BY <1>1, <1>2, <1>3, <1>4, <1>5 DEF CursorOK
<1>7. Logical(Cursor(i)) = i
  <2>1. Logical(Cursor(i)) = g * G + r * W + b * B + l
    BY <1>5 DEF Logical
  <2> HIDE DEF G, W, B, g, u, r, v, b, l
  <2>2. \A x, y \in Int : x * y = y * x /\ x * y \in Int
    BY SMT
  <2>3. G \in Int /\ W \in Int /\ B \in Int /\ g \in Int /\ r \in Int /\ b \in Int /\ l \in Int
    BY <1>2, <1>3, <1>4, LayoutSizes DEF G, W, B
  <2>4. g * G = G * g /\ r * W = W * r /\ b * B = B * b
    BY <2>2, <2>3
  <2>5. g * G \in Int /\ r * W \in Int /\ b * B \in Int
    BY <2>2, <2>3
  <2>6. QED
    BY <2>1, <2>3, <2>4, <2>5, <1>2, <1>3, <1>4
<1>8. QED
  BY <1>6, <1>7

\* Both counts of a cursor, in the form of the lemma.
LEMMA CountsOf ==
  ASSUME NEW c, CursorOK(c)
  PROVE  /\ Logical(c) = Numbered(BlockElements, BlocksPerRow, RowsPerGroup,
                              c.group, c.row, c.block, c.lane)
         /\ c.physical = Numbered(BlockElements, RowsPerGroup, BlocksPerRow,
                               c.group, c.block, c.row, c.lane)
<1> DEFINE B == BlockElements
           g == c.group
           r == c.row
           b == c.block
           l == c.lane
<1>1. /\ B \in Nat /\ BlocksPerRow \in Nat /\ RowsPerGroup \in Nat
      /\ g \in Int /\ r \in Int /\ b \in Int /\ l \in Int
  BY LayoutSizes DEF CursorOK
<1>2. \A x, y \in Int : x * y = y * x /\ x * y \in Int
  BY SMT
<1>3. GroupElements \in Int /\ RowElements \in Int /\ NarrowTileElements \in Int
  BY LayoutSizes
<1>4. Logical(c) = GroupElements * g + (RowElements * r + (B * b + l))
  <2>1. Logical(c) = g * GroupElements + r * RowElements + b * B + l
    BY DEF Logical
  <2> HIDE DEF g, r, b, l, B
  <2>2. /\ g * GroupElements = GroupElements * g /\ r * RowElements = RowElements * r
        /\ b * B = B * b /\ GroupElements * g \in Int /\ RowElements * r \in Int
        /\ B * b \in Int
    BY <1>1, <1>2, <1>3
  <2>3. QED
    BY <1>1, <2>1, <2>2
<1>5. c.physical = GroupElements * g + (NarrowTileElements * b + (B * r + l))
  <2>1. c.physical = g * GroupElements + b * NarrowTileElements + r * B + l
    <3>1. CursorAt(c.group, c.row, c.block, c.lane).physical
            = Place(c.group, c.row, c.block, c.lane)
      BY DEF CursorAt
    <3>2. QED
      BY <3>1 DEF CursorOK, Place
  <2> HIDE DEF g, r, b, l, B
  <2>2. /\ g * GroupElements = GroupElements * g
        /\ b * NarrowTileElements = NarrowTileElements * b
        /\ r * B = B * r /\ GroupElements * g \in Int /\ NarrowTileElements * b \in Int
        /\ B * r \in Int
    BY <1>1, <1>2, <1>3
  <2>3. QED
    BY <1>1, <2>1, <2>2
<1>6. QED
  BY <1>4, <1>5, LayoutSizes DEF Numbered

\* A cursor is known by either of its counts.
LEMMA SameCursor ==
  ASSUME NEW c, NEW d, CursorOK(c), CursorOK(d),
         Logical(c) = Logical(d) \/ c.physical = d.physical
  PROVE  c = d
<1>1. /\ c.group \in Nat /\ d.group \in Nat
      /\ c.row \in 0 .. RowsPerGroup - 1 /\ d.row \in 0 .. RowsPerGroup - 1
      /\ c.block \in 0 .. BlocksPerRow - 1 /\ d.block \in 0 .. BlocksPerRow - 1
      /\ c.lane \in 0 .. BlockElements - 1 /\ d.lane \in 0 .. BlockElements - 1
  BY DEF CursorOK
<1>2. /\ BlockElements \in Nat \ {0} /\ BlocksPerRow \in Nat \ {0}
      /\ RowsPerGroup \in Nat \ {0}
  BY LayoutSizes
<1> DEFINE g == c.group
           r == c.row
           b == c.block
           l == c.lane
           h == d.group
           s == d.row
           e == d.block
           n == d.lane
<1> HIDE DEF g, r, b, l, h, s, e, n
<1>3. /\ g \in Nat /\ h \in Nat
      /\ r \in 0 .. RowsPerGroup - 1 /\ s \in 0 .. RowsPerGroup - 1
      /\ b \in 0 .. BlocksPerRow - 1 /\ e \in 0 .. BlocksPerRow - 1
      /\ l \in 0 .. BlockElements - 1 /\ n \in 0 .. BlockElements - 1
  BY <1>1 DEF g, r, b, l, h, s, e, n
<1>4. g = h /\ r = s /\ b = e /\ l = n
  <2>1. CASE Logical(c) = Logical(d)
    <3>1. Numbered(BlockElements, BlocksPerRow, RowsPerGroup, g, r, b, l)
            = Numbered(BlockElements, BlocksPerRow, RowsPerGroup, h, s, e, n)
      BY <2>1, CountsOf DEF g, r, b, l, h, s, e, n
    <3>2. /\ DigitsOK(BlockElements, BlocksPerRow, RowsPerGroup, g, r, b, l)
          /\ DigitsOK(BlockElements, BlocksPerRow, RowsPerGroup, h, s, e, n)
      BY <1>2, <1>3 DEF DigitsOK
    <3>3. QED
      BY ONLY <3>1, <3>2, MixedRadix
  <2>2. CASE c.physical = d.physical
    <3>1. Numbered(BlockElements, RowsPerGroup, BlocksPerRow, g, b, r, l)
            = Numbered(BlockElements, RowsPerGroup, BlocksPerRow, h, e, s, n)
      BY <2>2, CountsOf DEF g, r, b, l, h, s, e, n
    <3>2. /\ DigitsOK(BlockElements, RowsPerGroup, BlocksPerRow, g, b, r, l)
          /\ DigitsOK(BlockElements, RowsPerGroup, BlocksPerRow, h, e, s, n)
      BY <1>2, <1>3 DEF DigitsOK
    <3>3. QED
      BY ONLY <3>1, <3>2, MixedRadix
  <2>3. QED
    BY <2>1, <2>2
<1>5. QED
  BY <1>4 DEF CursorOK, g, r, b, l, h, s, e, n

\* Different elements have different places.
LEMMA PlacesDiffer ==
  ASSUME NEW t \in BOOLEAN, NEW i \in Nat, NEW j \in Nat,
         PhysicalIndex(t, i) = PhysicalIndex(t, j)
  PROVE  i = j
<1>1. CASE t
  <2>1. Cursor(i).physical = Cursor(j).physical
    BY <1>1 DEF PhysicalIndex
  <2>2. Cursor(i) = Cursor(j)
    BY <2>1, CursorIsOK, SameCursor
  <2>3. QED
    BY <2>2, CursorIsOK
<1>2. QED
  BY <1>1 DEF PhysicalIndex

(***************************************************************************)
(* Moving on without dividing: the cursor of the element after.            *)
(***************************************************************************)
LEMMA AdvanceIsOK ==
  ASSUME NEW c, CursorOK(c)
  PROVE  CursorOK(Advance(c)) /\ Logical(Advance(c)) = Logical(c) + 1
<1> DEFINE B == BlockElements
           g == c.group
           r == c.row
           b == c.block
           l == c.lane
           G == GroupElements
           W == RowElements
           T == NarrowTileElements
<1>1. /\ B \in Nat \ {0} /\ BlocksPerRow \in Nat \ {0} /\ RowsPerGroup \in Nat \ {0}
      /\ g \in Nat /\ r \in 0 .. RowsPerGroup - 1 /\ b \in 0 .. BlocksPerRow - 1
      /\ l \in 0 .. B - 1
      /\ G \in Nat /\ W \in Nat /\ T \in Nat
  BY LayoutSizes DEF CursorOK
<1>2. \A x, y, z, w : /\ CursorAt(x, y, z, w).group = x /\ CursorAt(x, y, z, w).row = y
                      /\ CursorAt(x, y, z, w).block = z /\ CursorAt(x, y, z, w).lane = w
                      /\ CursorAt(x, y, z, w).physical = Place(x, y, z, w)
  BY DEF CursorAt
<1>3. \A x, y, z, w : Logical(CursorAt(x, y, z, w)) = x * G + y * W + z * B + w
  BY <1>2 DEF Logical
<1>4. c = CursorAt(g, r, b, l) /\ Logical(c) = g * G + r * W + b * B + l
  BY DEF CursorOK, Logical
<1>5. \A x, y \in Int : x * y \in Int /\ (x + 1) * y = x * y + y /\ 0 * y = 0
  BY SMT
<1>6. g * G \in Int /\ r * W \in Int /\ b * B \in Int
  BY <1>1, <1>5
<1>7. CASE l + 1 < B
  <2>1. Advance(c) = CursorAt(g, r, b, l + 1)
    <3>1. Place(g, r, b, l + 1) = Place(g, r, b, l) + 1
      <4>1. g * G \in Int /\ b * T \in Int /\ r * B \in Int
        BY <1>1, <1>5
      <4> HIDE DEF g, r, b, l
      <4>2. QED
        BY <1>1, <4>1 DEF Place
    <3>2. Advance(c) = [c EXCEPT !.lane = @ + 1, !.physical = @ + 1]
      BY <1>7 DEF Advance
    <3>3. c.physical = Place(g, r, b, l)
      BY <1>2, <1>4
    <3>4. c = [group |-> g, row |-> r, block |-> b, lane |-> l, physical |-> c.physical]
      BY <1>4, <3>3 DEF CursorAt
    <3>5. Advance(c) = [group |-> g, row |-> r, block |-> b, lane |-> l + 1,
                        physical |-> c.physical + 1]
      <4> DEFINE f == c.physical
      <4> HIDE DEF g, r, b, l, f
      <4>1. c = [group |-> g, row |-> r, block |-> b, lane |-> l, physical |-> f]
        BY <3>4 DEF f
      <4>2. Advance(c) = [group |-> g, row |-> r, block |-> b, lane |-> l + 1,
                          physical |-> f + 1]
        BY <3>2, <4>1
      <4>3. QED
        BY <4>2 DEF f
    <3>6. QED
      BY <3>1, <3>3, <3>5 DEF CursorAt
  <2>2. Logical(Advance(c)) = g * G + r * W + b * B + (l + 1)
    BY <1>3, <2>1
  <2>3. CursorOK(Advance(c))
    BY <1>1, <1>2, <1>7, <2>1 DEF CursorOK
  <2> HIDE DEF g, r, b, l, B, G, W, T
  <2>4. QED
    BY <1>1, <1>4, <1>6, <2>2, <2>3
<1>8. CASE l + 1 = B
  <2> DEFINE d == [c EXCEPT !.lane = 0]
  <2>1. /\ Advance(c) = AdvanceBlock(d)
        /\ d.group = g /\ d.row = r /\ d.block = b /\ d.lane = 0
    <3>1. ~(l + 1 < B)
      BY <1>1, <1>8
    <3>2. QED
      BY <1>4, <3>1 DEF Advance, CursorAt
  <2> HIDE DEF d
  <2>2. CASE b + 1 < BlocksPerRow
    <3>1. Advance(c) = CursorAt(g, r, b + 1, 0)
      BY <2>1, <2>2 DEF AdvanceBlock
    <3>2. CursorOK(Advance(c))
      BY <1>1, <1>2, <2>2, <3>1 DEF CursorOK
    <3>3. Logical(Advance(c)) = g * G + r * W + (b + 1) * B + 0
      BY <1>3, <3>1
    <3> HIDE DEF g, r, b, l, B, G, W, T
    <3>4. (b + 1) * B = b * B + B
      BY <1>1, <1>5
    <3>5. QED
      BY <1>1, <1>4, <1>6, <1>8, <3>2, <3>3, <3>4
  <2>3. CASE b + 1 = BlocksPerRow /\ r + 1 < RowsPerGroup
    <3>1. Advance(c) = CursorAt(g, r + 1, 0, 0)
      <4>1. ~(b + 1 < BlocksPerRow)
        BY <1>1, <2>3
      <4>2. QED
        BY <2>1, <2>3, <4>1 DEF AdvanceBlock
    <3>2. CursorOK(Advance(c))
      BY <1>1, <1>2, <2>3, <3>1 DEF CursorOK
    <3>3. Logical(Advance(c)) = g * G + (r + 1) * W + 0 * B + 0
      BY <1>3, <3>1
    <3>4. W = BlocksPerRow * B
      BY DEF RowElements
    <3> HIDE DEF g, r, b, l, B, G, W, T
    <3>5. (r + 1) * W = r * W + W /\ (b + 1) * B = b * B + B /\ 0 * B = 0
      BY <1>1, <1>5
    <3>6. W = b * B + B
      BY <2>3, <3>4, <3>5
    <3>7. QED
      BY <1>1, <1>4, <1>6, <1>8, <3>2, <3>3, <3>5, <3>6
  <2>4. CASE b + 1 = BlocksPerRow /\ r + 1 = RowsPerGroup
    <3>1. Advance(c) = CursorAt(g + 1, 0, 0, 0)
      <4>1. ~(b + 1 < BlocksPerRow) /\ ~(r + 1 < RowsPerGroup)
        BY <1>1, <2>4
      <4>2. QED
        BY <2>1, <4>1 DEF AdvanceBlock
    <3>2. CursorOK(Advance(c))
      BY <1>1, <1>2, <2>4, <3>1 DEF CursorOK
    <3>3. Logical(Advance(c)) = (g + 1) * G + 0 * W + 0 * B + 0
      BY <1>3, <3>1
    <3>4. W = BlocksPerRow * B /\ G = RowsPerGroup * W
      BY DEF RowElements, GroupElements
    <3> HIDE DEF g, r, b, l, B, G, W, T
    <3>5. /\ (g + 1) * G = g * G + G /\ (r + 1) * W = r * W + W
          /\ (b + 1) * B = b * B + B /\ 0 * B = 0 /\ 0 * W = 0
      BY <1>1, <1>5
    <3>6. W = b * B + B /\ G = r * W + W
      BY <2>4, <3>4, <3>5
    <3>7. QED
      BY <1>1, <1>4, <1>6, <1>8, <3>2, <3>3, <3>5, <3>6
  <2>5. QED
    BY <1>1, <2>2, <2>3, <2>4
<1>9. QED
  BY <1>1, <1>7, <1>8

LEMMA NextPlace ==
  ASSUME NEW i \in Nat
  PROVE  Advance(Cursor(i)) = Cursor(i + 1)
<1>1. CursorOK(Cursor(i)) /\ Logical(Cursor(i)) = i
  BY CursorIsOK
<1>2. CursorOK(Advance(Cursor(i))) /\ Logical(Advance(Cursor(i))) = i + 1
  BY <1>1, AdvanceIsOK
<1>3. CursorOK(Cursor(i + 1)) /\ Logical(Cursor(i + 1)) = i + 1
  <2>1. \A m \in Nat : CursorOK(Cursor(m)) /\ Logical(Cursor(m)) = m
    BY CursorIsOK
  <2>2. QED
    BY <2>1
<1>4. QED
  BY <1>2, <1>3, SameCursor

-----------------------------------------------------------------------------
(***************************************************************************)
(* What an access makes of the samples it reads.                           *)
(***************************************************************************)
AccessOK(a, n) ==
  /\ a.op \in {"zero", "sample", "negated", "smooth", "antireflect"}
  /\ a.op # "zero" => a.source \in 0 .. n - 1
  /\ a.op = "smooth" => a.auxiliary \in 0 .. n - 1

LEMMA AccessFields ==
  \A op, i : /\ Access(op, i).op = op /\ Access(op, i).source = i
             /\ Access(op, i).auxiliary = 0 /\ Access(op, i).quotient = 0
             /\ Access(op, i).distance = 0 /\ Access(op, i).reflected = FALSE
  BY DEF Access

LEMMA SourcesOf ==
  ASSUME NEW a, NEW n
  PROVE  /\ a.op = "zero" => Sources(a, n) = <<>>
         /\ a.op \in {"sample", "negated"} => Sources(a, n) = <<a.source>>
         /\ a.op = "smooth" => Sources(a, n) = <<a.source, a.auxiliary>>
         /\ a.op = "antireflect" => Sources(a, n) = <<a.source, 0, n - 1>>
  BY DEF Sources

LEMMA CombinedOf ==
  ASSUME NEW a, NEW v
  PROVE  /\ a.op = "zero" => Combined(a, v) = 0
         /\ a.op = "sample" => Combined(a, v) = v[1]
         /\ a.op = "negated" => Combined(a, v) = -v[1]
         /\ a.op = "smooth" => Combined(a, v) = v[1] + a.distance * (v[1] - v[2])
         /\ a.op = "antireflect" =>
              Combined(a, v) = (IF a.reflected THEN 2 * v[3] - v[1] ELSE v[1])
                                 + a.quotient * 2 * (v[3] - v[2])
  BY DEF Combined

LEMMA EvaluatedOf ==
  ASSUME NEW a, NEW s, NEW n
  PROVE  /\ a.op = "zero" => Evaluated(a, s, n) = 0
         /\ a.op = "sample" => Evaluated(a, s, n) = s[a.source]
         /\ a.op = "negated" => Evaluated(a, s, n) = -s[a.source]
         /\ a.op = "smooth" =>
              Evaluated(a, s, n)
                = s[a.source] + a.distance * (s[a.source] - s[a.auxiliary])
         /\ a.op = "antireflect" =>
              Evaluated(a, s, n)
                = (IF a.reflected THEN 2 * s[n - 1] - s[a.source] ELSE s[a.source])
                    + a.quotient * 2 * (s[n - 1] - s[0])
<1> DEFINE source == Sources(a, n)
           v == [k \in DOMAIN source |-> s[source[k]]]
<1>1. Evaluated(a, s, n) = Combined(a, v)
  BY DEF Evaluated
<1>2. CASE a.op = "zero"
  BY <1>1, <1>2, CombinedOf
<1>3. CASE a.op \in {"sample", "negated"}
  <2>1. source = <<a.source>>
    BY <1>3, SourcesOf
  <2>2. v[1] = s[a.source]
    BY <2>1
  <2> HIDE DEF v, source
  <2>3. QED
    BY <1>1, <1>3, <2>2, CombinedOf
<1>4. CASE a.op = "smooth"
  <2>1. source = <<a.source, a.auxiliary>>
    BY <1>4, SourcesOf
  <2>2. v[1] = s[a.source] /\ v[2] = s[a.auxiliary]
    BY <2>1
  <2> HIDE DEF v, source
  <2>3. Combined(a, v) = v[1] + a.distance * (v[1] - v[2])
    BY <1>4, CombinedOf
  <2>4. QED
    BY <1>1, <1>4, <2>2, <2>3
<1>5. CASE a.op = "antireflect"
  <2>1. source = <<a.source, 0, n - 1>>
    BY <1>5, SourcesOf
  <2>2. v[1] = s[a.source] /\ v[2] = s[0] /\ v[3] = s[n - 1]
    BY <2>1
  <2> HIDE DEF v, source
  <2>3. Combined(a, v) = (IF a.reflected THEN 2 * v[3] - v[1] ELSE v[1])
                           + a.quotient * 2 * (v[3] - v[2])
    BY <1>5, CombinedOf
  <2>4. QED
    BY <1>1, <1>5, <2>2, <2>3
<1>6. QED
  BY <1>2, <1>3, <1>4, <1>5

(***************************************************************************)
(* Quotient and remainder of a position, of those a period away, and of    *)
(* its mirror images.                                                      *)
(***************************************************************************)
LEMMA RemainderInside ==
  ASSUME NEW n \in Nat \ {0}, NEW x \in 0 .. n - 1
  PROVE  x \div n = 0 /\ x % n = x
<1>1. x \in Int /\ x = n * 0 + x /\ 0 \in Int
  OBVIOUS
<1>2. QED
  BY ONLY <1>1, Quotient, n \in Nat \ {0}, x \in 0 .. n - 1

LEMMA RemainderAway ==
  ASSUME NEW n \in Nat \ {0}, NEW x \in Int
  PROVE  /\ (x + n) \div n = (x \div n) + 1 /\ (x + n) % n = x % n
         /\ (x - n) \div n = (x \div n) - 1 /\ (x - n) % n = x % n
<1> DEFINE q == x \div n
           m == x % n
<1>1. x = n * q + m /\ m \in 0 .. n - 1 /\ q \in Int
  BY ONLY Divided, n \in Nat \ {0}, x \in Int
<1> HIDE DEF q, m
<1>2. n * (q + 1) = n * q + n /\ n * (q - 1) = n * q - n /\ n * q \in Int
  BY <1>1, SMT
<1> DEFINE y == x + n
           z == x - n
<1>3. y \in Int /\ z \in Int /\ q + 1 \in Int /\ q - 1 \in Int
  BY <1>1
<1>4. y = n * (q + 1) + m /\ z = n * (q - 1) + m
  BY <1>1, <1>2
<1> HIDE DEF y, z
<1>5. y \div n = q + 1 /\ y % n = m
  BY ONLY <1>1, <1>3, <1>4, Quotient, n \in Nat \ {0}
<1>6. z \div n = q - 1 /\ z % n = m
  BY ONLY <1>1, <1>3, <1>4, Quotient, n \in Nat \ {0}
<1>7. QED
  BY <1>5, <1>6 DEF y, z, q, m

LEMMA RemainderMirror ==
  ASSUME NEW n \in Nat \ {0}, NEW x \in Int
  PROVE  /\ (-1 - x) % n = n - 1 - (x % n)
         /\ x % n = 0 => (-x) % n = 0 /\ (-x) \div n = -(x \div n)
         /\ x % n # 0 => (-x) % n = n - (x % n) /\ (-x) \div n = -(x \div n) - 1
<1> DEFINE q == x \div n
           m == x % n
<1>1. x = n * q + m /\ m \in 0 .. n - 1 /\ q \in Int
  BY ONLY Divided, n \in Nat \ {0}, x \in Int
<1> HIDE DEF q, m
<1>2. n * (-q) = -(n * q) /\ n * (-q - 1) = -(n * q) - n /\ n * q \in Int
  BY <1>1, SMT
<1> DEFINE y == -1 - x
           z == -x
           p == -q
           r == -q - 1
           k == n - 1 - m
           l == n - m
<1>3. y \in Int /\ z \in Int /\ p \in Int /\ r \in Int
  BY <1>1
<1>4. y = n * r + k /\ k \in 0 .. n - 1
  BY <1>1, <1>2
<1>5. z = n * p - m /\ z = n * r + l
  BY <1>1, <1>2
<1>6. m # 0 => l \in 0 .. n - 1
  BY <1>1
<1>7. n * p \in Int
  BY <1>2
<1> HIDE DEF y, z, p, r, k, l
<1>8. y % n = k
  BY ONLY <1>3, <1>4, Quotient, n \in Nat \ {0}
<1>9. ASSUME m = 0 PROVE z % n = 0 /\ z \div n = p
  <2>1. z = n * p + 0 /\ 0 \in 0 .. n - 1
    BY <1>3, <1>5, <1>7, <1>9
  <2>2. QED
    BY ONLY <1>3, <2>1, Quotient, n \in Nat \ {0}
<1>10. ASSUME m # 0 PROVE z % n = l /\ z \div n = r
  BY ONLY <1>3, <1>5, <1>6, <1>10, Quotient, n \in Nat \ {0}
<1>11. QED
  BY <1>8, <1>9, <1>10 DEF y, z, q, m, p, r, k, l

(***************************************************************************)
(* The sample at a position, in each of the modes.                         *)
(***************************************************************************)
SampleAt(mode, s, n, x) == Evaluated(ExtendedIndex(mode, x, n), s, n)

LEMMA SampleInside ==
  ASSUME NEW mode, NEW n \in Nat \ {0}, NEW s, NEW x \in 0 .. n - 1
  PROVE  SampleAt(mode, s, n, x) = s[x]
<1>1. ExtendedIndex(mode, x, n) = Access("sample", x)
  BY DEF ExtendedIndex
<1>2. QED
  BY <1>1, AccessFields, EvaluatedOf DEF SampleAt

LEMMA IndexOutside ==
  ASSUME NEW n \in Nat \ {0}, NEW x \in Int, x \notin 0 .. n - 1
  PROVE  /\ ExtendedIndex("zero", x, n) = Access("zero", 0)
         /\ ExtendedIndex("constant", x, n) = Access("sample", IF x < 0 THEN 0 ELSE n - 1)
         /\ ExtendedIndex("periodic", x, n) = Access("sample", x % n)
         /\ ExtendedIndex("symmetric", x, n) = Symmetric(x, n)
         /\ ExtendedIndex("antisymmetric", x, n) = Antisymmetric(x, n)
         /\ n = 1 => ExtendedIndex("smooth", x, n) = Access("sample", 0)
         /\ n # 1 => /\ ExtendedIndex("smooth", x, n) = Smooth(x, n)
                     /\ ExtendedIndex("reflect", x, n) = Reflect(x, n)
                     /\ ExtendedIndex("antireflect", x, n) = Antireflect(x, n)
<1>1. n # 0
  OBVIOUS
<1>2. ExtendedIndex("zero", x, n) = Access("zero", 0)
  BY <1>1 DEF ExtendedIndex
<1>3. ExtendedIndex("constant", x, n) = Access("sample", IF x < 0 THEN 0 ELSE n - 1)
  BY <1>1 DEF ExtendedIndex
<1>4. ExtendedIndex("periodic", x, n) = Access("sample", x % n)
  BY <1>1 DEF ExtendedIndex
<1>5. ExtendedIndex("symmetric", x, n) = Symmetric(x, n)
  BY <1>1 DEF ExtendedIndex
<1>6. ExtendedIndex("antisymmetric", x, n) = Antisymmetric(x, n)
  BY <1>1 DEF ExtendedIndex
<1>7. n = 1 => ExtendedIndex("smooth", x, n) = Access("sample", 0)
  BY <1>1 DEF ExtendedIndex
<1>8. n # 1 => ExtendedIndex("smooth", x, n) = Smooth(x, n)
  BY <1>1 DEF ExtendedIndex
<1>9. n # 1 => ExtendedIndex("reflect", x, n) = Reflect(x, n)
  BY <1>1 DEF ExtendedIndex
<1>10. n # 1 => ExtendedIndex("antireflect", x, n) = Antireflect(x, n)
  BY <1>1 DEF ExtendedIndex
<1>11. QED
  BY <1>2, <1>3, <1>4, <1>5, <1>6, <1>7, <1>8, <1>9, <1>10

LEMMA SamplePeriodic ==
  ASSUME NEW n \in Nat \ {0}, NEW s, NEW x \in Int
  PROVE  SampleAt("periodic", s, n, x) = s[x % n]
<1>1. CASE x \in 0 .. n - 1
  BY <1>1, SampleInside, RemainderInside
<1>2. CASE x \notin 0 .. n - 1
  <2> DEFINE a == ExtendedIndex("periodic", x, n)
             m == x % n
  <2>1. a = Access("sample", m)
    BY <1>2, IndexOutside
  <2> HIDE DEF a, m
  <2>2. Evaluated(a, s, n) = s[m]
    BY <2>1, AccessFields, EvaluatedOf
  <2>3. QED
    BY <2>2 DEF SampleAt, a, m
<1>3. QED
  BY <1>1, <1>2

LEMMA SampleSymmetric ==
  ASSUME NEW n \in Nat \ {0}, NEW s, NEW x \in Int
  PROVE  LET m == x % (2 * n)
         IN SampleAt("symmetric", s, n, x) = s[IF m < n THEN m ELSE 2 * n - 1 - m]
<1> DEFINE m == x % (2 * n)
<1>1. CASE x \in 0 .. n - 1
  <2>1. 2 * n \in Nat \ {0} /\ x \in 0 .. 2 * n - 1
    BY <1>1
  <2>2. m = x
    BY <2>1, RemainderInside
  <2>3. QED
    BY <1>1, <2>2, SampleInside
<1>2. CASE x \notin 0 .. n - 1
  <2> DEFINE a == ExtendedIndex("symmetric", x, n)
             i == IF m < n THEN m ELSE 2 * n - 1 - m
  <2>1. a = Access("sample", i)
    BY <1>2, IndexOutside DEF Symmetric
  <2> HIDE DEF a, i
  <2>2. Evaluated(a, s, n) = s[i]
    BY <2>1, AccessFields, EvaluatedOf
  <2>3. QED
    BY <2>2 DEF SampleAt, a, i
<1>3. QED
  BY <1>1, <1>2

\* The third and the fourth segment repeat the first and the second.
LEMMA AntisymmetricIs ==
  ASSUME NEW n \in Nat \ {0}, NEW x \in Int
  PROVE  LET m == x % (2 * n)
         IN Antisymmetric(x, n) = IF m < n THEN Access("sample", m)
                                  ELSE Access("negated", 2 * n - 1 - m)
<1> DEFINE m == x % (2 * n)
           a == Antisymmetric(x, n)
           f == x % (4 * n)
           q == x \div (4 * n)
           g == f \div n
           w == f % n
<1>1. a = IF g % 2 = 0 THEN Access("sample", f - g * n)
          ELSE Access("negated", (g + 1) * n - 1 - f)
  BY DEF Antisymmetric
<1>2. x = 4 * n * q + f /\ f \in 0 .. 4 * n - 1 /\ q \in Int
  <2>1. 4 * n \in Nat \ {0}
    OBVIOUS
  <2>2. QED
    BY ONLY <2>1, Divided, x \in Int
<1> HIDE DEF a, f, q
<1>3. f = n * g + w /\ w \in 0 .. n - 1 /\ g \in Nat
  <2>1. f \in Int /\ f \in Nat
    BY <1>2
  <2>2. QED
    BY ONLY <2>1, Divided, n \in Nat \ {0}
<1> HIDE DEF g, w
<1>4. g \in 0 .. 3
  <2>1. ASSUME g >= 4 PROVE FALSE
    <3>1. n * g >= n * 4
      BY <1>3, <2>1, SMT
    <3>2. QED
      BY <1>2, <1>3, <3>1
  <2>2. QED
    BY <1>3, <2>1
<1>5. 4 * n * q = 2 * n * (2 * q) /\ 2 * n * (2 * q + 1) = 2 * n * (2 * q) + 2 * n
  BY <1>2, SMT
<1>6. 2 * n * (2 * q) \in Int
  BY <1>2, SMT
<1> DEFINE d == 2 * n
           p == 2 * q
           r == 2 * q + 1
<1>7. d \in Nat \ {0} /\ p \in Int /\ r \in Int
  BY <1>2
<1>8. x = d * p + f /\ x = d * r + (f - d)
  BY <1>2, <1>5, <1>6
<1>9. f \in 0 .. d - 1 => m = f
  <2> HIDE DEF d, p, r
  <2>1. ASSUME f \in 0 .. d - 1 PROVE x % d = f
    BY ONLY <1>7, <1>8, <2>1, Quotient, x \in Int
  <2>2. QED
    BY <2>1 DEF d
<1>10. f - d \in 0 .. d - 1 => m = f - d
  <2> DEFINE e == f - d
  <2>1. x = d * r + e
    BY <1>8
  <2> HIDE DEF d, r, e
  <2>2. ASSUME e \in 0 .. d - 1 PROVE x % d = e
    BY ONLY <1>7, <2>1, <2>2, Quotient, x \in Int
  <2>3. QED
    BY <2>2 DEF d, e
<1> HIDE DEF m, p, r
<1>11. CASE g = 0
  <2>1. f = w /\ m = w
    BY <1>3, <1>9, <1>11
  <2>2. a = Access("sample", w)
    BY <1>1, <1>3, <1>11, <2>1
  <2>3. QED
    BY <1>3, <2>1, <2>2 DEF a, m
<1>12. CASE g = 1
  <2>1. f = n + w /\ m = n + w
    BY <1>3, <1>9, <1>12
  <2>2. a = Access("negated", n - 1 - w)
    BY <1>1, <1>3, <1>12, <2>1
  <2>3. ~(m < n) /\ 2 * n - 1 - m = n - 1 - w
    BY <1>3, <2>1
  <2>4. QED
    BY <2>2, <2>3 DEF a, m
<1>13. CASE g = 2
  <2>1. f = 2 * n + w /\ m = w
    BY <1>3, <1>10, <1>13
  <2>2. a = Access("sample", w)
    BY <1>1, <1>3, <1>13, <2>1
  <2>3. QED
    BY <1>3, <2>1, <2>2 DEF a, m
<1>14. CASE g = 3
  <2>1. f = 3 * n + w /\ m = n + w
    BY <1>3, <1>10, <1>14
  <2>2. a = Access("negated", n - 1 - w)
    BY <1>1, <1>3, <1>14, <2>1
  <2>3. ~(m < n) /\ 2 * n - 1 - m = n - 1 - w
    BY <1>3, <2>1
  <2>4. QED
    BY <2>2, <2>3 DEF a, m
<1>15. QED
  BY <1>4, <1>11, <1>12, <1>13, <1>14

LEMMA SampleAntisymmetric ==
  ASSUME NEW n \in Nat \ {0}, NEW s, NEW x \in Int
  PROVE  LET m == x % (2 * n)
         IN SampleAt("antisymmetric", s, n, x) = IF m < n THEN s[m] ELSE -s[2 * n - 1 - m]
<1> DEFINE m == x % (2 * n)
           o == 2 * n - 1 - m
<1>1. CASE x \in 0 .. n - 1
  <2>1. 2 * n \in Nat \ {0} /\ x \in 0 .. 2 * n - 1
    BY <1>1
  <2>2. m = x
    BY <2>1, RemainderInside
  <2>3. QED
    BY <1>1, <2>2, SampleInside
<1>2. CASE x \notin 0 .. n - 1
  <2> DEFINE a == ExtendedIndex("antisymmetric", x, n)
  <2>1. a = IF m < n THEN Access("sample", m) ELSE Access("negated", o)
    BY <1>2, IndexOutside, AntisymmetricIs
  <2> HIDE DEF a, m, o
  <2>2. ASSUME m < n PROVE Evaluated(a, s, n) = s[m]
    BY <2>1, <2>2, AccessFields, EvaluatedOf
  <2>3. ASSUME ~(m < n) PROVE Evaluated(a, s, n) = -s[o]
    BY <2>1, <2>3, AccessFields, EvaluatedOf
  <2>4. QED
    BY <2>2, <2>3 DEF SampleAt, a, m, o
<1>3. QED
  BY <1>1, <1>2

LEMMA SampleReflect ==
  ASSUME NEW n \in Nat, n >= 2, NEW s, NEW x \in Int
  PROVE  LET p == 2 * (n - 1)
             m == x % p
         IN SampleAt("reflect", s, n, x) = s[IF m <= n - 1 THEN m ELSE p - m]
<1> DEFINE p == 2 * (n - 1)
           m == x % p
<1>1. CASE x \in 0 .. n - 1
  <2>1. p \in Nat \ {0} /\ x \in 0 .. p - 1
    BY <1>1
  <2>2. m = x
    BY <2>1, RemainderInside
  <2>3. QED
    BY <1>1, <2>2, SampleInside
<1>2. CASE x \notin 0 .. n - 1
  <2> DEFINE a == ExtendedIndex("reflect", x, n)
             i == IF m <= n - 1 THEN m ELSE p - m
  <2>1. a = Access("sample", i)
    BY <1>2, IndexOutside DEF Reflect
  <2> HIDE DEF a, i
  <2>2. Evaluated(a, s, n) = s[i]
    BY <2>1, AccessFields, EvaluatedOf
  <2>3. QED
    BY <2>2 DEF SampleAt, a, i
<1>3. QED
  BY <1>1, <1>2

LEMMA SampleAntireflect ==
  ASSUME NEW n \in Nat, n >= 2, NEW s, s \in [0 .. n - 1 -> Int], NEW x \in Int
  PROVE  LET p == 2 * (n - 1)
             m == x % p
         IN SampleAt("antireflect", s, n, x)
              = (IF m <= n - 1 THEN s[m] ELSE 2 * s[n - 1] - s[p - m])
                  + (x \div p) * 2 * (s[n - 1] - s[0])
<1> DEFINE p == 2 * (n - 1)
           m == x % p
           q == x \div p
<1>1. CASE x \in 0 .. n - 1
  <2>1. p \in Nat \ {0} /\ x \in 0 .. p - 1
    BY <1>1
  <2>2. m = x /\ q = 0
    BY <2>1, RemainderInside
  <2>3. s[x] \in Int /\ s[n - 1] \in Int /\ s[0] \in Int
    BY <1>1
  <2>4. SampleAt("antireflect", s, n, x) = s[x]
    BY <1>1, SampleInside
  <2>5. s[x] + 0 * 2 * (s[n - 1] - s[0]) = s[x]
    BY <2>3
  <2>6. QED
    BY <1>1, <2>2, <2>4, <2>5
<1>2. CASE x \notin 0 .. n - 1
  <2> DEFINE a == ExtendedIndex("antireflect", x, n)
             i == IF m > n - 1 THEN p - m ELSE m
             b == m > n - 1
  <2>1. a = [Access("antireflect", i) EXCEPT !.quotient = q, !.reflected = b]
    <3>1. a = Antireflect(x, n)
      BY <1>2, IndexOutside
    <3>2. Antireflect(x, n)
            = [Access("antireflect", i) EXCEPT !.quotient = q, !.reflected = b]
      BY Zenon DEF Antireflect
    <3>3. QED
      BY <3>1, <3>2
  <2>2. p \in Nat \ {0} /\ m \in 0 .. p - 1
    BY Divided
  <2> HIDE DEF a, i, p, m, q, b
  <2>3. /\ a.op = "antireflect" /\ a.source = i /\ a.quotient = q /\ a.reflected = b
    BY <2>1, AccessFields DEF Access
  <2>4. Evaluated(a, s, n) = (IF b THEN 2 * s[n - 1] - s[i] ELSE s[i])
                               + q * 2 * (s[n - 1] - s[0])
    BY <2>3, EvaluatedOf
  <2>5. CASE m > n - 1
    <3>1. i = p - m /\ b /\ ~(m <= n - 1)
      BY <2>2, <2>5 DEF i, b
    <3>2. QED
      BY <2>4, <3>1 DEF SampleAt, a, p, m, q
  <2>6. CASE m <= n - 1
    <3>1. i = m /\ ~b
      BY <2>2, <2>6 DEF i, b
    <3>2. QED
      BY <2>4, <2>6, <3>1 DEF SampleAt, a, p, m, q
  <2>7. QED
    BY <2>2, <2>5, <2>6
<1>3. QED
  BY <1>1, <1>2

LEMMA SampleSmooth ==
  ASSUME NEW n \in Nat, n >= 2, NEW s, NEW x \in Int
  PROVE  /\ x < 0 => SampleAt("smooth", s, n, x) = s[0] + (-x) * (s[0] - s[1])
         /\ x > n - 1 => SampleAt("smooth", s, n, x)
                           = s[n - 1] + (x - (n - 1)) * (s[n - 1] - s[n - 2])
<1> DEFINE a == ExtendedIndex("smooth", x, n)
<1>1. x \notin 0 .. n - 1 => a = Smooth(x, n)
  BY IndexOutside
<1>2. x < 0 => /\ Smooth(x, n).op = "smooth" /\ Smooth(x, n).source = 0
               /\ Smooth(x, n).auxiliary = 1 /\ Smooth(x, n).distance = -x
  BY DEF Smooth, Access
<1>3. x > n - 1 => /\ Smooth(x, n).op = "smooth" /\ Smooth(x, n).source = n - 1
                   /\ Smooth(x, n).auxiliary = n - 2 /\ Smooth(x, n).distance = x - (n - 1)
  BY DEF Smooth, Access
<1> HIDE DEF a
<1>4. ASSUME x < 0 PROVE Evaluated(a, s, n) = s[0] + (-x) * (s[0] - s[1])
  BY <1>1, <1>2, <1>4, EvaluatedOf
<1>5. ASSUME x > n - 1
      PROVE  Evaluated(a, s, n) = s[n - 1] + (x - (n - 1)) * (s[n - 1] - s[n - 2])
  BY <1>1, <1>3, <1>5, EvaluatedOf
<1>6. QED
  BY <1>4, <1>5 DEF SampleAt, a

(***************************************************************************)
(* What the modes say of a sample and its mirror image.                    *)
(***************************************************************************)
LEMMA MirrorRemainder ==
  ASSUME NEW p \in Nat \ {0}, NEW x \in Int, NEW y \in Int
  PROVE  /\ y = -1 - x \/ y = p - 1 - x => y % p = p - 1 - (x % p)
         /\ y = -x \/ y = p - x =>
              /\ x % p = 0 => y % p = 0
              /\ x % p # 0 => y % p = p - (x % p)
<1> DEFINE u == -1 - x
           v == -x
<1>1. u % p = p - 1 - (x % p)
  BY RemainderMirror
<1>2. (x % p = 0 => v % p = 0) /\ (x % p # 0 => v % p = p - (x % p))
  BY RemainderMirror
<1>3. u \in Int /\ v \in Int /\ p - 1 - x = u + p /\ p - x = v + p
  OBVIOUS
<1> HIDE DEF u, v
<1>4. (u + p) % p = u % p /\ (v + p) % p = v % p
  BY <1>3, RemainderAway
<1>5. ASSUME y = -1 - x \/ y = p - 1 - x PROVE y % p = p - 1 - (x % p)
  <2>1. y = u \/ y = u + p
    BY <1>3, <1>5 DEF u
  <2>2. QED
    BY <1>1, <1>4, <2>1
<1>6. ASSUME y = -x \/ y = p - x
      PROVE  (x % p = 0 => y % p = 0) /\ (x % p # 0 => y % p = p - (x % p))
  <2>1. y = v \/ y = v + p
    BY <1>3, <1>6 DEF v
  <2>2. QED
    BY <1>2, <1>4, <2>1
<1>7. QED
  BY <1>5, <1>6

LEMMA MirrorSymmetric ==
  ASSUME NEW n \in Nat \ {0}, NEW s, NEW x \in Int, NEW y \in Int,
         y = -1 - x \/ y = 2 * n - 1 - x
  PROVE  SampleAt("symmetric", s, n, x) = SampleAt("symmetric", s, n, y)
<1> DEFINE d == 2 * n
           m == x % d
           k == y % d
<1>1. d \in Nat \ {0} /\ (y = -1 - x \/ y = d - 1 - x)
  OBVIOUS
<1>2. m \in 0 .. d - 1
  BY Divided
<1>3. k = d - 1 - m
  <2> HIDE DEF d
  <2>1. QED
    BY <1>1, MirrorRemainder
<1>4. /\ SampleAt("symmetric", s, n, x) = s[IF m < n THEN m ELSE d - 1 - m]
      /\ SampleAt("symmetric", s, n, y) = s[IF k < n THEN k ELSE d - 1 - k]
  BY SampleSymmetric
<1>5. (IF m < n THEN m ELSE d - 1 - m) = (IF k < n THEN k ELSE d - 1 - k)
  <2> HIDE DEF m, k
  <2>1. QED
    BY <1>2, <1>3
<1>6. QED
  BY <1>4, <1>5

LEMMA MirrorAntisymmetric ==
  ASSUME NEW n \in Nat \ {0}, NEW s, s \in [0 .. n - 1 -> Int], NEW x \in Int, NEW y \in Int,
         y = -1 - x \/ y = 2 * n - 1 - x
  PROVE  SampleAt("antisymmetric", s, n, x) = -SampleAt("antisymmetric", s, n, y)
<1> DEFINE d == 2 * n
           m == x % d
           k == y % d
<1>1. d \in Nat \ {0} /\ (y = -1 - x \/ y = d - 1 - x)
  OBVIOUS
<1>2. m \in 0 .. d - 1
  BY Divided
<1>3. k = d - 1 - m
  <2> HIDE DEF d
  <2>1. QED
    BY <1>1, MirrorRemainder
<1>4. /\ SampleAt("antisymmetric", s, n, x) = IF m < n THEN s[m] ELSE -s[d - 1 - m]
      /\ SampleAt("antisymmetric", s, n, y) = IF k < n THEN s[k] ELSE -s[d - 1 - k]
  BY SampleAntisymmetric
<1> HIDE DEF m, k
<1>5. CASE m < n
  <2>1. ~(k < n) /\ d - 1 - k = m /\ s[m] \in Int
    BY <1>2, <1>3, <1>5
  <2>2. QED
    BY <1>4, <1>5, <2>1
<1>6. CASE ~(m < n)
  <2>1. k < n /\ d - 1 - m = k
    BY <1>2, <1>3, <1>6
  <2>2. QED
    BY <1>4, <1>6, <2>1
<1>7. QED
  BY <1>5, <1>6

LEMMA MirrorReflect ==
  ASSUME NEW n \in Nat, n >= 2, NEW s, NEW x \in Int, NEW y \in Int,
         y = -x \/ y = 2 * (n - 1) - x
  PROVE  SampleAt("reflect", s, n, x) = SampleAt("reflect", s, n, y)
<1> DEFINE p == 2 * (n - 1)
           m == x % p
           k == y % p
<1>1. p \in Nat \ {0} /\ (y = -x \/ y = p - x)
  OBVIOUS
<1>2. m \in 0 .. p - 1
  BY <1>1, Divided
<1>3. (m = 0 => k = 0) /\ (m # 0 => k = p - m)
  <2> HIDE DEF p
  <2>1. QED
    BY <1>1, MirrorRemainder
<1>4. /\ SampleAt("reflect", s, n, x) = s[IF m <= n - 1 THEN m ELSE p - m]
      /\ SampleAt("reflect", s, n, y) = s[IF k <= n - 1 THEN k ELSE p - k]
  BY SampleReflect
<1>5. (IF m <= n - 1 THEN m ELSE p - m) = (IF k <= n - 1 THEN k ELSE p - k)
  <2> HIDE DEF m, k
  <2>1. QED
    BY <1>2, <1>3
<1>6. QED
  BY <1>4, <1>5

\* About the edge sample at which x is beyond the end.
LEMMA MirrorAntireflect ==
  ASSUME NEW n \in Nat, n >= 2, NEW s, s \in [0 .. n - 1 -> Int], NEW x \in Int
  PROVE  \A o \in Int :
           /\ o = -x => SampleAt("antireflect", s, n, x)
                          = 2 * s[0] - SampleAt("antireflect", s, n, o)
           /\ o = 2 * (n - 1) - x => SampleAt("antireflect", s, n, x)
                          = 2 * s[n - 1] - SampleAt("antireflect", s, n, o)
<1> DEFINE p == 2 * (n - 1)
           m == x % p
           q == x \div p
           Rise(k) == IF k <= n - 1 THEN s[k] ELSE 2 * s[n - 1] - s[p - k]
           b == s[n - 1]
           c == s[0]
<1>1. p \in Nat \ {0} /\ m \in 0 .. p - 1 /\ q \in Int /\ b \in Int /\ c \in Int
  <2>1. p \in Nat \ {0} /\ b \in Int /\ c \in Int
    OBVIOUS
  <2>2. QED
    BY <2>1, Divided
<1>2. \A z \in Int : SampleAt("antireflect", s, n, z)
                       = Rise(z % p) + (z \div p) * 2 * (b - c)
  BY SampleAntireflect
<1>3. \A k \in 0 .. p - 1 : Rise(k) \in Int
  <2>1. ASSUME NEW k \in 0 .. p - 1 PROVE Rise(k) \in Int
    <3>1. CASE k <= n - 1
      BY <3>1
    <3>2. CASE ~(k <= n - 1)
      <4>1. p - k \in 0 .. n - 1 /\ k \in Int
        BY <3>2
      <4>2. s[p - k] \in Int
        BY <4>1
      <4>3. QED
        BY <3>2, <4>2
    <3>3. QED
      BY <3>1, <3>2
  <2>2. QED
    BY <2>1
<1>4. \A k \in 1 .. p - 1 : Rise(k) = 2 * b - Rise(p - k)
  <2>1. ASSUME NEW k \in 1 .. p - 1 PROVE Rise(k) = 2 * b - Rise(p - k)
    <3>1. CASE k < n - 1
      <4>1. ~(p - k <= n - 1) /\ k <= n - 1 /\ p - (p - k) = k /\ k \in 0 .. n - 1
        BY <3>1
      <4>2. s[k] \in Int
        BY <4>1
      <4>3. Rise(k) = s[k] /\ Rise(p - k) = 2 * b - s[k]
        BY <4>1
      <4>4. QED
        BY <1>1, <4>2, <4>3
    <3>2. CASE k = n - 1
      <4>1. p - k = k /\ k <= n - 1
        BY <3>2
      <4>2. Rise(k) = b /\ Rise(p - k) = b
        BY <3>2, <4>1
      <4>3. QED
        BY <1>1, <4>2
    <3>3. CASE k > n - 1
      <4>1. p - k <= n - 1 /\ ~(k <= n - 1) /\ p - k \in 0 .. n - 1
        BY <3>3
      <4>2. Rise(k) = 2 * b - s[p - k] /\ Rise(p - k) = s[p - k]
        BY <4>1
      <4>3. QED
        BY <4>2
    <3>4. QED
      BY <3>1, <3>2, <3>3
  <2>2. QED
    BY <2>1
<1>5. Rise(0) = c
  OBVIOUS
<1> DEFINE y == -x
           k == y % p
           r == y \div p
<1>6. /\ y \in Int
      /\ m = 0 => k = 0 /\ r = -q
      /\ m # 0 => k = p - m /\ r = -q - 1
  <2> HIDE DEF p, Rise, b, c
  <2>1. /\ x % p = 0 => (-x) % p = 0 /\ (-x) \div p = -(x \div p)
        /\ x % p # 0 => (-x) % p = p - (x % p) /\ (-x) \div p = -(x \div p) - 1
    BY <1>1, RemainderMirror
  <2>2. -x \in Int
    OBVIOUS
  <2>3. QED
    BY <2>1, <2>2
<1>7. (y + p) \div p = r + 1 /\ (y + p) % p = k
  BY <1>1, <1>6, RemainderAway
<1>8. y + p = 2 * (n - 1) - x /\ y + p \in Int
  OBVIOUS
<1> DEFINE z == y + p
<1>9. /\ SampleAt("antireflect", s, n, x) = Rise(m) + q * 2 * (b - c)
      /\ SampleAt("antireflect", s, n, y) = Rise(k) + r * 2 * (b - c)
      /\ SampleAt("antireflect", s, n, z) = Rise(k) + (r + 1) * 2 * (b - c)
  <2>1. z \in Int /\ z % p = k /\ z \div p = r + 1
    BY <1>7, <1>8
  <2> HIDE DEF Rise, p, b, c, z, y
  <2>2. QED
    BY <1>2, <1>6, <2>1
<1>10. Rise(m) = IF m = 0 THEN c ELSE 2 * b - Rise(k)
  <2>1. CASE m = 0
    BY <1>5, <2>1
  <2>2. CASE m # 0
    <3>1. m \in 1 .. p - 1 /\ k = p - m
      BY <1>1, <1>6, <2>2
    <3> HIDE DEF Rise, m, k, p
    <3>2. QED
      BY <1>4, <2>2, <3>1
  <2>3. QED
    BY <2>1, <2>2
<1>11. Rise(k) \in Int /\ Rise(m) \in Int /\ (m = 0 => Rise(k) = c)
  <2>1. k \in 0 .. p - 1
    <3> HIDE DEF Rise, m, k, p
    <3>1. QED
      BY <1>1, <1>6
  <2> HIDE DEF Rise, m, k, p
  <2>2. QED
    BY <1>1, <1>3, <1>5, <1>6, <2>1
<1> DEFINE h == Rise(m)
           i == Rise(k)
           e == 2 * (b - c)
<1>12. /\ h \in Int /\ i \in Int /\ e \in Int /\ e = 2 * b - 2 * c
       /\ m = 0 => h = c /\ i = c
       /\ m # 0 => h = 2 * b - i
  BY <1>1, <1>10, <1>11
<1>13. /\ SampleAt("antireflect", s, n, x) = h + q * e
       /\ SampleAt("antireflect", s, n, y) = i + r * e
       /\ SampleAt("antireflect", s, n, z) = i + (r + 1) * e
  <2>1. \A u \in Int, v \in Int : u * 2 * v = u * (2 * v)
    BY SMT
  <2>2. q \in Int /\ r \in Int /\ r + 1 \in Int /\ b - c \in Int
    <3> HIDE DEF q, r, m, k, p, b, c, y
    <3>1. QED
      BY <1>1, <1>6
  <2> HIDE DEF h, i, q, r, b, c, y, z
  <2>3. QED
    BY <1>9, <2>1, <2>2 DEF h, i
<1>14. (m = 0 => r * e = -(q * e)) /\ (m # 0 => r * e = -(q * e) - e)
       /\ (r + 1) * e = r * e + e /\ q * e \in Int /\ r * e \in Int
  <2>1. \A u, v \in Int : /\ (-u) * v = -(u * v) /\ (-u - 1) * v = -(u * v) - v
                          /\ (u + 1) * v = u * v + v /\ u * v \in Int
    BY SMT
  <2>2. q \in Int /\ r \in Int /\ e \in Int
    <3> HIDE DEF q, r, m, k, p, e, y
    <3>1. QED
      BY <1>1, <1>6, <1>12
  <2> HIDE DEF q, r, m, k, e
  <2>3. QED
    BY <1>6, <2>1, <2>2
<1>15. z = 2 * (n - 1) - x /\ y = -x
  OBVIOUS
<1> HIDE DEF h, i, e, q, r, m, k, b, c, z, y
<1> DEFINE f == q * e
           g == r * e
           j == (r + 1) * e
<1>16. /\ f \in Int /\ g \in Int /\ j = g + e
       /\ m = 0 => g = -f
       /\ m # 0 => g = -f - e
  BY <1>14
<1> HIDE DEF f, g, j
<1>17. h + f = 2 * c - (i + g) /\ h + f = 2 * b - (i + j)
  <2>1. CASE m = 0
    BY <1>1, <1>12, <1>16, <2>1
  <2>2. CASE m # 0
    BY <1>1, <1>12, <1>16, <2>2
  <2>3. QED
    BY <2>1, <2>2
<1>18. /\ SampleAt("antireflect", s, n, x) = 2 * c - SampleAt("antireflect", s, n, y)
       /\ SampleAt("antireflect", s, n, x) = 2 * b - SampleAt("antireflect", s, n, z)
  BY <1>13, <1>17 DEF f, g, j
<1>19. QED
  BY <1>15, <1>18 DEF b, c

(***************************************************************************)
(* What the modes demand of a sample beyond the ends, one by one.          *)
(***************************************************************************)
LEMMA BeyondOf ==
  ASSUME NEW known, NEW n, NEW i
  PROVE  LET before == IF i < 0 THEN known[i + 1] ELSE known[i - 1]
         IN /\ Beyond("zero", known, n, i) = 0
            /\ Beyond("constant", known, n, i) = before
            /\ Beyond("periodic", known, n, i) = IF i < 0 THEN known[i + n] ELSE known[i - n]
            /\ Beyond("symmetric", known, n, i) = known[Opposite(n, i, 1)]
            /\ Beyond("antisymmetric", known, n, i) = -known[Opposite(n, i, 1)]
            /\ Beyond("smooth", known, n, i) = before + Slope(known, n, i)
            /\ Beyond("reflect", known, n, i) = known[Opposite(n, i, 0)]
            /\ Beyond("antireflect", known, n, i)
                 = 2 * Edge(known, n, i) - known[Opposite(n, i, 0)]
  BY DEF Beyond

LEMMA SampleSimple ==
  ASSUME NEW n \in Nat \ {0}, NEW s, NEW x \in Int, x \notin 0 .. n - 1
  PROVE  /\ SampleAt("zero", s, n, x) = 0
         /\ SampleAt("constant", s, n, x) = s[IF x < 0 THEN 0 ELSE n - 1]
         /\ n = 1 => SampleAt("smooth", s, n, x) = s[0]
<1> DEFINE i == IF x < 0 THEN 0 ELSE n - 1
<1>1. Access("zero", 0).op = "zero" /\ Access("sample", i).op = "sample"
      /\ Access("sample", i).source = i /\ Access("sample", 0).op = "sample"
      /\ Access("sample", 0).source = 0
  BY AccessFields
<1>2. /\ ExtendedIndex("zero", x, n) = Access("zero", 0)
      /\ ExtendedIndex("constant", x, n) = Access("sample", i)
      /\ n = 1 => ExtendedIndex("smooth", x, n) = Access("sample", 0)
  BY IndexOutside
<1> HIDE DEF i
<1>3. QED
  BY <1>1, <1>2, EvaluatedOf DEF SampleAt, i

(***************************************************************************)
(* The samples that the accesses describe extend a signal as its mode      *)
(* demands, however far, also by many times its length.                    *)
(***************************************************************************)
THEOREM DescribedExtends ==
  ASSUME NEW mode \in Modes, NEW n \in Nat \ {0}, NEW s, s \in [0 .. n - 1 -> Int],
         mode \in {"reflect", "antireflect"} => n >= 2,
         NEW reach \in Nat, NEW f,
         f = [x \in -reach .. n - 1 + reach |-> SampleAt(mode, s, n, x)]
  PROVE  Extends(f, mode, s, n)
<1> DEFINE D == -reach .. n - 1 + reach
           V(x) == SampleAt(mode, s, n, x)
<1>1. DOMAIN f = D /\ \A x \in D : f[x] = V(x)
  OBVIOUS
<1>2. \A x \in 0 .. n - 1 : x \in D /\ f[x] = s[x] /\ s[x] \in Int
  <2>1. ASSUME NEW x \in 0 .. n - 1 PROVE x \in D
    OBVIOUS
  <2>2. QED
    BY <1>1, <2>1, SampleInside
<1>3. ASSUME NEW x \in D \ (0 .. n - 1) PROVE f[x] = Beyond(mode, f, n, x)
  <2> DEFINE w == IF x < 0 THEN x + 1 ELSE x - 1
             y1 == Opposite(n, x, 1)
             y0 == Opposite(n, x, 0)
             z == IF x < 0 THEN x + n ELSE x - n
  <2>1. x \in Int /\ x \notin 0 .. n - 1 /\ f[x] = V(x)
    BY <1>1
  <2>2. w \in D /\ w \in Int /\ f[w] = V(w)
    <3>1. w \in D /\ w \in Int
      OBVIOUS
    <3>2. QED
      BY <1>1, <3>1
  <2>3. z \in D /\ z \in Int /\ f[z] = V(z)
    <3>1. z \in D /\ z \in Int
      OBVIOUS
    <3>2. QED
      BY <1>1, <3>1
  <2>4. /\ y1 \in D /\ y1 \in Int /\ f[y1] = V(y1)
        /\ y1 = -1 - x \/ y1 = 2 * n - 1 - x
    <3>1. y1 \in D /\ y1 \in Int
      BY DEF Opposite
    <3>2. y1 = -1 - x \/ y1 = 2 * n - 1 - x
      BY DEF Opposite
    <3>3. QED
      BY <1>1, <3>1, <3>2
  <2>5. /\ y0 \in D /\ y0 \in Int /\ f[y0] = V(y0)
        /\ x < 0 => y0 = -x
        /\ ~(x < 0) => y0 = 2 * (n - 1) - x
    <3>1. y0 \in D /\ y0 \in Int
      BY DEF Opposite
    <3>2. (x < 0 => y0 = -x) /\ (~(x < 0) => y0 = 2 * (n - 1) - x)
      BY DEF Opposite
    <3>3. QED
      BY <1>1, <3>1, <3>2
  <2> HIDE DEF D, V, w, y1, y0, z
  <2>6. CASE mode = "zero"
    <3>1. V(x) = 0
      BY <2>1, <2>6, SampleSimple DEF V
    <3>2. QED
      BY <2>1, <2>6, <3>1, BeyondOf
  <2>7. CASE mode = "constant"
    <3>1. V(x) = s[IF x < 0 THEN 0 ELSE n - 1]
      BY <2>1, <2>7, SampleSimple DEF V
    <3>2. V(w) = s[IF x < 0 THEN 0 ELSE n - 1]
      <4>1. CASE w \in 0 .. n - 1
        <5>1. w = IF x < 0 THEN 0 ELSE n - 1
          BY <2>1, <4>1 DEF w
        <5>2. V(w) = s[w]
          BY <4>1, SampleInside DEF V
        <5>3. QED
          BY <5>1, <5>2
      <4>2. CASE w \notin 0 .. n - 1
        <5>1. V(w) = s[IF w < 0 THEN 0 ELSE n - 1]
          BY <2>2, <2>7, <4>2, SampleSimple DEF V
        <5>2. w < 0 <=> x < 0
          BY <2>1, <4>2 DEF w
        <5>3. QED
          BY <5>1, <5>2
      <4>3. QED
        BY <4>1, <4>2
    <3>3. Beyond(mode, f, n, x) = f[w]
      BY <2>7, BeyondOf DEF w
    <3>4. QED
      BY <2>1, <2>2, <3>1, <3>2, <3>3
  <2>8. CASE mode = "periodic"
    <3>1. V(x) = s[x % n] /\ V(z) = s[z % n]
      BY <2>1, <2>3, <2>8, SamplePeriodic DEF V
    <3>2. z % n = x % n
      BY <2>1, RemainderAway DEF z
    <3>3. Beyond(mode, f, n, x) = f[z]
      BY <2>8, BeyondOf DEF z
    <3>4. QED
      BY <2>1, <2>3, <3>1, <3>2, <3>3
  <2>9. CASE mode = "symmetric"
    <3>1. V(x) = V(y1)
      BY <2>1, <2>4, <2>9, MirrorSymmetric DEF V
    <3>2. QED
      BY <2>1, <2>4, <2>9, <3>1, BeyondOf DEF y1
  <2>10. CASE mode = "antisymmetric"
    <3>1. V(x) = -V(y1)
      BY <2>1, <2>4, <2>10, MirrorAntisymmetric DEF V
    <3>2. QED
      BY <2>1, <2>4, <2>10, <3>1, BeyondOf DEF y1
  <2>11. CASE mode = "smooth"
    <3>1. Beyond(mode, f, n, x) = f[w] + Slope(f, n, x)
      BY <2>11, BeyondOf DEF w
    <3>2. CASE n = 1
      <4>1. Slope(f, n, x) = 0
        BY <3>2 DEF Slope
      <4>2. V(x) = s[0]
        BY <2>1, <2>11, <3>2, SampleSimple DEF V
      <4>3. V(w) = s[0]
        <5>1. CASE w \in 0 .. n - 1
          <6>1. w = 0 /\ V(w) = s[w]
            BY <3>2, <5>1, SampleInside DEF V
          <6>2. QED
            BY <6>1
        <5>2. CASE w \notin 0 .. n - 1
          BY <2>2, <2>11, <3>2, <5>2, SampleSimple DEF V
        <5>3. QED
          BY <5>1, <5>2
      <4>4. s[0] \in Int
        BY <1>2
      <4>5. QED
        BY <2>1, <2>2, <3>1, <4>1, <4>2, <4>3, <4>4
    <3>3. CASE n >= 2
      <4>1. 0 \in 0 .. n - 1 /\ 1 \in 0 .. n - 1 /\ n - 1 \in 0 .. n - 1 /\ n - 2 \in 0 .. n - 1
        BY <3>3
      <4>2. /\ s[0] \in Int /\ s[1] \in Int /\ s[n - 1] \in Int /\ s[n - 2] \in Int
            /\ f[0] = s[0] /\ f[1] = s[1] /\ f[n - 1] = s[n - 1] /\ f[n - 2] = s[n - 2]
        BY <1>2, <4>1
      <4>3. CASE x < 0
        <5> DEFINE a == s[0]
                   c == s[0] - s[1]
        <5>1. V(x) = a + (-x) * c
          BY <2>1, <2>11, <3>3, <4>3, SampleSmooth DEF V
        <5>2. w = x + 1 /\ w <= 0
          BY <2>1, <4>3 DEF w
        <5>3. V(w) = a + (-w) * c
          <6>1. CASE w < 0
            BY <2>2, <2>11, <3>3, <6>1, SampleSmooth DEF V
          <6>2. CASE w = 0
            <7>1. V(w) = s[0]
              BY <4>1, <6>2, SampleInside DEF V
            <7>2. (-w) * c = 0
              BY <4>2, <6>2
            <7>3. QED
              BY <4>2, <7>1, <7>2
          <6>3. QED
            BY <2>2, <5>2, <6>1, <6>2
        <5>4. Slope(f, n, x) = c
          BY <3>3, <4>2, <4>3 DEF Slope
        <5>5. a \in Int /\ c \in Int
          BY <4>2
        <5> HIDE DEF a, c
        <5>6. \A k, l \in Int : (k + 1) * l = k * l + l /\ k * l \in Int
          BY SMT
        <5>7. -x = (-w) + 1 /\ -w \in Int
          BY <2>1, <5>2
        <5>8. (-x) * c = (-w) * c + c /\ (-w) * c \in Int
          BY <5>5, <5>6, <5>7
        <5> DEFINE k == (-x) * c
                   l == (-w) * c
        <5>9. k = l + c /\ l \in Int /\ V(x) = a + k /\ V(w) = a + l
          BY <5>1, <5>3, <5>8
        <5> HIDE DEF k, l
        <5>10. QED
          BY <2>1, <2>2, <3>1, <5>4, <5>5, <5>9
      <4>4. CASE x > n - 1
        <5> DEFINE a == s[n - 1]
                   c == s[n - 1] - s[n - 2]
                   g == x - (n - 1)
                   h == w - (n - 1)
        <5>1. V(x) = a + g * c
          BY <2>1, <2>11, <3>3, <4>4, SampleSmooth DEF V
        <5>2. w = x - 1 /\ w >= n - 1
          BY <2>1, <4>4 DEF w
        <5>3. V(w) = a + h * c
          <6>1. CASE w > n - 1
            BY <2>2, <2>11, <3>3, <6>1, SampleSmooth DEF V
          <6>2. CASE w = n - 1
            <7>1. V(w) = s[n - 1]
              BY <4>1, <6>2, SampleInside DEF V
            <7>2. h * c = 0
              BY <4>2, <6>2
            <7>3. QED
              BY <4>2, <7>1, <7>2
          <6>3. QED
            BY <2>2, <5>2, <6>1, <6>2
        <5>4. Slope(f, n, x) = c
          <6>1. ~(x < 0) /\ n # 1
            BY <2>1, <3>3, <4>4
          <6>2. QED
            BY <6>1, <4>2 DEF Slope
        <5>5. a \in Int /\ c \in Int
          BY <4>2
        <5>6. \A k, l \in Int : (k + 1) * l = k * l + l /\ k * l \in Int
          BY SMT
        <5>7. g = h + 1 /\ h \in Int
          BY <2>1, <5>2
        <5> HIDE DEF a, c, g, h
        <5>8. g * c = h * c + c /\ h * c \in Int
          BY <5>5, <5>6, <5>7
        <5>9. QED
          BY <2>1, <2>2, <3>1, <5>1, <5>3, <5>4, <5>5, <5>8
      <4>5. QED
        BY <2>1, <4>3, <4>4
    <3>4. QED
      BY <3>2, <3>3
  <2>12. CASE mode = "reflect"
    <3>1. n >= 2 /\ (y0 = -x \/ y0 = 2 * (n - 1) - x)
      BY <2>5, <2>12
    <3>2. V(x) = V(y0)
      BY <2>1, <2>5, <2>12, <3>1, MirrorReflect DEF V
    <3>3. QED
      BY <2>1, <2>5, <2>12, <3>2, BeyondOf DEF y0
  <2>13. CASE mode = "antireflect"
    <3>1. n >= 2
      BY <2>13
    <3>2. n \in Nat
      OBVIOUS
    <3>3. V(x) = 2 * (IF x < 0 THEN s[0] ELSE s[n - 1]) - V(y0)
      <4>1. \A o \in Int :
              /\ o = -x => SampleAt("antireflect", s, n, x)
                          = 2 * s[0] - SampleAt("antireflect", s, n, o)
              /\ o = 2 * (n - 1) - x => SampleAt("antireflect", s, n, x)
                          = 2 * s[n - 1] - SampleAt("antireflect", s, n, o)
        BY ONLY <2>1, <3>1, <3>2, MirrorAntireflect, s \in [0 .. n - 1 -> Int]
      <4>2. QED
        BY <2>5, <2>13, <4>1 DEF V
    <3>4. Edge(f, n, x) = IF x < 0 THEN s[0] ELSE s[n - 1]
      <4>1. f[0] = s[0] /\ f[n - 1] = s[n - 1]
        BY <1>2
      <4>2. QED
        BY <4>1 DEF Edge
    <3>5. Beyond(mode, f, n, x) = 2 * Edge(f, n, x) - f[y0]
      BY <2>13, BeyondOf DEF y0
    <3>6. QED
      BY <2>1, <2>5, <3>3, <3>4, <3>5
  <2>14. QED
    BY <2>6, <2>7, <2>8, <2>9, <2>10, <2>11, <2>12, <2>13 DEF Modes
<1>4. QED
  BY <1>1, <1>2, <1>3 DEF Extends

(***************************************************************************)
(* Two extensions of a signal that reach equally far are the same, so that *)
(* what is demanded of one determines it.                                  *)
(***************************************************************************)
THEOREM OnlyOneExtension ==
  ASSUME NEW mode \in Modes, NEW n \in Nat \ {0}, NEW s,
         mode \in {"reflect", "antireflect"} => n >= 2, NEW reach \in Nat,
         NEW f, NEW g, DOMAIN f = -reach .. n - 1 + reach,
         DOMAIN g = -reach .. n - 1 + reach, Extends(f, mode, s, n), Extends(g, mode, s, n)
  PROVE  \A x \in -reach .. n - 1 + reach : f[x] = g[x]
<1> DEFINE D == -reach .. n - 1 + reach
           Distance(x) == IF x < 0 THEN -x ELSE IF x > n - 1 THEN x - (n - 1) ELSE 0
           T == {Distance(x) : x \in {y \in D : f[y] # g[y]}}
<1>1. /\ \A x \in 0 .. n - 1 : f[x] = g[x]
      /\ \A x \in D \ (0 .. n - 1) : f[x] = Beyond(mode, f, n, x) /\ g[x] = Beyond(mode, g, n, x)
  BY DEF Extends
<1>2. SUFFICES ASSUME T # {} PROVE FALSE
  <2>1. ASSUME NEW x \in D, f[x] # g[x] PROVE FALSE
    <3>1. Distance(x) \in T
      BY <2>1
    <3>2. QED
      BY <1>2, <3>1
  <2>2. QED
    BY <2>1
<1>3. T \subseteq 0 .. reach
  <2>1. \A x \in D : Distance(x) \in 0 .. reach
    OBVIOUS
  <2>2. QED
    BY <2>1
<1>4. PICK d \in T : \A e \in T : d <= e
  <2> HIDE DEF T
  <2>1. 0 \in Int /\ reach \in Int
    OBVIOUS
  <2>2. QED
    BY ONLY <1>2, <1>3, <2>1, HasLeast
<1>5. PICK x \in D : f[x] # g[x] /\ d = Distance(x)
  OBVIOUS
<1>6. \A y \in D : Distance(y) < d => f[y] = g[y]
  <2>1. ASSUME NEW y \in D, Distance(y) < d, f[y] # g[y] PROVE FALSE
    <3>1. Distance(y) \in T
      BY <2>1
    <3>2. d <= Distance(y) /\ d \in Int /\ Distance(y) \in Int
      BY <1>3, <1>4, <3>1
    <3>3. QED
      BY <2>1, <3>2
  <2>2. QED
    BY <2>1
<1>7. x \in Int /\ x \in D \ (0 .. n - 1)
  BY <1>1, <1>5
<1> HIDE DEF T
<1> DEFINE w == IF x < 0 THEN x + 1 ELSE x - 1
           z == IF x < 0 THEN x + n ELSE x - n
           y1 == Opposite(n, x, 1)
           y0 == Opposite(n, x, 0)
<1>8. f[w] = g[w]
  <2>1. w \in D /\ Distance(w) < d
    BY <1>5, <1>7
  <2>2. QED
    BY <1>6, <2>1
<1>9. f[z] = g[z]
  <2>1. z \in D /\ Distance(z) < d
    BY <1>5, <1>7
  <2>2. QED
    BY <1>6, <2>1
<1>10. f[y1] = g[y1]
  <2>1. y1 \in D /\ Distance(y1) < d
    BY <1>5, <1>7 DEF Opposite
  <2>2. QED
    BY <1>6, <2>1
<1>11. n >= 2 => f[y0] = g[y0]
  <2>1. n >= 2 => y0 \in D /\ Distance(y0) < d
    BY <1>5, <1>7 DEF Opposite
  <2>2. QED
    BY <1>6, <2>1
<1>12. Slope(f, n, x) = Slope(g, n, x) /\ Edge(f, n, x) = Edge(g, n, x)
  <2>1. /\ f[0] = g[0] /\ f[n - 1] = g[n - 1]
        /\ n # 1 => f[1] = g[1] /\ f[n - 2] = g[n - 2]
    BY <1>1
  <2>2. QED
    BY <2>1 DEF Slope, Edge
<1>13. Beyond(mode, f, n, x) = Beyond(mode, g, n, x)
  <2> HIDE DEF w, z, y1, y0, D, Distance
  <2>1. \A h : LET before == h[w]
               IN /\ Beyond("zero", h, n, x) = 0
                  /\ Beyond("constant", h, n, x) = before
                  /\ Beyond("periodic", h, n, x) = h[z]
                  /\ Beyond("symmetric", h, n, x) = h[y1]
                  /\ Beyond("antisymmetric", h, n, x) = -h[y1]
                  /\ Beyond("smooth", h, n, x) = before + Slope(h, n, x)
                  /\ Beyond("reflect", h, n, x) = h[y0]
                  /\ Beyond("antireflect", h, n, x) = 2 * Edge(h, n, x) - h[y0]
    BY BeyondOf DEF w, z, y1, y0
  <2>2. CASE mode \in {"zero", "constant", "periodic", "symmetric", "antisymmetric", "smooth"}
    BY <1>8, <1>9, <1>10, <1>12, <2>1, <2>2
  <2>3. CASE mode \in {"reflect", "antireflect"}
    BY <1>11, <1>12, <2>1, <2>3
  <2>4. QED
    BY <2>2, <2>3 DEF Modes
<1>14. QED
  BY <1>1, <1>5, <1>7, <1>13

(***************************************************************************)
(* Every access is to samples of the signal.                               *)
(***************************************************************************)
LEMMA AccessIsOK ==
  ASSUME NEW mode \in Modes, NEW n \in Nat \ {0}, NEW x \in Int,
         mode \in {"reflect", "antireflect"} => n >= 2
  PROVE  AccessOK(ExtendedIndex(mode, x, n), n)
<1> DEFINE a == ExtendedIndex(mode, x, n)
<1>1. \A op \in {"zero", "sample", "negated"} : \A i :
        (op = "zero" \/ i \in 0 .. n - 1) => AccessOK(Access(op, i), n)
  <2>1. ASSUME NEW op \in {"zero", "sample", "negated"}, NEW i, op = "zero" \/ i \in 0 .. n - 1
        PROVE  AccessOK(Access(op, i), n)
    <3> DEFINE c == Access(op, i)
    <3>1. c.op = op /\ c.source = i
      BY AccessFields
    <3> HIDE DEF c
    <3>2. c.op # "smooth" /\ c.op \in {"zero", "sample", "negated", "smooth", "antireflect"}
      BY <2>1, <3>1
    <3>3. c.op # "zero" => c.source \in 0 .. n - 1
      BY <2>1, <3>1
    <3>4. AccessOK(c, n)
      BY <3>2, <3>3 DEF AccessOK
    <3>5. QED
      BY <3>4 DEF c
  <2>2. QED
    BY <2>1
<1>2. CASE x \in 0 .. n - 1
  <2>1. a = Access("sample", x)
    BY <1>2 DEF ExtendedIndex
  <2>2. QED
    BY <1>1, <1>2, <2>1
<1>3. ASSUME x \notin 0 .. n - 1 PROVE AccessOK(a, n)
  <2>1. CASE mode = "zero"
    BY <1>1, <1>3, <2>1, IndexOutside
  <2>2. CASE mode = "constant"
    <3> DEFINE i == IF x < 0 THEN 0 ELSE n - 1
    <3>1. a = Access("sample", i) /\ i \in 0 .. n - 1
      BY <1>3, <2>2, IndexOutside
    <3> HIDE DEF a, i
    <3>2. QED
      BY <1>1, <3>1
  <2>3. CASE mode = "periodic"
    <3> DEFINE i == x % n
    <3>1. a = Access("sample", i) /\ i \in 0 .. n - 1
      BY <1>3, <2>3, IndexOutside, Divided
    <3> HIDE DEF a, i
    <3>2. QED
      BY <1>1, <3>1
  <2>4. CASE mode = "symmetric"
    <3> DEFINE m == x % (2 * n)
               i == IF m < n THEN m ELSE 2 * n - 1 - m
    <3>1. a = Access("sample", i)
      BY <1>3, <2>4, IndexOutside DEF Symmetric
    <3>2. m \in 0 .. 2 * n - 1
      BY Divided
    <3> HIDE DEF m
    <3>3. i \in 0 .. n - 1
      BY <3>2
    <3> HIDE DEF a, i
    <3>4. QED
      BY <1>1, <3>1, <3>3
  <2>5. CASE mode = "antisymmetric"
    <3> DEFINE m == x % (2 * n)
               o == 2 * n - 1 - m
    <3>1. a = IF m < n THEN Access("sample", m) ELSE Access("negated", o)
      BY <1>3, <2>5, IndexOutside, AntisymmetricIs
    <3>2. m \in 0 .. 2 * n - 1
      BY Divided
    <3> HIDE DEF m
    <3>3. IF m < n THEN m \in 0 .. n - 1 ELSE o \in 0 .. n - 1
      BY <3>2
    <3> HIDE DEF a, o
    <3>4. QED
      BY <1>1, <3>1, <3>3
  <2>6. CASE mode \in {"smooth", "reflect", "antireflect"} /\ n = 1
    BY <1>1, <1>3, <2>6, IndexOutside
  <2>7. CASE mode = "smooth" /\ n # 1
    <3>1. a = Smooth(x, n)
      BY <1>3, <2>7, IndexOutside
    <3>2. n - 1 \in 0 .. n - 1 /\ n - 2 \in 0 .. n - 1 /\ 0 \in 0 .. n - 1 /\ 1 \in 0 .. n - 1
      BY <2>7
    <3>3. /\ Smooth(x, n).op = "smooth"
          /\ Smooth(x, n).source = IF x < 0 THEN 0 ELSE n - 1
          /\ Smooth(x, n).auxiliary = IF x < 0 THEN 1 ELSE n - 2
      BY DEF Smooth, Access
    <3> HIDE DEF a
    <3>4. /\ a.op = "smooth" /\ a.source \in 0 .. n - 1 /\ a.auxiliary \in 0 .. n - 1
      BY <3>1, <3>2, <3>3
    <3>5. QED
      BY <3>4 DEF AccessOK
  <2>8. CASE mode = "reflect" /\ n # 1
    <3> DEFINE p == 2 * (n - 1)
               m == x % p
               i == IF m <= n - 1 THEN m ELSE p - m
    <3>1. a = Access("sample", i)
      BY <1>3, <2>8, IndexOutside DEF Reflect
    <3>2. p \in Nat \ {0}
      BY <2>8
    <3>3. m \in 0 .. p - 1
      BY <3>2, Divided
    <3> HIDE DEF m
    <3>4. i \in 0 .. n - 1
      BY <3>3
    <3> HIDE DEF a, i
    <3>5. QED
      BY <1>1, <3>1, <3>4
  <2>9. CASE mode = "antireflect" /\ n # 1
    <3> DEFINE p == 2 * (n - 1)
               m == x % p
               i == IF m > n - 1 THEN p - m ELSE m
    <3>1. a = Antireflect(x, n)
      BY <1>3, <2>9, IndexOutside
    <3>2. Antireflect(x, n).op = "antireflect" /\ Antireflect(x, n).source = i
      BY DEF Antireflect, Access
    <3>3. p \in Nat \ {0}
      BY <2>9
    <3>4. m \in 0 .. p - 1
      BY <3>3, Divided
    <3> HIDE DEF m
    <3>5. i \in 0 .. n - 1
      BY <3>4
    <3> HIDE DEF a, i
    <3>6. QED
      BY <3>1, <3>2, <3>5 DEF AccessOK
  <2>10. QED
    BY <2>1, <2>2, <2>3, <2>4, <2>5, <2>6, <2>7, <2>8, <2>9 DEF Modes
<1>4. QED
  BY <1>2, <1>3

LEMMA SourcesInside ==
  ASSUME NEW n \in Nat \ {0}, NEW a, AccessOK(a, n)
  PROVE  /\ IsSeq(Sources(a, n)) /\ Len(Sources(a, n)) \in Nat
         /\ DOMAIN Sources(a, n) = 1 .. Len(Sources(a, n))
         /\ \A k \in 1 .. Len(Sources(a, n)) : Sources(a, n)[k] \in 0 .. n - 1
<1> DEFINE q == Sources(a, n)
<1>1. q \in Seq(0 .. n - 1)
  <2>1. CASE a.op = "zero"
    <3>1. q = <<>>
      BY <2>1, SourcesOf
    <3> HIDE DEF q
    <3>2. QED
      BY <3>1
  <2>2. CASE a.op \in {"sample", "negated"}
    <3>1. a.source \in 0 .. n - 1 /\ q = <<a.source>>
      BY <2>2, SourcesOf DEF AccessOK
    <3> HIDE DEF q
    <3>2. QED
      BY <3>1
  <2>3. CASE a.op = "smooth"
    <3>1. /\ a.source \in 0 .. n - 1 /\ a.auxiliary \in 0 .. n - 1
          /\ q = <<a.source, a.auxiliary>>
      BY <2>3, SourcesOf DEF AccessOK
    <3> HIDE DEF q
    <3>2. QED
      BY <3>1
  <2>4. CASE a.op = "antireflect"
    <3>1. a.source \in 0 .. n - 1 /\ q = <<a.source, 0, n - 1>>
      BY <2>4, SourcesOf DEF AccessOK
    <3>2. 0 \in 0 .. n - 1 /\ n - 1 \in 0 .. n - 1
      OBVIOUS
    <3> HIDE DEF q
    <3>3. QED
      BY <3>1, <3>2
  <2>5. QED
    BY <2>1, <2>2, <2>3, <2>4 DEF AccessOK
<1> HIDE DEF q
<1>2. IsSeq(q) /\ Len(q) \in Nat /\ DOMAIN q = 1 .. Len(q)
      /\ \A k \in 1 .. Len(q) : q[k] \in 0 .. n - 1
  BY <1>1 DEF IsSeq
<1>3. QED
  BY <1>2 DEF q

(***************************************************************************)
(* How many elements of a stream have been stored when it is the turn of   *)
(* element ix of stream st.                                                *)
(***************************************************************************)
Progress(load, st, ix, s) ==
  IF load.inverse
  THEN IF s = st THEN ix - load.begin[s] ELSE IF s = "even" THEN load.count[s] ELSE 0
  ELSE LET seen == IF s = "even" /\ st = "odd" THEN ix + 1 ELSE ix
       IN IF seen < load.begin[s] THEN 0
          ELSE IF seen < load.begin[s] + load.count[s] THEN seen - load.begin[s]
          ELSE load.count[s]

\* A turn that comes, and one after which there is none.
TurnOK(load, st, ix) ==
  /\ st \in Streams /\ ix \in Nat
  /\ load.inverse => ix \in load.begin[st] .. load.begin[st] + load.count[st]
  /\ ~load.inverse => First(load) <= ix

LastTurn(load, st, ix) ==
  IF load.inverse THEN st = "odd" /\ ix >= End(load, "odd") ELSE ix >= Past(load)

\* The turn after.
NextStream(load, st) ==
  IF load.inverse THEN st ELSE IF st = "even" THEN "odd" ELSE "even"

NextIndex(load, st, ix) == IF ~load.inverse /\ st = "even" THEN ix ELSE ix + 1

LEMMA LoadSizes ==
  ASSUME NEW load, LoadAssumed(load)
  PROVE  /\ load.begin["even"] \in Nat /\ load.begin["odd"] \in Nat
         /\ load.count["even"] \in Nat /\ load.count["odd"] \in Nat
         /\ load.begin.even = load.begin["even"] /\ load.begin.odd = load.begin["odd"]
         /\ load.inverse \in BOOLEAN /\ load.length \in Nat \ {0} /\ load.pad \in Nat
         /\ load.sample \in Nat /\ load.mode \in Modes
         /\ \A s \in Streams : load.begin[s] \in Nat /\ load.count[s] \in Nat
  BY DEF LoadAssumed, Streams

LEMMA FirstAndPast ==
  ASSUME NEW load, LoadAssumed(load)
  PROVE  /\ First(load) \in Nat /\ Past(load) \in Nat
         /\ load.inverse => First(load) = load.begin["even"]
         /\ ~load.inverse => \A s \in Streams : First(load) <= load.begin[s]
         /\ \A s \in Streams : load.begin[s] + load.count[s] <= Past(load)
<1>1. /\ First(load) = (IF load.inverse THEN load.begin["even"]
                        ELSE IF load.begin["even"] < load.begin["odd"]
                        THEN load.begin["even"] ELSE load.begin["odd"])
      /\ Past(load) = (IF load.begin["even"] + load.count["even"]
                            > load.begin["odd"] + load.count["odd"]
                       THEN load.begin["even"] + load.count["even"]
                       ELSE load.begin["odd"] + load.count["odd"])
  BY LoadSizes DEF First, Past, End
<1>2. \A s \in Streams : s = "even" \/ s = "odd"
  BY DEF Streams
<1>3. QED
  BY <1>1, <1>2, LoadSizes

LEMMA ProgressStarts ==
  ASSUME NEW load, LoadAssumed(load)
  PROVE  /\ TurnOK(load, "even", First(load))
         /\ \A s \in Streams : Progress(load, "even", First(load), s) = 0
<1>1. \A s \in Streams : s = "even" \/ s = "odd"
  BY DEF Streams
<1>2. TurnOK(load, "even", First(load))
  BY LoadSizes, FirstAndPast DEF TurnOK, Streams
<1>3. ASSUME NEW s \in Streams PROVE Progress(load, "even", First(load), s) = 0
  <2>1. CASE load.inverse
    <3>1. First(load) = load.begin["even"]
      BY <2>1, FirstAndPast
    <3>2. QED
      BY <1>1, <2>1, <3>1, LoadSizes DEF Progress
  <2>2. CASE ~load.inverse
    <3>1. First(load) <= load.begin[s] /\ First(load) \in Nat
      BY <2>2, FirstAndPast
    <3>2. Progress(load, "even", First(load), s)
            = IF First(load) < load.begin[s] THEN 0
              ELSE IF First(load) < load.begin[s] + load.count[s]
              THEN First(load) - load.begin[s] ELSE load.count[s]
      BY <2>2 DEF Progress
    <3>3. load.begin[s] \in Nat /\ load.count[s] \in Nat
      BY LoadSizes
    <3>4. QED
      BY <3>1, <3>2, <3>3
  <2>3. QED
    BY <2>1, <2>2
<1>4. QED
  BY <1>2, <1>3

LEMMA ProgressBounds ==
  ASSUME NEW load, LoadAssumed(load), NEW st, NEW ix, TurnOK(load, st, ix), NEW s \in Streams
  PROVE  /\ Progress(load, st, ix, s) \in 0 .. load.count[s]
         /\ LastTurn(load, st, ix) => Progress(load, st, ix, s) = load.count[s]
<1>1. /\ \A t \in Streams : t = "even" \/ t = "odd"
      /\ load.begin[s] \in Nat /\ load.count[s] \in Nat /\ ix \in Nat /\ st \in Streams
  BY LoadSizes DEF Streams, TurnOK
<1>2. CASE load.inverse
  <2>1. s = st => ix \in load.begin[s] .. load.begin[s] + load.count[s]
    BY <1>2 DEF TurnOK
  <2>2. Progress(load, st, ix, s) = IF s = st THEN ix - load.begin[s]
                                    ELSE IF s = "even" THEN load.count[s] ELSE 0
    BY <1>2 DEF Progress
  <2>3. LastTurn(load, st, ix) => st = "odd" /\ ix >= load.begin["odd"] + load.count["odd"]
    BY <1>2 DEF LastTurn, End
  <2>4. QED
    BY <1>1, <2>1, <2>2, <2>3
<1>3. CASE ~load.inverse
  <2> DEFINE seen == IF s = "even" /\ st = "odd" THEN ix + 1 ELSE ix
  <2>1. Progress(load, st, ix, s)
          = IF seen < load.begin[s] THEN 0
            ELSE IF seen < load.begin[s] + load.count[s] THEN seen - load.begin[s]
            ELSE load.count[s]
    BY <1>3 DEF Progress
  <2>2. seen \in Nat /\ seen >= ix
    BY <1>1
  <2>3. LastTurn(load, st, ix) => ix >= load.begin[s] + load.count[s]
    <3>1. LastTurn(load, st, ix) => ix >= Past(load)
      BY <1>3 DEF LastTurn
    <3>2. load.begin[s] + load.count[s] <= Past(load) /\ Past(load) \in Nat
      BY FirstAndPast
    <3>3. QED
      BY <1>1, <3>1, <3>2
  <2> HIDE DEF seen
  <2>4. QED
    BY <1>1, <2>1, <2>2, <2>3
<1>4. QED
  BY <1>2, <1>3

\* One more of the stream whose turn it was, and no more of the other.
LEMMA ProgressStored ==
  ASSUME NEW load, LoadAssumed(load), NEW st, NEW ix, TurnOK(load, st, ix),
         ix \in load.begin[st] .. load.begin[st] + load.count[st] - 1
  PROVE  LET st1 == NextStream(load, st)
             ix1 == NextIndex(load, st, ix)
         IN /\ TurnOK(load, st1, ix1)
            /\ Progress(load, st, ix, st) = ix - load.begin[st]
            /\ Progress(load, st1, ix1, st) = ix + 1 - load.begin[st]
            /\ \A s \in Streams : s # st =>
                 Progress(load, st1, ix1, s) = Progress(load, st, ix, s)
<1> DEFINE st1 == NextStream(load, st)
           ix1 == NextIndex(load, st, ix)
<1>1. /\ \A t \in Streams : t = "even" \/ t = "odd"
      /\ load.begin[st] \in Nat /\ load.count[st] \in Nat /\ ix \in Nat /\ st \in Streams
      /\ "even" \in Streams /\ "odd" \in Streams
  BY LoadSizes DEF Streams, TurnOK
<1>2. CASE load.inverse
  <2>1. st1 = st /\ ix1 = ix + 1
    BY <1>2 DEF NextStream, NextIndex
  <2>2. TurnOK(load, st1, ix1)
    BY <1>1, <1>2, <2>1 DEF TurnOK
  <2>3. /\ Progress(load, st, ix, st) = ix - load.begin[st]
        /\ Progress(load, st, ix + 1, st) = ix + 1 - load.begin[st]
        /\ \A s \in Streams : s # st =>
             Progress(load, st, ix + 1, s) = Progress(load, st, ix, s)
    <3>1. Progress(load, st, ix, st) = ix - load.begin[st]
      BY <1>2 DEF Progress
    <3>2. Progress(load, st, ix + 1, st) = ix + 1 - load.begin[st]
      BY <1>1, <1>2 DEF Progress
    <3>3. \A s \in Streams : s # st =>
            Progress(load, st, ix + 1, s) = Progress(load, st, ix, s)
      BY <1>2 DEF Progress
    <3>4. QED
      BY <3>1, <3>2, <3>3
  <2>4. QED
    BY <2>1, <2>2, <2>3
<1>3. CASE ~load.inverse
  <2>1. st = "even" => st1 = "odd" /\ ix1 = ix
    BY <1>3 DEF NextStream, NextIndex
  <2>2. st = "odd" => st1 = "even" /\ ix1 = ix + 1
    BY <1>3 DEF NextStream, NextIndex
  <2>3. First(load) \in Nat /\ First(load) <= ix
    BY <1>3, FirstAndPast DEF TurnOK
  <2>4. TurnOK(load, st1, ix1)
    <3>1. st1 \in Streams /\ ix1 \in Nat /\ First(load) <= ix1
      BY <1>1, <2>1, <2>2, <2>3
    <3>2. QED
      BY <1>3, <3>1 DEF TurnOK
  <2> DEFINE Met(seen, s) == IF seen < load.begin[s] THEN 0
                 ELSE IF seen < load.begin[s] + load.count[s] THEN seen - load.begin[s]
                 ELSE load.count[s]
  <2>5. \A t, i, s : Progress(load, t, i, s)
                       = Met(IF s = "even" /\ t = "odd" THEN i + 1 ELSE i, s)
    BY <1>3 DEF Progress
  <2>6. Met(ix, st) = ix - load.begin[st] /\ Met(ix + 1, st) = ix + 1 - load.begin[st]
    BY <1>1
  <2> HIDE DEF st1, ix1, Met
  <2>7. CASE st = "even"
    <3>1. /\ Progress(load, st, ix, st) = Met(ix, st)
          /\ Progress(load, st1, ix1, st) = Met(ix + 1, st)
          /\ Progress(load, st, ix, "odd") = Met(ix, "odd")
          /\ Progress(load, st1, ix1, "odd") = Met(ix, "odd")
      BY <2>1, <2>5, <2>7
    <3>2. QED
      BY <1>1, <2>4, <2>6, <2>7, <3>1 DEF st1, ix1
  <2>8. CASE st = "odd"
    <3>1. /\ Progress(load, st, ix, st) = Met(ix, st)
          /\ Progress(load, st1, ix1, st) = Met(ix + 1, st)
          /\ Progress(load, st, ix, "even") = Met(ix + 1, "even")
          /\ Progress(load, st1, ix1, "even") = Met(ix + 1, "even")
      BY <2>2, <2>5, <2>8
    <3>2. QED
      BY <1>1, <2>4, <2>6, <2>8, <3>1 DEF st1, ix1
  <2>9. QED
    BY <1>1, <2>7, <2>8
<1>4. QED
  BY <1>2, <1>3

LEMMA ProgressSkipped ==
  ASSUME NEW load, LoadAssumed(load), NEW st, NEW ix, TurnOK(load, st, ix), ~load.inverse,
         ix \notin load.begin[st] .. load.begin[st] + load.count[st] - 1
  PROVE  LET st1 == NextStream(load, st)
             ix1 == NextIndex(load, st, ix)
         IN /\ TurnOK(load, st1, ix1)
            /\ \A s \in Streams :
                 Progress(load, st1, ix1, s) = Progress(load, st, ix, s)
<1> DEFINE st1 == NextStream(load, st)
           ix1 == NextIndex(load, st, ix)
<1>1. /\ \A t \in Streams : t = "even" \/ t = "odd"
      /\ load.begin[st] \in Nat /\ load.count[st] \in Nat /\ ix \in Nat /\ st \in Streams
      /\ "even" \in Streams /\ "odd" \in Streams
  BY LoadSizes DEF Streams, TurnOK
<1>2. st = "even" => st1 = "odd" /\ ix1 = ix
  BY DEF NextStream, NextIndex
<1>3. st = "odd" => st1 = "even" /\ ix1 = ix + 1
  BY DEF NextStream, NextIndex
<1>4. First(load) \in Nat /\ First(load) <= ix
  BY FirstAndPast DEF TurnOK
<1>5. TurnOK(load, st1, ix1)
  <2>1. st1 \in Streams /\ ix1 \in Nat /\ First(load) <= ix1
    BY <1>1, <1>2, <1>3, <1>4
  <2>2. QED
    BY <2>1 DEF TurnOK
<1> DEFINE Met(seen, s) == IF seen < load.begin[s] THEN 0
               ELSE IF seen < load.begin[s] + load.count[s] THEN seen - load.begin[s]
               ELSE load.count[s]
<1>6. \A t, i, s : Progress(load, t, i, s)
                     = Met(IF s = "even" /\ t = "odd" THEN i + 1 ELSE i, s)
  BY DEF Progress
<1>7. Met(ix + 1, st) = Met(ix, st)
  <2>1. CASE ix < load.begin[st]
    BY <1>1, <2>1
  <2>2. CASE ix >= load.begin[st] + load.count[st]
    BY <1>1, <2>2
  <2>3. QED
    BY <1>1, <2>1, <2>2
<1> HIDE DEF st1, ix1, Met
<1>8. CASE st = "even"
  <2>1. /\ Progress(load, st, ix, st) = Met(ix, st)
        /\ Progress(load, st1, ix1, st) = Met(ix + 1, st)
        /\ Progress(load, st, ix, "odd") = Met(ix, "odd")
        /\ Progress(load, st1, ix1, "odd") = Met(ix, "odd")
    BY <1>2, <1>6, <1>8
  <2>2. QED
    BY <1>1, <1>5, <1>7, <1>8, <2>1 DEF st1, ix1
<1>9. CASE st = "odd"
  <2>1. /\ Progress(load, st, ix, st) = Met(ix, st)
        /\ Progress(load, st1, ix1, st) = Met(ix + 1, st)
        /\ Progress(load, st, ix, "even") = Met(ix + 1, "even")
        /\ Progress(load, st1, ix1, "even") = Met(ix + 1, "even")
    BY <1>3, <1>6, <1>9
  <2>2. QED
    BY <1>1, <1>5, <1>7, <1>9, <2>1 DEF st1, ix1
<1>10. QED
  BY <1>1, <1>8, <1>9

LEMMA ProgressSecond ==
  ASSUME NEW load, LoadAssumed(load), NEW ix, TurnOK(load, "even", ix), load.inverse,
         ix >= load.begin["even"] + load.count["even"]
  PROVE  /\ TurnOK(load, "odd", load.begin["odd"])
         /\ \A s \in Streams :
              Progress(load, "odd", load.begin["odd"], s) = Progress(load, "even", ix, s)
<1>1. /\ \A t \in Streams : t = "even" \/ t = "odd"
      /\ load.begin["odd"] \in Nat /\ load.count["odd"] \in Nat
      /\ load.begin["even"] \in Nat /\ load.count["even"] \in Nat /\ ix \in Nat
      /\ ix = load.begin["even"] + load.count["even"]
  BY LoadSizes DEF Streams, TurnOK
<1>2. TurnOK(load, "odd", load.begin["odd"])
  BY <1>1 DEF TurnOK, Streams
<1>3. \A st, i, s : Progress(load, st, i, s) = IF s = st THEN i - load.begin[s]
                              ELSE IF s = "even" THEN load.count[s] ELSE 0
  BY DEF Progress
<1>4. QED
  BY <1>1, <1>2, <1>3

(***************************************************************************)
(* The inductive invariant.                                                *)
(***************************************************************************)
JobOK == job \in Jobs /\ item \in 1 .. Len(job.loads)

\* Whose turn it is, and that it was the last when the job is done.
PlaceOK ==
  /\ phase \in {"seek", "read", "done"}
  /\ TurnOK(Load, stream, index)
  /\ phase = "done" => LastTurn(Load, stream, index)

\* The value at a position x is being put together: what has been read of
\* its sources, and what is left.
TakenOf(load, x, accessed, left, taken) ==
  LET source == Sources(accessed, load.length)
  IN /\ accessed = AccessTo(load, x)
     /\ IsSeq(left) /\ IsSeq(taken) /\ Len(taken) + Len(left) = Len(source)
     /\ \A k \in 1 .. Len(taken) : taken[k] = Samples(load)[source[k]]
     /\ \A k \in 1 .. Len(left) : left[k] = source[Len(taken) + k]

TakenOK ==
  phase = "read" =>
    /\ index \in Begin(Load, stream) .. End(Load, stream) - 1
    /\ TakenOf(Load, Position(Load, stream, index), access, todo, got)

\* The cache is empty, or its pages are the sticks from the first on.
SticksAt(first) ==
  /\ first \in 0 .. StickCount - 1
  /\ cache = [valid |-> TRUE, first |-> first, count |-> Fetched(first)]
  /\ \A p \in 0 .. Fetched(first) - 1 : page[p] = StickRead(first + p)

CacheOK ==
  /\ CacheInBuffer
  /\ DOMAIN buffer = {"write", "read", "held"}
  /\ cache = NoCache \/ SticksAt(cache.first)

\* The first w elements of stream s have been stored, in their places.
StoredOf(tileNative, load, c, m, w, s) ==
  /\ c = [at |-> Cursor(w), written |-> w]
  /\ DOMAIN m = {PhysicalIndex(tileNative, i) : i \in 0 .. w - 1}
  /\ IsFiniteSet(DOMAIN m) /\ Cardinality(DOMAIN m) = w
  /\ \A i \in 0 .. w - 1 :
       m[PhysicalIndex(tileNative, i)]
         = Described(load, Position(load, s, load.begin[s] + i))

SlotsOK ==
  /\ DOMAIN cursor = Streams /\ DOMAIN slot = Streams
  /\ \A s \in Streams :
       StoredOf(job.tileNative, Load, cursor[s], slot[s],
                Progress(Load, stream, index, s), s)

IInv == JobOK /\ PlaceOK /\ TakenOK /\ CacheOK /\ SlotsOK

(***************************************************************************)
(* The job and its sizes.                                                  *)
(***************************************************************************)
LEMMA LoadIsAssumed ==
  ASSUME JobOK
  PROVE  /\ LoadAssumed(Load) /\ job.tileNative \in BOOLEAN
         /\ \A k \in 1 .. Len(job.loads) : LoadAssumed(job.loads[k])
         /\ Len(job.loads) \in Nat \ {0} /\ item \in Nat
  BY LoaderAssumption DEF JobOK, Load

LEMMA AccessToIsOK ==
  ASSUME NEW load, LoadAssumed(load), NEW x \in Int,
         load.inverse => x \in 0 .. load.length - 1
  PROVE  AccessOK(AccessTo(load, x), load.length)
<1>1. CASE load.inverse
  <2>1. AccessTo(load, x) = Access("sample", x)
    BY <1>1 DEF AccessTo
  <2>2. QED
    BY <1>1, <2>1, AccessFields DEF AccessOK
<1>2. CASE ~load.inverse
  <2>1. AccessTo(load, x) = ExtendedIndex(load.mode, x, load.length)
    BY <1>2 DEF AccessTo
  <2>2. /\ load.mode \in Modes /\ load.length \in Nat \ {0}
        /\ load.mode \in {"reflect", "antireflect"} => load.length >= 2
    BY DEF LoadAssumed
  <2>3. QED
    BY <2>1, <2>2, AccessIsOK
<1>3. QED
  BY <1>1, <1>2

\* An element of a stream is at a position, of the signal when it is inverse.
LEMMA PositionOf ==
  ASSUME NEW load, LoadAssumed(load), NEW s \in Streams,
         NEW i \in load.begin[s] .. load.begin[s] + load.count[s] - 1
  PROVE  /\ Position(load, s, i) \in Int
         /\ load.inverse => Position(load, s, i) \in 0 .. load.length - 1
<1>1. /\ load.begin[s] \in Nat /\ load.count[s] \in Nat /\ load.pad \in Nat /\ i \in Nat
      /\ Parity[s] \in {0, 1} /\ load.length \in Nat
  BY LoadSizes DEF Parity, Streams
<1>2. CASE load.inverse
  <2>1. Position(load, s, i) = i /\ load.begin[s] + load.count[s] <= load.length
    BY <1>2 DEF Position, LoadAssumed, Streams
  <2>2. QED
    BY <1>1, <2>1
<1>3. CASE ~load.inverse
  <2>1. Position(load, s, i) = 2 * i + Parity[s] - load.pad
    BY <1>3 DEF Position
  <2>2. QED
    BY <1>1, <1>3, <2>1
<1>4. QED
  BY <1>2, <1>3

(***************************************************************************)
(* The value put together of what has been read is the one described.      *)
(***************************************************************************)
LEMMA CombinedTaken ==
  ASSUME NEW load, LoadAssumed(load), NEW x \in Int,
         load.inverse => x \in 0 .. load.length - 1,
         NEW a, NEW left, NEW taken, TakenOf(load, x, a, left, taken), left = <<>>
  PROVE  Combined(a, taken) = Described(load, x)
<1> DEFINE n == load.length
           source == Sources(a, n)
           v == [k \in DOMAIN source |-> Samples(load)[source[k]]]
<1>1. a = AccessTo(load, x) /\ AccessOK(a, n) /\ n \in Nat \ {0}
  BY AccessToIsOK, LoadSizes DEF TakenOf
<1>2. Described(load, x) = Combined(a, v)
  BY <1>1 DEF Described, Evaluated
<1>3. /\ DOMAIN source = 1 .. Len(source) /\ Len(source) \in Nat
  BY <1>1, SourcesInside
<1>4. Len(taken) = Len(source)
  <2>1. Len(left) = 0 /\ Len(taken) + Len(left) = Len(source) /\ IsSeq(taken)
    BY EmptyIsSeq DEF TakenOf
  <2>2. Len(taken) \in Nat
    BY <2>1 DEF IsSeq
  <2>3. QED
    BY <2>1, <2>2
<1>5. \A k \in 1 .. Len(source) : taken[k] = v[k]
  <2>1. \A k \in 1 .. Len(taken) : taken[k] = Samples(load)[source[k]]
    BY DEF TakenOf
  <2> HIDE DEF source
  <2>2. QED
    BY <1>3, <1>4, <2>1
<1> HIDE DEF v
<1>6. Combined(a, taken) = Combined(a, v)
  <2>1. CASE a.op = "zero"
    BY <2>1, CombinedOf
  <2>2. CASE a.op \in {"sample", "negated"}
    <3>1. Len(source) = 1
      <4>1. source = <<a.source>>
        BY <2>2, SourcesOf
      <4> HIDE DEF source
      <4>2. QED
        BY <4>1
    <3>2. taken[1] = v[1]
      BY <1>5, <3>1
    <3>3. QED
      BY <2>2, <3>2, CombinedOf
  <2>3. CASE a.op = "smooth"
    <3>1. Len(source) = 2
      <4>1. source = <<a.source, a.auxiliary>>
        BY <2>3, SourcesOf
      <4> HIDE DEF source
      <4>2. QED
        BY <4>1
    <3>2. taken[1] = v[1] /\ taken[2] = v[2]
      BY <1>5, <3>1
    <3>3. QED
      BY <2>3, <3>2, CombinedOf
  <2>4. CASE a.op = "antireflect"
    <3>1. Len(source) = 3
      <4>1. source = <<a.source, 0, n - 1>>
        BY <2>4, SourcesOf
      <4> HIDE DEF source
      <4>2. QED
        BY <4>1
    <3>2. taken[1] = v[1] /\ taken[2] = v[2] /\ taken[3] = v[3]
      BY <1>5, <3>1
    <3>3. QED
      BY <2>4, <3>2, CombinedOf
  <2>5. QED
    BY <1>1, <2>1, <2>2, <2>3, <2>4 DEF AccessOK
<1>7. QED
  BY <1>2, <1>6

(***************************************************************************)
(* Storing the next element of a stream.                                   *)
(***************************************************************************)
LEMMA StoredNothing ==
  ASSUME NEW t, NEW load, NEW s
  PROVE  StoredOf(t, load, [at |-> Cursor(0), written |-> 0], <<>>, 0, s)
<1>1. DOMAIN <<>> = {} /\ 0 .. 0 - 1 = {}
  OBVIOUS
<1>2. {PhysicalIndex(t, i) : i \in {}} = {}
  OBVIOUS
<1>3. IsFiniteSet({}) /\ Cardinality({}) = 0
  BY FS_EmptySet
<1>4. QED
  BY <1>1, <1>2, <1>3 DEF StoredOf

LEMMA StoredNext ==
  ASSUME NEW t \in BOOLEAN, NEW load, NEW s, NEW c, NEW m, NEW w \in Nat,
         StoredOf(t, load, c, m, w, s), NEW p, p = PhysicalIndex(t, w), NEW v,
         v = Described(load, Position(load, s, load.begin[s] + w)), NEW w1, w1 = w + 1
  PROVE  StoredOf(t, load, [at |-> Advance(c.at), written |-> c.written + 1],
                  [q \in DOMAIN m \union {p} |-> IF q = p THEN v ELSE m[q]], w1, s)
<1> DEFINE P(i) == PhysicalIndex(t, i)
           m1 == [q \in DOMAIN m \union {p} |-> IF q = p THEN v ELSE m[q]]
<1>1. [at |-> Advance(c.at), written |-> c.written + 1] = [at |-> Cursor(w1), written |-> w1]
  <2>1. c.at = Cursor(w) /\ c.written = w
    BY DEF StoredOf
  <2>2. QED
    BY <2>1, NextPlace
<1>2. \A i \in 0 .. w - 1 : P(i) # p
  BY PlacesDiffer
<1>3. DOMAIN m = {P(i) : i \in 0 .. w - 1} /\ p \notin DOMAIN m
  BY <1>2 DEF StoredOf
<1>4. DOMAIN m1 = DOMAIN m \union {p}
  OBVIOUS
<1>5. DOMAIN m1 = {P(i) : i \in 0 .. w1 - 1}
  <2>1. 0 .. w1 - 1 = (0 .. w - 1) \union {w}
    OBVIOUS
  <2>2. p = P(w)
    OBVIOUS
  <2> HIDE DEF P, m1
  <2>3. QED
    BY <1>3, <1>4, <2>1, <2>2
<1>6. IsFiniteSet(DOMAIN m1) /\ Cardinality(DOMAIN m1) = w1
  <2>1. IsFiniteSet(DOMAIN m) /\ Cardinality(DOMAIN m) = w
    BY DEF StoredOf
  <2> DEFINE D == DOMAIN m
  <2>2. IsFiniteSet(D) /\ Cardinality(D) = w /\ p \notin D /\ DOMAIN m1 = D \union {p}
    BY <1>3, <1>4, <2>1
  <2> HIDE DEF m1, D
  <2>3. IsFiniteSet(D \union {p}) /\ Cardinality(D \union {p}) = Cardinality(D) + 1
    BY ONLY <2>2, FS_AddElement
  <2>4. QED
    BY <2>2, <2>3
<1>7. \A i \in 0 .. w1 - 1 :
        m1[P(i)] = Described(load, Position(load, s, load.begin[s] + i))
  <2>1. ASSUME NEW i \in 0 .. w - 1
        PROVE  m1[P(i)] = Described(load, Position(load, s, load.begin[s] + i))
    <3>1. P(i) \in DOMAIN m /\ P(i) # p
      BY <1>2, <1>3
    <3>2. m[P(i)] = Described(load, Position(load, s, load.begin[s] + i))
      BY DEF StoredOf
    <3> HIDE DEF P
    <3>3. QED
      BY <3>1, <3>2
  <2>2. m1[P(w)] = v
    <3>1. P(w) = p
      OBVIOUS
    <3> HIDE DEF P
    <3>2. QED
      BY <3>1
  <2>3. \A i \in 0 .. w1 - 1 : i \in 0 .. w - 1 \/ i = w
    OBVIOUS
  <2> HIDE DEF P, m1
  <2>4. QED
    BY <2>1, <2>2, <2>3
<1> HIDE DEF P, m1
<1>8. QED
  BY <1>1, <1>5, <1>6, <1>7 DEF StoredOf, P, m1

(***************************************************************************)
(* The sticks of a source, and a sample through the cache.                 *)
(***************************************************************************)
LEMMA SticksOf ==
  ASSUME JobOK, NEW i \in 0 .. Load.length - 1
  PROVE  /\ StickCount \in Nat \ {0} /\ StickOf(i) \in 0 .. StickCount - 1
         /\ i % StickWidth \in 0 .. StickWidth - 1
         /\ i = StickOf(i) * StickWidth + (i % StickWidth)
<1> DEFINE W == StickWidth
           n == Load.length
           c == (n + W - 1) \div W
           r == (n + W - 1) % W
           q == i \div W
           m == i % W
<1>1. W \in Nat \ {0} /\ n \in Nat \ {0} /\ i \in Nat /\ i \in Int
  BY LoadIsAssumed, LoadSizes, LoaderAssumption
<1> HIDE DEF W, n
<1>2. i = W * q + m /\ m \in 0 .. W - 1 /\ q \in Nat
  BY ONLY <1>1, Divided
<1>3. n + W - 1 = W * c + r /\ r \in 0 .. W - 1 /\ c \in Int
  <2> DEFINE k == n + W - 1
  <2>1. k \in Int
    BY <1>1
  <2> HIDE DEF k
  <2>2. k = W * (k \div W) + (k % W) /\ k % W \in 0 .. W - 1 /\ k \div W \in Int
    BY ONLY <1>1, <2>1, Divided
  <2>3. QED
    BY <2>2 DEF k
<1>4. i < n
  BY <1>1 DEF n
<1> HIDE DEF c, r, q, m
<1>5. q < c
  <2>1. ASSUME q >= c PROVE FALSE
    <3>1. W * q >= W * c /\ W * q \in Int /\ W * c \in Int
      BY <1>1, <1>2, <1>3, <2>1, SMT
    <3> DEFINE a == W * q
               b == W * c
    <3>2. i = a + m /\ n + W - 1 = b + r /\ a >= b /\ a \in Int /\ b \in Int
      BY <1>2, <1>3, <3>1
    <3> HIDE DEF a, b
    <3>3. QED
      BY <1>1, <1>2, <1>3, <1>4, <3>2
  <2>2. QED
    BY <1>2, <1>3, <2>1
<1>6. W * q = q * W
  BY <1>1, <1>2, SMT
<1>7. c \in Nat \ {0} /\ q \in 0 .. c - 1 /\ i = q * W + m
  BY <1>2, <1>3, <1>5, <1>6
<1>8. StickCount = c /\ StickOf(i) = q
  BY DEF StickCount, StickOf, c, q, W, n
<1>9. QED
  BY <1>2, <1>7, <1>8 DEF W, m

LEMMA FetchedBounds ==
  ASSUME JobOK, NEW first \in 0 .. StickCount - 1, StickCount \in Nat
  PROVE  /\ Fetched(first) \in 1 .. CacheSticks
         /\ Fetched(first) <= StickCount - first
  BY LoaderAssumption DEF Fetched

LEMMA StickHolds ==
  ASSUME JobOK, NEW i \in 0 .. Load.length - 1
  PROVE  StickRead(StickOf(i))[i % StickWidth] = Samples(Load)[i]
<1> DEFINE stick == StickOf(i)
           lane == i % StickWidth
           pageId == Load.sample * PagesPerSample + IF job.pagePerStick THEN stick ELSE 0
<1>1. /\ StickCount \in Nat \ {0} /\ stick \in 0 .. StickCount - 1
      /\ lane \in 0 .. StickWidth - 1 /\ i = stick * StickWidth + lane
  BY SticksOf
<1>2. Load.sample \in Nat /\ Load.length \in Nat
  BY LoadIsAssumed, LoadSizes
<1>3. StickRead(stick)[lane] = SourceLane(pageId, stick, lane)
  BY <1>1 DEF StickRead
<1>4. job.pagePerStick => pageId % PagesPerSample = stick
  <2> DEFINE a == Load.sample
             n == StickCount
             d == a * n + stick
  <2>1. job.pagePerStick => pageId = d /\ PagesPerSample = n
    BY DEF PagesPerSample
  <2>2. n \in Nat \ {0} /\ a \in Int /\ stick \in 0 .. n - 1
    BY <1>1, <1>2
  <2> HIDE DEF a, n, stick
  <2>3. a * n = n * a /\ a * n \in Int
    BY <2>2, SMT
  <2>4. d = n * a + stick /\ d \in Int
    BY <2>2, <2>3
  <2> HIDE DEF d
  <2>5. d % n = stick
    BY ONLY <2>2, <2>4, Quotient
  <2>6. QED
    BY <2>1, <2>5
<1>5. pageId \div PagesPerSample = Load.sample
  <2> DEFINE a == Load.sample
             n == PagesPerSample
             b == IF job.pagePerStick THEN stick ELSE 0
             d == a * n + b
  <2>1. n \in Nat \ {0} /\ a \in Int /\ b \in 0 .. n - 1
    BY <1>1, <1>2 DEF PagesPerSample
  <2> HIDE DEF a, n, b
  <2>2. a * n = n * a /\ a * n \in Int
    BY <2>1, SMT
  <2>3. d = n * a + b /\ d \in Int
    BY <2>1, <2>2
  <2>4. pageId = d
    BY DEF d, a, n, b
  <2> HIDE DEF d
  <2>5. d \div n = a
    BY ONLY <2>1, <2>3, Quotient
  <2>6. QED
    BY <2>4, <2>5 DEF a, n
<1> HIDE DEF pageId, stick, lane
<1>6. SourceLane(pageId, stick, lane) = Signal(Load.sample, i)
  <2>1. (IF job.pagePerStick THEN (pageId % PagesPerSample) * StickWidth + lane
         ELSE stick * StickWidth + lane) = i
    BY <1>1, <1>4
  <2>2. i < Load.length
    BY <1>2
  <2>3. QED
    BY <1>5, <2>1, <2>2 DEF SourceLane
<1>7. Samples(Load)[i] = Signal(Load.sample, i)
  BY DEF Samples
<1>8. QED
  BY <1>3, <1>6, <1>7 DEF stick, lane

LEMMA RawIsSample ==
  ASSUME JobOK, CacheOK, NEW i \in 0 .. Load.length - 1, Cached(StickOf(i))
  PROVE  Raw(i) = Samples(Load)[i]
<1> DEFINE stick == StickOf(i)
           first == cache.first
<1>1. StickCount \in Nat \ {0} /\ stick \in 0 .. StickCount - 1
  BY SticksOf
<1>2. SticksAt(first)
  BY DEF CacheOK, Cached, NoCache
<1>3. first \in 0 .. StickCount - 1 /\ cache.count = Fetched(first)
  BY <1>2 DEF SticksAt
<1>4. Fetched(first) \in 1 .. CacheSticks
  BY <1>1, <1>3, FetchedBounds
<1>5. stick \in first .. first + Fetched(first) - 1
  BY <1>3 DEF Cached
<1> DEFINE p == stick - first
<1>6. p \in 0 .. Fetched(first) - 1 /\ first + p = stick /\ CacheSticks \in Nat
  BY <1>1, <1>3, <1>4, <1>5, LoaderAssumption
<1>7. page[p] = StickRead(stick)
  BY <1>2, <1>6 DEF SticksAt
<1>8. p \in DOMAIN page /\ buffer.read = 0
  BY <1>4, <1>6 DEF CacheOK, CacheInBuffer
<1>9. buffer.read + StickOf(i) - cache.first = p
  BY <1>1, <1>3, <1>8
<1>10. Raw(i) = page[p][i % StickWidth]
  BY <1>8, <1>9 DEF Raw
<1>11. QED
  BY <1>7, <1>10, StickHolds

(***************************************************************************)
(* The invariant holds initially and is preserved by every step.           *)
(***************************************************************************)
LEMMA InitInv == Init => IInv
<1> SUFFICES ASSUME Init PROVE IInv
  OBVIOUS
<1>1. JobOK
  <2>1. Len(job.loads) \in Nat \ {0} /\ job \in Jobs /\ item = 1
    BY LoaderAssumption DEF Init
  <2>2. QED
    BY <2>1 DEF JobOK
<1>2. LoadAssumed(Load)
  BY <1>1, LoadIsAssumed
<1>3. /\ phase = "seek" /\ stream = "even" /\ index = First(Load)
      /\ cache = NoCache /\ buffer = EmptyBuffer
      /\ page = [p \in 0 .. CacheSticks - 1 |-> [l \in 0 .. StickWidth - 1 |-> Junk]]
      /\ cursor = [s \in Streams |-> [at |-> Cursor(0), written |-> 0]]
      /\ slot = [s \in Streams |-> <<>>]
  BY DEF Init
<1>4. PlaceOK
  BY <1>2, <1>3, ProgressStarts DEF PlaceOK
<1>5. TakenOK
  BY <1>3 DEF TakenOK
<1>6. CacheOK
  BY <1>3 DEF CacheOK, CacheInBuffer, NoCache, EmptyBuffer
<1>7. SlotsOK
  <2>1. \A s \in Streams : Progress(Load, stream, index, s) = 0
    BY <1>2, <1>3, ProgressStarts
  <2>2. QED
    BY <1>3, <2>1, StoredNothing DEF SlotsOK
<1>8. QED
  BY <1>1, <1>4, <1>5, <1>6, <1>7 DEF IInv

\* What the cache and the slots hold is unchanged with their variables.
LEMMA SameJob ==
  ASSUME JobOK, UNCHANGED <<job, item>>
  PROVE  JobOK' /\ Load' = Load
  BY DEF JobOK, Load

LEMMA SameCache ==
  ASSUME CacheOK, UNCHANGED <<job, item, cache, buffer, page>>
  PROVE  CacheOK'
<1>1. Load' = Load /\ StickCount' = StickCount
  BY DEF Load, StickCount
<1>2. \A k : StickRead(k)' = StickRead(k) /\ Fetched(k)' = Fetched(k)
  BY <1>1 DEF StickRead, SourceLane, PagesPerSample, Fetched, StickCount, Load
<1>3. CacheInBuffer'
  BY DEF CacheOK, CacheInBuffer
<1>4. CASE cache = NoCache
  BY <1>3, <1>4 DEF CacheOK, NoCache
<1>5. CASE SticksAt(cache.first)
  <2>1. SticksAt(cache.first)'
    BY <1>1, <1>2, <1>5 DEF SticksAt
  <2>2. QED
    BY <1>3, <2>1 DEF CacheOK
<1>6. QED
  BY <1>4, <1>5 DEF CacheOK

LEMMA SameSlots ==
  ASSUME SlotsOK, UNCHANGED <<job, item, cursor, slot>>,
         \A s \in Streams : Progress(Load, stream', index', s) = Progress(Load, stream, index, s)
  PROVE  SlotsOK'
<1>1. Load' = Load
  BY DEF Load
<1>2. QED
  BY <1>1 DEF SlotsOK

\* A cache that is given back is empty, and the buffer at its origin.
LEMMA CacheReleased ==
  ASSUME CacheOK, cache' = NoCache, buffer' = Released(buffer), UNCHANGED page
  PROVE  CacheOK'
<1>1. /\ DOMAIN page = 0 .. CacheSticks - 1 /\ buffer.write = 0 /\ buffer.read = 0
      /\ buffer.held = IF cache.valid THEN CacheSticks ELSE 0
      /\ CacheSticks \in Nat \ {0} /\ DOMAIN buffer = {"write", "read", "held"}
  BY LoaderAssumption DEF CacheOK, CacheInBuffer
<1>2. CASE cache.valid
  <2>1. buffer' = Pop(buffer, CacheSticks, CacheSticks)
    BY <1>2 DEF Released
  <2>2. buffer'.write = 0 /\ buffer'.read = 0 /\ buffer'.held = 0
        /\ DOMAIN buffer' = {"write", "read", "held"}
    BY <1>1, <1>2, <2>1 DEF Pop, Onward
  <2>3. QED
    BY <1>1, <2>2 DEF CacheOK, CacheInBuffer, NoCache
<1>3. CASE ~cache.valid
  <2>1. buffer' = buffer
    BY <1>3 DEF Released
  <2>2. QED
    BY <1>1, <1>3, <2>1 DEF CacheOK, CacheInBuffer, NoCache
<1>4. QED
  BY <1>2, <1>3

LEMMA SecondStreamStep ==
  ASSUME IInv, SecondStream
  PROVE  IInv'
<1>1. JobOK' /\ Load' = Load /\ LoadAssumed(Load)
  BY SameJob, LoadIsAssumed DEF IInv, SecondStream
<1>2. /\ phase = "seek" /\ phase' = "seek" /\ Load.inverse /\ stream = "even"
      /\ index >= Load.begin["even"] + Load.count["even"]
      /\ stream' = "odd" /\ index' = Load.begin["odd"]
  BY DEF SecondStream, Begin, End
<1>3. TurnOK(Load, "even", index)
  BY <1>2 DEF IInv, PlaceOK
<1>4. /\ TurnOK(Load, stream', index')
      /\ \A s \in Streams : Progress(Load, stream', index', s) = Progress(Load, stream, index, s)
  BY <1>1, <1>2, <1>3, ProgressSecond
<1>5. PlaceOK'
  BY <1>1, <1>2, <1>4 DEF PlaceOK
<1>6. TakenOK'
  BY <1>2 DEF TakenOK
<1>7. CacheOK'
  BY CacheReleased DEF IInv, SecondStream
<1>8. SlotsOK'
  BY <1>4, SameSlots DEF IInv, SecondStream
<1>9. QED
  BY <1>1, <1>5, <1>6, <1>7, <1>8 DEF IInv

LEMMA ElementsOf ==
  ASSUME NEW load, LoadAssumed(load), NEW s \in Streams
  PROVE  Begin(load, s) .. End(load, s) - 1
           = load.begin[s] .. load.begin[s] + load.count[s] - 1
<1>1. load.begin[s] \in Nat /\ load.count[s] \in Nat
  BY LoadSizes
<1>2. QED
  BY <1>1 DEF Begin, End

\* The turn that follows, as Proceed has it.
LEMMA Proceeds ==
  ASSUME JobOK, PlaceOK, Proceed
  PROVE  stream' = NextStream(Load, stream) /\ index' = NextIndex(Load, stream, index)
<1>1. stream = "even" \/ stream = "odd"
  BY DEF PlaceOK, TurnOK, Streams
<1>2. QED
  BY <1>1 DEF Proceed, NextStream, NextIndex

LEMMA SkipStep ==
  ASSUME IInv, Skip
  PROVE  IInv'
<1>1. JobOK' /\ Load' = Load /\ LoadAssumed(Load)
  BY SameJob, LoadIsAssumed DEF IInv, Skip
<1>2. /\ phase = "seek" /\ phase' = "seek" /\ ~Load.inverse
      /\ index \notin Load.begin[stream] .. Load.begin[stream] + Load.count[stream] - 1
      /\ stream' = NextStream(Load, stream) /\ index' = NextIndex(Load, stream, index)
  <2>1. phase = "seek" /\ phase' = "seek" /\ ~Load.inverse /\ Proceed
    BY DEF Skip
  <2>2. index \notin Begin(Load, stream) .. End(Load, stream) - 1
    BY DEF Skip
  <2>3. index \notin Load.begin[stream] .. Load.begin[stream] + Load.count[stream] - 1
    <3>1. stream \in Streams
      BY DEF IInv, PlaceOK, TurnOK
    <3>2. QED
      BY <1>1, <2>2, <3>1, ElementsOf
  <2>4. QED
    BY <2>1, <2>3, Proceeds DEF IInv
<1>3. TurnOK(Load, stream, index)
  BY DEF IInv, PlaceOK
<1>4. /\ TurnOK(Load, stream', index')
      /\ \A s \in Streams : Progress(Load, stream', index', s) = Progress(Load, stream, index, s)
  BY <1>1, <1>2, <1>3, ProgressSkipped
<1>5. PlaceOK'
  BY <1>1, <1>2, <1>4 DEF PlaceOK
<1>6. TakenOK'
  BY <1>2 DEF TakenOK
<1>7. CacheOK'
  BY SameCache DEF IInv, Skip
<1>8. SlotsOK'
  BY <1>4, SameSlots DEF IInv, Skip
<1>9. QED
  BY <1>1, <1>5, <1>6, <1>7, <1>8 DEF IInv

LEMMA SeekStep ==
  ASSUME IInv, Seek
  PROVE  IInv'
<1>1. JobOK' /\ Load' = Load /\ LoadAssumed(Load)
  BY SameJob, LoadIsAssumed DEF IInv, Seek
<1> DEFINE x == Position(Load, stream, index)
<1>2. /\ index \in Load.begin[stream] .. Load.begin[stream] + Load.count[stream] - 1
      /\ stream' = stream /\ index' = index /\ phase' = "read"
      /\ access' = AccessTo(Load, x) /\ todo' = Sources(access', Load.length)
      /\ got' = <<>>
  <2>1. index \in Begin(Load, stream) .. End(Load, stream) - 1
    BY DEF Seek
  <2>2. index \in Load.begin[stream] .. Load.begin[stream] + Load.count[stream] - 1
    <3>1. stream \in Streams
      BY DEF IInv, PlaceOK, TurnOK
    <3>2. QED
      BY <1>1, <2>1, <3>1, ElementsOf
  <2>3. QED
    BY <2>2 DEF Seek
<1>3. PlaceOK'
  BY <1>1, <1>2 DEF IInv, PlaceOK
<1>4. TakenOK'
  <2>1. x \in Int /\ (Load.inverse => x \in 0 .. Load.length - 1)
    <3>1. stream \in Streams
      BY DEF IInv, PlaceOK, TurnOK
    <3>2. QED
      BY <1>1, <1>2, <3>1, PositionOf
  <2> DEFINE source == Sources(access', Load.length)
  <2>2. AccessOK(access', Load.length) /\ Load.length \in Nat \ {0}
    <3> HIDE DEF x
    <3>1. QED
      BY <1>1, <1>2, <2>1, AccessToIsOK, LoadSizes
  <2>3. IsSeq(source) /\ Len(source) \in Nat
    BY <2>2, SourcesInside
  <2>4. IsSeq(got') /\ Len(got') = 0
    BY <1>2, EmptyIsSeq
  <2>5. TakenOf(Load, x, access', todo', got')
    <3> HIDE DEF x
    <3>1. todo' = source
      BY <1>2
    <3> HIDE DEF source
    <3>2. /\ IsSeq(todo') /\ Len(got') + Len(todo') = Len(source)
          /\ \A k \in 1 .. Len(got') : got'[k] = Samples(Load)[source[k]]
          /\ \A k \in 1 .. Len(todo') : todo'[k] = source[Len(got') + k]
      BY <2>3, <2>4, <3>1
    <3>3. QED
      BY <1>2, <2>4, <3>2 DEF TakenOf, source
  <2>6. (Position(Load, stream, index))' = x
    BY <1>1, <1>2 DEF Position
  <2>7. (Begin(Load, stream) .. End(Load, stream) - 1)' = Begin(Load, stream) .. End(Load, stream) - 1
    BY <1>1, <1>2 DEF Begin, End
  <2>8. index' \in (Begin(Load, stream) .. End(Load, stream) - 1)'
    BY <1>2, <2>7 DEF Seek
  <2>9. \A y : y = (Position(Load, stream, index))' => TakenOf(Load', y, access', todo', got')
    <3> HIDE DEF x
    <3>1. QED
      BY <1>1, <2>5, <2>6
  <2>10. TakenOf(Load, Position(Load, stream, index), access, todo, got)'
    BY <2>9
  <2>11. QED
    BY <2>8, <2>10 DEF TakenOK
<1>5. CacheOK'
  BY SameCache DEF IInv, Seek
<1>6. SlotsOK'
  BY <1>2, SameSlots DEF IInv, Seek
<1>7. QED
  BY <1>1, <1>3, <1>4, <1>5, <1>6 DEF IInv

\* What is left is of the signal.
LEMMA HeadInside ==
  ASSUME IInv, phase = "read", todo # <<>>
  PROVE  /\ Head(todo) \in 0 .. Load.length - 1
         /\ Head(todo) = Sources(access, Load.length)[Len(got) + 1]
         /\ Len(got) \in Nat /\ Len(todo) \in Nat /\ Len(todo) > 0
<1> DEFINE source == Sources(access, Load.length)
           x == Position(Load, stream, index)
<1>1. LoadAssumed(Load)
  BY LoadIsAssumed DEF IInv
<1>2. /\ index \in Load.begin[stream] .. Load.begin[stream] + Load.count[stream] - 1
      /\ TakenOf(Load, x, access, todo, got) /\ stream \in Streams
  <2>1. index \in Begin(Load, stream) .. End(Load, stream) - 1
    BY DEF IInv, TakenOK
  <2>2. index \in Load.begin[stream] .. Load.begin[stream] + Load.count[stream] - 1
    <3>1. stream \in Streams
      BY DEF IInv, PlaceOK, TurnOK
    <3>2. QED
      BY <1>1, <2>1, <3>1, ElementsOf
  <2>3. TakenOf(Load, x, access, todo, got)
    BY DEF IInv, TakenOK
  <2>4. stream \in Streams
    BY DEF IInv, PlaceOK, TurnOK
  <2>5. QED
    BY <2>2, <2>3, <2>4
<1>3. x \in Int /\ (Load.inverse => x \in 0 .. Load.length - 1)
  BY <1>1, <1>2, PositionOf
<1> HIDE DEF x
<1>4. AccessOK(access, Load.length) /\ Load.length \in Nat \ {0}
  BY <1>1, <1>2, <1>3, AccessToIsOK, LoadSizes DEF TakenOf
<1>5. Len(source) \in Nat /\ \A k \in 1 .. Len(source) : source[k] \in 0 .. Load.length - 1
  BY <1>4, SourcesInside
<1>6. /\ IsSeq(todo) /\ IsSeq(got) /\ Len(got) + Len(todo) = Len(source)
      /\ \A k \in 1 .. Len(todo) : todo[k] = source[Len(got) + k]
  BY <1>2 DEF TakenOf
<1>7. Head(todo) = todo[1] /\ Len(todo) > 0 /\ Len(todo) \in Nat /\ Len(got) \in Nat
  BY <1>6, TailElements, TailIsSeq DEF IsSeq
<1> HIDE DEF source
<1>8. 1 \in 1 .. Len(todo) /\ Len(got) + 1 \in 1 .. Len(source)
  BY <1>5, <1>6, <1>7
<1>9. QED
  BY <1>5, <1>6, <1>7, <1>8 DEF source

LEMMA FetchStep ==
  ASSUME IInv, Fetch
  PROVE  IInv'
<1>1. JobOK' /\ Load' = Load /\ LoadAssumed(Load) /\ JobOK
  BY SameJob, LoadIsAssumed DEF IInv, Fetch
<1> DEFINE i == Head(todo)
           first == StickOf(i)
<1>2. first \in 0 .. StickCount - 1 /\ StickCount \in Nat
  <2>1. i \in 0 .. Load.length - 1
    BY HeadInside DEF Fetch
  <2>2. QED
    BY <1>1, <2>1, SticksOf
<1>3. RefillWith(first, CacheSticks)
  BY DEF Fetch, Refill
<1> HIDE DEF first
<1>4. Fetched(first) \in 1 .. CacheSticks /\ CacheSticks \in Nat \ {0}
  BY <1>1, <1>2, FetchedBounds, LoaderAssumption
<1> DEFINE free == IF cache.valid THEN Pop(buffer, CacheSticks, CacheSticks) ELSE buffer
<1>5. free.write = 0 /\ free.read = 0 /\ free.held = 0
      /\ DOMAIN free = {"write", "read", "held"}
  <2>1. /\ buffer.write = 0 /\ buffer.read = 0 /\ DOMAIN buffer = {"write", "read", "held"}
        /\ buffer.held = IF cache.valid THEN CacheSticks ELSE 0
    BY DEF IInv, CacheOK, CacheInBuffer
  <2>2. QED
    BY <1>4, <2>1 DEF Pop, Onward
<1>6. /\ page' = [p \in DOMAIN page \union free.write .. free.write + CacheSticks - 1 |->
              IF p \notin free.write .. free.write + CacheSticks - 1 THEN page[p]
              ELSE IF p - free.write < Fetched(first)
              THEN StickRead(first + p - free.write) ELSE Blank]
      /\ buffer' = Push(free, CacheSticks, CacheSticks)
      /\ cache' = [valid |-> TRUE, first |-> first, count |-> Fetched(first)]
  BY <1>3 DEF RefillWith
<1>7. DOMAIN page' = 0 .. CacheSticks - 1
  <2>1. DOMAIN page = 0 .. CacheSticks - 1
    BY DEF IInv, CacheOK, CacheInBuffer
  <2> HIDE DEF free
  <2>2. QED
    BY <1>4, <1>5, <1>6, <2>1
<1>8. buffer'.write = 0 /\ buffer'.read = 0 /\ buffer'.held = CacheSticks
      /\ DOMAIN buffer' = {"write", "read", "held"}
  <2>1. \A b : Push(b, CacheSticks, CacheSticks)
                 = [b EXCEPT !.write = Onward(@, CacheSticks, CacheSticks),
                             !.held = @ + CacheSticks]
    BY DEF Push
  <2>2. QED
    BY <1>4, <1>5, <1>6 DEF Push, Pop, Onward
<1>9. CacheInBuffer'
  BY <1>6, <1>7, <1>8 DEF CacheInBuffer
<1>10. SticksAt(cache.first)'
  <2>1. StickCount' = StickCount /\ \A k : Fetched(k)' = Fetched(k) /\ StickRead(k)' = StickRead(k)
    BY <1>1 DEF Fetch, StickRead, SourceLane, PagesPerSample, Fetched, StickCount, Load
  <2>2. cache'.first = first
    BY <1>6
  <2>3. \A p \in 0 .. Fetched(first) - 1 : page'[p] = StickRead(first + p)
    <3>1. ASSUME NEW p \in 0 .. Fetched(first) - 1 PROVE page'[p] = StickRead(first + p)
      <4>1. /\ p \in free.write .. free.write + CacheSticks - 1 /\ p - free.write < Fetched(first)
            /\ first + p - free.write = first + p
        BY <1>2, <1>4, <1>5
      <4> HIDE DEF free
      <4>2. page'[p] = StickRead(first + p - free.write)
        BY <1>6, <4>1
      <4>3. QED
        BY <4>1, <4>2
    <3>2. QED
      BY <3>1
  <2>4. \A g : g = cache'.first => SticksAt(g)'
    BY <1>2, <1>6, <2>1, <2>2, <2>3 DEF SticksAt
  <2>5. QED
    BY <2>4
<1>11. CacheOK'
  BY <1>8, <1>9, <1>10 DEF CacheOK
<1>12. PlaceOK'
  BY <1>1 DEF IInv, PlaceOK, Fetch
<1>13. TakenOK'
  BY <1>1 DEF IInv, TakenOK, Fetch, Begin, End, Position
<1>14. SlotsOK'
  BY SameSlots DEF IInv, Fetch
<1>15. QED
  BY <1>1, <1>11, <1>12, <1>13, <1>14 DEF IInv

LEMMA TakeSampleStep ==
  ASSUME IInv, TakeSample
  PROVE  IInv'
<1>1. JobOK' /\ Load' = Load /\ LoadAssumed(Load) /\ JobOK
  BY SameJob, LoadIsAssumed DEF IInv, TakeSample
<1> DEFINE source == Sources(access, Load.length)
           samples == Samples(Load)
           i == Head(todo)
           x == Position(Load, stream, index)
           n == Len(got)
<1>2. /\ phase = "read" /\ todo # <<>> /\ Cached(StickOf(i))
      /\ got' = Append(got, Raw(i)) /\ todo' = Tail(todo)
      /\ UNCHANGED <<job, item, phase, stream, index, access, cache, buffer, page,
                     cursor, slot>>
  BY DEF TakeSample
<1>3. /\ i \in 0 .. Load.length - 1 /\ i = source[n + 1]
      /\ n \in Nat /\ Len(todo) \in Nat /\ Len(todo) > 0
  BY <1>2, HeadInside
<1>4. Raw(i) = samples[i]
  BY <1>1, <1>2, <1>3, RawIsSample DEF IInv
<1>5. /\ access = AccessTo(Load, x) /\ IsSeq(todo) /\ IsSeq(got)
      /\ n + Len(todo) = Len(source)
      /\ \A k \in 1 .. n : got[k] = samples[source[k]]
      /\ \A k \in 1 .. Len(todo) : todo[k] = source[n + k]
  BY <1>2 DEF IInv, TakenOK, TakenOf
<1> HIDE DEF source, samples, x, i
<1>6. IsSeq(got') /\ Len(got') = n + 1
  BY <1>2, <1>5, AppendIsSeq
<1>7. IsSeq(todo') /\ Len(todo') = Len(todo) - 1
  BY <1>2, <1>5, TailIsSeq
<1>8. \A k \in 1 .. n + 1 : got'[k] = samples[source[k]]
  <2>1. got'[n + 1] = Raw(i) /\ \A k \in 1 .. n : got'[k] = got[k]
    BY <1>2, <1>5, AppendElements
  <2>2. \A k \in 1 .. n + 1 : k \in 1 .. n \/ k = n + 1
    BY <1>3
  <2>3. got'[n + 1] = samples[source[n + 1]]
    BY <1>3, <1>4, <2>1
  <2> HIDE DEF n
  <2>4. QED
    BY <1>5, <2>1, <2>2, <2>3
<1>9. \A k \in 1 .. Len(todo') : todo'[k] = source[n + 1 + k]
  <2>1. \A k \in 1 .. Len(todo) - 1 : todo'[k] = todo[k + 1]
    BY <1>2, <1>5, TailElements
  <2> HIDE DEF n
  <2>2. ASSUME NEW k \in 1 .. Len(todo') PROVE todo'[k] = source[n + 1 + k]
    <3>1. k \in 1 .. Len(todo) - 1 /\ k + 1 \in 1 .. Len(todo) /\ n + (k + 1) = n + 1 + k
      BY <1>3, <1>7
    <3>2. todo'[k] = todo[k + 1] /\ todo[k + 1] = source[n + (k + 1)]
      BY <1>5, <2>1, <3>1
    <3>3. QED
      BY <3>1, <3>2
  <2>3. QED
    BY <2>2
<1>10. TakenOf(Load, x, access', todo', got')
  <2>1. /\ access' = AccessTo(Load, x) /\ Sources(access', Load.length) = source
        /\ Samples(Load) = samples
    BY <1>2, <1>5 DEF source, samples
  <2>2. Len(got') + Len(todo') = Len(source)
    <3>1. Len(got') = n + 1 /\ Len(todo') = Len(todo) - 1
      BY <1>6, <1>7
    <3>2. n \in Nat /\ Len(todo) \in Nat /\ n + Len(todo) = Len(source)
      BY <1>3, <1>5
    <3> HIDE DEF n
    <3>3. QED
      BY ONLY <3>1, <3>2
  <2> HIDE DEF n
  <2>3. QED
    BY <1>6, <1>7, <1>8, <1>9, <2>1, <2>2 DEF TakenOf
<1>11. PlaceOK'
  BY <1>1, <1>2 DEF IInv, PlaceOK
<1>12. TakenOK'
  <2>1. index' \in (Begin(Load, stream) .. End(Load, stream) - 1)'
    BY <1>1, <1>2 DEF IInv, TakenOK, Begin, End
  <2>2. (Position(Load, stream, index))' = x
    BY <1>1, <1>2 DEF Position, x
  <2>3. \A y : y = (Position(Load, stream, index))' => TakenOf(Load', y, access', todo', got')
    BY <1>1, <1>10, <2>2
  <2>4. TakenOf(Load, Position(Load, stream, index), access, todo, got)'
    BY <2>3
  <2>5. QED
    BY <2>1, <2>4 DEF TakenOK
<1>13. CacheOK'
  BY <1>2, SameCache DEF IInv
<1>14. SlotsOK'
  BY <1>2, SameSlots DEF IInv
<1>15. QED
  BY <1>1, <1>11, <1>12, <1>13, <1>14 DEF IInv

LEMMA StoreStep ==
  ASSUME IInv, Store
  PROVE  IInv'
<1>1. JobOK' /\ Load' = Load /\ LoadAssumed(Load) /\ JobOK /\ job.tileNative \in BOOLEAN
  BY SameJob, LoadIsAssumed DEF IInv, Store
<1> DEFINE x == Position(Load, stream, index)
           w == Progress(Load, stream, index, stream)
           value == Combined(access, got)
<1>2. /\ phase = "read" /\ phase' = "seek" /\ todo = <<>>
      /\ slot' = [slot EXCEPT ![stream] = Written(stream, value)]
      /\ cursor' = [cursor EXCEPT ![stream] =
                      [at |-> Advance(@.at), written |-> @.written + 1]]
      /\ UNCHANGED <<job, item, access, todo, got, cache, buffer, page>>
  BY DEF Store
<1>3. stream' = NextStream(Load, stream) /\ index' = NextIndex(Load, stream, index)
  BY <1>1, Proceeds DEF IInv, Store
<1>4. /\ TurnOK(Load, stream, index) /\ stream \in Streams /\ index \in Nat
      /\ index \in Load.begin[stream] .. Load.begin[stream] + Load.count[stream] - 1
  <2>1. TurnOK(Load, stream, index)
    BY DEF IInv, PlaceOK
  <2>2. index \in Begin(Load, stream) .. End(Load, stream) - 1
    BY <1>2 DEF IInv, TakenOK
  <2>3. index \in Load.begin[stream] .. Load.begin[stream] + Load.count[stream] - 1
    BY <1>1, <2>1, <2>2, ElementsOf DEF TurnOK
  <2>4. QED
    BY <2>1, <2>3 DEF TurnOK
<1>5. x \in Int /\ (Load.inverse => x \in 0 .. Load.length - 1)
  BY <1>1, <1>4, PositionOf
<1>6. value = Described(Load, x)
  <2>1. TakenOf(Load, x, access, todo, got)
    BY <1>2 DEF IInv, TakenOK
  <2> HIDE DEF x
  <2>2. QED
    BY <1>1, <1>2, <1>5, <2>1, CombinedTaken
<1>7. /\ TurnOK(Load, stream', index') /\ w = index - Load.begin[stream]
      /\ Progress(Load, stream', index', stream) = index + 1 - Load.begin[stream]
      /\ \A s \in Streams : s # stream =>
           Progress(Load, stream', index', s) = Progress(Load, stream, index, s)
  BY <1>1, <1>3, <1>4, ProgressStored
<1>8. /\ w \in Nat /\ Load.begin[stream] + w = index
      /\ Progress(Load, stream', index', stream) = w + 1
  <2>1. Load.begin[stream] \in Nat /\ Load.count[stream] \in Nat
    BY <1>1, <1>4, LoadSizes
  <2> DEFINE b == Load.begin[stream]
             e == Progress(Load, stream', index', stream)
  <2>2. w = index - b /\ e = index + 1 - b /\ b \in Nat /\ index \in Nat /\ index >= b
    BY <1>4, <1>7, <2>1
  <2> HIDE DEF b, e, w
  <2>3. w \in Nat /\ b + w = index /\ e = w + 1
    BY <2>2
  <2>4. QED
    BY <2>3 DEF b, e
<1>9. StoredOf(job.tileNative, Load, cursor[stream], slot[stream], w, stream)
  BY <1>4 DEF IInv, SlotsOK
<1>10. Target(stream) = PhysicalIndex(job.tileNative, w)
  <2>1. cursor[stream] = [at |-> Cursor(w), written |-> w]
    BY <1>9 DEF StoredOf
  <2>2. cursor[stream].at = Cursor(w) /\ cursor[stream].written = w
    BY <2>1
  <2> HIDE DEF w
  <2>3. QED
    BY <2>2 DEF Target, PhysicalIndex
<1> DEFINE p == PhysicalIndex(job.tileNative, w)
           m1 == [q \in DOMAIN slot[stream] \union {p} |->
                    IF q = p THEN value ELSE slot[stream][q]]
           c1 == [at |-> Advance(cursor[stream].at), written |-> cursor[stream].written + 1]
<1>11. DOMAIN slot = Streams /\ DOMAIN cursor = Streams
  BY DEF IInv, SlotsOK
<1>12. /\ slot'[stream] = m1 /\ cursor'[stream] = c1
       /\ DOMAIN slot' = Streams /\ DOMAIN cursor' = Streams
       /\ \A s \in Streams : s # stream => slot'[s] = slot[s] /\ cursor'[s] = cursor[s]
  <2>1. Written(stream, value) = m1
    <3> HIDE DEF w, value
    <3>1. QED
      BY <1>10 DEF Written
  <2> HIDE DEF m1, value
  <2>2. QED
    BY <1>2, <1>4, <1>11, <2>1
<1>13. StoredOf(job.tileNative, Load, c1, m1, w + 1, stream)
  <2>1. value = Described(Load, Position(Load, stream, Load.begin[stream] + w))
    <3>1. Load.begin[stream] + w = index
      BY <1>8
    <3> HIDE DEF w, value
    <3>2. QED
      BY <1>6, <3>1
  <2> HIDE DEF w, value
  <2>2. \A v, q, w1 : (v = value /\ q = p /\ w1 = w + 1) =>
          StoredOf(job.tileNative, Load, c1,
                   [z \in DOMAIN slot[stream] \union {q} |->
                      IF z = q THEN v ELSE slot[stream][z]], w1, stream)
    BY <1>1, <1>8, <1>9, <2>1, StoredNext
  <2>3. QED
    BY <2>2
<1> HIDE DEF p, m1, c1, value, x
<1>14. SlotsOK'
  <2>1. ASSUME NEW s \in Streams
        PROVE  StoredOf(job.tileNative, Load, cursor'[s], slot'[s],
                        Progress(Load, stream', index', s), s)
    <3>1. CASE s = stream
      <4>1. Progress(Load, stream', index', s) = w + 1
        BY <1>8, <3>1
      <4> HIDE DEF w
      <4>2. QED
        BY <1>12, <1>13, <3>1, <4>1
    <3>2. CASE s # stream
      <4>1. StoredOf(job.tileNative, Load, cursor[s], slot[s],
                     Progress(Load, stream, index, s), s)
        BY DEF IInv, SlotsOK
      <4>2. QED
        BY <1>7, <1>12, <3>2, <4>1
    <3>3. QED
      BY <3>1, <3>2
  <2>2. \A l : l = Load' => \A s \in Streams :
          StoredOf(job'.tileNative, l, cursor'[s], slot'[s],
                   Progress(l, stream', index', s), s)
    BY <1>1, <1>2, <2>1
  <2>3. QED
    BY <1>12, <2>2 DEF SlotsOK
<1>15. PlaceOK'
  BY <1>1, <1>2, <1>7 DEF PlaceOK
<1>16. TakenOK'
  BY <1>2 DEF TakenOK
<1>17. CacheOK'
  BY <1>2, SameCache DEF IInv
<1>18. QED
  BY <1>1, <1>14, <1>15, <1>16, <1>17 DEF IInv

LEMMA NextLoadStep ==
  ASSUME IInv, NextLoad
  PROVE  IInv'
<1>1. /\ phase = "seek" /\ Finished /\ cache' = NoCache /\ buffer' = Released(buffer)
      /\ UNCHANGED <<job, access, todo, got, page>>
  BY DEF NextLoad
<1>2. JobOK /\ Load = job.loads[item] /\ Len(job.loads) \in Nat \ {0} /\ item \in Nat
  BY LoadIsAssumed DEF IInv, Load
<1>3. CacheOK'
  BY <1>1, CacheReleased DEF IInv
<1>4. CASE item < Len(job.loads)
  <2>1. item' = item + 1 /\ StartOf(job.loads[item + 1])
    BY <1>4 DEF NextLoad
  <2>2. JobOK'
    BY <1>1, <1>2, <1>4, <2>1 DEF JobOK
  <2> DEFINE load == job.loads[item + 1]
  <2>3. Load' = load
    BY <1>1, <2>1 DEF Load
  <2>4. LoadAssumed(load)
    <3>1. item + 1 \in 1 .. Len(job.loads)
      BY <1>2, <1>4
    <3>2. QED
      BY <1>2, <3>1, LoadIsAssumed
  <2>5. /\ phase' = "seek" /\ stream' = "even" /\ index' = First(load)
        /\ cursor' = [s \in Streams |-> [at |-> Cursor(0), written |-> 0]]
        /\ slot' = [s \in Streams |-> <<>>]
    BY <2>1 DEF StartOf
  <2> HIDE DEF load
  <2>6. PlaceOK'
    <3>1. TurnOK(load, stream', index')
      BY <2>4, <2>5, ProgressStarts
    <3>2. QED
      BY <2>3, <2>5, <3>1 DEF PlaceOK
  <2>7. TakenOK'
    BY <2>5 DEF TakenOK
  <2>8. SlotsOK'
    <3>1. \A s \in Streams : Progress(load, stream', index', s) = 0
      BY <2>4, <2>5, ProgressStarts
    <3>2. \A l : l = Load' => \A s \in Streams :
            StoredOf(job'.tileNative, l, cursor'[s], slot'[s],
                     Progress(l, stream', index', s), s)
      BY <2>3, <2>5, <3>1, StoredNothing
    <3>3. QED
      BY <2>5, <3>2 DEF SlotsOK
  <2>9. QED
    BY <1>3, <2>2, <2>6, <2>7, <2>8 DEF IInv
<1>5. CASE ~(item < Len(job.loads))
  <2>1. phase' = "done" /\ UNCHANGED <<item, stream, index, cursor, slot>>
    BY <1>5 DEF NextLoad
  <2>2. JobOK' /\ Load' = Load
    BY <1>1, <1>2, <2>1, SameJob
  <2>3. PlaceOK'
    <3>1. LastTurn(Load, stream, index)
      BY <1>1 DEF Finished, LastTurn
    <3>2. TurnOK(Load, stream, index)
      BY DEF IInv, PlaceOK
    <3>3. QED
      BY <2>1, <2>2, <3>1, <3>2 DEF PlaceOK
  <2>4. TakenOK'
    BY <2>1 DEF TakenOK
  <2>5. SlotsOK'
    BY <1>1, <2>1, SameSlots DEF IInv
  <2>6. QED
    BY <1>3, <2>2, <2>3, <2>4, <2>5 DEF IInv
<1>6. QED
  BY <1>4, <1>5

LEMMA StutterStep ==
  ASSUME IInv, UNCHANGED vars
  PROVE  IInv'
<1>1. JobOK' /\ Load' = Load
  BY SameJob DEF IInv, vars
<1>2. PlaceOK'
  BY <1>1 DEF IInv, PlaceOK, vars
<1>3. TakenOK'
  BY <1>1 DEF IInv, TakenOK, Begin, End, Position, vars
<1>4. CacheOK'
  BY SameCache DEF IInv, vars
<1>5. SlotsOK'
  BY SameSlots DEF IInv, vars
<1>6. QED
  BY <1>1, <1>2, <1>3, <1>4, <1>5 DEF IInv

LEMMA InvHolds == Spec => []IInv
<1>1. IInv /\ [Next]_vars => IInv'
  BY SecondStreamStep, SkipStep, SeekStep, FetchStep, TakeSampleStep, StoreStep,
     NextLoadStep, StutterStep DEF Next
<1>2. QED
  BY InitInv, <1>1, PTL DEF Spec

\* Whatever loads follow one another, the raw pointers of the shared buffer
\* are at its origin whenever a transaction begins, and no page outside it
\* is touched: each refill and each release is one whole cycle of it.
THEOREM CachePages == Spec => []CacheInBuffer
<1>1. IInv => CacheInBuffer
  BY DEF IInv, CacheOK
<1>2. QED
  BY InvHolds, <1>1, PTL

(***************************************************************************)
(* What is stored is what is described, and that extends the signal.       *)
(***************************************************************************)
LEMMA ReachBounds ==
  ASSUME NEW load, LoadAssumed(load)
  PROVE  /\ Reach(load) \in Nat
         /\ ~load.inverse => /\ load.pad - 2 * First(load) <= Reach(load)
                             /\ 2 * Past(load) - load.pad - load.length <= Reach(load)
<1>1. CASE load.inverse
  BY <1>1 DEF Reach
<1>2. CASE ~load.inverse
  <2> DEFINE a == load.pad - 2 * First(load)
             b == 2 * Past(load) - load.pad - load.length
  <2>1. a \in Int /\ b \in Int
    BY LoadSizes, FirstAndPast
  <2>2. Reach(load) = Max({0, a, b})
    BY <1>2 DEF Reach
  <2> HIDE DEF a, b
  <2>3. Max({0, a, b}) \in {0, a, b} /\ \A v \in {0, a, b} : v <= Max({0, a, b})
    <3>1. \E m \in {0, a, b} : \A v \in {0, a, b} : v <= m
      BY <2>1
    <3>2. QED
      BY <3>1 DEF Max
  <2>4. Reach(load) \in Nat /\ a <= Reach(load) /\ b <= Reach(load)
    BY <2>1, <2>2, <2>3
  <2>5. QED
    BY <1>2, <2>4 DEF a, b
<1>3. QED
  BY <1>1, <1>2

\* No load looks further.
LEMMA PositionReached ==
  ASSUME NEW load, LoadAssumed(load), NEW s \in Streams,
         NEW i \in load.begin[s] .. load.begin[s] + load.count[s] - 1
  PROVE  Position(load, s, i) \in -Reach(load) .. load.length - 1 + Reach(load)
<1>1. /\ load.begin[s] \in Nat /\ load.count[s] \in Nat /\ load.pad \in Nat /\ i \in Nat
      /\ Parity[s] \in {0, 1} /\ load.length \in Nat /\ Reach(load) \in Nat
  BY LoadSizes, ReachBounds DEF Parity, Streams
<1>2. CASE load.inverse
  BY <1>1, <1>2, PositionOf
<1>3. CASE ~load.inverse
  <2>1. Position(load, s, i) = 2 * i + Parity[s] - load.pad
    BY <1>3 DEF Position
  <2>2. /\ First(load) <= load.begin[s] /\ load.begin[s] + load.count[s] <= Past(load)
        /\ First(load) \in Nat /\ Past(load) \in Nat
    BY <1>3, FirstAndPast
  <2>3. /\ load.pad - 2 * First(load) <= Reach(load)
        /\ 2 * Past(load) - load.pad - load.length <= Reach(load)
    BY <1>3, ReachBounds
  <2>4. i >= First(load) /\ i + 1 <= Past(load)
    BY <1>1, <2>2
  <2> DEFINE x == 2 * i + Parity[s] - load.pad
  <2>5. x \in Int /\ x >= -Reach(load) /\ x <= load.length - 1 + Reach(load)
    BY <1>1, <2>2, <2>3, <2>4
  <2>6. QED
    BY <1>1, <2>1, <2>5
<1>4. QED
  BY <1>2, <1>3

LEMMA ExtendedExtends ==
  ASSUME NEW load, LoadAssumed(load)
  PROVE  Extends(Extended(load), load.mode, Samples(load), load.length)
<1> DEFINE n == load.length
           s == Samples(load)
           f == Extended(load)
           reach == Reach(load)
<1>1. /\ load.mode \in Modes /\ n \in Nat \ {0} /\ reach \in Nat
      /\ load.mode \in {"reflect", "antireflect"} => n >= 2
  BY LoadSizes, ReachBounds DEF LoadAssumed
<1>2. s \in [0 .. n - 1 -> Int]
  BY DEF LoadAssumed, Samples
<1>3. f = [x \in -reach .. n - 1 + reach |-> SampleAt(load.mode, s, n, x)]
  <2>1. \A x \in -reach .. n - 1 + reach : Described(load, x) = SampleAt(load.mode, s, n, x)
    <3>1. ASSUME NEW x \in -reach .. n - 1 + reach
          PROVE  Described(load, x) = SampleAt(load.mode, s, n, x)
      <4>1. CASE load.inverse
        <5>1. reach = 0
          BY <4>1 DEF Reach
        <5>2. x \in 0 .. n - 1
          BY <1>1, <5>1
        <5>3. AccessTo(load, x) = ExtendedIndex(load.mode, x, n)
          BY <4>1, <5>2 DEF AccessTo, ExtendedIndex
        <5>4. QED
          BY <5>3 DEF Described, SampleAt
      <4>2. CASE ~load.inverse
        BY <4>2 DEF Described, SampleAt, AccessTo
      <4>3. QED
        BY <4>1, <4>2
    <3>2. QED
      BY <3>1
  <2>2. f = [x \in -reach .. n - 1 + reach |-> Described(load, x)]
    BY DEF Extended
  <2> HIDE DEF f, reach, n, s
  <2>3. QED
    BY <2>1, <2>2
<1> HIDE DEF f, reach, n, s
<1>4. Extends(f, load.mode, s, n)
  BY <1>1, <1>2, <1>3, DescribedExtends
<1>5. QED
  BY <1>4 DEF f, s, n

LEMMA StoredAsDescribed ==
  ASSUME NEW load, LoadAssumed(load), NEW t, NEW s \in Streams, NEW c, NEW m,
         NEW w \in 0 .. load.count[s], StoredOf(t, load, c, m, w, s)
  PROVE  /\ \A i \in 0 .. c.written - 1 :
              /\ PhysicalIndex(t, i) \in DOMAIN m
              /\ m[PhysicalIndex(t, i)]
                   = Extended(load)[Position(load, s, load.begin[s] + i)]
         /\ Cardinality(DOMAIN m) = c.written /\ c.written = w
<1>1. c.written = w /\ Cardinality(DOMAIN m) = w
  BY DEF StoredOf
<1>2. load.begin[s] \in Nat /\ load.count[s] \in Nat
  BY LoadSizes
<1>3. ASSUME NEW i \in 0 .. w - 1
      PROVE  /\ PhysicalIndex(t, i) \in DOMAIN m
             /\ m[PhysicalIndex(t, i)]
                  = Extended(load)[Position(load, s, load.begin[s] + i)]
  <2> DEFINE x == Position(load, s, load.begin[s] + i)
  <2>1. load.begin[s] + i \in load.begin[s] .. load.begin[s] + load.count[s] - 1
    BY <1>2
  <2>2. x \in -Reach(load) .. load.length - 1 + Reach(load)
    BY <2>1, PositionReached
  <2>3. m[PhysicalIndex(t, i)] = Described(load, x) /\ PhysicalIndex(t, i) \in DOMAIN m
    BY DEF StoredOf
  <2> HIDE DEF x
  <2>4. Extended(load)[x] = Described(load, x)
    BY <2>2 DEF Extended
  <2>5. QED
    BY <2>3, <2>4 DEF x
<1>4. QED
  BY <1>1, <1>3

LEMMA InvIsExact ==
  ASSUME IInv
  PROVE  LoadedExact
<1>1. JobOK /\ LoadAssumed(Load) /\ TurnOK(Load, stream, index)
  BY LoadIsAssumed DEF IInv, PlaceOK
<1>2. ASSUME NEW s \in Streams
      PROVE  /\ \A i \in 0 .. cursor[s].written - 1 :
                  /\ PhysicalIndex(job.tileNative, i) \in DOMAIN slot[s]
                  /\ slot[s][PhysicalIndex(job.tileNative, i)]
                       = Extended(Load)[Position(Load, s, Load.begin[s] + i)]
             /\ Cardinality(DOMAIN slot[s]) = cursor[s].written
             /\ phase = "done" => cursor[s].written = Load.count[s]
  <2> DEFINE w == Progress(Load, stream, index, s)
  <2>1. w \in 0 .. Load.count[s] /\ (phase = "done" => w = Load.count[s])
    BY <1>1, ProgressBounds DEF IInv, PlaceOK
  <2>2. StoredOf(job.tileNative, Load, cursor[s], slot[s], w, s)
    BY DEF IInv, SlotsOK
  <2> HIDE DEF w
  <2> DEFINE c == cursor[s]
             m == slot[s]
             t == job.tileNative
             load == Load
             e == Extended(load)
             P(i) == PhysicalIndex(t, i)
             D == DOMAIN m
  <2>3. /\ \A i \in 0 .. c.written - 1 :
             P(i) \in D /\ m[P(i)] = e[Position(load, s, load.begin[s] + i)]
        /\ Cardinality(D) = c.written /\ c.written = w
    <3>1. LoadAssumed(load) /\ w \in 0 .. load.count[s] /\ StoredOf(t, load, c, m, w, s)
      BY <1>1, <2>1, <2>2
    <3> HIDE DEF t, c, m, load
    <3>2. QED
      BY ONLY <3>1, StoredAsDescribed
  <2>4. phase = "done" => cursor[s].written = Load.count[s]
    BY <2>1, <2>3
  <2>5. QED
    BY <2>3, <2>4
<1>3. Extends(Extended(Load), Load.mode, Samples(Load), Load.length)
  BY <1>1, ExtendedExtends
<1>4. QED
  BY <1>2, <1>3 DEF LoadedExact

\* Whatever the chunk, mode, layout and sizes, each element stored so far is
\* the coefficient or sample of the extended signal that belongs at its
\* place, whatever was cached in between, and nothing else was written.
THEOREM LoadsExactly == Spec => []LoadedExact
<1>1. IInv => LoadedExact
  BY InvIsExact
<1>2. QED
  BY InvHolds, <1>1, PTL

-----------------------------------------------------------------------------
(***************************************************************************)
(* The variants in Width bits.  What fits is not changed by its width; the *)
(* remainder of C++ and the divisions of a magnitude are those of \div and *)
(* %, on the left of the signal too.                                       *)
(***************************************************************************)
LEMMA Fits ==
  ASSUME NEW x \in Nat
  PROVE  /\ x < 2 * Half => Unsigned(x) = x
         /\ x < Half => Signed(x) = x
<1>1. Half \in Nat \ {0}
  BY WidthAssumption
<1> DEFINE h == Half
           m == 2 * h
<1>2. m \in Nat \ {0} /\ h \in Nat /\ m = 2 * h
  BY <1>1
<1>3. ASSUME x < m PROVE Unsigned(x) = x
  <2>1. Unsigned(x) = x % m
    BY DEF Unsigned
  <2> HIDE DEF m
  <2>2. x = m * 0 + x /\ x \in 0 .. m - 1 /\ x \in Int /\ 0 \in Int
    BY <1>2, <1>3
  <2>3. x % m = x
    BY ONLY <1>2, <2>2, Quotient
  <2>4. QED
    BY <2>1, <2>3
<1>4. ASSUME x < h PROVE Signed(x) = x
  <2>1. Unsigned(x) = x
    BY <1>2, <1>3, <1>4
  <2>2. ~(x >= Half)
    BY <1>2, <1>4
  <2>3. QED
    BY <2>1, <2>2 DEF Signed
<1>5. QED
  BY <1>3, <1>4

\* Dividing a negative number by way of its magnitude.
LEMMA ByMagnitude ==
  ASSUME NEW p \in Nat \ {0}, NEW i \in Int, i < 0
  PROVE  /\ (-i) % p = 0 => i \div p = -((-i) \div p) /\ i % p = 0
         /\ (-i) % p # 0 => i \div p = -1 - ((-i) \div p) /\ i % p = p - ((-i) % p)
         /\ (-i) % p \in 0 .. p - 1
<1> DEFINE y == -i
           q == y \div p
           r == y % p
           below == -q
           under == -1 - q
<1>1. y \in Nat /\ y \in Int /\ i = -y
  OBVIOUS
<1> HIDE DEF y
<1>2. y = p * q + r /\ r \in 0 .. p - 1 /\ q \in Nat
  BY ONLY <1>1, p \in Nat \ {0}, Divided
<1> HIDE DEF q, r
<1>3. /\ p * below = -(p * q) /\ p * under = -(p * q) - p /\ p * q \in Int
      /\ below \in Int /\ under \in Int
  BY <1>2, SMT
<1>4. ASSUME r = 0 PROVE i \div p = below /\ i % p = 0
  <2>1. i = p * below + 0 /\ 0 \in 0 .. p - 1
    BY <1>1, <1>2, <1>3, <1>4
  <2>2. below \in Int
    BY <1>3
  <2> HIDE DEF below
  <2>3. QED
    BY ONLY <2>1, <2>2, i \in Int, p \in Nat \ {0}, Quotient
<1>5. ASSUME r # 0 PROVE i \div p = under /\ i % p = p - r
  <2> DEFINE s == p - r
  <2>1. i = p * under + s /\ s \in 0 .. p - 1
    BY <1>1, <1>2, <1>3, <1>5
  <2>2. under \in Int
    BY <1>3
  <2> HIDE DEF under, s
  <2>3. i \div p = under /\ i % p = s
    BY ONLY <2>1, <2>2, i \in Int, p \in Nat \ {0}, Quotient
  <2>4. QED
    BY <2>3 DEF s
<1>6. QED
  BY <1>2, <1>4, <1>5 DEF r, q, y

LEMMA SymmetricAgrees ==
  ASSUME NEW n \in Nat \ {0}, 2 * n < Half, NEW i \in Int
  PROVE  SymmetricNarrow(i, n) = ExtendedIndex("symmetric", i, n)
<1>1. Half \in Nat \ {0}
  BY WidthAssumption
<1>2. CASE i \in 0 .. n - 1
  BY <1>2 DEF SymmetricNarrow, ExtendedIndex
<1>3. CASE i \notin 0 .. n - 1
  <2> DEFINE p == 2 * n
             m == i % p
             r == Remainder(i, p)
             positive == IF r < 0 THEN Signed(r + p) ELSE r
  <2>1. p \in Nat \ {0} /\ p < Half /\ Signed(p) = p
    <3>1. p \in Nat \ {0} /\ p \in Nat
      OBVIOUS
    <3> HIDE DEF p
    <3>2. p < Half
      BY DEF p
    <3>3. QED
      BY <3>1, <3>2, Fits
  <2>2. positive = m
    <3> HIDE DEF p
    <3>1. CASE i >= 0
      <4>1. r = m
        BY <3>1 DEF Remainder
      <4>2. m \in 0 .. p - 1
        BY ONLY <2>1, i \in Int, <3>1, Divided DEF m
      <4>3. ~(r < 0)
        BY <2>1, <4>1, <4>2
      <4>4. QED
        BY <4>1, <4>3
    <3>2. CASE i < 0
      <4> DEFINE t == (-i) % p
      <4>1. /\ t = 0 => m = 0
            /\ t # 0 => m = p - t
            /\ t \in 0 .. p - 1
        BY ONLY <2>1, <3>2, i \in Int, ByMagnitude DEF m, t
      <4>2. r = 0 - t
        BY <3>2 DEF Remainder
      <4> HIDE DEF t, r, m
      <4>3. CASE t = 0
        BY <4>1, <4>2, <4>3
      <4>4. CASE t # 0
        <5>1. r < 0 /\ r + p = p - t /\ p - t \in Nat /\ p - t < Half
          BY <1>1, <2>1, <4>1, <4>2, <4>4
        <5>2. Signed(r + p) = p - t
          BY <5>1, Fits
        <5>3. QED
          BY <4>1, <4>4, <5>1, <5>2
      <4>5. QED
        BY <4>3, <4>4
    <3>3. QED
      BY <3>1, <3>2
  <2>3. SymmetricNarrow(i, n)
          = Access("sample", IF positive < n THEN positive ELSE p - 1 - positive)
    <3> HIDE DEF p
    <3>1. SymmetricNarrow(i, n)
            = LET period == Signed(p)
                  phase0 == Remainder(i, period)
                  positive0 == IF phase0 < 0 THEN Signed(phase0 + period) ELSE phase0
              IN Access("sample", IF positive0 < n THEN positive0 ELSE period - 1 - positive0)
      BY <1>3 DEF SymmetricNarrow, p
    <3>2. QED
      BY <2>1, <3>1
  <2>4. ExtendedIndex("symmetric", i, n) = Symmetric(i, n)
    BY <1>3 DEF ExtendedIndex
  <2>5. Symmetric(i, n) = Access("sample", IF m < n THEN m ELSE p - 1 - m)
    BY DEF Symmetric
  <2> HIDE DEF positive, m, p
  <2>6. QED
    BY <2>2, <2>3, <2>4, <2>5
<1>4. QED
  BY <1>2, <1>3

LEMMA AntireflectAgrees ==
  ASSUME NEW n \in Nat, n >= 2, n < Half, NEW i \in -Half .. Half - 1
  PROVE  AntireflectNarrow(i, n) = ExtendedIndex("antireflect", i, n)
<1>1. Half \in Nat \ {0} /\ i \in Int /\ n # 0 /\ n # 1
  BY WidthAssumption
<1>2. CASE i \in 0 .. n - 1
  BY <1>1, <1>2 DEF AntireflectNarrow, ExtendedIndex
<1>3. CASE i \notin 0 .. n - 1
  <2> DEFINE last == n - 1
             p == 2 * last
  <2>1. p \in Nat \ {0} /\ p < 2 * Half /\ Unsigned(p) = p
    <3>1. p \in Nat \ {0} /\ p < 2 * Half
      BY <1>1
    <3> HIDE DEF p
    <3>2. QED
      BY <3>1, Fits
  <2>2. QuotientAndRemainder(i, p) = [quotient |-> i \div p, remainder |-> i % p]
    <3> HIDE DEF p
    <3>1. CASE i >= 0
      BY <3>1 DEF QuotientAndRemainder
    <3>2. CASE i < 0
      <4> DEFINE y == -i
      <4>1. y \in Nat /\ y < 2 * Half /\ ~(i >= 0)
        BY <1>1, <3>2
      <4>2. /\ y % p = 0 => i \div p = -(y \div p) /\ i % p = 0
            /\ y % p # 0 => i \div p = -1 - (y \div p) /\ i % p = p - (y % p)
        BY ONLY <1>1, <2>1, <3>2, ByMagnitude DEF y
      <4> HIDE DEF y
      <4>3. Unsigned(y) = y
        BY <4>1, Fits
      <4>4. QuotientAndRemainder(i, p)
              = IF y % p = 0 THEN [quotient |-> -(y \div p), remainder |-> 0]
                ELSE [quotient |-> -1 - (y \div p), remainder |-> p - (y % p)]
        BY <4>1, <4>3 DEF QuotientAndRemainder, y
      <4>5. QED
        BY <4>2, <4>4
    <3>3. QED
      BY <1>1, <3>1, <3>2
  <2> DEFINE at == QuotientAndRemainder(i, p)
             a(q, r) == [Access("antireflect", IF r > last THEN p - r ELSE r) EXCEPT
                           !.quotient = q, !.reflected = r > last]
  <2>3. AntireflectNarrow(i, n) = a(at.quotient, at.remainder)
    BY <1>1, <1>3, <2>1 DEF AntireflectNarrow
  <2>4. ExtendedIndex("antireflect", i, n) = a(i \div p, i % p)
    BY <1>1, <1>3 DEF ExtendedIndex, Antireflect
  <2> HIDE DEF a
  <2>5. QED
    BY <2>2, <2>3, <2>4
<1>4. QED
  BY <1>2, <1>3

LEMMA SmoothAgrees ==
  ASSUME NEW n \in Nat \ {0}, n < Half, NEW i \in -Half .. Half - 1
  PROVE  SmoothNarrow(i, n) = ExtendedIndex("smooth", i, n)
<1>1. Half \in Nat \ {0} /\ i \in Int /\ n # 0
  BY WidthAssumption
<1>2. CASE i \in 0 .. n - 1
  BY <1>1, <1>2 DEF SmoothNarrow, ExtendedIndex
<1>3. CASE i \notin 0 .. n - 1 /\ n = 1
  BY <1>3 DEF SmoothNarrow, ExtendedIndex
<1>4. CASE i \notin 0 .. n - 1 /\ n # 1
  <2> DEFINE d == IF i < 0 THEN -i ELSE i - (n - 1)
             e == IF i < 0 THEN Unsigned(-i) ELSE Unsigned(i - (n - 1))
  <2>1. d \in Nat /\ d < 2 * Half
    BY <1>1, <1>4
  <2>2. e = d
    <3>1. \A x \in Nat : x < 2 * Half => Unsigned(x) = x
      BY Fits
    <3>2. QED
      BY <2>1, <3>1
  <2> DEFINE s(x) == [Access("smooth", IF i < 0 THEN 0 ELSE n - 1) EXCEPT
                        !.auxiliary = IF i < 0 THEN 1 ELSE n - 2, !.distance = x]
  <2>3. SmoothNarrow(i, n) = s(e)
    BY <1>4 DEF SmoothNarrow
  <2>4. ExtendedIndex("smooth", i, n) = s(d)
    BY <1>1, <1>4 DEF ExtendedIndex, Smooth
  <2> HIDE DEF s, d, e
  <2>5. QED
    BY <2>2, <2>3, <2>4
<1>5. QED
  BY <1>2, <1>3, <1>4

\* Within the limits the callers of the narrow variants keep to, they
\* describe the access that is made, whatever the width of a number.
THEOREM NarrowIsWide == Spec => []NarrowAgrees
<1>1. ASSUME IInv PROVE NarrowAgrees
  <2> DEFINE i == Position(Load, stream, index)
             n == Load.length
  <2> SUFFICES ASSUME phase = "read", ~Load.inverse, n < Half, i \in -Half .. Half - 1
               PROVE  CASE Load.mode = "symmetric" /\ 2 * n < Half ->
                             SymmetricNarrow(i, n) = access
                        [] Load.mode = "antireflect" -> AntireflectNarrow(i, n) = access
                        [] Load.mode = "smooth" -> SmoothNarrow(i, n) = access
                        [] OTHER -> TRUE
    BY DEF NarrowAgrees
  <2>1. LoadAssumed(Load)
    BY <1>1, LoadIsAssumed DEF IInv
  <2>2. access = ExtendedIndex(Load.mode, i, n)
    BY <1>1 DEF IInv, TakenOK, TakenOf, AccessTo
  <2>3. n \in Nat \ {0} /\ (Load.mode = "antireflect" => n >= 2)
    BY <2>1 DEF LoadAssumed
  <2> HIDE DEF i, n
  <2>4. Half \in Nat /\ i \in Int
    BY WidthAssumption
  <2>5. CASE Load.mode = "symmetric" /\ 2 * n < Half
    BY <2>2, <2>3, <2>4, <2>5, SymmetricAgrees
  <2>6. CASE Load.mode = "antireflect"
    BY <2>2, <2>3, <2>4, <2>6, AntireflectAgrees
  <2>7. CASE Load.mode = "smooth"
    BY <2>2, <2>3, <2>4, <2>7, SmoothAgrees
  <2>8. CASE /\ ~(Load.mode = "symmetric" /\ 2 * n < Half)
             /\ Load.mode # "antireflect" /\ Load.mode # "smooth"
    BY <2>8
  <2>9. QED
    BY <2>5, <2>6, <2>7, <2>8
<1>2. QED
  BY <1>1, InvHolds, PTL
=============================================================================
