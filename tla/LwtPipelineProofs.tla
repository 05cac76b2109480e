------------------------- MODULE LwtPipelineProofs -------------------------
(***************************************************************************)
(* Proofs about LwtPipeline for every schedule, every number of items,     *)
(* chunks and groups, and every buffering: that the one-page handshake of  *)
(* lwt_writer.cpp and lwt_reader.cpp keeps NoC writes out of the slots the *)
(* reader reads, that no circular buffer overflows or keeps anything, and  *)
(* that a tile mirror is never read stale.                                 *)
(* Every step of it is a step of LiftingTransform or none that can be seen *)
(* there.                                                                  *)
(*                                                                         *)
(* The inductive invariant is the conjunction of TypeOK, Lockstep,         *)
(* Conservation, Reserved and WritesOfLeg, which LwtPipeline defines, and  *)
(* of the fact that the buffers are sequences.  MInv, relative to it, is   *)
(* the inductive invariant of the tile mirror, and DInv, relative to both, *)
(* that of what is in the buffers.                                         *)
(***************************************************************************)
EXTENDS LwtPipeline, AnySequences, TLAPS

-----------------------------------------------------------------------------
(***************************************************************************)
(* Legs, groups and locations.                                             *)
(***************************************************************************)
LEMMA RouteCountNat == RouteCount \in Nat \ {0}
  BY RoutesAssumption DEF RouteCount

LEMMA LegsNat == Legs \in Nat \ {0}
<1>1. \A a, b \in Nat \ {0} : a * b \in Nat \ {0}
  OBVIOUS
<1>2. QED
  BY <1>1, RouteCountNat, SizesAssumption DEF Legs

LEMMA QuotientBound ==
  ASSUME NEW n \in Nat \ {0}, NEW m \in Nat, NEW a \in Nat, a < m * n
  PROVE  a \div n \in 0 .. m - 1 /\ a % n \in 0 .. n - 1
<1>1. a = n * (a \div n) + (a % n) /\ a % n \in 0 .. n - 1 /\ a \div n \in Int
  BY SMT
<1>2. CASE a \div n < 0
  <2>1. n * (a \div n) <= n * (-1)
    BY <1>1, <1>2, SMT
  <2>2. QED
    BY <1>1, <2>1, SMT
<1>3. CASE a \div n >= m
  <2>1. n * (a \div n) >= n * m
    BY <1>1, <1>3, SMT
  <2>2. QED
    BY <1>1, <2>1, SMT
<1>4. QED
  BY <1>1, <1>2, <1>3, SMT

LEMMA LegParts ==
  ASSUME NEW leg \in 1 .. Legs
  PROVE  ItemOf(leg) \in 0 .. ItemCount - 1 /\ RouteOf(leg) \in RouteIndex
<1>1. leg - 1 \in Nat /\ leg - 1 < ItemCount * RouteCount
  BY LegsNat DEF Legs
<1>2. /\ (leg - 1) \div RouteCount \in 0 .. ItemCount - 1
      /\ (leg - 1) % RouteCount \in 0 .. RouteCount - 1
  <2>1. RouteCount \in Nat \ {0} /\ ItemCount \in Nat
    BY RouteCountNat, SizesAssumption
  <2>2. QED
    BY ONLY <1>1, <2>1, QuotientBound
<1>3. QED
  BY <1>2, RouteCountNat DEF ItemOf, RouteOf, RouteIndex

LEMMA GroupsOfLeg ==
  ASSUME NEW leg \in 1 .. Legs
  PROVE  Groups(leg) \in 1 .. MaxGroups /\ ComputeGroups(leg) = Groups(leg)
<1>1. \A n \in Nat \ {0}, a \in Nat : a - (a \div n) * n = a % n
  BY SMT
<1>2. ItemOf(leg) \in Nat
  BY LegParts
<1>3. Chunk(ItemOf(leg)) = (ChunkBegin + ItemOf(leg)) % ChunksPerSample
  <2>1. ChunkBegin + ItemOf(leg) \in Nat /\ ChunksPerSample \in Nat \ {0}
    BY <1>2, SizesAssumption
  <2>2. QED
    BY <1>1, <2>1, Zenon DEF Chunk, Sample
<1>4. QED
  BY <1>3, GroupsAssumption DEF Groups, ComputeGroups, Cells

LEMMA RouteOfLeg ==
  ASSUME NEW leg \in 1 .. Legs
  PROVE  Route(leg) \in RouteType
  BY LegParts, RoutesAssumption DEF Route, RouteIndex, RouteCount

LEMMA DestinationsTyped ==
  ASSUME NEW leg \in 1 .. Legs
  PROVE  Destinations(leg) \subseteq Locations
<1>1. Route(leg).output \in Slots \union {"dram"} /\ Route(leg).target \in Streams
  BY RouteOfLeg DEF RouteType
<1>2. ItemOf(leg) \in 0 .. ItemCount - 1
  BY LegParts
<1>3. QED
  BY <1>1, <1>2 DEF Destinations, Locations, Planes

(***************************************************************************)
(* The planner never lets a route overwrite what it reads.                 *)
(***************************************************************************)
LEMMA DestinationsNotRead ==
  ASSUME NEW leg \in 1 .. Legs, NEW l \in Destinations(leg),
         NEW slot \in ReadSlots(leg), NEW p \in Planes
  PROVE  l # Local(slot, p)
<1> DEFINE r == RouteOf(leg)
<1>1. r \in RouteIndex
  BY LegParts
<1>2. Route(leg) \in RouteType
  BY RouteOfLeg
<1>3. slot = Route(leg).source \/ (Route(leg).kind = "lift" /\ slot = Route(leg).base)
  BY <1>2 DEF ReadSlots, ReadSlot, RouteType
<1>4. \E s \in Streams : slot = SlotOf(s, r - 1)
  BY <1>1, <1>2, <1>3, SlotsAssumption DEF Route, RouteType
<1>5. CASE Route(leg).output = "dram"
  BY <1>5 DEF Destinations, Dram, Local
<1>6. CASE Route(leg).output # "dram"
  <2>1. Route(leg).output \in Slots
    BY <1>2, <1>6 DEF RouteType
  <2>2. Route(leg).output # slot
    BY <1>1, <1>4, <2>1, SlotsAssumption DEF Route
  <2>3. QED
    BY <1>6, <2>2 DEF Destinations, Local
<1>7. QED
  BY <1>5, <1>6

(***************************************************************************)
(* The direct interleave makes a pass for every group of the last route.   *)
(***************************************************************************)
LEMMA MaxOf ==
  ASSUME NEW T, NEW m \in T, T \subseteq Int, \A x \in T : m >= x
  PROVE  Max(T) = m
<1>1. /\ Max(T) \in T
      /\ \A x \in T : Max(T) >= x
  BY Zenon DEF Max
<1>2. Max(T) >= m /\ m >= Max(T) /\ Max(T) \in Int /\ m \in Int
  BY <1>1
<1>3. QED
  BY <1>2

LEMMA MaxOfTwo ==
  ASSUME NEW a \in Int, NEW b \in Int
  PROVE  Max({a, b}) \in {a, b} /\ Max({a, b}) >= a /\ Max({a, b}) >= b
<1>1. CASE a >= b
  <2>1. \A x \in {a, b} : a >= x
    BY <1>1
  <2>2. Max({a, b}) = a
    BY <2>1, MaxOf
  <2>3. QED
    BY <1>1, <2>2
<1>2. CASE ~(a >= b)
  <2>1. \A x \in {a, b} : b >= x
    BY <1>2
  <2>2. Max({a, b}) = b
    BY <2>1, MaxOf
  <2>3. QED
    BY <1>2, <2>2
<1>3. QED
  BY <1>1, <1>2

LEMMA OutputGroupsBound ==
  ASSUME NEW leg \in 1 .. Legs
  PROVE  /\ OutputGroups(ItemOf(leg)) \in 1 .. MaxGroups
         /\ Direct(leg) => OutputGroups(ItemOf(leg)) >= Groups(leg)
<1> DEFINE item == ItemOf(leg)
           t == Route(leg).target
<1>1. item \in 0 .. ItemCount - 1 /\ t \in Streams /\ RouteCount \in Nat \ {0}
  BY LegParts, RouteOfLeg, RouteCountNat DEF RouteType
<1>2. \A s \in Streams : FinalLength(item, s) \in 1 .. MaxGroups
  BY <1>1, GroupsAssumption DEF FinalLength, Cells
<1>3. OutputGroups(item) = Max({FinalLength(item, "even"), FinalLength(item, "odd")})
  <2>1. {FinalLength(item, s) : s \in Streams}
          = {FinalLength(item, "even"), FinalLength(item, "odd")}
    BY DEF Streams
  <2>2. QED
    BY <2>1 DEF OutputGroups
<1>4. /\ OutputGroups(item) \in 1 .. MaxGroups
      /\ \A s \in Streams : OutputGroups(item) >= FinalLength(item, s)
  <2>1. FinalLength(item, "even") \in 1 .. MaxGroups
    BY <1>2 DEF Streams
  <2>2. FinalLength(item, "odd") \in 1 .. MaxGroups
    BY <1>2 DEF Streams
  <2> DEFINE a == FinalLength(item, "even")
             b == FinalLength(item, "odd")
  <2>3. Max({a, b}) \in {a, b} /\ Max({a, b}) >= a /\ Max({a, b}) >= b
    <3>1. a \in Int /\ b \in Int
      BY <2>1, <2>2
    <3>2. QED
      BY ONLY <3>1, MaxOfTwo
  <2>4. QED
    BY <1>3, <2>1, <2>2, <2>3 DEF Streams
<1>5. ASSUME Direct(leg) PROVE FinalLength(item, t) = Groups(leg)
  <2>1. RouteOf(leg) = RouteCount /\ Routes[RouteCount].target = t
    BY <1>5 DEF Direct, Route
  <2> DEFINE T == {0} \union {r \in 1 .. RouteCount : Routes[r].target = t}
  <2>2. RouteCount \in T /\ T \subseteq Int /\ \A x \in T : RouteCount >= x
    BY <1>1, <2>1
  <2>3. Max(T) = RouteCount
    BY <2>2, MaxOf
  <2>4. LastRoute(t, RouteCount) = RouteCount
    BY <2>3 DEF LastRoute
  <2>5. QED
    BY <1>1, <2>1, <2>4 DEF FinalLength, Length, Groups
<1>6. QED
  BY <1>1, <1>4, <1>5

-----------------------------------------------------------------------------
(***************************************************************************)
(* The inductive invariant.                                                *)
(***************************************************************************)
USE DEF rvars, cvars, wvars, inputs, ring, noc

Buffers == IsSeq(src0) /\ IsSeq(src1) /\ IsSeq(base) /\ IsSeq(regs)

IInv == TypeOK /\ Buffers /\ Lockstep /\ Conservation /\ Reserved /\ WritesOfLeg

(***************************************************************************)
(* What the steps need of a leg that is not past the last.                 *)
(***************************************************************************)
LegOK(leg) ==
    /\ leg \in 1 .. Legs + 1
    /\ leg <= Legs => /\ Groups(leg) \in 1 .. MaxGroups
                      /\ ComputeGroups(leg) = Groups(leg)
                      /\ Route(leg).kind \in {"lift", "scale"}

LEMMA LegsOK ==
  ASSUME TypeOK
  PROVE  /\ LegOK(wleg) /\ LegOK(rleg) /\ LegOK(cleg)
         /\ Legs \in Nat \ {0} /\ MaxGroups \in Nat \ {0}
         /\ Buffering \in Nat \ {0}
<1>1. \A leg \in 1 .. Legs + 1 : LegOK(leg)
  BY LegsNat, GroupsOfLeg, RouteOfLeg DEF LegOK, RouteType
<1>2. QED
  BY <1>1, LegsNat, SizesAssumption DEF TypeOK

(***************************************************************************)
(* On every leg the kernels are in pipeline order, and what is in a buffer *)
(* says which leg its consumer is on.                                      *)
(***************************************************************************)
LEMMA PipelineOrder ==
  ASSUME IInv
  PROVE  /\ {rleg, cleg, wleg} \subseteq 1 .. Legs + 1 /\ Legs \in Nat
         /\ {rgrp, cgrp, wgrp} \subseteq Nat \ {0}
         /\ {Len(src0), Len(src1), Len(base), Len(regs), count} \subseteq Nat
         /\ {Pushed, Packed, Popped} \subseteq Nat
         /\ Popped <= Packed /\ Packed <= Pushed
         /\ wleg <= Legs => Pushed <= Groups(wleg) /\ Groups(wleg) \in Nat \ {0}
         /\ Len(src0) > 0 \/ Len(src1) > 0 \/ Len(base) > 0 \/ Len(regs) > 0 =>
              cleg = wleg /\ wleg <= Legs
         /\ count > 0 => wleg <= Legs /\ wpc \in {"take", "flush"}
                           /\ wgrp <= Groups(wleg)
<1> USE DEF IInv
<1>1. /\ LegOK(wleg) /\ LegOK(rleg) /\ LegOK(cleg)
      /\ Legs \in Nat \ {0} /\ MaxGroups \in Nat \ {0}
      /\ Buffering \in Nat \ {0}
  BY LegsOK
<1>2. /\ {rleg, cleg, wleg} \subseteq 1 .. Legs + 1 /\ Legs \in Nat
      /\ {rgrp, cgrp, wgrp} \subseteq Nat \ {0}
      /\ {Len(src0), Len(src1), Len(base), Len(regs), count} \subseteq Nat
  BY <1>1 DEF TypeOK, Cells
<1>3. CASE wleg <= Legs
  <2>1. Groups(wleg) \in Nat \ {0} /\ Route(wleg).kind \in {"lift", "scale"}
    BY <1>1, <1>3 DEF LegOK
  <2>2. /\ Pushed \in Nat /\ Pushed <= Groups(wleg)
        /\ Packed \in Nat /\ Packed <= Groups(wleg)
        /\ Popped \in Nat
    <3>1. /\ rleg <= Legs => rgrp <= Groups(rleg)
          /\ cleg <= Legs => cgrp <= Groups(cleg)
          /\ rleg \in {wleg, wleg + 1} /\ cleg \in {wleg, wleg + 1}
      BY DEF Conservation, Lockstep
    <3>2. Pushed \in Nat /\ Pushed <= Groups(wleg)
      BY <1>2, <1>3, <2>1, <3>1 DEF Pushed
    <3>3. Packed \in Nat /\ Packed <= Groups(wleg)
      BY <1>2, <1>3, <2>1, <3>1 DEF Packed
    <3>4. Popped \in Nat
      BY <1>2, <2>1 DEF Popped
    <3>5. QED
      BY <3>2, <3>3, <3>4
  <2>3. Popped <= Packed /\ Packed <= Pushed
    <3>1. count = Packed - Popped
      BY DEF Conservation
    <3>2. Len(base) = Pushed - Packed \/ Len(base) = Pushed - Packed - 1
      BY <2>2 DEF Conservation
    <3>3. QED
      BY <1>2, <2>2, <3>1, <3>2
  <2>4. cleg # wleg => Packed = Groups(wleg) /\ Len(regs) = 0
    BY <1>2, <2>1 DEF Packed, Lockstep
  <2>5. Len(src0) > 0 \/ Len(src1) > 0 \/ Len(base) > 0 \/ Len(regs) > 0 => cleg = wleg
    BY <1>2, <1>3, <2>1, <2>2, <2>4 DEF Conservation
  <2>6. count > 0 => wpc \in {"take", "flush"} /\ wgrp <= Groups(wleg)
    BY <1>2, <1>3, <2>1, <2>2 DEF Conservation, Popped, Lockstep
  <2>7. QED
    BY <1>2, <1>3, <2>1, <2>2, <2>3, <2>5, <2>6
<1>4. CASE wleg > Legs
  <2>1. rleg = wleg /\ cleg = wleg /\ rgrp = 1 /\ cgrp = 1 /\ wpc = "done"
    BY <1>2, <1>4 DEF Lockstep
  <2>2. Pushed = 0 /\ Packed = 0 /\ Popped = 0
    BY <1>2, <2>1 DEF Pushed, Packed, Popped
  <2>3. Len(src0) = 0 /\ Len(src1) = 0 /\ Len(regs) = 0 /\ Len(base) = 0 /\ count = 0
    <3>1. Len(src0) = 0 /\ Len(src1) = 0 /\ Len(regs) = 0
      BY <1>2, <1>4 DEF Conservation
    <3>2. Len(base) = 0
      BY <1>2, <2>2, <3>1 DEF Conservation
    <3>3. count = 0
      BY <2>2 DEF Conservation
    <3>4. QED
      BY <3>1, <3>2, <3>3
  <2>4. QED
    BY <1>2, <1>4, <2>2, <2>3
<1>5. QED
  BY <1>2, <1>3, <1>4

LEMMA InitIInv == Init => IInv
<1> SUFFICES ASSUME Init PROVE IInv
  OBVIOUS
<1>1. /\ Legs \in Nat \ {0} /\ LegOK(1) /\ MaxGroups \in Nat \ {0}
      /\ Buffering \in Nat \ {0}
  BY LegsNat, GroupsOfLeg, RouteOfLeg, SizesAssumption DEF LegOK, RouteType
<1>2. TypeOK
  BY <1>1, EmptyIsSeq DEF Init, TypeOK, Cells
<1>3. Buffers
  BY EmptyIsSeq DEF Init, Buffers
<1>4. Lockstep
  BY <1>1, EmptyIsSeq DEF Init, Lockstep
<1>5. Conservation
  <2>1. Pushed = 0 /\ Packed = 0 /\ Popped = 0 /\ Groups(1) >= 1
    BY <1>1 DEF Init, Pushed, Packed, Popped, LegOK
  <2>2. /\ Len(src0) = 0 /\ Len(src1) = 0 /\ Len(base) = 0 /\ Len(regs) = 0
        /\ rleg = 1 /\ cleg = 1 /\ wleg = 1 /\ rgrp = 1 /\ cgrp = 1 /\ wgrp = 1
        /\ count = 0
    BY EmptyIsSeq DEF Init
  <2>3. QED
    BY <1>1, <2>1, <2>2 DEF Conservation, LegOK
<1>6. Reserved
  BY DEF Init, Reserved
<1>7. WritesOfLeg
  BY DEF Init, WritesOfLeg
<1>8. QED
  BY <1>2, <1>3, <1>4, <1>5, <1>6, <1>7 DEF IInv

LEMMA RSyncStep ==
  ASSUME IInv, RSync
  PROVE  IInv'
<1> USE DEF IInv
<1>1. /\ LegOK(wleg) /\ LegOK(rleg) /\ LegOK(cleg)
      /\ Legs \in Nat \ {0} /\ MaxGroups \in Nat \ {0}
      /\ Buffering \in Nat \ {0}
  BY LegsOK
<1>3. TypeOK'
  BY <1>1 DEF RSync, Start, TypeOK, Lockstep, Conservation, Reserved, LegOK, Cells
<1>4. Buffers'
  BY DEF RSync, Start, Buffers
<1>5. Lockstep'
  BY <1>1 DEF RSync, Start, TypeOK, Lockstep, Conservation, Pushed, Packed, Popped, LegOK, WritesOfLeg
<1>6. Conservation'
  BY <1>1 DEF RSync, Start, TypeOK, Lockstep, Conservation, Pushed, Packed, Popped, LegOK, WritesOfLeg
<1>7. Reserved'
  BY <1>1 DEF RSync, Start, TypeOK, Reserved, Lockstep
<1>8. WritesOfLeg'
  BY <1>1 DEF RSync, Start, TypeOK, Lockstep, Conservation, Pushed, Packed, Popped, LegOK, WritesOfLeg
<1>9. QED
  BY <1>3, <1>4, <1>5, <1>6, <1>7, <1>8

LEMMA RLoadStep ==
  ASSUME IInv, NEW s \in Streams, RLoad(s)
  PROVE  IInv'
<1> USE DEF IInv
<1>1. /\ LegOK(wleg) /\ LegOK(rleg) /\ LegOK(cleg)
      /\ Legs \in Nat \ {0} /\ MaxGroups \in Nat \ {0}
      /\ Buffering \in Nat \ {0}
  BY LegsOK
<1>3. TypeOK'
  BY <1>1 DEF RLoad, Start, Streams, TypeOK, Lockstep, Conservation, Reserved, LegOK, Cells
<1>4. Buffers'
  BY DEF RLoad, Start, Streams, Buffers
<1>5. Lockstep'
  BY <1>1 DEF RLoad, Start, Streams, TypeOK, Lockstep, Conservation, Pushed, Packed, Popped, LegOK, WritesOfLeg
<1>6. Conservation'
  BY <1>1 DEF RLoad, Start, Streams, TypeOK, Lockstep, Conservation, Pushed, Packed, Popped, LegOK, WritesOfLeg
<1>7. Reserved'
  BY <1>1 DEF RLoad, Start, Streams, TypeOK, Reserved, Lockstep
<1>8. WritesOfLeg'
  BY <1>1 DEF RLoad, Start, Streams, TypeOK, Lockstep, Conservation, Pushed, Packed, Popped, LegOK, WritesOfLeg
<1>9. QED
  BY <1>3, <1>4, <1>5, <1>6, <1>7, <1>8

LEMMA RSourceStep ==
  ASSUME IInv, RSource
  PROVE  IInv'
<1> USE DEF IInv
<1>1. /\ LegOK(wleg) /\ LegOK(rleg) /\ LegOK(cleg)
      /\ Legs \in Nat \ {0} /\ MaxGroups \in Nat \ {0}
      /\ Buffering \in Nat \ {0}
  BY LegsOK
<1>3. TypeOK'
  BY <1>1 DEF RSource, TypeOK, Lockstep, Conservation, Reserved, LegOK, Cells
<1>4. Buffers'
  BY DEF RSource, Buffers
<1>5. Lockstep'
  BY <1>1 DEF RSource, TypeOK, Lockstep, Conservation, Pushed, Packed, Popped, LegOK, WritesOfLeg
<1>6. Conservation'
  BY <1>1 DEF RSource, TypeOK, Lockstep, Conservation, Pushed, Packed, Popped, LegOK, WritesOfLeg
<1>7. Reserved'
  BY <1>1 DEF RSource, TypeOK, Reserved, Lockstep
<1>8. WritesOfLeg'
  BY <1>1 DEF RSource, TypeOK, Lockstep, Conservation, Pushed, Packed, Popped, LegOK, WritesOfLeg
<1>9. QED
  BY <1>3, <1>4, <1>5, <1>6, <1>7, <1>8

LEMMA RBaseStep ==
  ASSUME IInv, RBase
  PROVE  IInv'
<1> USE DEF IInv
<1>1. /\ LegOK(wleg) /\ LegOK(rleg) /\ LegOK(cleg)
      /\ Legs \in Nat \ {0} /\ MaxGroups \in Nat \ {0}
      /\ Buffering \in Nat \ {0}
  BY LegsOK
<1>3. TypeOK'
  BY <1>1 DEF RBase, TypeOK, Lockstep, Conservation, Reserved, LegOK, Cells
<1>4. Buffers'
  BY DEF RBase, Buffers
<1>5. Lockstep'
  BY <1>1 DEF RBase, TypeOK, Lockstep, Conservation, Pushed, Packed, Popped, LegOK, WritesOfLeg
<1>6. Conservation'
  BY <1>1 DEF RBase, TypeOK, Lockstep, Conservation, Pushed, Packed, Popped, LegOK, WritesOfLeg
<1>7. Reserved'
  BY <1>1 DEF RBase, TypeOK, Reserved, Lockstep
<1>8. WritesOfLeg'
  BY <1>1 DEF RBase, TypeOK, Lockstep, Conservation, Pushed, Packed, Popped, LegOK, WritesOfLeg
<1>9. QED
  BY <1>3, <1>4, <1>5, <1>6, <1>7, <1>8

LEMMA NocReadStep ==
  ASSUME IInv, NEW p \in {"source", "base"}, NocRead(p)
  PROVE  IInv'
<1> USE DEF IInv
<1>1. /\ LegOK(wleg) /\ LegOK(rleg) /\ LegOK(cleg)
      /\ Legs \in Nat \ {0} /\ MaxGroups \in Nat \ {0}
      /\ Buffering \in Nat \ {0}
  BY LegsOK
<1>3. TypeOK'
  BY <1>1 DEF NocRead, TypeOK, Lockstep, Conservation, Reserved, LegOK, Cells
<1>4. Buffers'
  BY DEF NocRead, Buffers
<1>5. Lockstep'
  BY <1>1 DEF NocRead, TypeOK, Lockstep, Conservation, Pushed, Packed, Popped, LegOK, WritesOfLeg
<1>6. Conservation'
  BY <1>1 DEF NocRead, TypeOK, Lockstep, Conservation, Pushed, Packed, Popped, LegOK, WritesOfLeg
<1>7. Reserved'
  BY <1>1 DEF NocRead, TypeOK, Reserved, Lockstep
<1>8. WritesOfLeg'
  BY <1>1 DEF NocRead, TypeOK, Lockstep, Conservation, Pushed, Packed, Popped, LegOK, WritesOfLeg
<1>9. QED
  BY <1>3, <1>4, <1>5, <1>6, <1>7, <1>8

LEMMA RPushStep ==
  ASSUME IInv, RPush
  PROVE  IInv'
<1> USE DEF IInv
<1>1. /\ LegOK(wleg) /\ LegOK(rleg) /\ LegOK(cleg)
      /\ Legs \in Nat \ {0} /\ MaxGroups \in Nat \ {0}
      /\ Buffering \in Nat \ {0}
  BY LegsOK
<1>2. /\ rpc = "fetch" /\ pending = {} /\ rleg = wleg /\ rleg <= Legs /\ sync = 0
      /\ Groups(rleg) \in 1 .. MaxGroups /\ rgrp \in 1 .. Groups(rleg)
      /\ wleg' = wleg /\ cleg' = cleg /\ cgrp' = cgrp /\ regs' = regs
      /\ wpc' = wpc /\ wgrp' = wgrp /\ count' = count /\ head' = head
      /\ sync' = sync /\ pending' = pending
  BY <1>1 DEF RPush, Lockstep, Conservation, TypeOK, LegOK, Cells
<1>0. /\ {rleg, cleg, wleg} \subseteq 1 .. Legs + 1 /\ Legs \in Nat
      /\ {rgrp, cgrp, wgrp} \subseteq Nat \ {0}
  BY PipelineOrder
<1>3. /\ IsSeq(src0') /\ IsSeq(src1') /\ IsSeq(base')
      /\ Len(base') = Len(base) + 1
      /\ Route(rleg).kind = "lift" =>
           Len(src0') = Len(src0) + 1 /\ Len(src1') = Len(src1) + 1
      /\ Route(rleg).kind # "lift" => src0' = src0 /\ src1' = src1
  BY AppendIsSeq DEF RPush, Buffers
<1>4. \/ /\ rgrp < Groups(rleg) /\ rgrp' = rgrp + 1 /\ rleg' = rleg
         /\ rpc' \in {"source", "base"}
         /\ Route(rleg).kind = "lift" => rpc' = "source"
      \/ /\ rgrp = Groups(rleg) /\ rgrp' = 1 /\ rleg' = rleg + 1
         /\ rpc' = IF rleg < Legs THEN "sync" ELSE "done"
  BY <1>1, <1>2 DEF RPush, Start
<1>5. TypeOK'
  <2>1. \A q \in {src0', src1', base'} : Len(q) \in 0 .. Buffering
    BY <1>1, <1>2, <1>3 DEF TypeOK, Reserved, LegOK
  <2>2. /\ rleg' \in 1 .. Legs + 1 /\ rgrp' \in Cells
        /\ rpc' \in {"sync", "source", "base", "done"}
    <3>1. MaxGroups \in Nat /\ Groups(rleg) \in Nat /\ Groups(rleg) <= MaxGroups
      BY <1>1, <1>2
    <3>2. QED
      BY <1>0, <1>2, <1>4, <3>1 DEF Cells
  <2>3. DOMAIN fetched' = {"source", "base"}
    BY DEF RPush
  <2>4. QED
    BY <2>1, <2>2, <2>3 DEF RPush, TypeOK
<1>6. Buffers'
  BY <1>2, <1>3 DEF Buffers
<1>7. Lockstep'
  <2>1. /\ wleg \in Int /\ Legs \in Int /\ rleg' \in {wleg, wleg + 1} /\ wleg <= Legs
        /\ rgrp' = 1 \/ rleg' = wleg
        /\ rleg' = wleg + 1 => rgrp' = 1 /\ rpc' = IF wleg < Legs THEN "sync" ELSE "done"
        /\ rleg' = wleg => rpc' \in {"source", "base"}
    BY <1>0, <1>2, <1>4
  <2>2. QED
    BY <1>2, <2>1 DEF Lockstep
<1>8. Conservation'
  <2>1. Packed' = Packed /\ Popped' = Popped
    BY <1>2 DEF Packed, Popped
  <2>2. Pushed' = Pushed + 1
    <3>1. Groups(wleg) \in Nat /\ wleg \in Nat
      BY <1>0, <1>2
    <3>2. QED
      BY <1>0, <1>2, <1>4, <3>1 DEF Pushed
  <2>3. Packed \in Nat /\ Popped \in Nat /\ Pushed \in Nat
    BY PipelineOrder
  <2>4. count' = Packed' - Popped'
    BY <1>2, <2>1 DEF Conservation
  <2>5. Len(base') = Pushed' - Packed' - (IF Len(regs') = 3 THEN 1 ELSE 0)
    BY <1>2, <1>3, <2>1, <2>2, <2>3 DEF Conservation
  <2>6. Route(wleg).kind = "lift" =>
          /\ Len(src0') = Pushed' - Packed' - (IF Len(regs') >= 1 THEN 1 ELSE 0)
          /\ Len(src1') = Pushed' - Packed' - (IF Len(regs') >= 2 THEN 1 ELSE 0)
    <3>1. Len(src0) \in Int /\ Len(src1) \in Int /\ Len(regs) \in Int
      BY PipelineOrder
    <3> HIDE DEF IInv
    <3>2. Route(wleg).kind = "lift" =>
          /\ Len(src0) = Pushed - Packed - (IF Len(regs) >= 1 THEN 1 ELSE 0)
          /\ Len(src1) = Pushed - Packed - (IF Len(regs) >= 2 THEN 1 ELSE 0)
      BY <1>2 DEF Conservation, IInv
    <3>3. QED
      BY <1>2, <1>3, <2>1, <2>2, <2>3, <3>1, <3>2
  <2>7. Route(wleg).kind = "scale" =>
          Len(src0') = 0 /\ Len(src1') = 0 /\ Len(regs') = 0
    BY <1>2, <1>3 DEF Conservation
  <2>8. rleg' <= Legs => rgrp' <= Groups(rleg')
    <3>1. CASE rleg' = rleg
      BY <1>0, <1>2, <1>4, <3>1
    <3>2. CASE rleg' = rleg + 1 /\ rleg' <= Legs
      <4>1. Groups(rleg') \in Nat /\ Groups(rleg') >= 1
        <5>1. rleg' \in 1 .. Legs
          BY <1>0, <3>2
        <5>2. \A leg \in 1 .. Legs : Groups(leg) \in 1 .. MaxGroups
          BY GroupsOfLeg
        <5>3. Groups(rleg') \in 1 .. MaxGroups
          BY <5>1, <5>2
        <5>4. QED
          BY <1>1, <5>3
      <4>2. QED
        BY <1>0, <1>2, <1>4, <3>2, <4>1
    <3>3. QED
      BY <1>4, <3>1, <3>2
  <2>9. QED
    <3>1. /\ cleg <= Legs => cgrp <= Groups(cleg)
          /\ wpc = "take" /\ ~Direct(wleg) => wgrp <= Groups(wleg)
          /\ wleg <= Legs /\ wleg \in Int /\ Legs \in Int
          /\ Route(wleg).kind \in {"lift", "scale"}
      BY <1>0, <1>1, <1>2 DEF Conservation, LegOK
    <3> HIDE DEF IInv
    <3>2. QED
      BY <1>2, <2>4, <2>5, <2>6, <2>7, <2>8, <3>1 DEF Conservation
<1>9. Reserved'
  BY <1>2, <1>3, <1>4 DEF Reserved
<1>10. WritesOfLeg'
  BY <1>2 DEF RPush, WritesOfLeg
<1>11. QED
  BY <1>5, <1>6, <1>7, <1>8, <1>9, <1>10

LEMMA CTake0Step ==
  ASSUME IInv, CTake0
  PROVE  IInv'
<1> USE DEF IInv
<1>1. /\ LegOK(wleg) /\ LegOK(rleg) /\ LegOK(cleg)
      /\ Legs \in Nat \ {0} /\ MaxGroups \in Nat \ {0}
      /\ Buffering \in Nat \ {0}
  BY LegsOK
<1>2. /\ IsSeq(src0) /\ src0 # <<>> /\ src0' = Tail(src0) /\ IsSeq(regs)
      /\ Len(regs) = 0 /\ regs' = <<Head(src0)>>
  BY DEF CTake0, Buffers
<1>3. /\ IsSeq(src0') /\ Len(src0') = Len(src0) - 1 /\ Len(src0) > 0
      /\ IsSeq(regs') /\ Len(regs') = 1
  BY <1>2, TailIsSeq, SingletonIsSeq
<1>4. cleg = wleg /\ wleg <= Legs /\ Route(wleg).kind = "lift"
  <2>1. cleg = wleg /\ wleg <= Legs
    BY <1>3, PipelineOrder
  <2>2. QED
    BY <1>1, <1>2, <2>1 DEF CTake0, Conservation, LegOK
<1>5. TypeOK'
  <2>1. Len(src0') \in 0 .. Buffering /\ Len(regs') \in 0 .. 3
    BY <1>1, <1>3 DEF TypeOK
  <2>2. QED
    BY <2>1 DEF CTake0, TypeOK
<1>6. Buffers'
  BY <1>3 DEF CTake0, Buffers
<1>7. Lockstep'
  <2>1. ~(cleg > wleg \/ cleg > Legs)
    BY <1>1, <1>4 DEF LegOK
  <2>2. QED
    BY <2>1 DEF CTake0, Lockstep
<1>8. Conservation'
  <2>1. Packed' = Packed /\ Popped' = Popped /\ Pushed' = Pushed
    BY DEF CTake0, Packed, Popped, Pushed
  <2>2. Packed \in Nat /\ Popped \in Nat /\ Pushed \in Nat
    BY PipelineOrder
  <2>3. QED
    BY <1>2, <1>3, <1>4, <2>1, <2>2 DEF CTake0, Conservation
<1>9. Reserved'
  BY <1>1, <1>3 DEF CTake0, Reserved, TypeOK
<1>10. WritesOfLeg'
  BY DEF CTake0, WritesOfLeg
<1>11. QED
  BY <1>5, <1>6, <1>7, <1>8, <1>9, <1>10

LEMMA CTake1Step ==
  ASSUME IInv, CTake1
  PROVE  IInv'
<1> USE DEF IInv
<1>1. /\ LegOK(wleg) /\ LegOK(rleg) /\ LegOK(cleg)
      /\ Legs \in Nat \ {0} /\ MaxGroups \in Nat \ {0}
      /\ Buffering \in Nat \ {0}
  BY LegsOK
<1>2. /\ IsSeq(src1) /\ src1 # <<>> /\ src1' = Tail(src1) /\ IsSeq(regs)
      /\ Len(regs) = 1 /\ regs' = Append(regs, Head(src1))
  BY DEF CTake1, Buffers
<1>3. /\ IsSeq(src1') /\ Len(src1') = Len(src1) - 1 /\ Len(src1) > 0
      /\ IsSeq(regs') /\ Len(regs') = 2
  <2>1. IsSeq(src1') /\ Len(src1') = Len(src1) - 1 /\ Len(src1) > 0
    BY <1>2, TailIsSeq
  <2>2. IsSeq(regs') /\ Len(regs') = Len(regs) + 1
    BY <1>2, AppendIsSeq
  <2>3. QED
    BY <1>2, <2>1, <2>2
<1>4. cleg = wleg /\ wleg <= Legs /\ Route(wleg).kind = "lift"
  <2>1. cleg = wleg /\ wleg <= Legs
    BY <1>3, PipelineOrder
  <2>2. QED
    BY <1>1, <1>2, <2>1 DEF CTake1, Conservation, LegOK
<1>5. TypeOK'
  <2>1. Len(src1') \in 0 .. Buffering /\ Len(regs') \in 0 .. 3
    BY <1>1, <1>3 DEF TypeOK
  <2>2. QED
    BY <2>1 DEF CTake1, TypeOK
<1>6. Buffers'
  BY <1>3 DEF CTake1, Buffers
<1>7. Lockstep'
  BY <1>1, <1>4 DEF CTake1, Lockstep
<1>8. Conservation'
  <2>1. Packed' = Packed /\ Popped' = Popped /\ Pushed' = Pushed
    BY DEF CTake1, Packed, Popped, Pushed
  <2>2. Packed \in Nat /\ Popped \in Nat /\ Pushed \in Nat
    BY PipelineOrder
  <2>3. QED
    BY <1>2, <1>3, <1>4, <2>1, <2>2 DEF CTake1, Conservation
<1>9. Reserved'
  BY <1>1, <1>3 DEF CTake1, Reserved, TypeOK
<1>10. WritesOfLeg'
  BY DEF CTake1, WritesOfLeg
<1>11. QED
  BY <1>5, <1>6, <1>7, <1>8, <1>9, <1>10

LEMMA CTakeBaseStep ==
  ASSUME IInv, CTakeBase
  PROVE  IInv'
<1> USE DEF IInv
<1>1. /\ LegOK(wleg) /\ LegOK(rleg) /\ LegOK(cleg)
      /\ Legs \in Nat \ {0} /\ MaxGroups \in Nat \ {0}
      /\ Buffering \in Nat \ {0}
  BY LegsOK
<1>2. /\ IsSeq(base) /\ base # <<>> /\ base' = Tail(base) /\ IsSeq(regs)
      /\ Len(regs) = 2 /\ regs' = Append(regs, Head(base))
  BY DEF CTakeBase, Buffers
<1>3. /\ IsSeq(base') /\ Len(base') = Len(base) - 1 /\ Len(base) > 0
      /\ IsSeq(regs') /\ Len(regs') = 3
  <2>1. IsSeq(base') /\ Len(base') = Len(base) - 1 /\ Len(base) > 0
    BY <1>2, TailIsSeq
  <2>2. IsSeq(regs') /\ Len(regs') = Len(regs) + 1
    BY <1>2, AppendIsSeq
  <2>3. QED
    BY <1>2, <2>1, <2>2
<1>4. cleg = wleg /\ wleg <= Legs /\ Route(wleg).kind = "lift"
  <2>1. cleg = wleg /\ wleg <= Legs
    BY <1>3, PipelineOrder
  <2>2. QED
    BY <1>1, <1>2, <2>1 DEF CTakeBase, Conservation, LegOK
<1>5. TypeOK'
  <2>1. Len(base') \in 0 .. Buffering /\ Len(regs') \in 0 .. 3
    BY <1>1, <1>3 DEF TypeOK
  <2>2. QED
    BY <2>1 DEF CTakeBase, TypeOK
<1>6. Buffers'
  BY <1>3 DEF CTakeBase, Buffers
<1>7. Lockstep'
  BY <1>1, <1>4 DEF CTakeBase, Lockstep
<1>8. Conservation'
  <2>1. Packed' = Packed /\ Popped' = Popped /\ Pushed' = Pushed
    BY DEF CTakeBase, Packed, Popped, Pushed
  <2>2. Packed \in Nat /\ Popped \in Nat /\ Pushed \in Nat
    BY PipelineOrder
  <2>3. QED
    BY <1>2, <1>3, <1>4, <2>1, <2>2 DEF CTakeBase, Conservation
<1>9. Reserved'
  BY <1>1, <1>3 DEF CTakeBase, Reserved, TypeOK
<1>10. WritesOfLeg'
  BY DEF CTakeBase, WritesOfLeg
<1>11. QED
  BY <1>5, <1>6, <1>7, <1>8, <1>9, <1>10

LEMMA CPackStep ==
  ASSUME IInv, CPack
  PROVE  IInv'
<1> USE DEF IInv
<1>1. /\ LegOK(wleg) /\ LegOK(rleg) /\ LegOK(cleg)
      /\ Legs \in Nat \ {0} /\ MaxGroups \in Nat \ {0}
      /\ Buffering \in Nat \ {0}
  BY LegsOK
<1>2. /\ cleg = wleg /\ wleg <= Legs /\ Route(wleg).kind = "lift"
      /\ count < Buffering /\ count' = count + 1 /\ head' = head
      /\ Len(regs) = 3 /\ IsSeq(regs') /\ Len(regs') = 0
      /\ src0' = src0 /\ src1' = src1 /\ base' = base
  <2>1. cleg = wleg /\ wleg <= Legs
    BY PipelineOrder DEF CPack
  <2>2. Route(wleg).kind = "lift"
    BY <1>1, <2>1 DEF CPack, Conservation, LegOK
  <2>3. QED
    BY <2>1, <2>2, EmptyIsSeq DEF CPack, Emit
<1>3. /\ rvars' = rvars /\ wvars' = wvars /\ noc' = noc /\ sync' = sync
      /\ pending' = pending /\ fetched' = fetched /\ mem' = mem
      /\ DOMAIN page' = DOMAIN page
  BY DEF CPack, Emit
<1>4. \/ cgrp < Groups(cleg) /\ cgrp' = cgrp + 1 /\ cleg' = cleg
      \/ cgrp = Groups(cleg) /\ cgrp' = 1 /\ cleg' = cleg + 1
  <2>1. ComputeGroups(cleg) = Groups(cleg) /\ cgrp \in Nat /\ Groups(cleg) \in Nat
    BY <1>1, <1>2 DEF LegOK, TypeOK, Cells
  <2>2. cgrp <= Groups(cleg)
    BY <1>2 DEF Conservation
  <2>3. QED
    BY <2>1, <2>2 DEF CPack, Emit
<1>5. TypeOK'
  <2>1. cleg' \in 1 .. Legs + 1 /\ cgrp' \in Cells /\ count' \in 0 .. Buffering
    BY <1>1, <1>2, <1>4 DEF TypeOK, Cells, LegOK
  <2>2. \A q \in {src0', src1', base'} : Len(q) \in 0 .. Buffering
    BY <1>1, <1>2 DEF TypeOK
  <2>3. QED
    BY <1>2, <1>3, <2>1, <2>2 DEF TypeOK
<1>6. Buffers'
  BY <1>2 DEF Buffers
<1>7. Lockstep'
  BY <1>1, <1>2, <1>3, <1>4 DEF Lockstep
<1>8. Conservation'
  <2>1. Popped' = Popped /\ Pushed' = Pushed
    BY <1>3 DEF Popped, Pushed
  <2>2. Packed' = Packed + 1
    <3>1. Groups(wleg) \in Nat /\ cgrp \in Nat /\ wleg \in Nat /\ wleg' = wleg
      BY <1>1, <1>2, <1>3 DEF LegOK, TypeOK, Cells
    <3>2. QED
      BY <1>2, <1>4, <3>1 DEF Packed
  <2>3. Packed \in Nat /\ Popped \in Nat /\ Pushed \in Nat
    BY PipelineOrder
  <2>4. cleg' <= Legs => cgrp' <= Groups(cleg')
    BY <1>1, <1>2, <1>4, GroupsOfLeg DEF TypeOK, Cells, LegOK
  <2>5. QED
    BY <1>2, <1>3, <2>1, <2>2, <2>3, <2>4 DEF Conservation
<1>9. Reserved'
  BY <1>1, <1>2, <1>3 DEF Reserved, TypeOK
<1>10. WritesOfLeg'
  BY <1>2, <1>3 DEF WritesOfLeg, TypeOK
<1>11. QED
  BY <1>5, <1>6, <1>7, <1>8, <1>9, <1>10

LEMMA CScaleStep ==
  ASSUME IInv, CScale
  PROVE  IInv'
<1> USE DEF IInv
<1>1. /\ LegOK(wleg) /\ LegOK(rleg) /\ LegOK(cleg)
      /\ Legs \in Nat \ {0} /\ MaxGroups \in Nat \ {0}
      /\ Buffering \in Nat \ {0}
  BY LegsOK
<1>2. /\ cleg = wleg /\ wleg <= Legs /\ Route(wleg).kind = "scale"
      /\ count < Buffering /\ count' = count + 1 /\ head' = head
      /\ Len(regs) = 0 /\ regs' = regs
      /\ IsSeq(base') /\ Len(base') = Len(base) - 1 /\ Len(base) > 0
      /\ src0' = src0 /\ src1' = src1
  <2>1. IsSeq(base) /\ base # <<>> /\ base' = Tail(base)
    BY DEF CScale, Buffers
  <2>2. /\ IsSeq(base') /\ Len(base') = Len(base) - 1 /\ Len(base) > 0
        /\ cleg = wleg /\ wleg <= Legs
    BY <2>1, TailIsSeq, PipelineOrder
  <2>3. Route(wleg).kind = "scale"
    BY <2>2 DEF CScale
  <2>4. Len(regs) = 0
    BY <2>2, <2>3 DEF Conservation
  <2>5. QED
    BY <2>2, <2>3, <2>4 DEF CScale, Emit
<1>3. /\ rvars' = rvars /\ wvars' = wvars /\ noc' = noc /\ sync' = sync
      /\ pending' = pending /\ fetched' = fetched /\ mem' = mem
      /\ DOMAIN page' = DOMAIN page
  BY DEF CScale, Emit
<1>4. \/ cgrp < Groups(cleg) /\ cgrp' = cgrp + 1 /\ cleg' = cleg
      \/ cgrp = Groups(cleg) /\ cgrp' = 1 /\ cleg' = cleg + 1
  <2>1. ComputeGroups(cleg) = Groups(cleg) /\ cgrp \in Nat /\ Groups(cleg) \in Nat
    BY <1>1, <1>2 DEF LegOK, TypeOK, Cells
  <2>2. cgrp <= Groups(cleg)
    BY <1>2 DEF Conservation
  <2>3. QED
    BY <2>1, <2>2 DEF CScale, Emit
<1>5. TypeOK'
  <2>1. cleg' \in 1 .. Legs + 1 /\ cgrp' \in Cells /\ count' \in 0 .. Buffering
    BY <1>1, <1>2, <1>4 DEF TypeOK, Cells, LegOK
  <2>2. \A q \in {src0', src1', base'} : Len(q) \in 0 .. Buffering
    BY <1>1, <1>2 DEF TypeOK
  <2>3. QED
    BY <1>2, <1>3, <2>1, <2>2 DEF TypeOK
<1>6. Buffers'
  BY <1>2 DEF Buffers
<1>7. Lockstep'
  <2>1. /\ wleg \in Int /\ Legs \in Int /\ wleg <= Legs
        /\ cleg' = wleg \/ (cleg' = wleg + 1 /\ cgrp' = 1)
    BY <1>1, <1>2, <1>4 DEF LegOK
  <2>2. QED
    BY <1>2, <1>3, <2>1 DEF Lockstep
<1>8. Conservation'
  <2>1. Popped' = Popped /\ Pushed' = Pushed
    BY <1>3 DEF Popped, Pushed
  <2>2. Packed' = Packed + 1
    <3>1. Groups(wleg) \in Nat /\ cgrp \in Nat /\ wleg \in Nat /\ wleg' = wleg
      BY <1>1, <1>2, <1>3 DEF LegOK, TypeOK, Cells
    <3>2. QED
      BY <1>2, <1>4, <3>1 DEF Packed
  <2>3. Packed \in Nat /\ Popped \in Nat /\ Pushed \in Nat
    BY PipelineOrder
  <2>4. cleg' <= Legs => cgrp' <= Groups(cleg')
    BY <1>1, <1>2, <1>4, GroupsOfLeg DEF TypeOK, Cells, LegOK
  <2>5. QED
    BY <1>2, <1>3, <2>1, <2>2, <2>3, <2>4 DEF Conservation
<1>9. Reserved'
  BY <1>1, <1>2, <1>3 DEF Reserved, TypeOK
<1>10. WritesOfLeg'
  BY <1>2, <1>3 DEF WritesOfLeg, TypeOK
<1>11. QED
  BY <1>5, <1>6, <1>7, <1>8, <1>9, <1>10

LEMMA WIssueStep ==
  ASSUME IInv, WIssue
  PROVE  IInv'
<1> USE DEF IInv
<1>1. /\ LegOK(wleg) /\ LegOK(rleg) /\ LegOK(cleg)
      /\ Legs \in Nat \ {0} /\ MaxGroups \in Nat \ {0}
      /\ Buffering \in Nat \ {0}
  BY LegsOK
<1>0. /\ {rleg, cleg, wleg} \subseteq 1 .. Legs + 1
      /\ {rgrp, cgrp, wgrp} \subseteq Nat \ {0}
      /\ {Pushed, Packed, Popped, count} \subseteq Nat
      /\ Popped <= Packed /\ Packed <= Pushed
      /\ wleg <= Legs => Pushed <= Groups(wleg) /\ Groups(wleg) \in Nat \ {0}
      /\ count > 0 => wleg <= Legs /\ wpc \in {"take", "flush"}
                        /\ wgrp <= Groups(wleg)
  BY PipelineOrder
<1>2. /\ count > 0 /\ wleg \in 1 .. Legs /\ wgrp \in Cells /\ head \in 0 .. Buffering - 1
  BY <1>0 DEF WIssue, TypeOK
<1>3. issued' = {[page |-> head, loc |-> l, cell |-> wgrp] : l \in Destinations(wleg)}
  BY DEF WIssue
<1>5. TypeOK'
  <2>1. issued' \subseteq [page : 0 .. Buffering - 1, loc : Locations, cell : Cells]
    BY <1>2, <1>3, DestinationsTyped
  <2>2. QED
    BY <2>1 DEF WIssue, TypeOK
<1>6. Buffers'
  BY DEF WIssue, Buffers
<1>7. Lockstep'
  BY <1>1 DEF WIssue, TypeOK, Lockstep, Conservation, Pushed, Packed, Popped, LegOK, WritesOfLeg
<1>8. Conservation'
  BY <1>1 DEF WIssue, TypeOK, Lockstep, Conservation, Pushed, Packed, Popped, LegOK, WritesOfLeg
<1>9. Reserved'
  BY DEF WIssue, Reserved
<1>10. WritesOfLeg'
  <2>1. \A w \in issued' : w.page = head' /\ w.loc \in Destinations(wleg')
    BY <1>3 DEF WIssue
  <2>2. wgrp <= Groups(wleg)
    BY <1>0, <1>2
  <2>3. QED
    BY <1>2, <2>1, <2>2 DEF WIssue, WritesOfLeg
<1>11. QED
  BY <1>5, <1>6, <1>7, <1>8, <1>9, <1>10

LEMMA NocDepartStep ==
  ASSUME IInv, NocDepart
  PROVE  IInv'
<1> USE DEF IInv
<1>1. /\ LegOK(wleg) /\ LegOK(rleg) /\ LegOK(cleg)
      /\ Legs \in Nat \ {0} /\ MaxGroups \in Nat \ {0}
      /\ Buffering \in Nat \ {0}
  BY LegsOK
<1>0. /\ {rleg, cleg, wleg} \subseteq 1 .. Legs + 1
      /\ {rgrp, cgrp, wgrp} \subseteq Nat \ {0}
      /\ {Pushed, Packed, Popped, count} \subseteq Nat
      /\ Popped <= Packed /\ Packed <= Pushed
      /\ wleg <= Legs => Pushed <= Groups(wleg) /\ Groups(wleg) \in Nat \ {0}
      /\ count > 0 => wleg <= Legs /\ wpc \in {"take", "flush"}
                        /\ wgrp <= Groups(wleg)
  BY PipelineOrder
<1>2. PICK w \in issued :
        /\ issued' = issued \ {w}
        /\ inflight' = inflight \union
             {[loc |-> w.loc, cell |-> w.cell, value |-> page[w.page]]}
        /\ UNCHANGED <<rvars, pending, fetched, inputs, cvars, ring, wvars, sync,
                       mem>>
  BY DEF NocDepart
<1>3. /\ w.loc \in Locations /\ w.cell \in Cells /\ w.loc \in Destinations(wleg)
      /\ wpc = "flush"
  BY DEF TypeOK, WritesOfLeg
<1>4. \A v \in inflight' :
        v \in inflight \/ (v.loc = w.loc /\ v.cell = w.cell)
  BY <1>2
<1>5. TypeOK'
  <2>1. issued' \subseteq [page : 0 .. Buffering - 1, loc : Locations, cell : Cells]
    BY <1>2 DEF TypeOK
  <2>2. \A v \in inflight' : v.loc \in Locations /\ v.cell \in Cells
    BY <1>3, <1>4 DEF TypeOK
  <2>3. QED
    BY <1>2, <2>1, <2>2 DEF TypeOK
<1>6. Buffers'
  BY <1>2 DEF Buffers
<1>7. Lockstep'
  BY <1>2 DEF Lockstep
<1>8. Conservation'
  BY <1>2 DEF Conservation, Pushed, Packed, Popped
<1>9. Reserved'
  BY <1>2 DEF Reserved
<1>10. WritesOfLeg'
  BY <1>2, <1>3, <1>4 DEF WritesOfLeg
<1>11. QED
  BY <1>5, <1>6, <1>7, <1>8, <1>9, <1>10

LEMMA NocLandStep ==
  ASSUME IInv, NocLand
  PROVE  IInv'
<1> USE DEF IInv
<1>1. /\ LegOK(wleg) /\ LegOK(rleg) /\ LegOK(cleg)
      /\ Legs \in Nat \ {0} /\ MaxGroups \in Nat \ {0}
      /\ Buffering \in Nat \ {0}
  BY LegsOK
<1>0. /\ {rleg, cleg, wleg} \subseteq 1 .. Legs + 1
      /\ {rgrp, cgrp, wgrp} \subseteq Nat \ {0}
      /\ {Pushed, Packed, Popped, count} \subseteq Nat
      /\ Popped <= Packed /\ Packed <= Pushed
      /\ wleg <= Legs => Pushed <= Groups(wleg) /\ Groups(wleg) \in Nat \ {0}
      /\ count > 0 => wleg <= Legs /\ wpc \in {"take", "flush"}
                        /\ wgrp <= Groups(wleg)
  BY PipelineOrder
<1>2. PICK w \in inflight :
        /\ inflight' = inflight \ {w}
        /\ mem' = [mem EXCEPT ![w.loc][w.cell] = w.value]
        /\ UNCHANGED <<rvars, pending, fetched, inputs, cvars, ring, wvars,
                       issued, sync>>
  BY DEF NocLand
<1>5. TypeOK'
  <2>1. DOMAIN mem' = Locations /\ \A l \in Locations : DOMAIN mem'[l] = Cells
    BY <1>2 DEF TypeOK
  <2>2. QED
    BY <1>2, <2>1 DEF TypeOK
<1>6. Buffers'
  BY <1>2 DEF Buffers
<1>7. Lockstep'
  BY <1>2 DEF Lockstep
<1>8. Conservation'
  BY <1>2 DEF Conservation, Pushed, Packed, Popped
<1>9. Reserved'
  BY <1>2 DEF Reserved
<1>10. WritesOfLeg'
  BY <1>2 DEF WritesOfLeg
<1>11. QED
  BY <1>5, <1>6, <1>7, <1>8, <1>9, <1>10

LEMMA WPopStep ==
  ASSUME IInv, WPop
  PROVE  IInv'
<1> USE DEF IInv
<1>1. /\ LegOK(wleg) /\ LegOK(rleg) /\ LegOK(cleg)
      /\ Legs \in Nat \ {0} /\ MaxGroups \in Nat \ {0}
      /\ Buffering \in Nat \ {0}
  BY LegsOK
<1>0. /\ {rleg, cleg, wleg} \subseteq 1 .. Legs + 1
      /\ {rgrp, cgrp, wgrp} \subseteq Nat \ {0}
      /\ {Pushed, Packed, Popped, count} \subseteq Nat
      /\ Popped <= Packed /\ Packed <= Pushed
      /\ wleg <= Legs => Pushed <= Groups(wleg) /\ Groups(wleg) \in Nat \ {0}
      /\ count > 0 => wleg <= Legs /\ wpc \in {"take", "flush"}
                        /\ wgrp <= Groups(wleg)
  BY PipelineOrder
<1>2. /\ count > 0 /\ wleg \in 1 .. Legs /\ wgrp \in 1 .. Groups(wleg)
      /\ Groups(wleg) \in 1 .. MaxGroups /\ ~Direct(wleg)
  <2>1. count > 0 /\ wgrp <= Groups(wleg) /\ ~Direct(wleg)
    BY DEF WPop, WritesOfLeg
  <2>2. QED
    BY <1>0, <1>1, <2>1 DEF LegOK
<1>3. /\ head' \in 0 .. Buffering - 1 /\ count' = count - 1 /\ DOMAIN page' = DOMAIN page
      /\ issued = {} /\ wpc = "flush" /\ wleg' = wleg
      /\ rvars' = rvars /\ cvars' = cvars /\ inputs' = inputs /\ noc' = noc
      /\ sync' = sync /\ pending' = pending /\ fetched' = fetched /\ mem' = mem
  BY <1>1 DEF WPop, PopPage, TypeOK
<1>4. \/ wgrp < Groups(wleg) /\ wgrp' = wgrp + 1 /\ wpc' = "take"
      \/ wgrp = Groups(wleg) /\ wgrp' = 1 /\ wpc' = "barrier"
  BY <1>1, <1>2 DEF WPop
<1>5. TypeOK'
  <2>1. wgrp' \in Cells
    BY <1>0, <1>1, <1>2, <1>4 DEF Cells
  <2>2. count' \in 0 .. Buffering
    <3>1. count \in 0 .. Buffering /\ count > 0 /\ count' = count - 1
      BY <1>2, <1>3 DEF TypeOK
    <3> HIDE DEF IInv
    <3>2. QED
      BY <1>1, <3>1
  <2>3. QED
    BY <1>3, <1>4, <2>1, <2>2 DEF TypeOK
<1>6. Buffers'
  BY DEF WPop, PopPage, Buffers
<1>7. Lockstep'
  BY <1>2, <1>3, <1>4 DEF Lockstep
<1>8. Conservation'
  <2>1. Pushed' = Pushed /\ Packed' = Packed
    BY <1>3 DEF Pushed, Packed
  <2>2. Popped' = Popped + 1
    BY <1>0, <1>2, <1>3, <1>4 DEF Popped
  <2>3. count' = Packed' - Popped'
    BY <1>0, <1>3, <2>1, <2>2 DEF Conservation
  <2>4. wpc' = "take" => wgrp' <= Groups(wleg')
    BY <1>0, <1>2, <1>3, <1>4
  <2>5. QED
    BY <1>3, <2>1, <2>3, <2>4 DEF Conservation
<1>9. Reserved'
  BY DEF WPop, PopPage, Reserved
<1>10. WritesOfLeg'
  <2>1. wpc' = "barrier" \/ (wpc' = "take" /\ wgrp' > 1)
    BY <1>0, <1>2, <1>4
  <2>2. QED
    BY <1>3, <2>1 DEF WritesOfLeg
<1>11. QED
  BY <1>5, <1>6, <1>7, <1>8, <1>9, <1>10

LEMMA WDirectStep ==
  ASSUME IInv, WDirect
  PROVE  IInv'
<1> USE DEF IInv
<1>1. /\ LegOK(wleg) /\ LegOK(rleg) /\ LegOK(cleg)
      /\ Legs \in Nat \ {0} /\ MaxGroups \in Nat \ {0}
      /\ Buffering \in Nat \ {0}
  BY LegsOK
<1>0. /\ {rleg, cleg, wleg} \subseteq 1 .. Legs + 1
      /\ {rgrp, cgrp, wgrp} \subseteq Nat \ {0}
      /\ {Pushed, Packed, Popped, count} \subseteq Nat
      /\ Popped <= Packed /\ Packed <= Pushed
      /\ wleg <= Legs => Pushed <= Groups(wleg) /\ Groups(wleg) \in Nat \ {0}
      /\ count > 0 => wleg <= Legs /\ wpc \in {"take", "flush"}
                        /\ wgrp <= Groups(wleg)
  BY PipelineOrder
<1>2. /\ wleg \in 1 .. Legs /\ Groups(wleg) \in 1 .. MaxGroups
      /\ OutputGroups(ItemOf(wleg)) \in 1 .. MaxGroups
      /\ OutputGroups(ItemOf(wleg)) >= Groups(wleg)
  <2>1. wleg \in 1 .. Legs
    BY <1>0, <1>1 DEF WDirect, Lockstep
  <2>2. QED
    BY <1>1, <2>1, OutputGroupsBound DEF WDirect, LegOK
<1>3. /\ wpc = "take" /\ Direct(wleg) /\ wleg' = wleg
      /\ rvars' = rvars /\ cvars' = cvars /\ inputs' = inputs /\ noc' = noc
      /\ sync' = sync /\ pending' = pending /\ fetched' = fetched
      /\ page' = page
      /\ DOMAIN mem' = Locations
      /\ \A l \in Locations : DOMAIN mem'[l] = Cells
  BY DEF WDirect, PopPage, TypeOK
<1>4. \/ wgrp <= Groups(wleg) /\ count > 0 /\ count' = count - 1
         /\ head' \in 0 .. Buffering - 1
      \/ ~(wgrp <= Groups(wleg)) /\ count' = count /\ head' = head
  BY <1>1 DEF WDirect, PopPage, TypeOK
<1>12. \/ wgrp < OutputGroups(ItemOf(wleg)) /\ wgrp' = wgrp + 1 /\ wpc' = "take"
       \/ wgrp >= OutputGroups(ItemOf(wleg)) /\ wgrp' = 1 /\ wpc' = "barrier"
  <2>1. wgrp \in Int /\ OutputGroups(ItemOf(wleg)) \in Int
    BY <1>0, <1>2
  <2>2. QED
    BY <1>3, <2>1 DEF WDirect
<1>13. \/ issued = {} /\ inflight = {}
       \/ issued = {} /\ wgrp > 1
  BY <1>3 DEF WritesOfLeg
<1>5. TypeOK'
  <2>1. wgrp' \in Cells
    BY <1>0, <1>1, <1>2, <1>12 DEF Cells
  <2>2. count' \in 0 .. Buffering /\ head' \in 0 .. Buffering - 1
    <3>1. count \in 0 .. Buffering /\ head \in 0 .. Buffering - 1
      BY DEF TypeOK
    <3> HIDE DEF IInv
    <3>2. QED
      BY <1>1, <1>4, <3>1
  <2>3. QED
    BY <1>3, <1>12, <2>1, <2>2 DEF TypeOK
<1>6. Buffers'
  BY DEF WDirect, PopPage, Buffers
<1>7. Lockstep'
  BY <1>2, <1>3, <1>12 DEF Lockstep
<1>8. Conservation'
  <2>1. Pushed' = Pushed /\ Packed' = Packed
    BY <1>3 DEF Pushed, Packed
  <2>2. Popped' - Popped = count - count'
    <3>1. CASE wgrp <= Groups(wleg)
      <4>1. Popped = wgrp - 1 /\ count' = count - 1
        BY <1>0, <1>3, <1>4, <3>1 DEF Popped
      <4>2. Popped' = wgrp
        BY <1>0, <1>2, <1>3, <1>12, <3>1 DEF Popped
      <4>3. QED
        BY <1>0, <4>1, <4>2
    <3>2. CASE ~(wgrp <= Groups(wleg))
      <4>1. Popped = Groups(wleg) /\ count' = count
        BY <1>3, <1>4, <3>2 DEF Popped
      <4>2. Popped' = Groups(wleg)
        BY <1>0, <1>2, <1>3, <1>12, <3>2 DEF Popped
      <4>3. QED
        BY <1>0, <4>1, <4>2
    <3>3. QED
      BY <3>1, <3>2
  <2>3. count' = Packed' - Popped'
    <3>1. count = Packed - Popped /\ count' \in Int /\ Popped' \in Int
      <4>1. Popped' \in Int
        BY <1>0, <1>2, <1>3, <1>12 DEF Popped
      <4>2. QED
        BY <1>0, <1>4, <4>1 DEF Conservation
    <3>2. QED
      BY <1>0, <2>1, <2>2, <3>1
  <2>4. QED
    BY <1>3, <2>1, <2>3 DEF Conservation, Direct
<1>9. Reserved'
  BY DEF WDirect, PopPage, Reserved
<1>10. WritesOfLeg'
  <2>1. wgrp' > 1 \/ wpc' = "barrier"
    BY <1>0, <1>12
  <2>2. QED
    BY <1>3, <1>12, <1>13, <2>1 DEF WritesOfLeg
<1>11. QED
  BY <1>5, <1>6, <1>7, <1>8, <1>9, <1>10

LEMMA WBarrierStep ==
  ASSUME IInv, WBarrier
  PROVE  IInv'
<1> USE DEF IInv
<1>1. /\ LegOK(wleg) /\ LegOK(rleg) /\ LegOK(cleg)
      /\ Legs \in Nat \ {0} /\ MaxGroups \in Nat \ {0}
      /\ Buffering \in Nat \ {0}
  BY LegsOK
<1>0. /\ {rleg, cleg, wleg} \subseteq 1 .. Legs + 1
      /\ {rgrp, cgrp, wgrp} \subseteq Nat \ {0}
      /\ {Pushed, Packed, Popped, count} \subseteq Nat
      /\ Popped <= Packed /\ Packed <= Pushed
      /\ wleg <= Legs => Pushed <= Groups(wleg) /\ Groups(wleg) \in Nat \ {0}
      /\ count > 0 => wleg <= Legs /\ wpc \in {"take", "flush"}
                        /\ wgrp <= Groups(wleg)
  BY PipelineOrder
<1>5. TypeOK'
  BY <1>1 DEF WBarrier, TypeOK, Lockstep, Conservation, Pushed, Packed, Popped, LegOK, WritesOfLeg
<1>6. Buffers'
  BY DEF WBarrier, Buffers
<1>7. Lockstep'
  BY <1>1 DEF WBarrier, TypeOK, Lockstep, Conservation, Pushed, Packed, Popped, LegOK, WritesOfLeg
<1>8. Conservation'
  BY <1>1 DEF WBarrier, TypeOK, Lockstep, Conservation, Pushed, Packed, Popped, LegOK, WritesOfLeg
<1>9. Reserved'
  BY DEF WBarrier, Reserved
<1>10. WritesOfLeg'
  BY <1>1 DEF WBarrier, TypeOK, Lockstep, Conservation, Pushed, Packed, Popped, LegOK, WritesOfLeg
<1>11. QED
  BY <1>5, <1>6, <1>7, <1>8, <1>9, <1>10

LEMMA WEmitStep ==
  ASSUME IInv, WEmit
  PROVE  IInv'
<1> USE DEF IInv
<1>1. /\ LegOK(wleg) /\ LegOK(rleg) /\ LegOK(cleg)
      /\ Legs \in Nat \ {0} /\ MaxGroups \in Nat \ {0}
      /\ Buffering \in Nat \ {0}
  BY LegsOK
<1>0. /\ {rleg, cleg, wleg} \subseteq 1 .. Legs + 1
      /\ {rgrp, cgrp, wgrp} \subseteq Nat \ {0}
      /\ {Pushed, Packed, Popped, count} \subseteq Nat
      /\ Popped <= Packed /\ Packed <= Pushed
      /\ wleg <= Legs => Pushed <= Groups(wleg) /\ Groups(wleg) \in Nat \ {0}
      /\ count > 0 => wleg <= Legs /\ wpc \in {"take", "flush"}
                        /\ wgrp <= Groups(wleg)
  BY PipelineOrder
<1>2. /\ wleg \in 1 .. Legs /\ OutputGroups(ItemOf(wleg)) \in 1 .. MaxGroups
  <2>1. wleg \in 1 .. Legs
    BY <1>0, <1>1 DEF WEmit, Lockstep
  <2>2. QED
    BY <2>1, OutputGroupsBound
<1>3. /\ wpc = "emit" /\ wleg' = wleg
      /\ rvars' = rvars /\ cvars' = cvars /\ inputs' = inputs /\ noc' = noc
      /\ sync' = sync /\ pending' = pending /\ fetched' = fetched
      /\ ring' = ring
      /\ DOMAIN mem' = Locations
      /\ \A l \in Locations : DOMAIN mem'[l] = Cells
  BY DEF WEmit, TypeOK
<1>4. \/ wgrp < OutputGroups(ItemOf(wleg)) /\ wgrp' = wgrp + 1 /\ wpc' = "emit"
      \/ wgrp' = 1 /\ wpc' = "signal"
  BY <1>3 DEF WEmit
<1>5. TypeOK'
  <2>1. wgrp' \in Cells
    BY <1>0, <1>1, <1>2, <1>4 DEF Cells
  <2>2. QED
    BY <1>3, <1>4, <2>1 DEF TypeOK
<1>6. Buffers'
  BY <1>3 DEF Buffers
<1>7. Lockstep'
  BY <1>2, <1>3, <1>4 DEF Lockstep
<1>8. Conservation'
  <2>1. Pushed' = Pushed /\ Packed' = Packed /\ Popped' = Popped
    BY <1>3, <1>4 DEF Pushed, Packed, Popped
  <2>2. QED
    BY <1>3, <1>4, <2>1 DEF Conservation
<1>9. Reserved'
  BY <1>3 DEF Reserved
<1>10. WritesOfLeg'
  BY <1>3, <1>4 DEF WritesOfLeg
<1>11. QED
  BY <1>5, <1>6, <1>7, <1>8, <1>9, <1>10

LEMMA WSignalStep ==
  ASSUME IInv, WSignal
  PROVE  IInv'
<1> USE DEF IInv
<1>1. /\ LegOK(wleg) /\ LegOK(rleg) /\ LegOK(cleg)
      /\ Legs \in Nat \ {0} /\ MaxGroups \in Nat \ {0}
      /\ Buffering \in Nat \ {0}
  BY LegsOK
<1>0. /\ {rleg, cleg, wleg} \subseteq 1 .. Legs + 1
      /\ {rgrp, cgrp, wgrp} \subseteq Nat \ {0}
      /\ {Pushed, Packed, Popped, count} \subseteq Nat
      /\ Popped <= Packed /\ Packed <= Pushed
      /\ wleg <= Legs => Pushed <= Groups(wleg) /\ Groups(wleg) \in Nat \ {0}
      /\ count > 0 => wleg <= Legs /\ wpc \in {"take", "flush"}
                        /\ wgrp <= Groups(wleg)
  BY PipelineOrder
<1>2. /\ wpc = "signal" /\ wleg' = wleg + 1 /\ wgrp = 1 /\ wgrp' = 1
      /\ rvars' = rvars /\ cvars' = cvars /\ inputs' = inputs /\ noc' = noc
      /\ pending' = pending /\ fetched' = fetched /\ ring' = ring /\ mem' = mem
      /\ issued = {} /\ inflight = {}
  BY DEF WSignal, Lockstep, WritesOfLeg
<1>3. wleg \in 1 .. Legs /\ Groups(wleg) \in Nat \ {0}
  BY <1>0, <1>1, <1>2 DEF Lockstep
<1>4. Pushed = Groups(wleg) /\ Packed = Groups(wleg) /\ count = 0
  <2>1. Popped = Groups(wleg)
    BY <1>2 DEF Popped
  <2>2. count = Packed - Popped
    BY DEF Conservation
  <2>3. QED
    BY <1>0, <1>3, <2>1, <2>2
<1>12. rleg = wleg + 1 /\ cleg = wleg + 1 /\ rgrp = 1 /\ cgrp = 1 /\ sync = 0
  <2>1. rleg = wleg + 1
    <3>1. SUFFICES ASSUME rleg = wleg PROVE FALSE
      BY DEF Lockstep
    <3>2. Pushed = rgrp - 1 /\ rgrp <= Groups(wleg)
      BY <1>0, <1>3, <3>1 DEF Pushed, Conservation
    <3>3. QED
      BY <1>0, <1>3, <1>4, <3>2
  <2>2. cleg = wleg + 1
    <3>1. SUFFICES ASSUME cleg = wleg PROVE FALSE
      BY DEF Lockstep
    <3>2. Packed = cgrp - 1 /\ cgrp <= Groups(wleg)
      BY <1>0, <1>3, <3>1 DEF Packed, Conservation
    <3>3. QED
      BY <1>0, <1>3, <1>4, <3>2
  <2>3. QED
    BY <1>0, <1>3, <2>1, <2>2 DEF Lockstep
<1>13. /\ Len(regs) = 0 /\ Len(base) = 0 /\ Len(src0) = 0 /\ Len(src1) = 0
  <2>1. Len(regs) = 0
    BY <1>0, <1>3, <1>12 DEF Lockstep
  <2>2. QED
    <3>1. Route(wleg).kind \in {"lift", "scale"} /\ wleg <= Legs /\ Legs \in Int /\ wleg \in Int
      BY <1>1, <1>3 DEF LegOK
    <3>2. Pushed - Packed = 0
      BY <1>3, <1>4
    <3>3. QED
      BY <2>1, <3>1, <3>2 DEF Conservation
<1>14. \/ wleg < Legs /\ wpc' = "take" /\ sync' = 1
       \/ wleg = Legs /\ wpc' = "done" /\ sync' = 0
  <2>1. CASE wleg < Legs
    BY <2>1 DEF WSignal
  <2>2. CASE ~(wleg < Legs)
    BY <1>1, <1>3, <1>12, <2>2 DEF WSignal
  <2>3. QED
    BY <2>1, <2>2
<1>5. TypeOK'
  <2>1. wleg' \in 1 .. Legs + 1 /\ wgrp' \in Cells
    BY <1>1, <1>2, <1>3 DEF Cells
  <2>2. QED
    BY <1>2, <1>14, <2>1 DEF TypeOK
<1>6. Buffers'
  BY DEF WSignal, Buffers
<1>7. Lockstep'
  <2>1. rleg' = wleg' /\ cleg' = wleg' /\ wleg' \in Int /\ Legs \in Int
    BY <1>1, <1>2, <1>3, <1>12
  <2>2. /\ rpc' = IF wleg' > Legs THEN "done" ELSE "sync"
        /\ pending' = {} /\ Len(regs') = 0 /\ cgrp' = 1 /\ rgrp' = 1
    <3>1. rleg > Legs => rpc = "done"
      BY DEF Lockstep
    <3>2. rleg <= Legs => rpc = "sync"
      <4>1. rpc # "done" \/ rleg > Legs
        BY DEF Lockstep
      <4>2. rpc \notin {"even", "odd", "source", "base", "fetch"}
        BY <1>3, <1>12 DEF Lockstep
      <4>3. QED
        BY <1>1, <1>3, <1>12, <4>1, <4>2 DEF TypeOK
    <3>3. pending = {}
      BY <1>3, <1>12 DEF Lockstep
    <3>4. QED
      BY <1>1, <1>2, <1>3, <1>12, <1>13, <3>1, <3>2, <3>3
  <2>3. /\ wleg' > Legs => wpc' = "done" /\ sync' = 0
        /\ wleg' <= Legs => wpc' = "take" /\ sync' = 1
        /\ wgrp' = 1
    BY <1>1, <1>2, <1>3, <1>14
  <2>4. QED
    BY <2>1, <2>2, <2>3 DEF Lockstep
<1>8. Conservation'
  <2>1. /\ rleg' = wleg' /\ cleg' = wleg' /\ wleg' \in Int /\ rgrp' = 1 /\ cgrp' = 1
        /\ wgrp' = 1 /\ count' = 0
    BY <1>2, <1>3, <1>4, <1>12
  <2>2. wleg' <= Legs => Groups(wleg') \in Nat /\ Groups(wleg') >= 1
    <3>1. wleg' <= Legs => wleg' \in 1 .. Legs
      BY <1>1, <1>2, <1>3
    <3>2. \A leg \in 1 .. Legs : Groups(leg) \in 1 .. MaxGroups
      BY GroupsOfLeg
    <3>3. wleg' <= Legs => Groups(wleg') \in 1 .. MaxGroups
      BY <3>1, <3>2
    <3>4. QED
      BY <1>1, <3>3
  <2>3. Pushed' = 0 /\ Packed' = 0
    BY <2>1 DEF Pushed, Packed
  <2>4. Popped' = 0
    BY <1>1, <1>2, <1>3, <1>14, <2>1, <2>2 DEF Popped
  <2>5. /\ Len(regs') = 0 /\ Len(base') = 0 /\ Len(src0') = 0 /\ Len(src1') = 0
    BY <1>2, <1>13
  <2>6. /\ rleg' <= Legs => rgrp' <= Groups(rleg')
        /\ cleg' <= Legs => cgrp' <= Groups(cleg')
        /\ wpc' = "take" => wgrp' <= Groups(wleg')
    BY <1>1, <1>2, <1>3, <1>14, <2>1, <2>2
  <2>7. QED
    BY <2>1, <2>3, <2>4, <2>5, <2>6 DEF Conservation
<1>9. Reserved'
  BY DEF WSignal, Reserved
<1>10. WritesOfLeg'
  BY <1>2, <1>14 DEF WritesOfLeg
<1>11. QED
  BY <1>5, <1>6, <1>7, <1>8, <1>9, <1>10

(***************************************************************************)
(* Every step of the pipeline preserves the invariant.                     *)
(***************************************************************************)
LEMMA NextIInv ==
  ASSUME IInv, [Next]_vars
  PROVE  IInv'
<1>1. CASE UNCHANGED vars
  BY <1>1 DEF IInv, TypeOK, Buffers, Lockstep, Conservation, Pushed, Packed,
              Popped, Reserved, WritesOfLeg, vars
<1>2. CASE RSync
  BY <1>2, RSyncStep
<1>3. CASE RSource
  BY <1>3, RSourceStep
<1>4. CASE RBase
  BY <1>4, RBaseStep
<1>5. CASE RPush
  BY <1>5, RPushStep
<1>6. CASE CTake0
  BY <1>6, CTake0Step
<1>7. CASE CTake1
  BY <1>7, CTake1Step
<1>8. CASE CTakeBase
  BY <1>8, CTakeBaseStep
<1>9. CASE CPack
  BY <1>9, CPackStep
<1>10. CASE CScale
  BY <1>10, CScaleStep
<1>11. CASE WIssue
  BY <1>11, WIssueStep
<1>12. CASE WPop
  BY <1>12, WPopStep
<1>13. CASE WDirect
  BY <1>13, WDirectStep
<1>14. CASE WBarrier
  BY <1>14, WBarrierStep
<1>15. CASE WEmit
  BY <1>15, WEmitStep
<1>16. CASE WSignal
  BY <1>16, WSignalStep
<1>17. CASE NocDepart
  BY <1>17, NocDepartStep
<1>18. CASE NocLand
  BY <1>18, NocLandStep
<1>19. CASE \E s \in Streams : RLoad(s)
  BY <1>19, RLoadStep
<1>20. CASE \E p \in {"source", "base"} : NocRead(p)
  BY <1>20, NocReadStep
<1>21. CASE Terminated
  BY <1>1, <1>21 DEF Terminated
<1>22. QED
  BY <1>1, <1>2, <1>3, <1>4, <1>5, <1>6, <1>7, <1>8, <1>9, <1>10, <1>11, <1>12, <1>13, <1>14, <1>15, <1>16, <1>17, <1>18, <1>19, <1>20, <1>21
     DEF Next, Reader, Compute, Writer, Noc

-----------------------------------------------------------------------------
(***************************************************************************)
(* What the invariant says of a leg whose first group is not pushed yet:   *)
(* the writer has taken nothing of it, and the NoC carries nothing.        *)
(***************************************************************************)
LEMMA FreshLeg ==
  ASSUME IInv, rleg = wleg, rgrp = 1, rleg <= Legs
  PROVE  issued = {} /\ inflight = {} /\ wpc = "take" /\ wgrp = 1
<1> USE DEF IInv
<1>1. /\ {rleg, cleg, wleg} \subseteq 1 .. Legs + 1
      /\ wgrp \in Nat \ {0}
      /\ {Pushed, Packed, Popped, count} \subseteq Nat
      /\ Popped <= Packed /\ Packed <= Pushed
      /\ Groups(wleg) \in Nat \ {0}
  BY PipelineOrder
<1>2. Popped = 0 /\ count = 0
  <2>1. Pushed = 0
    BY <1>1 DEF Pushed
  <2>2. QED
    BY <1>1, <2>1 DEF Conservation
<1>3. wpc # "done"
  BY <1>1, LegsNat DEF Lockstep
<1>4. wpc \in {"take", "flush"} /\ wgrp = 1
  BY <1>1, <1>2, <1>3 DEF Popped
<1>5. wpc = "take"
  BY <1>2, <1>4 DEF WritesOfLeg
<1>6. QED
  BY <1>1, <1>4, <1>5 DEF WritesOfLeg

LEMMA NoRacingWriteFromIInv == IInv => NoRacingWrite
<1> SUFFICES ASSUME IInv PROVE NoRacingWrite
  OBVIOUS
<1> USE DEF IInv
<1>1. ASSUME rpc \in {"source", "base", "fetch"},
             NEW w \in issued \union inflight, NEW slot \in ReadSlots(rleg),
             NEW p \in Planes
      PROVE  w.loc # Local(slot, p)
  <2>1. rleg = wleg /\ wleg \in 1 .. Legs
    <3>1. rleg = wleg /\ ~(rleg > Legs)
      BY <1>1 DEF Lockstep
    <3>2. QED
      BY <3>1, LegsNat DEF TypeOK
  <2>2. w.loc \in Destinations(wleg)
    BY DEF WritesOfLeg
  <2>3. QED
    BY <1>1, <2>1, <2>2, DestinationsNotRead
<1>2. ASSUME rpc \in {"even", "odd"}
      PROVE  issued = {} /\ inflight = {} /\ wpc = "take"
  <2>1. rleg = wleg /\ rgrp = 1 /\ ~(rleg > Legs)
    BY <1>2 DEF Lockstep
  <2>2. rleg <= Legs
    BY <2>1, LegsNat DEF TypeOK
  <2>3. QED
    BY <2>1, <2>2, FreshLeg
<1>3. QED
  BY <1>1, <1>2 DEF NoRacingWrite

LEMMA PagesHeldFromIInv == IInv => PagesHeld
<1> SUFFICES ASSUME IInv, count < Buffering, NEW w \in issued
             PROVE  w.page # FreePage
  BY DEF PagesHeld
<1>1. w.page = head /\ count > 0
  BY DEF IInv, WritesOfLeg
<1>2. head \in 0 .. Buffering - 1 /\ count \in 1 .. Buffering - 1
      /\ Buffering \in Nat \ {0}
  BY <1>1, SizesAssumption DEF IInv, TypeOK
<1>3. (head + count) % Buffering # head
  <2>1. CASE head + count < Buffering
    BY <1>2, <2>1
  <2>2. CASE ~(head + count < Buffering)
    <3>1. (head + count) % Buffering = head + count - Buffering
      BY <1>2, <2>2
    <3>2. QED
      BY <1>2, <3>1
  <2>3. QED
    BY <2>1, <2>2
<1>4. QED
  BY <1>1, <1>3 DEF FreePage

LEMMA DrainedFromIInv == IInv => Drained
<1> SUFFICES ASSUME IInv, AllDone
             PROVE  /\ src0 = <<>> /\ src1 = <<>> /\ base = <<>> /\ regs = <<>>
                    /\ count = 0 /\ sync = 0
                    /\ pending = {} /\ issued = {} /\ inflight = {}
  BY DEF Drained
<1> USE DEF IInv
<1>1. /\ {rleg, cleg, wleg} \subseteq 1 .. Legs + 1 /\ Legs \in Nat
      /\ {Len(src0), Len(src1), Len(base), Len(regs), count} \subseteq Nat
      /\ Len(src0) > 0 \/ Len(src1) > 0 \/ Len(base) > 0 \/ Len(regs) > 0 =>
           cleg = wleg /\ wleg <= Legs
      /\ count > 0 => wleg <= Legs
  BY PipelineOrder
<1>2. rpc = "done" /\ wpc = "done" /\ wleg > Legs
  BY DEF AllDone, Lockstep
<1>3. Len(src0) = 0 /\ Len(src1) = 0 /\ Len(base) = 0 /\ Len(regs) = 0 /\ count = 0
  BY <1>1, <1>2
<1>4. src0 = <<>> /\ src1 = <<>> /\ base = <<>> /\ regs = <<>>
  BY <1>3, ZeroLength DEF Buffers
<1>5. sync = 0
  BY <1>2 DEF TypeOK, Lockstep
<1>6. pending = {} /\ issued = {} /\ inflight = {}
  BY <1>2 DEF Lockstep, WritesOfLeg
<1>7. QED
  BY <1>3, <1>4, <1>5, <1>6

LEMMA SignalStep ==
  ASSUME IInv, [Next]_vars, rpc = "sync", rpc' # "sync"
  PROVE  issued = {} /\ inflight = {}
<1>1. RSync
  BY DEF Next, Reader, Compute, Writer, Noc, vars, RLoad, RSource, RBase, RPush,
         NocRead, CTake0, CTake1, CTakeBase, CPack, CScale, WIssue, WPop,
         WDirect, WBarrier, WEmit, WSignal, NocDepart, NocLand, Terminated,
         Streams
<1>2. rleg = wleg /\ rgrp = 1
  BY <1>1 DEF RSync, IInv, Lockstep
<1>3. rleg <= Legs
  BY <1>1, LegsNat DEF RSync, IInv, Lockstep, TypeOK
<1>4. QED
  BY <1>2, <1>3, FreshLeg

-----------------------------------------------------------------------------
(***************************************************************************)
(* Why the mirror is coherent.  A group counts as written once its writes  *)
(* are issued; what a cell will hold then is decided, although the writes  *)
(* to the rows and to the mirror may land at different times.              *)
(***************************************************************************)
\* Groups of the writer's leg whose writes have been issued.
Written ==
    CASE wpc = "take" -> wgrp - 1
      [] wpc = "flush" -> wgrp
      [] wpc \notin {"take", "flush"} -> Groups(wleg)

WritesTo(set, l, c) == {w \in set : w.loc = l /\ w.cell = c}

\* The value of a write, where there is only one.
Carried(writes) == (CHOOSE w \in writes : TRUE).value

\* What a cell holds when all writes have landed.
Settled(l, c) ==
    IF WritesTo(issued, l, c) # {} THEN page[head]
    ELSE IF WritesTo(inflight, l, c) # {}
    THEN Carried(WritesTo(inflight, l, c))
    ELSE mem[l][c]

\* No two writes to the same cell are under way.
OneWrite ==
    /\ \A w \in issued : w.cell = wgrp /\ WritesTo(inflight, w.loc, w.cell) = {}
    /\ \A v \in inflight : v.cell \in 1 .. Written
    /\ \A v, w \in inflight : v.loc = w.loc /\ v.cell = w.cell => v = w

\* Groups that a route of the writer's item has written up to now.
Reached(r) ==
    IF r < RouteOf(wleg) THEN GroupCount[Chunk(ItemOf(wleg))][r] ELSE Written

Twins(slot, c) ==
    Settled(Local(slot, "rows"), c) = Settled(Local(slot, "mirror"), c)

MirrorKept ==
    wleg <= Legs =>
      \A r \in 1 .. RouteOf(wleg) :
        Routes[r].output # "dram" =>
          \A c \in Cells : c <= Reached(r) => Twins(Routes[r].output, c)

MInv ==
    HybridTileMirror =>
      /\ OneWrite /\ MirrorKept
      /\ rpc \in {"even", "odd"} => RouteOf(rleg) = 1

(***************************************************************************)
(* The route that last wrote a stream.                                     *)
(***************************************************************************)
LEMMA LastRouteOf ==
  ASSUME NEW s \in Streams, NEW k \in 0 .. RouteCount
  PROVE  \/ /\ LastRoute(s, k) = 0
            /\ \A r \in 1 .. k : Routes[r].target # s
         \/ LastRoute(s, k) \in 1 .. k
<1> DEFINE T == {0} \union {r \in 1 .. k : Routes[r].target = s}
<1>1. T \subseteq 0 .. k /\ T # {} /\ 0 \in Int /\ k \in Int
  BY RouteCountNat
<1>2. PICK m \in T : \A x \in T : m >= x
  <2> HIDE DEF T
  <2>1. QED
    BY ONLY <1>1, HasGreatest
<1>3. LastRoute(s, k) = m
  BY <1>1, <1>2, MaxOf DEF LastRoute
<1>4. QED
  BY <1>1, <1>2, <1>3

(***************************************************************************)
(* A slot that holds a stream before a route and was written by an earlier *)
(* one holds the stream because of a route, not from the load.             *)
(***************************************************************************)
LEMMA WrittenStream ==
  ASSUME NEW s \in Streams, NEW k \in 0 .. RouteCount - 1,
         NEW r \in 1 .. k, Routes[r].output = SlotOf(s, k)
  PROVE  /\ LastRoute(s, k) \in 1 .. k
         /\ SlotOf(s, k) = Routes[LastRoute(s, k)].output
<1>1. k \in 0 .. RouteCount /\ r - 1 \in 0 .. RouteCount /\ r \in RouteIndex
      /\ RouteCount \in Nat /\ k \in Nat /\ r \in Nat
  BY RouteCountNat DEF RouteIndex
<1>2. ASSUME LastRoute(s, k) = 0 PROVE FALSE
  <2>1. \A q \in 1 .. k : Routes[q].target # s
    BY <1>1, <1>2, LastRouteOf
  <2>2. \A q \in 1 .. r - 1 : Routes[q].target # s
    BY <1>1, <2>1
  <2>3. LastRoute(s, r - 1) = 0
    <3>1. {q \in 1 .. r - 1 : Routes[q].target = s} = {}
      BY <2>2
    <3>2. Max({0}) = 0
      BY MaxOf
    <3>3. QED
      BY <3>1, <3>2 DEF LastRoute
  <2>4. SlotOf(s, r - 1) = Home[s] /\ SlotOf(s, k) = Home[s] /\ Home[s] \in Slots
    BY <1>2, <2>3 DEF SlotOf, Home, Streams, Slots
  <2>5. QED
    BY <1>1, <2>4, SlotsAssumption
<1>3. LastRoute(s, k) \in 1 .. k
  BY <1>1, <1>2, LastRouteOf
<1>4. QED
  BY <1>3 DEF SlotOf

LEMMA NextLeg ==
  ASSUME NEW leg \in 1 .. Legs, leg < Legs
  PROVE  \/ RouteOf(leg + 1) = 1
         \/ /\ RouteOf(leg) < RouteCount
            /\ RouteOf(leg + 1) = RouteOf(leg) + 1 /\ ItemOf(leg + 1) = ItemOf(leg)
<1>1. \A n \in Nat \ {0}, a \in Nat :
        \/ (a + 1) % n = 0
        \/ /\ (a % n) + 1 < n
           /\ (a + 1) % n = (a % n) + 1 /\ (a + 1) \div n = a \div n
  <2>1. TAKE n \in Nat \ {0}, a \in Nat
  <2>2. /\ a = n * (a \div n) + (a % n) /\ a % n \in 0 .. n - 1 /\ a \div n \in Int
        /\ a + 1 = n * ((a + 1) \div n) + ((a + 1) % n)
        /\ (a + 1) % n \in 0 .. n - 1 /\ (a + 1) \div n \in Int
    BY SMT
  <2> DEFINE d == ((a + 1) \div n) - (a \div n)
  <2>3. d \in Int /\ n * d = n * ((a + 1) \div n) - n * (a \div n)
    BY <2>2, SMT
  <2>4. n * d = 1 + (a % n) - ((a + 1) % n)
    BY <2>2, <2>3, SMT
  <2>5. CASE d <= -1
    <3>1. n * d <= n * (-1)
      BY <2>3, <2>5, SMT
    <3>2. QED
      BY <2>2, <2>4, <3>1, SMT
  <2>6. CASE d >= 1
    <3>1. n * d >= n
      BY <2>3, <2>6, SMT
    <3>2. QED
      BY <2>2, <2>4, <3>1, SMT
  <2>7. CASE d = 0
    <3>1. n * d = 0
      BY <2>7, SMT
    <3>2. (a + 1) % n = (a % n) + 1
      BY <2>2, <2>4, <3>1, SMT
    <3>3. (a + 1) \div n = a \div n
      BY <2>2, <2>7, SMT
    <3>4. QED
      BY <2>2, <3>2, <3>3, SMT
  <2>8. QED
    BY <2>3, <2>5, <2>6, <2>7
<1>2. leg - 1 \in Nat /\ (leg + 1) - 1 = (leg - 1) + 1 /\ RouteCount \in Nat \ {0}
  BY LegsNat, RouteCountNat
<1>3. \/ ((leg - 1) + 1) % RouteCount = 0
      \/ /\ ((leg - 1) % RouteCount) + 1 < RouteCount
         /\ ((leg - 1) + 1) % RouteCount = ((leg - 1) % RouteCount) + 1
         /\ ((leg - 1) + 1) \div RouteCount = (leg - 1) \div RouteCount
  BY <1>1, <1>2
<1>4. QED
  BY <1>2, <1>3 DEF RouteOf, ItemOf

LEMMA InitMInv == Init => MInv
<1> SUFFICES ASSUME Init PROVE MInv
  OBVIOUS
<1>1. /\ wpc = "take" /\ wgrp = 1 /\ issued = {} /\ inflight = {}
      /\ wleg = 1 /\ rleg = 1
  BY DEF Init
<1>2. OneWrite
  BY <1>1 DEF OneWrite
<1>3. RouteOf(1) = 1
  <2>1. \A n \in Nat \ {0} : (1 - 1) % n = 0
    OBVIOUS
  <2>2. QED
    BY <2>1, RouteCountNat DEF RouteOf
<1>4. Written = 0
  BY <1>1 DEF Written
<1>5. MirrorKept
  <2>1. \A r \in 1 .. RouteOf(wleg) : Reached(r) = 0
    BY <1>1, <1>3, <1>4 DEF Reached
  <2>2. \A c \in Cells : ~(c <= 0)
    BY SizesAssumption DEF Cells
  <2>3. QED
    BY <2>1, <2>2 DEF MirrorKept
<1>6. QED
  BY <1>1, <1>2, <1>3, <1>5 DEF MInv

(***************************************************************************)
(* Reader and compute kernel do not disturb it.                            *)
(***************************************************************************)
LEMMA QuietStep ==
  ASSUME MInv, UNCHANGED <<wvars, noc, mem, head>>,
         issued # {} => page'[head] = page[head],
         rpc' \in {"even", "odd"} => RouteOf(rleg') = 1
  PROVE  MInv'
<1> SUFFICES ASSUME HybridTileMirror PROVE OneWrite' /\ MirrorKept'
  BY DEF MInv
<1>1. OneWrite /\ MirrorKept
  BY DEF MInv
<1>2. \A l, c : Settled(l, c)' = Settled(l, c)
  BY DEF Settled, WritesTo
<1>3. OneWrite'
  BY <1>1 DEF OneWrite, Written, WritesTo
<1>4. \A r : Reached(r)' = Reached(r)
  BY DEF Reached, Written
<1>5. \A slot, c : Twins(slot, c)' = Twins(slot, c)
  BY <1>2 DEF Twins
<1>6. MirrorKept'
  BY <1>1, <1>4, <1>5 DEF MirrorKept
<1>7. QED
  BY <1>3, <1>6

LEMMA RLoadMirror ==
  ASSUME IInv, MInv, NEW s \in Streams, RLoad(s)
  PROVE  MInv'
<1> SUFFICES ASSUME HybridTileMirror PROVE MInv'
  BY DEF MInv
<1>1. rpc \in {"even", "odd"}
  BY DEF RLoad, Streams
<1>2. rleg = wleg /\ rgrp = 1 /\ rleg <= Legs /\ RouteOf(rleg) = 1
  <2>1. rleg = wleg /\ rgrp = 1 /\ ~(rleg > Legs)
    BY <1>1 DEF IInv, Lockstep
  <2>2. rleg <= Legs
    BY <2>1, LegsNat DEF IInv, TypeOK
  <2>3. QED
    BY <1>1, <2>1, <2>2 DEF MInv
<1>3. issued = {} /\ inflight = {} /\ wpc = "take" /\ wgrp = 1
  BY <1>2, FreshLeg
<1>4. UNCHANGED <<wvars, noc>> /\ rleg' = rleg
  BY DEF RLoad
<1>5. OneWrite'
  BY <1>3, <1>4 DEF OneWrite
<1>6. MirrorKept'
  <2>1. Written' = 0
    BY <1>3, <1>4 DEF Written
  <2>2. \A r \in 1 .. RouteOf(wleg') : Reached(r)' = 0
    BY <1>2, <1>4, <2>1 DEF Reached
  <2>3. \A c \in Cells : ~(c <= 0)
    BY SizesAssumption DEF Cells
  <2>4. QED
    BY <2>2, <2>3 DEF MirrorKept
<1>7. QED
  BY <1>2, <1>4, <1>5, <1>6 DEF MInv

LEMMA PackedElsewhere ==
  ASSUME IInv, NEW value, Emit(value)
  PROVE  issued # {} => page'[head] = page[head] /\ head' = head
<1> SUFFICES ASSUME issued # {} PROVE page'[head] = page[head] /\ head' = head
  OBVIOUS
<1>1. PICK w \in issued : TRUE
  OBVIOUS
<1>2. PagesHeld /\ w.page = head /\ count < Buffering
  BY PagesHeldFromIInv DEF IInv, WritesOfLeg, Emit
<1>3. FreePage # head
  BY <1>2 DEF PagesHeld
<1>4. head \in DOMAIN page
  BY DEF IInv, TypeOK
<1>5. QED
  BY <1>3, <1>4 DEF Emit

(***************************************************************************)
(* The writes of a group, to the rows and to the mirror, are issued        *)
(* together, from the same page.                                           *)
(***************************************************************************)
LEMMA WIssueMirror ==
  ASSUME IInv, MInv, WIssue
  PROVE  MInv'
<1> SUFFICES ASSUME HybridTileMirror PROVE MInv'
  BY DEF MInv
<1>1. OneWrite /\ MirrorKept /\ (rpc \in {"even", "odd"} => RouteOf(rleg) = 1)
  BY DEF MInv
<1>2. /\ wpc = "take" /\ wpc' = "flush" /\ wgrp' = wgrp /\ wleg' = wleg /\ issued = {}
      /\ issued' = {[page |-> head, loc |-> l, cell |-> wgrp] : l \in Destinations(wleg)}
      /\ inflight' = inflight /\ mem' = mem /\ page' = page /\ head' = head
      /\ rpc' = rpc /\ rleg' = rleg /\ wgrp \in Nat /\ wgrp >= 1
  BY DEF WIssue, IInv, WritesOfLeg, TypeOK, Cells
<1>3. Written = wgrp - 1 /\ Written' = wgrp
  BY <1>2 DEF Written
<1>4. OneWrite'
  <2>1. \A w \in issued' : w.cell = wgrp
    BY <1>2
  <2>2. \A l : WritesTo(inflight, l, wgrp) = {}
    BY <1>1, <1>2, <1>3 DEF OneWrite, WritesTo
  <2>3. \A v \in inflight : v.cell \in 1 .. wgrp
    BY <1>1, <1>2, <1>3 DEF OneWrite
  <2>4. QED
    BY <1>1, <1>2, <1>3, <2>1, <2>2, <2>3 DEF OneWrite
<1>5. \A l, c : l \in Destinations(wleg) /\ c = wgrp => Settled(l, c)' = page[head]
  <2>1. TAKE l, c
  <2>2. HAVE l \in Destinations(wleg) /\ c = wgrp
  <2>3. [page |-> head, loc |-> l, cell |-> wgrp] \in issued'
    BY <1>2, <2>2
  <2>4. WritesTo(issued', l, c) # {}
    BY <2>2, <2>3 DEF WritesTo
  <2>5. QED
    BY <1>2, <2>4 DEF Settled
<1>6. \A l, c : l \notin Destinations(wleg) \/ c # wgrp => Settled(l, c)' = Settled(l, c)
  <2>1. TAKE l, c
  <2>2. HAVE l \notin Destinations(wleg) \/ c # wgrp
  <2>3. WritesTo(issued', l, c) = {} /\ WritesTo(issued, l, c) = {}
    BY <1>2, <2>2 DEF WritesTo
  <2>4. Settled(l, c)' = IF WritesTo(inflight, l, c) # {}
                         THEN Carried(WritesTo(inflight, l, c))
                         ELSE mem[l][c]
    BY <1>2, <2>3 DEF Settled
  <2>5. QED
    BY <2>3, <2>4 DEF Settled
<1>7. \A slot : Local(slot, "rows") \in Destinations(wleg)
                  <=> Local(slot, "mirror") \in Destinations(wleg)
  BY DEF Destinations, Planes, Local, Dram
<1>8. \A slot, c : Twins(slot, c) => Twins(slot, c)'
  <2>1. TAKE slot, c
  <2>2. CASE Local(slot, "rows") \in Destinations(wleg) /\ c = wgrp
    <3>1. Local(slot, "mirror") \in Destinations(wleg)
      BY <1>7, <2>2
    <3>2. /\ Settled(Local(slot, "rows"), c)' = page[head]
          /\ Settled(Local(slot, "mirror"), c)' = page[head]
      BY <1>5, <2>2, <3>1
    <3>3. QED
      BY <3>2 DEF Twins
  <2>3. CASE Local(slot, "rows") \notin Destinations(wleg) \/ c # wgrp
    BY <1>6, <1>7, <2>3 DEF Twins
  <2>4. QED
    BY <2>2, <2>3
<1>9. MirrorKept'
  <2>1. SUFFICES ASSUME wleg <= Legs, NEW r \in 1 .. RouteOf(wleg),
                        Routes[r].output # "dram", NEW c \in Cells, c <= Reached(r)'
                 PROVE  Twins(Routes[r].output, c)'
    BY <1>2 DEF MirrorKept
  <2>2. CASE c <= Reached(r)
    BY <1>1, <1>8, <2>1, <2>2 DEF MirrorKept
  <2>3. CASE ~(c <= Reached(r))
    <3>1. ~(r < RouteOf(wleg)) /\ c <= wgrp /\ ~(c <= wgrp - 1)
      BY <1>2, <1>3, <2>1, <2>3 DEF Reached
    <3>2. c = wgrp
      BY <1>2, <3>1 DEF Cells
    <3>3. RouteOf(wleg) \in Int
      BY <2>1, LegParts, LegsNat DEF IInv, TypeOK, RouteIndex
    <3>4. r = RouteOf(wleg)
      BY <3>1, <3>3
    <3>5. Local(Routes[r].output, "rows") \in Destinations(wleg)
      BY <2>1, <3>4 DEF Destinations, Planes, Route
    <3>6. Local(Routes[r].output, "mirror") \in Destinations(wleg)
      BY <1>7, <3>5
    <3>7. /\ Settled(Local(Routes[r].output, "rows"), c)' = page[head]
          /\ Settled(Local(Routes[r].output, "mirror"), c)' = page[head]
      BY <1>5, <3>2, <3>5, <3>6
    <3>8. QED
      BY <3>7 DEF Twins
  <2>4. QED
    BY <2>2, <2>3
<1>10. QED
  BY <1>1, <1>2, <1>4, <1>9 DEF MInv

LEMMA LocalOutput ==
  ASSUME IInv, wleg <= Legs, NEW r \in 1 .. RouteOf(wleg),
         Routes[r].output # "dram"
  PROVE  Routes[r].output \in Slots
<1>1. RouteOf(wleg) \in RouteIndex
  BY LegParts, LegsNat DEF IInv, TypeOK
<1>2. r \in RouteIndex
  BY <1>1, RouteCountNat DEF RouteIndex
<1>3. Routes[r] \in RouteType
  BY <1>2, RoutesAssumption DEF RouteIndex, RouteCount
<1>4. QED
  BY <1>3 DEF RouteType

(***************************************************************************)
(* A write that departs, or lands, leaves what is settled.                 *)
(***************************************************************************)
LEMMA SettledStep ==
  ASSUME IInv, MInv, HybridTileMirror, UNCHANGED <<wvars, rvars>>, OneWrite',
         \A slot \in Slots, p \in Planes, c \in Cells :
           Settled(Local(slot, p), c)' = Settled(Local(slot, p), c)
  PROVE  MInv'
<1>1. MirrorKept /\ (rpc \in {"even", "odd"} => RouteOf(rleg) = 1)
  BY DEF MInv
<1>2. \A r : Reached(r)' = Reached(r)
  BY DEF Reached, Written
<1>3. \A slot \in Slots, c \in Cells : Twins(slot, c)' = Twins(slot, c)
  BY DEF Twins, Planes
<1>4. MirrorKept'
  <2>1. SUFFICES ASSUME wleg <= Legs, NEW r \in 1 .. RouteOf(wleg),
                        Routes[r].output # "dram", NEW c \in Cells, c <= Reached(r)
                 PROVE  Twins(Routes[r].output, c)'
    BY <1>2 DEF MirrorKept
  <2>2. Twins(Routes[r].output, c)
    BY <1>1, <2>1 DEF MirrorKept
  <2>3. Twins(Routes[r].output, c)' = Twins(Routes[r].output, c)
    BY <1>3, <2>1, LocalOutput
  <2>4. QED
    BY <2>2, <2>3
<1>5. QED
  BY <1>1, <1>4 DEF MInv

LEMMA NocDepartMirror ==
  ASSUME IInv, MInv, NocDepart
  PROVE  MInv'
<1> SUFFICES ASSUME HybridTileMirror PROVE MInv'
  BY DEF MInv
<1>1. OneWrite
  BY DEF MInv
<1>2. PICK w \in issued :
         /\ issued' = issued \ {w}
         /\ inflight' = inflight \union
              {[loc |-> w.loc, cell |-> w.cell, value |-> page[w.page]]}
         /\ UNCHANGED <<rvars, wvars, ring, mem>>
  BY DEF NocDepart
<1> DEFINE v == [loc |-> w.loc, cell |-> w.cell, value |-> page[w.page]]
<1>3. v.loc = w.loc /\ v.cell = wgrp /\ w.cell = wgrp /\ v.value = page[head]
  BY <1>1, <1>2 DEF OneWrite, IInv, WritesOfLeg
<1>4. \A u \in issued : u.loc = w.loc => u = w
  <2>1. issued \subseteq [page : 0 .. Buffering - 1, loc : Locations, cell : Cells]
    BY DEF IInv, TypeOK
  <2>2. \A u \in issued : u.page = head /\ u.cell = wgrp
    BY <1>1 DEF OneWrite, IInv, WritesOfLeg
  <2>3. QED
    BY <1>2, <2>1, <2>2
<1>5. WritesTo(inflight, w.loc, wgrp) = {} /\ \A u \in issued : u.cell = wgrp
  BY <1>1, <1>2, <1>3 DEF OneWrite
<1>6. \A l, c : l = w.loc /\ c = wgrp =>
                  WritesTo(issued', l, c) = {} /\ WritesTo(inflight', l, c) = {v}
  <2>1. TAKE l, c
  <2>2. HAVE l = w.loc /\ c = wgrp
  <2>3. WritesTo(issued', l, c) = {}
    BY <1>2, <1>4, <2>2 DEF WritesTo
  <2>4. \A x \in inflight : ~(x.loc = l /\ x.cell = c)
    BY <1>5, <2>2 DEF WritesTo
  <2>5. WritesTo(inflight', l, c) = {v}
    BY <1>2, <1>3, <2>2, <2>4 DEF WritesTo
  <2>6. QED
    BY <2>3, <2>5
<1>7. \A l, c : ~(l = w.loc /\ c = wgrp) =>
                  /\ WritesTo(issued', l, c) = WritesTo(issued, l, c)
                  /\ WritesTo(inflight', l, c) = WritesTo(inflight, l, c)
  BY <1>2, <1>3 DEF WritesTo
<1>8. OneWrite'
  <2>1. Written' = Written /\ wgrp' = wgrp /\ Written = wgrp /\ wgrp \in 1 .. wgrp
    <3>1. wpc = "flush" /\ wgrp \in Cells
      BY <1>2 DEF IInv, WritesOfLeg, TypeOK
    <3>2. QED
      BY <1>2, <3>1 DEF Written, Cells
  <2>2. \A u \in issued' : u.cell = wgrp /\ WritesTo(inflight', u.loc, u.cell) = {}
    <3>1. TAKE u \in issued'
    <3>2. u \in issued /\ u.loc # w.loc /\ u.cell = wgrp
      BY <1>2, <1>4, <1>5
    <3>3. WritesTo(inflight, u.loc, u.cell) = {}
      BY <1>1, <3>2 DEF OneWrite
    <3>4. QED
      BY <1>7, <3>2, <3>3
  <2>3. \A x \in inflight' : x.cell \in 1 .. Written
    BY <1>1, <1>2, <1>3, <2>1 DEF OneWrite
  <2>4. \A x \in inflight : ~(x.loc = v.loc /\ x.cell = v.cell)
    BY <1>3, <1>5 DEF WritesTo
  <2>5. \A x, y \in inflight' : x.loc = y.loc /\ x.cell = y.cell => x = y
    <3>1. \A x \in inflight' : x \in inflight \/ x = v
      BY <1>2
    <3>2. QED
      BY <1>1, <2>4, <3>1 DEF OneWrite
  <2>6. QED
    BY <2>1, <2>2, <2>3, <2>5 DEF OneWrite
<1>9. \A l, c : Settled(l, c)' = Settled(l, c)
  <2>1. TAKE l, c
  <2>2. CASE l = w.loc /\ c = wgrp
    <3>1. Settled(l, c) = page[head]
      <4>1. w \in WritesTo(issued, l, c)
        BY <1>2, <1>3, <2>2 DEF WritesTo
      <4>2. QED
        BY <4>1 DEF Settled
    <3>2. WritesTo(issued', l, c) = {} /\ WritesTo(inflight', l, c) = {v}
      BY <1>6, <2>2
    <3>3. Carried({v}) = v.value
      BY DEF Carried
    <3>4. Settled(l, c)' = v.value
      BY <3>2, <3>3 DEF Settled
    <3>5. QED
      BY <1>3, <3>1, <3>4
  <2>3. CASE ~(l = w.loc /\ c = wgrp)
    BY <1>2, <1>7, <2>3 DEF Settled
  <2>4. QED
    BY <2>2, <2>3
<1>10. QED
  BY <1>2, <1>8, <1>9, SettledStep

LEMMA NocLandMirror ==
  ASSUME IInv, MInv, NocLand
  PROVE  MInv'
<1> SUFFICES ASSUME HybridTileMirror PROVE MInv'
  BY DEF MInv
<1>1. OneWrite
  BY DEF MInv
<1>2. PICK w \in inflight :
         /\ inflight' = inflight \ {w}
         /\ mem' = [mem EXCEPT ![w.loc][w.cell] = w.value]
         /\ UNCHANGED <<rvars, wvars, ring, issued>>
  BY DEF NocLand
<1>3. w.loc \in Locations /\ w.cell \in Cells
  BY <1>2 DEF IInv, TypeOK
<1>4. \A l, c : ~(l = w.loc /\ c = w.cell) =>
                  WritesTo(inflight', l, c) = WritesTo(inflight, l, c)
  BY <1>2 DEF WritesTo
<1>5. /\ WritesTo(inflight, w.loc, w.cell) = {w}
      /\ WritesTo(inflight', w.loc, w.cell) = {}
      /\ WritesTo(issued, w.loc, w.cell) = {}
  BY <1>1, <1>2 DEF OneWrite, WritesTo
<1>6. OneWrite'
  <2>1. Written' = Written
    BY <1>2 DEF Written
  <2>2. \A u \in issued : WritesTo(inflight', u.loc, u.cell) = {}
    BY <1>1, <1>2 DEF OneWrite, WritesTo
  <2>3. QED
    BY <1>1, <1>2, <2>1, <2>2 DEF OneWrite
<1>7. \A slot \in Slots, p \in Planes, c \in Cells :
        Settled(Local(slot, p), c)' = Settled(Local(slot, p), c)
  <2>1. TAKE slot \in Slots, p \in Planes, c \in Cells
  <2> DEFINE l == Local(slot, p)
  <2>2. l \in Locations /\ DOMAIN mem = Locations
        /\ \A m \in Locations : DOMAIN mem[m] = Cells
    BY DEF Locations, IInv, TypeOK
  <2> HIDE DEF l
  <2>3. CASE l = w.loc /\ c = w.cell
    <3>1. Carried({w}) = w.value
      BY DEF Carried
    <3>2. Settled(l, c) = w.value
      BY <1>5, <2>3, <3>1 DEF Settled
    <3>3. mem'[l][c] = w.value
      BY <1>2, <2>2, <2>3
    <3>4. Settled(l, c)' = w.value
      BY <1>2, <1>5, <2>3, <3>3 DEF Settled
    <3>5. QED
      BY <3>2, <3>4 DEF l
  <2>4. CASE ~(l = w.loc /\ c = w.cell)
    <3>1. mem'[l][c] = mem[l][c]
      BY <1>2, <2>2, <2>4
    <3>2. WritesTo(inflight', l, c) = WritesTo(inflight, l, c)
      BY <1>4, <2>4
    <3>3. Settled(l, c)' = Settled(l, c)
      BY <1>2, <3>1, <3>2 DEF Settled
    <3>4. QED
      BY <3>3 DEF l
  <2>5. QED
    BY <2>3, <2>4
<1>8. QED
  BY <1>2, <1>6, <1>7, SettledStep

(***************************************************************************)
(* The writer goes on only when the writes of the group have left, and to  *)
(* the next leg only when they have landed.                                *)
(***************************************************************************)
LEMMA OnwardStep ==
  ASSUME IInv, MInv, HybridTileMirror, UNCHANGED <<rvars, wleg, noc>>,
         issued = {}, Written' = Written,
         \A slot \in Slots, p \in Planes : mem'[Local(slot, p)] = mem[Local(slot, p)]
  PROVE  MInv'
<1>1. OneWrite /\ MirrorKept /\ (rpc \in {"even", "odd"} => RouteOf(rleg) = 1)
  BY DEF MInv
<1>2. OneWrite'
  BY <1>1 DEF OneWrite
<1>3. \A slot \in Slots, p \in Planes, c \in Cells :
        Settled(Local(slot, p), c)' = Settled(Local(slot, p), c)
  BY DEF Settled, WritesTo
<1>4. \A slot \in Slots, c \in Cells : Twins(slot, c)' = Twins(slot, c)
  BY <1>3 DEF Twins, Planes
<1>5. \A r : Reached(r)' = Reached(r)
  BY DEF Reached
<1>6. MirrorKept'
  <2>1. SUFFICES ASSUME wleg <= Legs, NEW r \in 1 .. RouteOf(wleg),
                        Routes[r].output # "dram", NEW c \in Cells, c <= Reached(r)
                 PROVE  Twins(Routes[r].output, c)'
    BY <1>5 DEF MirrorKept
  <2>2. Twins(Routes[r].output, c)
    BY <1>1, <2>1 DEF MirrorKept
  <2>3. QED
    BY <1>4, <2>1, <2>2, LocalOutput
<1>7. QED
  BY <1>1, <1>2, <1>6 DEF MInv

LEMMA WPopMirror ==
  ASSUME IInv, MInv, WPop
  PROVE  MInv'
<1> SUFFICES ASSUME HybridTileMirror PROVE MInv'
  BY DEF MInv
<1>1. issued = {} /\ UNCHANGED <<rvars, wleg, noc, mem>>
  BY DEF WPop
<1>2. Written' = Written
  <2>1. wpc = "flush" /\ wgrp <= Groups(wleg) /\ wgrp \in Cells /\ wleg \in 1 .. Legs
    BY LegsNat DEF WPop, IInv, WritesOfLeg, TypeOK, Lockstep
  <2>2. Groups(wleg) \in 1 .. MaxGroups /\ Groups(wleg)' = Groups(wleg)
    BY <1>1, <2>1, GroupsOfLeg
  <2>3. CASE wgrp < Groups(wleg)
    BY <2>1, <2>3 DEF WPop, Written, Cells
  <2>4. CASE ~(wgrp < Groups(wleg))
    <3>1. wgrp = Groups(wleg)
      BY <2>1, <2>2, <2>4 DEF Cells
    <3>2. wpc' = "barrier" /\ wleg' = wleg
      BY <2>4 DEF WPop
    <3>3. Written' = Groups(wleg) /\ Written = wgrp
      BY <2>1, <2>2, <3>2 DEF Written
    <3>4. QED
      BY <3>1, <3>3
  <2>5. QED
    BY <2>3, <2>4
<1>3. QED
  BY <1>1, <1>2, OnwardStep

LEMMA WDirectMirror ==
  ASSUME MInv, WDirect
  PROVE  MInv'
  BY DirectAssumption DEF WDirect, Direct, MInv

LEMMA WBarrierMirror ==
  ASSUME IInv, MInv, WBarrier
  PROVE  MInv'
<1> SUFFICES ASSUME HybridTileMirror PROVE MInv'
  BY DEF MInv
<1>1. issued = {} /\ UNCHANGED <<rvars, wleg, noc, mem>>
  BY DEF WBarrier
<1>2. Written' = Written
  BY DEF WBarrier, Written
<1>3. QED
  BY <1>1, <1>2, OnwardStep

LEMMA WEmitMirror ==
  ASSUME IInv, MInv, WEmit
  PROVE  MInv'
<1> SUFFICES ASSUME HybridTileMirror PROVE MInv'
  BY DEF MInv
<1>1. issued = {} /\ UNCHANGED <<rvars, wleg, noc>>
  BY DEF WEmit, IInv, WritesOfLeg
<1>2. Written' = Written
  BY DEF WEmit, Written
<1>3. \A slot \in Slots, p \in Planes : mem'[Local(slot, p)] = mem[Local(slot, p)]
  <2>1. TAKE slot \in Slots, p \in Planes
  <2>2. Local(slot, p) \in Locations
    BY DEF Locations
  <2>3. \A s : Local(slot, p) # Dram(ItemOf(wleg), s)
    BY DEF Local, Dram
  <2>4. QED
    BY <2>2, <2>3 DEF WEmit
<1>4. QED
  BY <1>1, <1>2, <1>3, OnwardStep

LEMMA WSignalMirror ==
  ASSUME IInv, MInv, WSignal
  PROVE  MInv'
<1> SUFFICES ASSUME HybridTileMirror PROVE MInv'
  BY DEF MInv
<1>1. OneWrite /\ MirrorKept /\ (rpc \in {"even", "odd"} => RouteOf(rleg) = 1)
  BY DEF MInv
<1>2. /\ wpc = "signal" /\ wleg' = wleg + 1 /\ issued = {} /\ inflight = {}
      /\ UNCHANGED <<rvars, wgrp, noc, mem>> /\ wgrp = 1
      /\ wleg < Legs => wpc' = "take"
  BY DEF WSignal, IInv, WritesOfLeg, Lockstep
<1>3. wleg \in 1 .. Legs /\ Legs \in Nat
  BY <1>2, LegsNat DEF IInv, TypeOK, Lockstep
<1>4. OneWrite'
  BY <1>2 DEF OneWrite
<1>5. \A l, c : Settled(l, c)' = Settled(l, c)
  BY <1>2 DEF Settled, WritesTo
<1>6. \A slot, c : Twins(slot, c)' = Twins(slot, c)
  BY <1>5 DEF Twins
<1>7. MirrorKept'
  <2>1. SUFFICES ASSUME wleg < Legs, NEW r \in 1 .. RouteOf(wleg + 1),
                        Routes[r].output # "dram", NEW c \in Cells, c <= Reached(r)'
                 PROVE  Twins(Routes[r].output, c)'
    BY <1>2, <1>3 DEF MirrorKept
  <2>2. Written' = 0 /\ c \in Nat /\ c >= 1
    BY <1>2, <2>1, SizesAssumption DEF Written, Cells
  <2>3. RouteOf(wleg + 1) \in Nat /\ RouteOf(wleg) \in Nat /\ r \in Nat
    BY <1>3, <2>1, LegParts, RouteCountNat DEF RouteIndex
  <2>4. r < RouteOf(wleg + 1)
    BY <1>2, <2>1, <2>2, <2>3 DEF Reached
  <2>5. /\ RouteOf(wleg + 1) = RouteOf(wleg) + 1 /\ ItemOf(wleg + 1) = ItemOf(wleg)
        /\ r \in 1 .. RouteOf(wleg)
    BY <1>3, <2>1, <2>3, <2>4, NextLeg
  <2>6. Reached(r)' = GroupCount[Chunk(ItemOf(wleg))][r]
    BY <1>2, <2>4, <2>5 DEF Reached
  <2>7. Reached(r) = GroupCount[Chunk(ItemOf(wleg))][r]
    <3>1. CASE r < RouteOf(wleg)
      BY <3>1 DEF Reached
    <3>2. CASE ~(r < RouteOf(wleg))
      <4>1. r = RouteOf(wleg)
        BY <2>3, <2>5, <3>2
      <4>2. QED
        BY <1>2, <4>1, <3>2 DEF Reached, Written, Groups
    <3>3. QED
      BY <3>1, <3>2
  <2>8. Twins(Routes[r].output, c)
    BY <1>1, <1>3, <2>1, <2>5, <2>6, <2>7 DEF MirrorKept
  <2>9. QED
    BY <1>6, <2>8
<1>8. QED
  BY <1>1, <1>2, <1>4, <1>7 DEF MInv

LEMMA NextMInv ==
  ASSUME IInv, MInv, [Next]_vars
  PROVE  MInv'
<1>1. CASE UNCHANGED vars
  BY <1>1, QuietStep DEF vars, MInv
<1>2. CASE RSync
  BY <1>2, QuietStep DEF RSync, Start
<1>3. CASE RSource
  BY <1>3, QuietStep DEF RSource
<1>4. CASE RBase
  BY <1>4, QuietStep DEF RBase
<1>5. CASE RPush
  BY <1>5, QuietStep DEF RPush, Start
<1>6. CASE \E p \in {"source", "base"} : NocRead(p)
  <2>1. UNCHANGED <<rvars, ring, wvars, noc, mem>>
    BY <1>6 DEF NocRead
  <2>2. QED
    BY <2>1, QuietStep DEF MInv
<1>7. CASE CTake0 \/ CTake1 \/ CTakeBase
  <2>1. UNCHANGED <<rvars, ring, wvars, noc, mem>>
    BY <1>7 DEF CTake0, CTake1, CTakeBase
  <2>2. QED
    BY <2>1, QuietStep DEF MInv
<1>8. CASE CPack \/ CScale
  <2>1. PICK value : Emit(value)
    BY <1>8 DEF CPack, CScale
  <2>2. UNCHANGED <<rvars, wvars, noc, mem>>
    BY <1>8 DEF CPack, CScale
  <2>3. head' = head
    BY <2>1 DEF Emit
  <2>4. issued # {} => page'[head] = page[head]
    BY <2>1, PackedElsewhere
  <2>5. QED
    BY <2>2, <2>3, <2>4, QuietStep DEF MInv
<1>9. CASE \E s \in Streams : RLoad(s)
  BY <1>9, RLoadMirror
<1>10. CASE WIssue
  BY <1>10, WIssueMirror
<1>11. CASE WPop
  BY <1>11, WPopMirror
<1>12. CASE WDirect
  BY <1>12, WDirectMirror
<1>13. CASE WBarrier
  BY <1>13, WBarrierMirror
<1>14. CASE WEmit
  BY <1>14, WEmitMirror
<1>15. CASE WSignal
  BY <1>15, WSignalMirror
<1>16. CASE NocDepart
  BY <1>16, NocDepartMirror
<1>17. CASE NocLand
  BY <1>17, NocLandMirror
<1>18. CASE Terminated
  BY <1>1, <1>18 DEF Terminated
<1>19. QED
  BY <1>1, <1>2, <1>3, <1>4, <1>5, <1>6, <1>7, <1>8, <1>9, <1>10, <1>11, <1>12,
     <1>13, <1>14, <1>15, <1>16, <1>17, <1>18
     DEF Next, Reader, Compute, Writer, Noc

(***************************************************************************)
(* The reader of a route reads a slot only when no write to it is under    *)
(* way: what is settled is what it finds.                                  *)
(***************************************************************************)
LEMMA MirrorCoherentFromMInv == IInv /\ MInv => MirrorCoherent
<1> SUFFICES ASSUME IInv, MInv, rpc \in {"source", "base", "fetch"},
                    NEW p \in {"source", "base"},
                    Mirrored(rleg, ReadSlot(rleg, p)),
                    NEW c \in ReadWindow(rleg, rgrp, p)
             PROVE  mem[Local(ReadSlot(rleg, p), "mirror")][c] =
                      mem[Local(ReadSlot(rleg, p), "rows")][c]
  BY DEF MirrorCoherent
<1>1. rleg = wleg /\ wleg \in 1 .. Legs
  <2>1. rleg = wleg /\ ~(rleg > Legs)
    BY DEF IInv, Lockstep
  <2>2. QED
    BY <2>1, LegsNat DEF IInv, TypeOK
<1> DEFINE slot == ReadSlot(rleg, p)
           k == RouteOf(rleg) - 1
           s == IF p = "source" THEN Route(rleg).operand ELSE Route(rleg).target
<1>2. RouteOf(rleg) \in RouteIndex /\ Route(rleg) \in RouteType
  BY <1>1, LegParts, RouteOfLeg
<1>3. k \in 0 .. RouteCount - 1 /\ s \in Streams
  BY <1>2, RouteCountNat DEF RouteIndex, RouteType
<1>4. slot = SlotOf(s, k) /\ slot \in Slots
  <2>1. /\ Routes[RouteOf(rleg)].source = SlotOf(Routes[RouteOf(rleg)].operand, k)
        /\ Routes[RouteOf(rleg)].kind = "lift" =>
             Routes[RouteOf(rleg)].base = SlotOf(Routes[RouteOf(rleg)].target, k)
        /\ Routes[RouteOf(rleg)].kind = "scale" =>
             Routes[RouteOf(rleg)].operand = Routes[RouteOf(rleg)].target
    BY <1>2, SlotsAssumption, RoutesAssumption
  <2>2. Route(rleg).kind \in {"lift", "scale"}
        /\ Route(rleg).source \in Slots /\ Route(rleg).base \in Slots
    BY <1>2 DEF RouteType
  <2>3. QED
    BY <2>1, <2>2 DEF ReadSlot, Route
<1>5. HybridTileMirror
  BY DEF Mirrored
<1>6. PICK r \in 1 .. k : Routes[r].output = slot
  BY DEF Mirrored
<1> DEFINE q == LastRoute(s, k)
<1>7. q \in 1 .. k /\ slot = Routes[q].output
  BY <1>3, <1>4, <1>6, WrittenStream
<1>8. c \in 1 .. Length(ItemOf(rleg), s, k)
  BY DEF ReadWindow, SourceWindow, BaseWindow
<1>9. Length(ItemOf(rleg), s, k) = GroupCount[Chunk(ItemOf(rleg))][q]
      /\ Length(ItemOf(rleg), s, k) \in Cells
  <2>1. ItemOf(rleg) \in 0 .. ItemCount - 1 /\ k \in 0 .. RouteCount
    BY <1>1, <1>3, LegParts, RouteCountNat
  <2>2. q # 0
    BY <1>3, <1>7
  <2>3. Length(ItemOf(rleg), s, k) = GroupCount[Chunk(ItemOf(rleg))][q]
    BY <2>2 DEF Length
  <2>4. QED
    BY <1>3, <2>1, <2>3, GroupsAssumption
<1>10. q \in 1 .. RouteOf(wleg) /\ q < RouteOf(wleg) /\ c \in Cells
  BY <1>1, <1>2, <1>3, <1>7, <1>8, <1>9, RouteCountNat, SizesAssumption
     DEF RouteIndex, Cells
<1>11. c <= Reached(q)
  BY <1>1, <1>8, <1>9, <1>10 DEF Reached, Cells
<1>12. slot # "dram"
  BY <1>4 DEF Slots
<1>13. Twins(slot, c)
  BY <1>1, <1>5, <1>7, <1>10, <1>11, <1>12 DEF MInv, MirrorKept
<1>14. \A plane \in Planes : Settled(Local(slot, plane), c) = mem[Local(slot, plane)][c]
  <2>1. TAKE plane \in Planes
  <2>2. \A w \in issued \union inflight : w.loc # Local(slot, plane)
    BY NoRacingWriteFromIInv DEF NoRacingWrite, ReadSlots
  <2>3. QED
    BY <2>2 DEF Settled, WritesTo
<1>15. QED
  BY <1>13, <1>14 DEF Twins, Planes

-----------------------------------------------------------------------------
(***************************************************************************)
(* Theorems of the specification.                                          *)
(***************************************************************************)
(***************************************************************************)
(* The kernels stay in lockstep, no group is lost or duplicated between    *)
(* them, and the NoC carries only writes of the writer's leg.              *)
(***************************************************************************)
THEOREM Invariance == Spec => []IInv
<1>1. Init => IInv
  BY InitIInv
<1>2. IInv /\ [Next]_vars => IInv'
  BY NextIInv
<1>3. QED
  BY <1>1, <1>2, PTL DEF Spec

(***************************************************************************)
(* Every variable keeps its type: no circular buffer overflows, and every  *)
(* kernel stays within its legs, its groups and the output ring.           *)
(***************************************************************************)
THEOREM TypeCorrect == Spec => []TypeOK
<1>1. IInv => TypeOK
  BY DEF IInv
<1>2. QED
  BY <1>1, Invariance, PTL

(***************************************************************************)
(* Reader, compute and writer are never more than one leg apart, and a     *)
(* sync page is there only for a reader waiting on the same leg.           *)
(***************************************************************************)
THEOREM KernelsInLockstep == Spec => []Lockstep
<1>1. IInv => Lockstep
  BY DEF IInv
<1>2. QED
  BY <1>1, Invariance, PTL

(***************************************************************************)
(* Every group pushed by one kernel is in a buffer until the next kernel   *)
(* takes it, whatever the buffering and the number of groups.              *)
(***************************************************************************)
THEOREM GroupsConserved == Spec => []Conservation
<1>1. IInv => Conservation
  BY DEF IInv
<1>2. QED
  BY <1>1, Invariance, PTL

(***************************************************************************)
(* NoC writes go to the destinations of the leg being written, and those   *)
(* not yet departed read the page the writer has not popped.               *)
(***************************************************************************)
THEOREM WritesBelongToLeg == Spec => []WritesOfLeg
<1>1. IInv => WritesOfLeg
  BY DEF IInv
<1>2. QED
  BY <1>1, Invariance, PTL

(***************************************************************************)
(* The reader never reads or loads a slot that a NoC write may still       *)
(* reach: the one-page handshake after the write barrier is enough.        *)
(***************************************************************************)
THEOREM ReadsNotRaced == Spec => []NoRacingWrite
<1>1. IInv => NoRacingWrite
  BY NoRacingWriteFromIInv
<1>2. QED
  BY <1>1, Invariance, PTL

(***************************************************************************)
(* Compute never packs over a page a NoC write has still to read.          *)
(***************************************************************************)
THEOREM PagesNotOverwritten == Spec => []PagesHeld
<1>1. IInv => PagesHeld
  BY PagesHeldFromIInv
<1>2. QED
  BY <1>1, Invariance, PTL

(***************************************************************************)
(* After the last leg every buffer, the handshake and the NoC are empty.   *)
(***************************************************************************)
THEOREM NothingLeftBehind == Spec => []Drained
<1>1. IInv => Drained
  BY DrainedFromIInv
<1>2. QED
  BY <1>1, Invariance, PTL

(***************************************************************************)
(* A read through the mirror returns what the rows hold, whatever the      *)
(* routes, the number of items and the order in which writes land.         *)
(***************************************************************************)
THEOREM MirrorNeverStale == Spec => []MirrorCoherent
<1>1. Init => MInv
  BY InitMInv
<1>2. IInv /\ MInv /\ [Next]_vars => MInv'
  BY NextMInv
<1>3. IInv /\ MInv => MirrorCoherent
  BY MirrorCoherentFromMInv
<1>4. QED
  BY <1>1, <1>2, <1>3, Invariance, PTL DEF Spec

(***************************************************************************)
(* The reader passes a sync point only when all writes have landed.        *)
(***************************************************************************)
THEOREM SignalAfterLanding == Spec => SignalMeansLanded
<1>1. IInv /\ [Next]_vars => [rpc = "sync" /\ rpc' # "sync" => issued = {} /\ inflight = {}]_vars
  BY SignalStep
<1>2. QED
  BY <1>1, Invariance, PTL DEF Spec, SignalMeansLanded

-----------------------------------------------------------------------------
(***************************************************************************)
(* Every step of LwtPipeline is a step of LiftingTransform or none that it *)
(* can see: whatever the schedule, the sizes, the buffering and the        *)
(* arithmetic, the routes are carried out one after the other on whole     *)
(* streams.  That every work item gets its turn is left to TLC.            *)
(***************************************************************************)
USE DEF rvars, cvars, wvars, inputs, ring, noc

-----------------------------------------------------------------------------
(***************************************************************************)
(* The direct interleave goes over all of a chunk for every output group,  *)
(* and is exact only when there is one.                                    *)
(***************************************************************************)
OneOutputGroup ==
    DirectInterleave => \A i \in 0 .. ItemCount - 1 : OutputGroups(i) = 1

(***************************************************************************)
(* Legs, streams and where they are.                                       *)
(***************************************************************************)
\* The leg after a leg: the next route, or the first of the next item.
LEMMA Successor ==
  ASSUME NEW leg \in 1 .. Legs
  PROVE  /\ RouteOf(leg) < RouteCount =>
              RouteOf(leg + 1) = RouteOf(leg) + 1 /\ ItemOf(leg + 1) = ItemOf(leg)
         /\ RouteOf(leg) = RouteCount =>
              RouteOf(leg + 1) = 1 /\ ItemOf(leg + 1) = ItemOf(leg) + 1
<1> DEFINE n == RouteCount
           a == leg - 1
           q == a \div n
           m == a % n
<1>1. n \in Nat \ {0} /\ a \in Nat /\ (leg + 1) - 1 = a + 1
  BY RouteCountNat, LegsNat
<1>2. \A b \in Nat : /\ b = n * (b \div n) + (b % n)
                     /\ b % n \in 0 .. n - 1 /\ b \div n \in Int
  <2>1. \A c \in Nat \ {0} : \A b \in Nat :
          b = c * (b \div c) + (b % c) /\ b % c \in 0 .. c - 1 /\ b \div c \in Int
    BY SMT
  <2>2. QED
    BY <1>1, <2>1
<1>3. a = n * q + m /\ m \in 0 .. n - 1 /\ q \in Int
  BY <1>1, <1>2
<1>4. ASSUME m + 1 < n PROVE (a + 1) \div n = q /\ (a + 1) % n = m + 1
  <2>1. m + 1 \in 0 .. n - 1
    BY <1>1, <1>3, <1>4
  <2>2. a + 1 = n * q + (m + 1)
    <3> HIDE DEF a, q, m, n
    <3>1. n * q \in Int
      BY <1>1, <1>3
    <3>2. QED
      BY <1>1, <1>3, <3>1
  <2>3. QED
    <3> HIDE DEF a, q, m, n
    <3> DEFINE b == a + 1
               k == m + 1
    <3>1. b \in Int /\ k \in 0 .. n - 1 /\ b = n * q + k
      BY <1>1, <2>1, <2>2
    <3>2. b \div n = q /\ b % n = k
      <4> HIDE DEF b, k
      <4>1. QED
        BY ONLY <1>1, <1>3, <3>1, Quotient
    <3>3. QED
      BY <3>2
<1>5. ASSUME m + 1 = n PROVE (a + 1) \div n = q + 1 /\ (a + 1) % n = 0
  <2>1. a + 1 = n * (q + 1) + 0 /\ q + 1 \in Int /\ 0 \in 0 .. n - 1
    <3> HIDE DEF a, q, m, n
    <3>1. \A x, y \in Int : x * (y + 1) = x * y + x /\ x * y \in Int
      BY SMT
    <3>2. n * (q + 1) = n * q + n /\ n * q \in Int
      BY <1>1, <1>3, <3>1
    <3>3. QED
      BY <1>1, <1>3, <1>5, <3>2
  <2>2. QED
    <3> HIDE DEF a, q, m, n
    <3>1. a + 1 \in Int
      BY <1>1
    <3>2. QED
      BY ONLY <1>1, <2>1, <3>1, Quotient
<1>6. RouteOf(leg) = m + 1 /\ ItemOf(leg) = q
  BY DEF RouteOf, ItemOf
<1>7. RouteOf(leg + 1) = ((a + 1) % n) + 1 /\ ItemOf(leg + 1) = (a + 1) \div n
  BY <1>1 DEF RouteOf, ItemOf
<1>8. QED
  <2> HIDE DEF a, q, m
  <2>1. QED
    BY <1>1, <1>3, <1>4, <1>5, <1>6, <1>7

LEMMA FirstLeg == RouteOf(1) = 1 /\ ItemOf(1) = 0
<1>1. \A n \in Nat \ {0} : (1 - 1) % n = 0 /\ (1 - 1) \div n = 0
  OBVIOUS
<1>2. QED
  BY <1>1, RouteCountNat DEF RouteOf, ItemOf

\* A route replaces its target and leaves the other stream where it is.
LEMMA LastRouteStep ==
  ASSUME NEW r \in RouteIndex, NEW s \in Streams
  PROVE  LastRoute(s, r) = IF Routes[r].target = s THEN r ELSE LastRoute(s, r - 1)
<1>1. r \in Nat /\ r >= 1 /\ RouteCount \in Nat
  BY RouteCountNat DEF RouteIndex
<1>2. CASE Routes[r].target = s
  <2> DEFINE T == {0} \union {q \in 1 .. r : Routes[q].target = s}
  <2>1. r \in T /\ T \subseteq Int /\ \A x \in T : r >= x
    BY <1>1, <1>2
  <2>2. Max(T) = r
    BY <2>1, MaxOf
  <2>3. QED
    BY <1>2, <2>2 DEF LastRoute
<1>3. CASE Routes[r].target # s
  <2>1. {q \in 1 .. r : Routes[q].target = s} = {q \in 1 .. r - 1 : Routes[q].target = s}
    <3>1. \A q \in 1 .. r : q = r \/ q \in 1 .. r - 1
      BY <1>1
    <3>2. \A q \in 1 .. r - 1 : q \in 1 .. r
      BY <1>1
    <3>3. QED
      BY <1>3, <3>1, <3>2
  <2>2. QED
    BY <1>3, <2>1 DEF LastRoute
<1>4. QED
  BY <1>2, <1>3

LEMMA NoRouteYet ==
  ASSUME NEW s \in Streams
  PROVE  LastRoute(s, 0) = 0 /\ SlotOf(s, 0) = Home[s] /\ Home[s] \in Slots
<1>1. LastRoute(s, 0) = 0
  <2>1. 0 \in 0 .. RouteCount
    BY RouteCountNat
  <2>2. QED
    BY <2>1, LastRouteOf
<1>2. QED
  BY <1>1 DEF SlotOf, Home, Streams, Slots

\* Where stream s of item i is after k routes.
Place(i, s, k) ==
    IF SlotOf(s, k) = "dram" \/ (DirectInterleave /\ k = RouteCount)
    THEN Dram(i, s) ELSE Local(SlotOf(s, k), "rows")

\* What a route finds where, and what it leaves.
RouteFacts(r) ==
    /\ Routes[r] \in RouteType
    /\ Routes[r].source = SlotOf(Routes[r].operand, r - 1)
    /\ SlotOf(Routes[r].target, r - 1) \in Slots
    /\ Routes[r].kind = "lift" => Routes[r].base = SlotOf(Routes[r].target, r - 1)
    /\ Routes[r].kind = "scale" => Routes[r].operand = Routes[r].target
    /\ SlotOf(Routes[r].target, r) = Routes[r].output
    /\ \A i : Length(i, Routes[r].target, r) = GroupCount[Chunk(i)][r]
    /\ \A s \in Streams : s # Routes[r].target =>
         /\ SlotOf(s, r) = SlotOf(s, r - 1)
         /\ \A i : Length(i, s, r) = Length(i, s, r - 1)
    /\ \A s \in Streams : Routes[r].output \in Slots =>
                            Routes[r].output # SlotOf(s, r - 1)

LEMMA RoutesOK == ASSUME NEW r \in RouteIndex PROVE RouteFacts(r)
<1>1. Routes[r] \in RouteType
  BY RoutesAssumption DEF RouteIndex, RouteCount
<1>2. /\ Routes[r].source = SlotOf(Routes[r].operand, r - 1)
      /\ Routes[r].kind = "lift" => Routes[r].base = SlotOf(Routes[r].target, r - 1)
      /\ \A s \in Streams : Routes[r].output \in Slots =>
                              Routes[r].output # SlotOf(s, r - 1)
  BY SlotsAssumption
<1>3. Routes[r].kind = "scale" => Routes[r].operand = Routes[r].target
  BY RoutesAssumption
<1>4. SlotOf(Routes[r].target, r - 1) \in Slots
  BY <1>1, <1>2, <1>3 DEF RouteType
<1>5. Routes[r].target \in Streams /\ r # 0
  BY <1>1, RouteCountNat DEF RouteType, RouteIndex
<1>6. LastRoute(Routes[r].target, r) = r
  BY <1>5, LastRouteStep
<1>7. /\ SlotOf(Routes[r].target, r) = Routes[r].output
      /\ \A i : Length(i, Routes[r].target, r) = GroupCount[Chunk(i)][r]
  BY <1>5, <1>6 DEF SlotOf, Length
<1>8. \A s \in Streams : s # Routes[r].target => LastRoute(s, r) = LastRoute(s, r - 1)
  BY LastRouteStep
<1>9. \A s \in Streams : s # Routes[r].target =>
         /\ SlotOf(s, r) = SlotOf(s, r - 1)
         /\ \A i : Length(i, s, r) = Length(i, s, r - 1)
  BY <1>8 DEF SlotOf, Length
<1>10. QED
  BY <1>1, <1>2, <1>3, <1>4, <1>7, <1>9 DEF RouteFacts

\* No two work items have a place in DRAM in common.
LEMMA DramDistinct ==
  ASSUME NEW i \in Int, NEW j \in Int, NEW s, NEW t, Dram(i, s) = Dram(j, t)
  PROVE  i = j /\ s = t
<1>1. Sample(i) = Sample(j) /\ Chunk(i) = Chunk(j) /\ s = t
  BY DEF Dram
<1>2. Sample(i) \in Int
  <2>1. \A n \in Nat \ {0}, a \in Int : a \div n \in Int
    BY SMT
  <2>2. QED
    BY <2>1, SizesAssumption DEF Sample
<1>3. Sample(i) * ChunksPerSample \in Int
  BY <1>2, SizesAssumption
<1>4. QED
  BY <1>1, <1>3, SizesAssumption DEF Chunk

LEMMA DramElsewhere == \A i, s, slot, plane : Dram(i, s) # Local(slot, plane)
  BY DEF Dram, Local

-----------------------------------------------------------------------------
(***************************************************************************)
(* What is in every buffer, compared with what the writer's leg reads from *)
(* the slots, which do not change while it does (DInv).                    *)
(***************************************************************************)
Operands == {"source", "base"}

\* What an operand of group g is, and what becomes of its operands.
Operand(g, p) ==
    [c \in ReadWindow(wleg, g, p) |-> mem[Local(ReadSlot(wleg, p), "rows")][c]]

Value(g) ==
    IF Route(wleg).kind = "lift"
    THEN Lift(RouteOf(wleg), g, Operand(g, "source"), Operand(g, "source"),
              Operand(g, "base"))
    ELSE Scale(RouteOf(wleg), g, Operand(g, "base"))

\* Operands of the next group that are no longer in the buffers.
Taken(n) == IF Len(regs) >= n THEN 1 ELSE 0

BuffersOK ==
    /\ \A j \in 1 .. Len(src0) : src0[j] = Operand(Packed + Taken(1) + j, "source")
    /\ \A j \in 1 .. Len(src1) : src1[j] = Operand(Packed + Taken(2) + j, "source")
    /\ \A j \in 1 .. Len(base) : base[j] = Operand(Packed + Taken(3) + j, "base")

FetchedOK ==
    /\ (rpc \in {"base", "fetch"} /\ Route(rleg).kind = "lift"
           /\ "source" \notin pending) => fetched["source"] = Operand(rgrp, "source")
    /\ (rpc = "fetch" /\ "base" \notin pending)
         => fetched["base"] = Operand(rgrp, "base")

RegistersOK ==
    \A j \in 1 .. Len(regs) :
      regs[j] = Operand(cgrp, IF j = 3 THEN "base" ELSE "source")

RingOK ==
    \A i \in 0 .. count - 1 : page[(head + i) % Buffering] = Value(Popped + 1 + i)

WritesOK ==
    /\ \A w \in issued : w.cell = wgrp
    /\ \A w \in inflight : w.cell \in 1 .. Written /\ w.value = Value(w.cell)

\* What was written has landed or is on its way.
LandedOK ==
    wleg <= Legs /\ ~Direct(wleg) =>
      \A l \in Destinations(wleg), c \in 1 .. Written :
        \/ \E w \in issued \union inflight : w.loc = l /\ w.cell = c
        \/ mem[l][c] = Value(c)

LoadingOK ==
    /\ rpc \in {"even", "odd"} => RouteOf(rleg) = 1
    /\ rpc = "odd" => \A c \in 1 .. Len(Loaded(CurrentItem, "even")) :
                        mem[Local(Home["even"], "rows")][c]
                          = Loaded(CurrentItem, "even")[c]

\* The interleave at the end of an item, directly or from the slots.
InterleaveOK ==
    wleg <= Legs =>
      /\ Direct(wleg) => inflight = {}
      /\ (Direct(wleg) /\ wpc = "take") => wgrp = 1
      /\ (Direct(wleg) /\ wpc = "barrier") =>
           \A s \in Streams :
             mem[Dram(CurrentItem, s)][1] =
               (IF s = Route(wleg).target THEN Value(1) ELSE Final(s)[1])
      /\ wpc = "emit" => IsInverse /\ ~Direct(wleg) /\ RouteOf(wleg) = RouteCount
      /\ (IsInverse /\ ~Direct(wleg) /\ RouteOf(wleg) = RouteCount
            /\ wpc \in {"emit", "signal"}) =>
           \A s \in Streams : \A c \in 1 .. FinalLength(CurrentItem, s) :
             (wpc = "signal" \/ c < wgrp) => mem[Dram(CurrentItem, s)][c] = Final(s)[c]

DInv ==
    /\ BuffersOK /\ FetchedOK /\ RegistersOK /\ RingOK
    /\ WritesOK /\ LandedOK /\ LoadingOK /\ InterleaveOK

(***************************************************************************)
(* The leg the writer is on.                                               *)
(***************************************************************************)
LEMMA WriterLeg ==
  ASSUME IInv, wleg <= Legs
  PROVE  /\ wleg \in 1 .. Legs /\ wleg # Legs + 1 /\ RouteOf(wleg) \in RouteIndex
         /\ RouteFacts(RouteOf(wleg)) /\ Route(wleg) = Routes[RouteOf(wleg)]
         /\ CurrentItem \in 0 .. ItemCount - 1 /\ CurrentItem = ItemOf(wleg)
         /\ Groups(wleg) \in 1 .. MaxGroups
<1>1. wleg \in 1 .. Legs /\ Legs \in Nat
  BY LegsNat DEF IInv, TypeOK
<1>2. QED
  BY <1>1, LegParts, RoutesOK, GroupsOfLeg DEF Route, CurrentItem

LEMMA LegEntered ==
  ASSUME IInv, rpc \notin {"sync", "done"}
  PROVE  rleg = wleg /\ wleg <= Legs
<1>1. rleg = wleg /\ ~(rleg > Legs) /\ rleg \in Int /\ Legs \in Int
  BY LegsNat DEF IInv, Lockstep, TypeOK
<1>2. QED
  BY <1>1

\* While the slots it reads do not change, its operands do not.
LEMMA OperandsKept ==
  ASSUME wleg' = wleg,
         \A p \in Operands : mem'[Local(ReadSlot(wleg, p), "rows")]
                               = mem[Local(ReadSlot(wleg, p), "rows")]
  PROVE  /\ \A g, p : p \in Operands => Operand(g, p)' = Operand(g, p)
         /\ \A g : Value(g)' = Value(g)
<1>1. \A g, p : p \in Operands => Operand(g, p)' = Operand(g, p)
  BY DEF Operand
<1>2. \A g : Operand(g, "source")' = Operand(g, "source")
             /\ Operand(g, "base")' = Operand(g, "base")
  BY <1>1 DEF Operands
<1>3. \A g : Value(g)' = Value(g)
  BY <1>2 DEF Value
<1>4. QED
  BY <1>1, <1>3

LEMMA ReadSlotTyped ==
  ASSUME IInv, wleg <= Legs, NEW p \in Operands
  PROVE  ReadSlot(wleg, p) \in Slots
  BY WriterLeg DEF RouteFacts, RouteType, ReadSlot

(***************************************************************************)
(* Parts of the invariant that a step leaves alone.                        *)
(***************************************************************************)
LEMMA BuffersKept ==
  ASSUME BuffersOK, UNCHANGED <<inputs, regs>>, Packed' = Packed,
         \A g, p : p \in Operands => Operand(g, p)' = Operand(g, p)
  PROVE  BuffersOK'
<1>1. /\ \A g : Operand(g, "source")' = Operand(g, "source")
      /\ \A g : Operand(g, "base")' = Operand(g, "base")
  BY DEF Operands
<1>2. Taken(1)' = Taken(1) /\ Taken(2)' = Taken(2) /\ Taken(3)' = Taken(3)
  BY DEF Taken
<1>3. QED
  BY <1>1, <1>2 DEF BuffersOK

LEMMA FetchedKept ==
  ASSUME FetchedOK, UNCHANGED <<rvars, pending, fetched>>,
         \A g, p : p \in Operands => Operand(g, p)' = Operand(g, p)
  PROVE  FetchedOK'
<1>1. /\ \A g : Operand(g, "source")' = Operand(g, "source")
      /\ \A g : Operand(g, "base")' = Operand(g, "base")
  BY DEF Operands
<1>2. Operand(rgrp, "source")' = Operand(rgrp, "source")
      /\ Operand(rgrp, "base")' = Operand(rgrp, "base")
  <2>1. \A g : rgrp' = g => Operand(rgrp, "source")' = Operand(g, "source")
                            /\ Operand(rgrp, "base")' = Operand(g, "base")
    BY <1>1
  <2>2. QED
    BY <2>1
<1>3. QED
  BY <1>2 DEF FetchedOK

LEMMA RegistersKept ==
  ASSUME RegistersOK, UNCHANGED <<regs, cgrp>>,
         \A g, p : p \in Operands => Operand(g, p)' = Operand(g, p)
  PROVE  RegistersOK'
<1> DEFINE P(j) == IF j = 3 THEN "base" ELSE "source"
<1>1. \A j : P(j) \in Operands
  BY DEF Operands
<1>2. \A g, j : g = cgrp' => Operand(g, P(j))' = Operand(g, P(j))
  BY <1>1
<1>3. \A j : Operand(cgrp, P(j))' = Operand(cgrp, P(j))
  <2>1. \A g, j : g = cgrp' => Operand(cgrp, P(j))' = Operand(g, P(j))
    BY <1>2
  <2>2. QED
    BY <2>1
<1>4. QED
  BY <1>3 DEF RegistersOK

LEMMA RingKept ==
  ASSUME RingOK, UNCHANGED ring, Popped' = Popped, \A g : Value(g)' = Value(g)
  PROVE  RingOK'
<1>1. \A i, g : g = Popped' + 1 + i => Value(Popped + 1 + i)' = Value(g)
  BY Zenon
<1>2. QED
  BY <1>1 DEF RingOK

LEMMA WritesKept ==
  ASSUME WritesOK, UNCHANGED <<noc, wgrp>>, Written' = Written,
         \A g : Value(g)' = Value(g)
  PROVE  WritesOK'
  BY DEF WritesOK

LEMMA LandedKept ==
  ASSUME LandedOK, UNCHANGED <<noc, wleg>>, Written' = Written,
         \A l \in Destinations(wleg) : mem'[l] = mem[l],
         \A g : Value(g)' = Value(g)
  PROVE  LandedOK'
  BY DEF LandedOK

LEMMA LoadingKept ==
  ASSUME LoadingOK, UNCHANGED <<rpc, rleg, wleg>>,
         rpc = "odd" => mem'[Local(Home["even"], "rows")] = mem[Local(Home["even"], "rows")]
  PROVE  LoadingOK'
  BY DEF LoadingOK, CurrentItem

\* A final stream is in a slot, unless it is in DRAM.
LEMMA InterleaveKept ==
  ASSUME InterleaveOK, UNCHANGED <<wvars, mem, noc>>, \A g : Value(g)' = Value(g)
  PROVE  InterleaveOK'
<1>1. \A s : Final(s)' = Final(s)
  BY DEF Final
<1>2. CurrentItem' = CurrentItem
  BY DEF CurrentItem
<1>3. QED
  BY <1>1, <1>2 DEF InterleaveOK

LEMMA InitDInv == Init => DInv
<1> SUFFICES ASSUME Init PROVE DInv
  OBVIOUS
<1>1. /\ Len(src0) = 0 /\ Len(src1) = 0 /\ Len(base) = 0 /\ Len(regs) = 0
      /\ count = 0 /\ issued = {} /\ inflight = {} /\ rpc = "even"
      /\ rleg = 1 /\ wleg = 1 /\ wpc = "take" /\ wgrp = 1
  BY EmptyIsSeq DEF Init
<1>2. Written = 0
  BY <1>1 DEF Written
<1>3. BuffersOK /\ FetchedOK /\ RegistersOK
  BY <1>1 DEF BuffersOK, FetchedOK, RegistersOK
<1>4. RingOK /\ WritesOK /\ LandedOK
  BY <1>1, <1>2 DEF RingOK, WritesOK, LandedOK
<1>5. LoadingOK /\ InterleaveOK
  BY <1>1, FirstLeg DEF LoadingOK, InterleaveOK
<1>6. QED
  BY <1>3, <1>4, <1>5 DEF DInv

-----------------------------------------------------------------------------
(***************************************************************************)
(* Reader.                                                                 *)
(***************************************************************************)
LEMMA Still ==
  ASSUME UNCHANGED <<mem, wleg>>
  PROVE  /\ \A g, p : p \in Operands => Operand(g, p)' = Operand(g, p)
         /\ \A g : Value(g)' = Value(g)
  BY OperandsKept

LEMMA RSyncExact == ASSUME IInv, DInv, RSync PROVE DInv'
<1> USE DEF DInv
<1>1. /\ UNCHANGED <<rleg, rgrp, pending, fetched, inputs, cvars, ring, wvars, noc, mem>>
      /\ rpc' = IF RouteOf(rleg) = 1 THEN "even" ELSE Start(rleg)
  BY DEF RSync
<1>2. /\ \A g, p : p \in Operands => Operand(g, p)' = Operand(g, p)
      /\ \A g : Value(g)' = Value(g)
  BY <1>1, Still
<1>3. Packed' = Packed /\ Popped' = Popped /\ Written' = Written
  BY <1>1 DEF Packed, Popped, Written
<1>4. BuffersOK' /\ RegistersOK' /\ RingOK' /\ WritesOK'
  BY <1>1, <1>2, <1>3, BuffersKept, RegistersKept, RingKept, WritesKept
<1>5. LandedOK' /\ InterleaveOK'
  BY <1>1, <1>2, <1>3, LandedKept, InterleaveKept
<1>6. FetchedOK'
  BY <1>1 DEF FetchedOK, Start
<1>7. LoadingOK'
  BY <1>1 DEF LoadingOK, Start
<1>8. QED
  BY <1>4, <1>5, <1>6, <1>7

\* Before the first group is pushed, nothing is anywhere.
LEMMA NothingYet ==
  ASSUME IInv, rleg = wleg, rgrp = 1, rleg <= Legs
  PROVE  /\ Len(src0) = 0 /\ Len(src1) = 0 /\ Len(base) = 0 /\ Len(regs) = 0
         /\ count = 0 /\ Written = 0 /\ wpc = "take" /\ wgrp = 1
         /\ issued = {} /\ inflight = {}
<1> USE DEF IInv
<1>1. issued = {} /\ inflight = {} /\ wpc = "take" /\ wgrp = 1
  BY FreshLeg
<1>2. /\ {Len(src0), Len(src1), Len(base), Len(regs), count} \subseteq Nat
      /\ {Pushed, Packed, Popped} \subseteq Nat /\ Popped <= Packed /\ Packed <= Pushed
      /\ {rleg, wleg} \subseteq Nat /\ Legs \in Nat
  <2>1. /\ {rleg, cleg, wleg} \subseteq 1 .. Legs + 1 /\ Legs \in Nat
        /\ {Len(src0), Len(src1), Len(base), Len(regs), count} \subseteq Nat
        /\ {Pushed, Packed, Popped} \subseteq Nat /\ Popped <= Packed /\ Packed <= Pushed
    BY PipelineOrder
  <2>2. QED
    BY <2>1
<1>3. Pushed = 0
  BY <1>2 DEF Pushed
<1>4. Packed = 0 /\ Popped = 0
  BY <1>2, <1>3
<1>5. count = 0 /\ Len(base) = 0
  <2>1. count = Packed - Popped
    BY DEF Conservation
  <2>2. Len(base) = Pushed - Packed \/ Len(base) = Pushed - Packed - 1
    BY <1>2 DEF Conservation
  <2>3. QED
    BY <1>2, <1>3, <1>4, <2>1, <2>2
<1>6. wleg <= Legs /\ ~(wleg > Legs)
  BY <1>2
<1>7. Route(wleg).kind \in {"lift", "scale"}
  BY <1>6, WriterLeg DEF RouteFacts, RouteType
<1>8. Len(src0) = 0 /\ Len(src1) = 0 /\ Len(regs) = 0
  <2>1. CASE Route(wleg).kind = "scale"
    BY <2>1 DEF Conservation
  <2>2. CASE Route(wleg).kind = "lift"
    <3>1. /\ Len(src0) = Pushed - Packed - (IF Len(regs) >= 1 THEN 1 ELSE 0)
          /\ Len(src1) = Pushed - Packed - (IF Len(regs) >= 2 THEN 1 ELSE 0)
      BY <1>6, <2>2 DEF Conservation
    <3>2. Len(regs) = 0
      BY <1>2, <1>3, <1>4, <3>1
    <3>3. QED
      BY <1>3, <1>4, <3>1, <3>2
  <2>3. QED
    BY <1>7, <2>1, <2>2
<1>9. Written = 0
  BY <1>1 DEF Written
<1>10. QED
  BY <1>1, <1>5, <1>8, <1>9

LEMMA RLoadExact ==
  ASSUME IInv, DInv, NEW s \in Streams, RLoad(s)
  PROVE  DInv'
<1> USE DEF DInv
<1>1. /\ rpc \in {"even", "odd"} /\ rpc = s
      /\ UNCHANGED <<rleg, rgrp, pending, fetched, inputs, cvars, ring, wvars, noc>>
      /\ rpc' = IF s = "even" THEN "odd" ELSE Start(rleg)
      /\ mem' = [mem EXCEPT ![Local(Home[s], "rows")] =
                   [c \in Cells |-> IF c <= Len(Loaded(ItemOf(rleg), s))
                                    THEN Loaded(ItemOf(rleg), s)[c] ELSE @[c]]]
  BY DEF RLoad, Streams
<1>2. rleg = wleg /\ wleg <= Legs
  BY <1>1, LegEntered
<1>3. rgrp = 1
  BY <1>1 DEF IInv, Lockstep
<1>4. /\ Len(src0) = 0 /\ Len(src1) = 0 /\ Len(base) = 0 /\ Len(regs) = 0
      /\ count = 0 /\ Written = 0 /\ wpc = "take" /\ wgrp = 1
      /\ issued = {} /\ inflight = {}
  BY <1>2, <1>3, NothingYet
<1>5. Written' = 0
  BY <1>1, <1>4 DEF Written
<1>6. BuffersOK' /\ RegistersOK' /\ RingOK'
  BY <1>1, <1>4 DEF BuffersOK, RegistersOK, RingOK
<1>7. WritesOK' /\ LandedOK'
  BY <1>1, <1>4, <1>5 DEF WritesOK, LandedOK
<1>8. FetchedOK'
  BY <1>1 DEF FetchedOK, Start
<1>9. LoadingOK'
  <2>1. RouteOf(rleg') = 1
    BY <1>1 DEF LoadingOK
  <2>2. ASSUME rpc' = "odd", NEW c \in 1 .. Len(Loaded(CurrentItem, "even"))
        PROVE  mem'[Local(Home["even"], "rows")][c] = Loaded(CurrentItem, "even")[c]
    <3>1. s = "even"
      BY <1>1, <2>2 DEF Start
    <3>2. Len(Loaded(CurrentItem, "even")) \in Cells
      <4>1. Length(CurrentItem, "even", 0) \in Cells
        <5>1. CurrentItem \in 0 .. ItemCount - 1 /\ "even" \in Streams
              /\ 0 \in 0 .. RouteCount
          BY <1>2, WriterLeg, RouteCountNat DEF Streams
        <5>2. QED
          BY <5>1, GroupsAssumption
      <4>2. QED
        BY <4>1, NoRouteYet DEF Length, Streams
    <3>3. c \in Cells /\ c <= Len(Loaded(CurrentItem, "even"))
      BY <3>2, SizesAssumption DEF Cells
    <3>4. Local(Home["even"], "rows") \in DOMAIN mem
      BY NoRouteYet DEF IInv, TypeOK, Locations, Planes, Streams
    <3>5. ItemOf(rleg) = CurrentItem
      BY <1>2 DEF CurrentItem
    <3>6. mem'[Local(Home["even"], "rows")] =
            [d \in Cells |-> IF d <= Len(Loaded(CurrentItem, "even"))
                             THEN Loaded(CurrentItem, "even")[d]
                             ELSE mem[Local(Home["even"], "rows")][d]]
      BY <1>1, <3>1, <3>4, <3>5
    <3>7. QED
      BY <3>3, <3>6
  <2>3. CurrentItem' = CurrentItem
    BY <1>1 DEF CurrentItem
  <2>4. QED
    BY <2>1, <2>2, <2>3 DEF LoadingOK
<1>10. InterleaveOK'
  BY <1>1, <1>4 DEF InterleaveOK
<1>11. QED
  BY <1>6, <1>7, <1>8, <1>9, <1>10

LEMMA RSourceExact == ASSUME IInv, DInv, RSource PROVE DInv'
<1> USE DEF DInv
<1>1. /\ UNCHANGED <<rleg, rgrp, fetched, inputs, cvars, ring, wvars, noc, mem>>
      /\ rpc = "source" /\ rpc' = "base" /\ pending' = {"source"}
  BY DEF RSource
<1>2. /\ \A g, p : p \in Operands => Operand(g, p)' = Operand(g, p)
      /\ \A g : Value(g)' = Value(g)
  BY <1>1, Still
<1>3. Packed' = Packed /\ Popped' = Popped /\ Written' = Written
  BY <1>1 DEF Packed, Popped, Written
<1>4. BuffersOK' /\ RegistersOK' /\ RingOK' /\ WritesOK'
  BY <1>1, <1>2, <1>3, BuffersKept, RegistersKept, RingKept, WritesKept
<1>5. LandedOK' /\ InterleaveOK'
  BY <1>1, <1>2, <1>3, LandedKept, InterleaveKept
<1>6. FetchedOK' /\ LoadingOK'
  BY <1>1 DEF FetchedOK, LoadingOK
<1>7. QED
  BY <1>4, <1>5, <1>6

LEMMA RBaseExact == ASSUME IInv, DInv, RBase PROVE DInv'
<1> USE DEF DInv
<1>1. /\ UNCHANGED <<rleg, rgrp, fetched, inputs, cvars, ring, wvars, noc, mem>>
      /\ rpc = "base" /\ rpc' = "fetch" /\ pending' = pending \union {"base"}
  BY DEF RBase
<1>2. /\ \A g, p : p \in Operands => Operand(g, p)' = Operand(g, p)
      /\ \A g : Value(g)' = Value(g)
  BY <1>1, Still
<1>3. Packed' = Packed /\ Popped' = Popped /\ Written' = Written
  BY <1>1 DEF Packed, Popped, Written
<1>4. BuffersOK' /\ RegistersOK' /\ RingOK' /\ WritesOK'
  BY <1>1, <1>2, <1>3, BuffersKept, RegistersKept, RingKept, WritesKept
<1>5. LandedOK' /\ InterleaveOK'
  BY <1>1, <1>2, <1>3, LandedKept, InterleaveKept
<1>6. FetchedOK'
  <2>1. Operand(rgrp, "source")' = Operand(rgrp, "source")
    <3>1. \A g : rgrp' = g => Operand(rgrp, "source")' = Operand(g, "source")
      BY <1>2 DEF Operands
    <3>2. QED
      BY <1>1, <3>1
  <2>2. QED
    BY <1>1, <2>1 DEF FetchedOK
<1>7. LoadingOK'
  BY <1>1 DEF LoadingOK
<1>8. QED
  BY <1>4, <1>5, <1>6, <1>7

\* A read brings what the rows hold, although it may come from the mirror.
LEMMA NocReadExact ==
  ASSUME IInv, MInv, DInv, NEW p \in Operands, NocRead(p)
  PROVE  DInv'
<1> USE DEF DInv
<1>1. /\ UNCHANGED <<rvars, inputs, cvars, ring, wvars, noc, mem>>
      /\ p \in pending /\ pending' = pending \ {p}
  BY DEF NocRead
<1>2. /\ \A g, q : q \in Operands => Operand(g, q)' = Operand(g, q)
      /\ \A g : Value(g)' = Value(g)
  BY <1>1, Still
<1>3. Packed' = Packed /\ Popped' = Popped /\ Written' = Written
  BY <1>1 DEF Packed, Popped, Written
<1>4. BuffersOK' /\ RegistersOK' /\ RingOK' /\ WritesOK'
  BY <1>1, <1>2, <1>3, BuffersKept, RegistersKept, RingKept, WritesKept
<1>5. LandedOK' /\ InterleaveOK'
  BY <1>1, <1>2, <1>3, LandedKept, InterleaveKept
<1>6. LoadingOK'
  BY <1>1, LoadingKept
<1>7. rpc \in {"base", "fetch"} /\ rleg = wleg /\ wleg <= Legs
  <2>1. rpc \in {"base", "fetch"}
    BY <1>1 DEF IInv, Lockstep
  <2>2. QED
    BY <2>1, LegEntered
<1>8. PICK plane \in ReadPlanes(rleg, p) :
        fetched' = [fetched EXCEPT ![p] =
                      [c \in ReadWindow(rleg, rgrp, p) |->
                         mem[Local(ReadSlot(rleg, p), plane)][c]]]
  BY DEF NocRead
<1>9. \A c \in ReadWindow(rleg, rgrp, p) :
        mem[Local(ReadSlot(rleg, p), plane)][c] = mem[Local(ReadSlot(rleg, p), "rows")][c]
  <2>1. CASE plane = "rows"
    BY <2>1
  <2>2. CASE plane # "rows"
    <3>1. plane = "mirror" /\ Mirrored(rleg, ReadSlot(rleg, p))
      BY <2>2 DEF ReadPlanes
    <3>2. MirrorCoherent
      BY MirrorCoherentFromMInv
    <3>3. QED
      BY <1>7, <3>1, <3>2 DEF MirrorCoherent, Operands
  <2>3. QED
    BY <2>1, <2>2
<1>10. fetched'[p] = Operand(rgrp, p)
  <2>1. p \in DOMAIN fetched
    BY DEF IInv, TypeOK, Operands
  <2>2. fetched'[p] = [c \in ReadWindow(rleg, rgrp, p) |->
                         mem[Local(ReadSlot(rleg, p), plane)][c]]
    BY <1>8, <2>1
  <2>3. QED
    BY <1>7, <1>9, <2>2 DEF Operand
<1>11. \A q \in Operands : q # p => fetched'[q] = fetched[q]
  BY <1>8 DEF Operands, IInv, TypeOK
<1>12. Operand(rgrp, "source")' = Operand(rgrp, "source")
       /\ Operand(rgrp, "base")' = Operand(rgrp, "base")
  <2>1. \A g : rgrp' = g => Operand(rgrp, "source")' = Operand(g, "source")
                            /\ Operand(rgrp, "base")' = Operand(g, "base")
    BY <1>2 DEF Operands
  <2>2. QED
    BY <1>1, <2>1
<1>13. FetchedOK'
  <2>1. CASE p = "source"
    BY <1>1, <1>10, <1>11, <1>12, <2>1 DEF FetchedOK, Operands
  <2>2. CASE p = "base"
    BY <1>1, <1>10, <1>11, <1>12, <2>2 DEF FetchedOK, Operands
  <2>3. QED
    BY <2>1, <2>2 DEF Operands
<1>14. QED
  BY <1>4, <1>5, <1>6, <1>13

LEMMA RPushExact == ASSUME IInv, DInv, RPush PROVE DInv'
<1> USE DEF DInv
<1>1. /\ UNCHANGED <<pending, cvars, ring, wvars, noc, mem>>
      /\ rpc = "fetch" /\ pending = {}
      /\ IF Route(rleg).kind = "lift"
         THEN /\ src0' = Append(src0, fetched["source"])
              /\ src1' = Append(src1, fetched["source"])
         ELSE UNCHANGED <<src0, src1>>
      /\ base' = Append(base, fetched["base"])
      /\ rpc' \in {"source", "base", "sync", "done"}
      /\ rpc' = "base" => Route(rleg').kind # "lift"
  BY DEF RPush, Start
<1>2. /\ \A g, p : p \in Operands => Operand(g, p)' = Operand(g, p)
      /\ \A g : Value(g)' = Value(g)
  BY <1>1, Still
<1>3. Packed' = Packed /\ Popped' = Popped /\ Written' = Written
  BY <1>1 DEF Packed, Popped, Written
<1>4. RegistersOK' /\ RingOK' /\ WritesOK'
  BY <1>1, <1>2, <1>3, RegistersKept, RingKept, WritesKept
<1>5. LandedOK' /\ InterleaveOK'
  BY <1>1, <1>2, <1>3, LandedKept, InterleaveKept
<1>6. FetchedOK' /\ LoadingOK'
  BY <1>1 DEF FetchedOK, LoadingOK
<1>7. rleg = wleg /\ wleg <= Legs /\ rgrp \in Nat /\ Pushed = rgrp - 1 /\ Packed \in Nat
  <2>1. rleg = wleg /\ wleg <= Legs
    BY <1>1, LegEntered
  <2>2. {rgrp, cgrp, wgrp} \subseteq Nat \ {0} /\ {Pushed, Packed, Popped} \subseteq Nat
        /\ {rleg, cleg, wleg} \subseteq 1 .. Legs + 1
    BY PipelineOrder
  <2>3. QED
    BY <2>1, <2>2 DEF Pushed
<1>8. /\ Len(base) = rgrp - 1 - Packed - Taken(3)
      /\ Route(wleg).kind = "lift" => /\ Len(src0) = rgrp - 1 - Packed - Taken(1)
                                      /\ Len(src1) = rgrp - 1 - Packed - Taken(2)
  <2>1. Len(regs) \in 0 .. 3
    BY DEF IInv, TypeOK
  <2>2. Len(regs) = 3 <=> Len(regs) >= 3
    <3>1. \A n \in 0 .. 3 : n = 3 <=> n >= 3
      OBVIOUS
    <3>2. QED
      BY <2>1, <3>1
  <2>3. QED
    BY <1>7, <2>2 DEF IInv, Conservation, Taken
<1>9. {Taken(1), Taken(2), Taken(3)} \subseteq Nat
  BY DEF Taken
<1>10. /\ fetched["base"] = Operand(rgrp, "base")
       /\ Route(wleg).kind = "lift" => fetched["source"] = Operand(rgrp, "source")
  BY <1>1, <1>7 DEF FetchedOK
<1>11. IsSeq(src0) /\ IsSeq(src1) /\ IsSeq(base)
  BY DEF IInv, Buffers
<1>12. Taken(1)' = Taken(1) /\ Taken(2)' = Taken(2) /\ Taken(3)' = Taken(3)
  BY <1>1 DEF Taken
<1> DEFINE Holds(q, n, p) == \A j \in 1 .. Len(q) : q[j] = Operand(Packed + n + j, p)
<1>13. ASSUME NEW q, NEW e, NEW n \in Nat, NEW p \in Operands, IsSeq(q),
              e = Operand(rgrp, p), Len(q) = rgrp - 1 - Packed - n, Holds(q, n, p)
       PROVE  Holds(Append(q, e), n, p)
  <2>1. /\ Len(Append(q, e)) = Len(q) + 1 /\ Append(q, e)[Len(q) + 1] = e
        /\ Len(q) \in Nat /\ \A j \in 1 .. Len(q) : Append(q, e)[j] = q[j]
    BY <1>13, AppendIsSeq, AppendElements
  <2>2. Packed + n + (Len(q) + 1) = rgrp
    BY <1>7, <1>13, <2>1
  <2>3. \A j \in 1 .. Len(q) + 1 : j \in 1 .. Len(q) \/ j = Len(q) + 1
    BY <2>1
  <2>4. QED
    BY <1>13, <2>1, <2>2, <2>3
<1>14. BuffersOK'
  <2>1. Holds(base', Taken(3), "base")
    <3>1. Holds(base, Taken(3), "base")
      BY DEF BuffersOK
    <3>2. "base" \in Operands /\ Taken(3) \in Nat
      BY <1>9 DEF Operands
    <3>3. base' = Append(base, fetched["base"])
      BY <1>1
    <3> HIDE DEF Holds
    <3>4. QED
      BY ONLY <1>8, <1>10, <1>11, <1>13, <3>1, <3>2, <3>3
  <2>2. /\ Holds(src0', Taken(1), "source")
        /\ Holds(src1', Taken(2), "source")
    <3>1. /\ Holds(src0, Taken(1), "source")
          /\ Holds(src1, Taken(2), "source")
      BY DEF BuffersOK
    <3>2. CASE Route(wleg).kind = "lift"
      <4>1. src0' = Append(src0, fetched["source"]) /\ src1' = Append(src1, fetched["source"])
        BY <1>1, <1>7, <3>2
      <4>2. "source" \in Operands /\ Taken(1) \in Nat /\ Taken(2) \in Nat
        BY <1>9 DEF Operands
      <4> HIDE DEF Holds
      <4>3. Holds(src0', Taken(1), "source")
        BY ONLY <1>8, <1>10, <1>11, <1>13, <3>1, <3>2, <4>1, <4>2
      <4>4. Holds(src1', Taken(2), "source")
        BY ONLY <1>8, <1>10, <1>11, <1>13, <3>1, <3>2, <4>1, <4>2
      <4>5. QED
        BY <4>3, <4>4
    <3>3. CASE Route(wleg).kind # "lift"
      BY <1>1, <1>7, <3>1, <3>3
    <3>4. QED
      BY <3>2, <3>3
  <2>3. /\ \A g : Operand(g, "source")' = Operand(g, "source")
        /\ \A g : Operand(g, "base")' = Operand(g, "base")
    BY <1>2 DEF Operands
  <2>4. QED
    BY <1>3, <1>12, <2>1, <2>2, <2>3 DEF BuffersOK
<1>15. QED
  BY <1>4, <1>5, <1>6, <1>14

-----------------------------------------------------------------------------
(***************************************************************************)
(* Compute.                                                                *)
(***************************************************************************)
LEMMA TailOperands ==
  ASSUME NEW q, IsSeq(q), q # <<>>, NEW m \in Int, NEW p,
         \A j \in 1 .. Len(q) : q[j] = Operand(m + j, p)
  PROVE  /\ Head(q) = Operand(m + 1, p)
         /\ \A j \in 1 .. Len(Tail(q)) : Tail(q)[j] = Operand(m + 1 + j, p)
<1>1. /\ Len(Tail(q)) = Len(q) - 1 /\ Len(q) > 0 /\ Head(q) = q[1]
      /\ \A j \in 1 .. Len(q) - 1 : Tail(q)[j] = q[j + 1]
  BY TailIsSeq, TailElements
<1>2. PICK S : q \in Seq(S)
  BY DEF IsSeq
<1>3. Len(q) \in Nat
  BY <1>2
<1>4. 1 \in 1 .. Len(q)
  BY <1>1, <1>3
<1>5. \A j \in 1 .. Len(q) - 1 : j + 1 \in 1 .. Len(q) /\ m + (j + 1) = m + 1 + j
  BY <1>3
<1>6. QED
  BY <1>1, <1>4, <1>5

LEMMA ComputeLeg ==
  ASSUME IInv, \/ Len(src0) > 0 \/ Len(src1) > 0 \/ Len(base) > 0 \/ Len(regs) > 0
  PROVE  /\ cleg = wleg /\ wleg <= Legs /\ cgrp \in Nat /\ Packed = cgrp - 1
         /\ Popped \in Nat /\ count \in Nat /\ count = Packed - Popped
<1>1. /\ cleg = wleg /\ wleg <= Legs
      /\ {rgrp, cgrp, wgrp} \subseteq Nat \ {0} /\ {rleg, cleg, wleg} \subseteq 1 .. Legs + 1
      /\ {Len(src0), Len(src1), Len(base), Len(regs), count} \subseteq Nat
      /\ {Pushed, Packed, Popped} \subseteq Nat
  BY PipelineOrder
<1>2. Packed = cgrp - 1
  BY <1>1 DEF Packed
<1>3. QED
  BY <1>1, <1>2 DEF IInv, Conservation

\* A kernel that only moves operands changes nothing else.
LEMMA TakeFrame ==
  ASSUME IInv, DInv,
         UNCHANGED <<rvars, pending, fetched, cleg, cgrp, ring, wvars, noc, mem>>
  PROVE  /\ FetchedOK' /\ RingOK' /\ WritesOK' /\ LandedOK' /\ LoadingOK' /\ InterleaveOK'
         /\ \A g, p : p \in Operands => Operand(g, p)' = Operand(g, p)
         /\ Packed' = Packed
<1> USE DEF DInv
<1>1. /\ \A g, p : p \in Operands => Operand(g, p)' = Operand(g, p)
      /\ \A g : Value(g)' = Value(g)
  BY Still
<1>2. Packed' = Packed /\ Popped' = Popped /\ Written' = Written
  BY DEF Packed, Popped, Written
<1>3. FetchedOK' /\ RingOK' /\ WritesOK'
  BY <1>1, <1>2, FetchedKept, RingKept, WritesKept
<1>4. LandedOK' /\ LoadingOK' /\ InterleaveOK'
  BY <1>1, <1>2, LandedKept, LoadingKept, InterleaveKept
<1>5. QED
  BY <1>1, <1>2, <1>3, <1>4

\* What the buffers and registers hold, without the current values.
HoldBuffers(q0, q1, q2, n0, n1, n2) ==
    /\ \A j \in 1 .. Len(q0) : q0[j] = Operand(n0 + j, "source")
    /\ \A j \in 1 .. Len(q1) : q1[j] = Operand(n1 + j, "source")
    /\ \A j \in 1 .. Len(q2) : q2[j] = Operand(n2 + j, "base")

LEMMA BuffersHeld ==
  ASSUME \A g, p : p \in Operands => Operand(g, p)' = Operand(g, p)
  PROVE  /\ BuffersOK <=> HoldBuffers(src0, src1, base, Packed + Taken(1),
                                      Packed + Taken(2), Packed + Taken(3))
         /\ BuffersOK' <=> HoldBuffers(src0', src1', base', Packed' + Taken(1)',
                                       Packed' + Taken(2)', Packed' + Taken(3)')
<1>1. /\ \A g : Operand(g, "source")' = Operand(g, "source")
      /\ \A g : Operand(g, "base")' = Operand(g, "base")
  BY DEF Operands
<1>2. QED
  BY <1>1 DEF BuffersOK, HoldBuffers

LEMMA CTake0Exact == ASSUME IInv, DInv, CTake0 PROVE DInv'
<1> USE DEF DInv
<1>1. /\ UNCHANGED <<rvars, pending, fetched, src1, base, cleg, cgrp, ring, wvars, noc, mem>>
      /\ Len(regs) = 0 /\ src0 # <<>> /\ regs' = <<Head(src0)>> /\ src0' = Tail(src0)
  BY DEF CTake0
<1>2. /\ FetchedOK' /\ RingOK' /\ WritesOK' /\ LandedOK' /\ LoadingOK' /\ InterleaveOK'
      /\ \A g, p : p \in Operands => Operand(g, p)' = Operand(g, p)
      /\ Packed' = Packed
  BY <1>1, TakeFrame
<1>3. IsSeq(src0) /\ Len(src0) > 0
  BY <1>1, TailIsSeq DEF IInv, Buffers
<1>4. Packed = cgrp - 1 /\ cgrp \in Nat
  BY <1>3, ComputeLeg
<1>5. Len(regs') = 1 /\ regs'[1] = Head(src0)
  BY <1>1, SingletonIsSeq
<1>6. /\ Taken(1) = 0 /\ Taken(2) = 0 /\ Taken(3) = 0
      /\ Taken(1)' = 1 /\ Taken(2)' = 0 /\ Taken(3)' = 0
  BY <1>1, <1>5 DEF Taken
<1>7. HoldBuffers(src0, src1, base, Packed, Packed, Packed)
  BY <1>2, <1>4, <1>6, BuffersHeld
<1>8. /\ Head(src0) = Operand(Packed + 1, "source")
      /\ \A j \in 1 .. Len(Tail(src0)) : Tail(src0)[j] = Operand(Packed + 1 + j, "source")
  BY <1>1, <1>3, <1>4, <1>7, TailOperands DEF HoldBuffers
<1>9. BuffersOK'
  <2>1. HoldBuffers(src0', src1', base', Packed + 1, Packed, Packed)
    BY <1>1, <1>7, <1>8 DEF HoldBuffers
  <2>2. QED
    BY <1>2, <1>4, <1>6, <2>1, BuffersHeld
<1>10. RegistersOK'
  <2>1. \A j \in 1 .. Len(regs') : j = 1
    BY <1>5
  <2>2. regs'[1] = Operand(cgrp, "source")
    BY <1>4, <1>5, <1>8
  <2>3. Operand(cgrp, "source")' = Operand(cgrp, "source")
    <3>1. \A g : g = cgrp' => Operand(cgrp, "source")' = Operand(g, "source")
      BY <1>2 DEF Operands
    <3>2. QED
      BY <1>1, <3>1
  <2>4. QED
    BY <2>1, <2>2, <2>3 DEF RegistersOK
<1>11. QED
  BY <1>2, <1>9, <1>10

LEMMA CTake1Exact == ASSUME IInv, DInv, CTake1 PROVE DInv'
<1> USE DEF DInv
<1>1. /\ UNCHANGED <<rvars, pending, fetched, src0, base, cleg, cgrp, ring, wvars, noc, mem>>
      /\ Len(regs) = 1 /\ src1 # <<>> /\ regs' = Append(regs, Head(src1))
      /\ src1' = Tail(src1)
  BY DEF CTake1
<1>2. /\ FetchedOK' /\ RingOK' /\ WritesOK' /\ LandedOK' /\ LoadingOK' /\ InterleaveOK'
      /\ \A g, p : p \in Operands => Operand(g, p)' = Operand(g, p)
      /\ Packed' = Packed
  BY <1>1, TakeFrame
<1>3. IsSeq(src1) /\ Len(src1) > 0 /\ IsSeq(regs)
  BY <1>1, TailIsSeq DEF IInv, Buffers
<1>4. Packed = cgrp - 1 /\ cgrp \in Nat
  BY <1>3, ComputeLeg
<1>5. Len(regs') = 2 /\ regs'[1] = regs[1] /\ regs'[2] = Head(src1)
  <2>1. /\ Len(regs') = Len(regs) + 1 /\ regs'[Len(regs) + 1] = Head(src1)
        /\ \A j \in 1 .. Len(regs) : regs'[j] = regs[j]
    BY <1>1, <1>3, AppendIsSeq, AppendElements
  <2>2. QED
    BY <1>1, <2>1
<1>6. /\ Taken(1) = 1 /\ Taken(2) = 0 /\ Taken(3) = 0
      /\ Taken(1)' = 1 /\ Taken(2)' = 1 /\ Taken(3)' = 0
  BY <1>1, <1>5 DEF Taken
<1>7. HoldBuffers(src0, src1, base, Packed + 1, Packed, Packed)
  BY <1>2, <1>4, <1>6, BuffersHeld
<1>8. /\ Head(src1) = Operand(Packed + 1, "source")
      /\ \A j \in 1 .. Len(Tail(src1)) : Tail(src1)[j] = Operand(Packed + 1 + j, "source")
  BY <1>1, <1>3, <1>4, <1>7, TailOperands DEF HoldBuffers
<1>9. BuffersOK'
  <2>1. HoldBuffers(src0', src1', base', Packed + 1, Packed + 1, Packed)
    BY <1>1, <1>7, <1>8 DEF HoldBuffers
  <2>2. QED
    BY <1>2, <1>4, <1>6, <2>1, BuffersHeld
<1>10. RegistersOK'
  <2>1. \A j \in 1 .. Len(regs') : j = 1 \/ j = 2
    BY <1>5
  <2>2. regs'[2] = Operand(cgrp, "source")
    BY <1>4, <1>5, <1>8
  <2>3. regs'[1] = Operand(cgrp, "source")
    BY <1>1, <1>5 DEF RegistersOK
  <2>4. Operand(cgrp, "source")' = Operand(cgrp, "source")
    <3>1. \A g : g = cgrp' => Operand(cgrp, "source")' = Operand(g, "source")
      BY <1>2 DEF Operands
    <3>2. QED
      BY <1>1, <3>1
  <2>5. QED
    BY <2>1, <2>2, <2>3, <2>4 DEF RegistersOK
<1>11. QED
  BY <1>2, <1>9, <1>10

LEMMA CTakeBaseExact == ASSUME IInv, DInv, CTakeBase PROVE DInv'
<1> USE DEF DInv
<1>1. /\ UNCHANGED <<rvars, pending, fetched, src0, src1, cleg, cgrp, ring, wvars, noc, mem>>
      /\ Len(regs) = 2 /\ base # <<>> /\ regs' = Append(regs, Head(base))
      /\ base' = Tail(base)
  BY DEF CTakeBase
<1>2. /\ FetchedOK' /\ RingOK' /\ WritesOK' /\ LandedOK' /\ LoadingOK' /\ InterleaveOK'
      /\ \A g, p : p \in Operands => Operand(g, p)' = Operand(g, p)
      /\ Packed' = Packed
  BY <1>1, TakeFrame
<1>3. IsSeq(base) /\ Len(base) > 0 /\ IsSeq(regs)
  BY <1>1, TailIsSeq DEF IInv, Buffers
<1>4. Packed = cgrp - 1 /\ cgrp \in Nat
  BY <1>3, ComputeLeg
<1>5. Len(regs') = 3 /\ regs'[1] = regs[1] /\ regs'[2] = regs[2] /\ regs'[3] = Head(base)
  <2>1. /\ Len(regs') = Len(regs) + 1 /\ regs'[Len(regs) + 1] = Head(base)
        /\ \A j \in 1 .. Len(regs) : regs'[j] = regs[j]
    <3> DEFINE e == Head(base)
    <3>1. regs' = Append(regs, e)
      BY <1>1
    <3> HIDE DEF e
    <3>2. Len(Append(regs, e)) = Len(regs) + 1
      BY <1>3, AppendIsSeq
    <3>3. /\ Append(regs, e)[Len(regs) + 1] = e
          /\ \A j \in 1 .. Len(regs) : Append(regs, e)[j] = regs[j]
      BY <1>3, AppendElements
    <3>4. QED
      BY <3>1, <3>2, <3>3 DEF e
  <2>2. 1 \in 1 .. Len(regs) /\ 2 \in 1 .. Len(regs) /\ Len(regs) + 1 = 3
    BY <1>1
  <2>3. QED
    BY <2>1, <2>2
<1>6. /\ Taken(1) = 1 /\ Taken(2) = 1 /\ Taken(3) = 0
      /\ Taken(1)' = 1 /\ Taken(2)' = 1 /\ Taken(3)' = 1
  BY <1>1, <1>5 DEF Taken
<1>7. HoldBuffers(src0, src1, base, Packed + 1, Packed + 1, Packed)
  BY <1>2, <1>4, <1>6, BuffersHeld
<1>8. /\ Head(base) = Operand(Packed + 1, "base")
      /\ \A j \in 1 .. Len(Tail(base)) : Tail(base)[j] = Operand(Packed + 1 + j, "base")
  BY <1>1, <1>3, <1>4, <1>7, TailOperands DEF HoldBuffers
<1>9. BuffersOK'
  <2>1. HoldBuffers(src0', src1', base', Packed + 1, Packed + 1, Packed + 1)
    BY <1>1, <1>7, <1>8 DEF HoldBuffers
  <2>2. QED
    BY <1>2, <1>4, <1>6, <2>1, BuffersHeld
<1>10. RegistersOK'
  <2>1. \A j \in 1 .. Len(regs') : j = 1 \/ j = 2 \/ j = 3
    BY <1>5
  <2>2. regs'[3] = Operand(cgrp, "base")
    BY <1>4, <1>5, <1>8
  <2>3. regs'[1] = Operand(cgrp, "source") /\ regs'[2] = Operand(cgrp, "source")
    BY <1>1, <1>5 DEF RegistersOK
  <2>4. /\ Operand(cgrp, "source")' = Operand(cgrp, "source")
        /\ Operand(cgrp, "base")' = Operand(cgrp, "base")
    <3>1. \A g : g = cgrp' => Operand(cgrp, "source")' = Operand(g, "source")
                              /\ Operand(cgrp, "base")' = Operand(g, "base")
      BY <1>2 DEF Operands
    <3>2. QED
      BY <1>1, <3>1
  <2>5. QED
    BY <2>1, <2>2, <2>3, <2>4 DEF RegistersOK
<1>11. QED
  BY <1>2, <1>9, <1>10

(***************************************************************************)
(* What the compute kernel packs is put behind what the ring holds.        *)
(***************************************************************************)
LEMMA EmitExact ==
  ASSUME IInv, DInv, cleg = wleg, wleg <= Legs, NEW v, Emit(v), v = Value(cgrp),
         cgrp \in Nat, Packed = cgrp - 1, Popped \in Nat, count = Packed - Popped,
         UNCHANGED <<rvars, pending, fetched, wvars, noc, mem>>
  PROVE  /\ FetchedOK' /\ RingOK' /\ WritesOK' /\ LandedOK' /\ LoadingOK' /\ InterleaveOK'
         /\ \A g, p : p \in Operands => Operand(g, p)' = Operand(g, p)
         /\ Packed' = Packed + 1
<1> USE DEF DInv
<1>1. /\ count < Buffering /\ head' = head /\ count' = count + 1
      /\ page' = [page EXCEPT ![(head + count) % Buffering] = v]
      /\ IF cgrp < ComputeGroups(cleg)
         THEN cgrp' = cgrp + 1 /\ cleg' = cleg
         ELSE cgrp' = 1 /\ cleg' = cleg + 1
  BY DEF Emit, FreePage
<1>2. /\ \A g, p : p \in Operands => Operand(g, p)' = Operand(g, p)
      /\ \A g : Value(g)' = Value(g)
  BY Still
<1>3. Popped' = Popped /\ Written' = Written
  BY DEF Popped, Written
<1>4. Packed' = Packed + 1
  <2>1. wleg \in 1 .. Legs /\ Legs \in Nat
    BY WriterLeg, LegsNat
  <2>2. ComputeGroups(cleg) = Groups(wleg) /\ Groups(wleg) \in Nat /\ cgrp <= Groups(wleg)
    <3>1. ComputeGroups(wleg) = Groups(wleg) /\ Groups(wleg) \in 1 .. MaxGroups
      BY <2>1, GroupsOfLeg
    <3>2. cgrp <= Groups(wleg)
      BY DEF IInv, Conservation
    <3>3. QED
      BY <3>1, <3>2, SizesAssumption
  <2>3. CASE cgrp < Groups(wleg)
    BY <1>1, <2>1, <2>2, <2>3 DEF Packed
  <2>4. CASE ~(cgrp < Groups(wleg))
    BY <1>1, <2>1, <2>2, <2>4 DEF Packed
  <2>5. QED
    BY <2>3, <2>4
<1>5. FetchedOK' /\ WritesOK' /\ LandedOK' /\ LoadingOK' /\ InterleaveOK'
  BY <1>2, <1>3, FetchedKept, WritesKept, LandedKept, LoadingKept, InterleaveKept
<1>6. RingOK'
  <2>1. /\ Buffering \in Nat \ {0} /\ head \in 0 .. Buffering - 1
        /\ count \in 0 .. Buffering /\ DOMAIN page = 0 .. Buffering - 1
    BY SizesAssumption DEF IInv, TypeOK
  <2>2. Popped + 1 + count = cgrp
    OBVIOUS
  <2>3. ASSUME NEW i \in 0 .. count
        PROVE  page'[(head + i) % Buffering] = Value(Popped + 1 + i)
    <3>1. (head + i) % Buffering \in DOMAIN page
      BY <2>1
    <3>2. CASE i = count
      BY <1>1, <2>2, <3>1, <3>2
    <3>3. CASE i # count
      <4>1. i \in 0 .. count - 1 /\ i \in 0 .. Buffering /\ count \in 0 .. Buffering
        BY <1>1, <2>1, <3>3
      <4>2. (head + i) % Buffering # (head + count) % Buffering
        <5>1. (head + i) % Buffering
                = IF head + i < Buffering THEN head + i ELSE head + i - Buffering
          BY <2>1, <4>1, RingIndex
        <5>2. (head + count) % Buffering
                = IF head + count < Buffering THEN head + count
                                              ELSE head + count - Buffering
          BY <2>1, RingIndex
        <5> DEFINE a == (head + i) % Buffering
                   b == (head + count) % Buffering
        <5>3. a = (IF head + i < Buffering THEN head + i ELSE head + i - Buffering)
              /\ b = IF head + count < Buffering THEN head + count
                                                 ELSE head + count - Buffering
          BY <5>1, <5>2
        <5> HIDE DEF a, b
        <5>4. a # b
          BY <1>1, <2>1, <4>1, <5>3
        <5>5. QED
          BY <5>4 DEF a, b
      <4>3. page'[(head + i) % Buffering] = page[(head + i) % Buffering]
        BY <1>1, <3>1, <4>2
      <4>4. QED
        BY <4>1, <4>3 DEF RingOK
    <3>4. QED
      BY <3>2, <3>3
  <2>4. \A i \in 0 .. count' - 1 : i \in 0 .. count
    BY <1>1, <2>1
  <2>5. \A i, g : g = Popped' + 1 + i => Value(Popped + 1 + i)' = Value(g)
    BY <1>2, <1>3, Zenon
  <2>6. QED
    BY <1>1, <1>3, <2>3, <2>4, <2>5 DEF RingOK
<1>7. QED
  BY <1>2, <1>4, <1>5, <1>6

LEMMA CPackExact == ASSUME IInv, DInv, CPack PROVE DInv'
<1> USE DEF DInv
<1>1. /\ Len(regs) = 3 /\ regs' = <<>>
      /\ Emit(Lift(RouteOf(cleg), cgrp, regs[1], regs[2], regs[3]))
      /\ UNCHANGED <<rvars, pending, fetched, inputs, wvars, noc, mem>>
  BY DEF CPack
<1>2. /\ cleg = wleg /\ wleg <= Legs /\ cgrp \in Nat /\ Packed = cgrp - 1
      /\ Popped \in Nat /\ count = Packed - Popped
  BY <1>1, ComputeLeg
<1>3. Route(wleg).kind = "lift"
  <2>1. ~(Route(wleg).kind = "scale")
    BY <1>1 DEF IInv, Conservation
  <2>2. QED
    BY <1>2, <2>1, WriterLeg DEF RouteFacts, RouteType
<1>4. regs[1] = Operand(cgrp, "source") /\ regs[2] = Operand(cgrp, "source")
      /\ regs[3] = Operand(cgrp, "base")
  BY <1>1 DEF RegistersOK
<1>5. Lift(RouteOf(cleg), cgrp, regs[1], regs[2], regs[3]) = Value(cgrp)
  BY <1>2, <1>3, <1>4 DEF Value
<1>6. /\ FetchedOK' /\ RingOK' /\ WritesOK' /\ LandedOK' /\ LoadingOK' /\ InterleaveOK'
      /\ \A g, p : p \in Operands => Operand(g, p)' = Operand(g, p)
      /\ Packed' = Packed + 1
  <2> DEFINE v == Lift(RouteOf(cleg), cgrp, regs[1], regs[2], regs[3])
  <2>1. Emit(v) /\ v = Value(cgrp)
    BY <1>1, <1>5
  <2> HIDE DEF v
  <2>2. QED
    BY <1>1, <1>2, <2>1, EmitExact
<1>7. Len(regs') = 0
  BY <1>1, EmptyIsSeq
<1>8. /\ Taken(1) = 1 /\ Taken(2) = 1 /\ Taken(3) = 1
      /\ Taken(1)' = 0 /\ Taken(2)' = 0 /\ Taken(3)' = 0
  BY <1>1, <1>7 DEF Taken
<1>9. BuffersOK'
  <2>1. HoldBuffers(src0, src1, base, Packed + 1, Packed + 1, Packed + 1)
    BY <1>6, <1>8, BuffersHeld
  <2>2. Packed' + 0 = Packed + 1
    BY <1>2, <1>6
  <2>3. QED
    BY <1>1, <1>6, <1>8, <2>1, <2>2, BuffersHeld
<1>10. RegistersOK'
  BY <1>7 DEF RegistersOK
<1>11. QED
  BY <1>6, <1>9, <1>10

LEMMA CScaleExact == ASSUME IInv, DInv, CScale PROVE DInv'
<1> USE DEF DInv
<1>1. /\ cleg <= Legs /\ Route(cleg).kind = "scale" /\ base # <<>> /\ base' = Tail(base)
      /\ Emit(Scale(RouteOf(cleg), cgrp, Head(base)))
      /\ UNCHANGED <<rvars, pending, fetched, src0, src1, regs, wvars, noc, mem>>
  BY DEF CScale
<1>2. IsSeq(base) /\ Len(base) > 0
  BY <1>1, TailIsSeq DEF IInv, Buffers
<1>3. /\ cleg = wleg /\ wleg <= Legs /\ cgrp \in Nat /\ Packed = cgrp - 1
      /\ Popped \in Nat /\ count = Packed - Popped
  BY <1>2, ComputeLeg
<1>4. Len(regs) = 0 /\ Len(src0) = 0 /\ Len(src1) = 0
  BY <1>1, <1>3 DEF IInv, Conservation
<1>5. /\ Taken(1) = 0 /\ Taken(2) = 0 /\ Taken(3) = 0
      /\ Taken(1)' = 0 /\ Taken(2)' = 0 /\ Taken(3)' = 0
  BY <1>1, <1>4 DEF Taken
<1>6. \A j \in 1 .. Len(base) : base[j] = Operand(Packed + j, "base")
  BY <1>3, <1>5 DEF BuffersOK
<1>7. /\ Head(base) = Operand(Packed + 1, "base")
      /\ \A j \in 1 .. Len(Tail(base)) : Tail(base)[j] = Operand(Packed + 1 + j, "base")
  BY <1>1, <1>2, <1>3, <1>6, TailOperands
<1>8. Scale(RouteOf(cleg), cgrp, Head(base)) = Value(cgrp)
  <2>1. Packed + 1 = cgrp
    BY <1>3
  <2>2. QED
    BY <1>1, <1>3, <1>7, <2>1 DEF Value
<1>9. /\ FetchedOK' /\ RingOK' /\ WritesOK' /\ LandedOK' /\ LoadingOK' /\ InterleaveOK'
      /\ \A g, p : p \in Operands => Operand(g, p)' = Operand(g, p)
      /\ Packed' = Packed + 1
  <2> DEFINE v == Scale(RouteOf(cleg), cgrp, Head(base))
  <2>1. Emit(v) /\ v = Value(cgrp)
    BY <1>1, <1>8
  <2> HIDE DEF v
  <2>2. QED
    BY <1>1, <1>3, <2>1, EmitExact
<1>10. BuffersOK'
  <2>1. HoldBuffers(src0', src1', base', Packed + 1, Packed + 1, Packed + 1)
    BY <1>1, <1>4, <1>7 DEF HoldBuffers
  <2>2. Packed' + 0 = Packed + 1
    BY <1>3, <1>9
  <2>3. QED
    BY <1>5, <1>9, <2>1, <2>2, BuffersHeld
<1>11. RegistersOK'
  BY <1>1, <1>4 DEF RegistersOK
<1>12. QED
  BY <1>9, <1>10, <1>11

-----------------------------------------------------------------------------
(***************************************************************************)
(* Writer and NoC.                                                         *)
(***************************************************************************)
LEMMA UpstreamKept ==
  ASSUME DInv, UNCHANGED <<rvars, pending, fetched, inputs, cvars, wleg>>,
         \A g, p : p \in Operands => Operand(g, p)' = Operand(g, p)
  PROVE  BuffersOK' /\ FetchedOK' /\ RegistersOK'
<1> USE DEF DInv
<1>1. Packed' = Packed
  BY DEF Packed
<1>2. QED
  BY <1>1, BuffersKept, FetchedKept, RegistersKept

LEMMA RingPopped ==
  ASSUME IInv, RingOK, count > 0, PopPage, Popped \in Int, Popped' = Popped + 1,
         \A g : Value(g)' = Value(g)
  PROVE  RingOK'
<1>1. head' = (head + 1) % Buffering /\ count' = count - 1 /\ page' = page
  BY DEF PopPage
<1>2. head \in 0 .. Buffering - 1 /\ count \in 1 .. Buffering /\ Buffering \in Nat \ {0}
  BY SizesAssumption DEF IInv, TypeOK
<1>3. ASSUME NEW i \in 0 .. count' - 1
      PROVE  page'[(head' + i) % Buffering] = Value(Popped + 1 + 1 + i)
  <2>1. i + 1 \in 0 .. count - 1 /\ i + 1 \in 0 .. Buffering /\ i \in 0 .. Buffering
        /\ 1 \in 0 .. Buffering
    BY <1>1, <1>2, <1>3
  <2>2. page[(head + (i + 1)) % Buffering] = Value(Popped + 1 + (i + 1))
    BY <2>1 DEF RingOK
  <2>3. Popped + 1 + (i + 1) = Popped + 1 + 1 + i
    BY <2>1
  <2>4. (head + (i + 1)) % Buffering = (head' + i) % Buffering
    <3>1. CASE head + 1 < Buffering
      <4>1. head' = head + 1
        BY <1>1, <1>2, <2>1, <3>1, RingIndex
      <4>2. head + (i + 1) = head' + i
        BY <1>2, <2>1, <4>1
      <4>3. QED
        BY <4>2
    <3>2. CASE ~(head + 1 < Buffering)
      <4>1. head' = 0
        <5>1. head + 1 - Buffering = 0
          BY <1>2, <3>2
        <5>2. QED
          BY <1>1, <1>2, <2>1, <3>2, <5>1, RingIndex
      <4>2. (head + (i + 1)) % Buffering = i
        <5>1. head + (i + 1) - Buffering = i /\ ~(head + (i + 1) < Buffering)
          BY <1>2, <2>1, <3>2
        <5>2. QED
          BY <1>2, <2>1, <5>1, RingIndex
      <4>3. (0 + i) % Buffering = i
        <5>1. 0 \in 0 .. Buffering - 1 /\ 0 + i = i /\ i < Buffering
          BY <1>1, <1>2, <1>3
        <5>2. QED
          BY <1>2, <2>1, <5>1, RingIndex
      <4>4. QED
        BY <4>1, <4>2, <4>3
    <3>3. QED
      BY <3>1, <3>2
  <2>5. QED
    BY <1>1, <2>2, <2>3, <2>4
<1>4. \A i, g : g = Popped' + 1 + i => Value(Popped + 1 + i)' = Value(g)
  BY Zenon
<1>5. \A i \in 0 .. count' - 1 : Popped + 1 + 1 + i = Popped' + 1 + i
  OBVIOUS
<1>6. QED
  BY <1>3, <1>4, <1>5 DEF RingOK

\* When the writer has taken the last group of a leg, the others are done.
LEMMA AllTaken ==
  ASSUME IInv, wleg <= Legs, wpc \in {"barrier", "emit", "signal"}
  PROVE  /\ rleg = wleg + 1 /\ rpc \in {"sync", "done"} /\ wgrp \in Nat
         /\ Popped = Groups(wleg) /\ Written = Groups(wleg)
         /\ Len(src0) = 0 /\ Len(src1) = 0 /\ Len(base) = 0 /\ Len(regs) = 0 /\ count = 0
         /\ issued = {}
         /\ wpc \in {"emit", "signal"} => inflight = {}
<1>1. /\ {rleg, cleg, wleg} \subseteq 1 .. Legs + 1 /\ Legs \in Nat
      /\ {rgrp, cgrp, wgrp} \subseteq Nat \ {0}
      /\ {Len(src0), Len(src1), Len(base), Len(regs), count} \subseteq Nat
      /\ {Pushed, Packed, Popped} \subseteq Nat
      /\ Popped <= Packed /\ Packed <= Pushed
      /\ Pushed <= Groups(wleg) /\ Groups(wleg) \in Nat \ {0}
  BY PipelineOrder
<1>2. Popped = Groups(wleg) /\ Written = Groups(wleg)
  BY DEF Popped, Written
<1>3. Pushed = Groups(wleg) /\ Packed = Groups(wleg)
  BY <1>1, <1>2
<1>4. rleg = wleg + 1 /\ cleg = wleg + 1
  <2>1. rleg \in {wleg, wleg + 1} /\ cleg \in {wleg, wleg + 1}
    BY DEF IInv, Lockstep
  <2>2. rleg # wleg
    <3>1. ASSUME rleg = wleg PROVE FALSE
      <4>1. rgrp <= Groups(wleg)
        BY <3>1 DEF IInv, Conservation
      <4>2. Pushed = rgrp - 1
        BY <1>1, <3>1 DEF Pushed
      <4>3. QED
        BY <1>1, <1>3, <4>1, <4>2
    <3>2. QED
      BY <3>1
  <2>3. cleg # wleg
    <3>1. ASSUME cleg = wleg PROVE FALSE
      <4>1. cgrp <= Groups(wleg)
        BY <3>1 DEF IInv, Conservation
      <4>2. Packed = cgrp - 1
        BY <1>1, <3>1 DEF Packed
      <4>3. QED
        BY <1>1, <1>3, <4>1, <4>2
    <3>2. QED
      BY <3>1
  <2>4. QED
    BY <2>1, <2>2, <2>3
<1>5. rpc \in {"sync", "done"}
  <2>1. rleg # wleg
    BY <1>1, <1>4
  <2>2. QED
    BY <2>1, LegEntered
<1>6. cleg # wleg
  BY <1>1, <1>4
<1>7. Len(src0) = 0 /\ Len(src1) = 0 /\ Len(base) = 0 /\ Len(regs) = 0
  <2>1. ~(Len(src0) > 0 \/ Len(src1) > 0 \/ Len(base) > 0 \/ Len(regs) > 0)
    BY <1>6, PipelineOrder
  <2>2. QED
    BY <1>1, <2>1
<1>8. count = 0
  BY <1>1, <1>2, <1>3 DEF IInv, Conservation
<1>9. issued = {} /\ (wpc \in {"emit", "signal"} => inflight = {})
  BY DEF IInv, WritesOfLeg
<1>10. QED
  BY <1>1, <1>2, <1>4, <1>5, <1>7, <1>8, <1>9

LEMMA WIssueExact == ASSUME IInv, DInv, WIssue PROVE DInv'
<1> USE DEF DInv
<1>1. /\ UNCHANGED <<rvars, pending, fetched, inputs, cvars, ring, wleg, wgrp, inflight, mem>>
      /\ wpc = "take" /\ wpc' = "flush" /\ ~Direct(wleg)
      /\ issued' = {[page |-> head, loc |-> l, cell |-> wgrp] : l \in Destinations(wleg)}
  BY DEF WIssue
<1>2. /\ \A g, p : p \in Operands => Operand(g, p)' = Operand(g, p)
      /\ \A g : Value(g)' = Value(g)
  BY <1>1, Still
<1>3. BuffersOK' /\ FetchedOK' /\ RegistersOK'
  BY <1>1, <1>2, UpstreamKept
<1>4. Written = wgrp - 1 /\ Written' = wgrp /\ wgrp \in Nat /\ wgrp >= 1
  BY <1>1, SizesAssumption DEF Written, IInv, TypeOK, Cells
<1>5. RingOK'
  <2>1. Popped' = Popped
    BY <1>1 DEF Popped
  <2>2. QED
    BY <1>1, <1>2, <2>1, RingKept
<1>6. issued = {}
  BY <1>1 DEF IInv, WritesOfLeg
<1>7. WritesOK'
  <2>1. \A w \in issued' : w.cell = wgrp
    BY <1>1
  <2>2. \A w \in inflight : w.cell \in 1 .. wgrp /\ w.value = Value(w.cell)
    BY <1>4 DEF WritesOK
  <2>3. QED
    BY <1>1, <1>2, <1>4, <2>1, <2>2 DEF WritesOK
<1>8. LandedOK'
  <2>1. SUFFICES ASSUME wleg <= Legs, NEW l \in Destinations(wleg), NEW c \in 1 .. wgrp
                 PROVE  \/ \E w \in issued' \union inflight : w.loc = l /\ w.cell = c
                        \/ mem[l][c] = Value(c)
    BY <1>1, <1>2, <1>4 DEF LandedOK
  <2>2. CASE c = wgrp
    <3>1. [page |-> head, loc |-> l, cell |-> wgrp] \in issued'
      BY <1>1
    <3>2. QED
      BY <2>2, <3>1
  <2>3. CASE c # wgrp
    <3>1. c \in 1 .. Written
      BY <1>4, <2>3
    <3>2. QED
      BY <1>1, <1>6, <2>1, <3>1 DEF LandedOK
  <2>4. QED
    BY <2>2, <2>3
<1>9. LoadingOK'
  BY <1>1, LoadingKept
<1>10. InterleaveOK'
  BY <1>1 DEF InterleaveOK
<1>11. QED
  BY <1>3, <1>5, <1>7, <1>8, <1>9, <1>10

LEMMA NocDepartExact == ASSUME IInv, DInv, NocDepart PROVE DInv'
<1> USE DEF DInv
<1>1. PICK w \in issued :
        /\ issued' = issued \ {w}
        /\ inflight' = inflight \union
             {[loc |-> w.loc, cell |-> w.cell, value |-> page[w.page]]}
        /\ UNCHANGED <<rvars, pending, fetched, inputs, cvars, ring, wvars, mem>>
  BY DEF NocDepart
<1> DEFINE v == [loc |-> w.loc, cell |-> w.cell, value |-> page[w.page]]
<1>2. /\ \A g, p : p \in Operands => Operand(g, p)' = Operand(g, p)
      /\ \A g : Value(g)' = Value(g)
  BY <1>1, Still
<1>3. BuffersOK' /\ FetchedOK' /\ RegistersOK'
  BY <1>1, <1>2, UpstreamKept
<1>4. Popped' = Popped /\ Written' = Written
  BY <1>1 DEF Popped, Written
<1>5. RingOK' /\ LoadingOK'
  BY <1>1, <1>2, <1>4, RingKept, LoadingKept
<1>6. /\ wpc = "flush" /\ count > 0 /\ wgrp <= Groups(wleg) /\ ~Direct(wleg)
      /\ w.page = head /\ w.cell = wgrp /\ Written = wgrp /\ Popped = wgrp - 1
  BY DEF IInv, WritesOfLeg, WritesOK, Written, Popped
<1>7. v.loc = w.loc /\ v.cell = wgrp /\ v.value = Value(wgrp)
  <2>1. head \in 0 .. Buffering - 1 /\ count \in 0 .. Buffering /\ Buffering \in Nat \ {0}
        /\ wgrp \in Nat
    BY SizesAssumption DEF IInv, TypeOK, Cells
  <2>2. 0 \in 0 .. count - 1 /\ (head + 0) % Buffering = head /\ Popped + 1 + 0 = wgrp
    BY <1>6, <2>1
  <2>3. page[(head + 0) % Buffering] = Value(Popped + 1 + 0)
    BY <2>2 DEF RingOK
  <2>4. QED
    BY <1>6, <2>2, <2>3
<1>8. WritesOK'
  <2>1. wgrp \in 1 .. wgrp
    BY SizesAssumption DEF IInv, TypeOK, Cells
  <2>2. QED
    BY <1>1, <1>2, <1>4, <1>6, <1>7, <2>1 DEF WritesOK
<1>9. LandedOK'
  <2>1. SUFFICES ASSUME wleg <= Legs, NEW l \in Destinations(wleg), NEW c \in 1 .. Written
                 PROVE  \/ \E x \in issued' \union inflight' : x.loc = l /\ x.cell = c
                        \/ mem[l][c] = Value(c)
    BY <1>1, <1>2, <1>4 DEF LandedOK
  <2>2. CASE \E x \in issued \union inflight : x.loc = l /\ x.cell = c
    <3>1. PICK x \in issued \union inflight : x.loc = l /\ x.cell = c
      BY <2>2
    <3>2. CASE x = w
      <4>1. v \in inflight' /\ v.loc = l /\ v.cell = c
        BY <1>1, <1>6, <1>7, <3>1, <3>2
      <4>2. QED
        BY <4>1
    <3>3. CASE x # w
      BY <1>1, <3>1, <3>3
    <3>4. QED
      BY <3>2, <3>3
  <2>3. QED
    BY <1>6, <2>1, <2>2 DEF LandedOK
<1>10. InterleaveOK'
  <2>1. CurrentItem' = CurrentItem /\ ~Direct(wleg)'
    BY <1>1, <1>6 DEF CurrentItem
  <2>2. QED
    BY <1>1, <1>6, <2>1 DEF InterleaveOK
<1>11. QED
  BY <1>3, <1>5, <1>8, <1>9, <1>10

LEMMA NocLandExact == ASSUME IInv, DInv, NocLand PROVE DInv'
<1> USE DEF DInv
<1>1. PICK w \in inflight :
        /\ inflight' = inflight \ {w}
        /\ mem' = [mem EXCEPT ![w.loc][w.cell] = w.value]
        /\ UNCHANGED <<rvars, pending, fetched, inputs, cvars, ring, wvars, issued>>
  BY DEF NocLand
<1>2. /\ w.loc \in Destinations(wleg) /\ w.loc \in Locations /\ w.cell \in Cells
      /\ wpc \in {"flush", "barrier", "take"} /\ wpc # "done"
  BY DEF IInv, WritesOfLeg, TypeOK
<1>3. wleg <= Legs
  BY <1>2, LegsNat DEF IInv, Lockstep, TypeOK
<1>4. \A p \in Operands : mem'[Local(ReadSlot(wleg, p), "rows")]
                            = mem[Local(ReadSlot(wleg, p), "rows")]
  <2>1. TAKE p \in Operands
  <2>2. w.loc # Local(ReadSlot(wleg, p), "rows")
    BY <1>2, <1>3, WriterLeg, DestinationsNotRead DEF ReadSlots, Operands, Planes
  <2>3. QED
    BY <1>1, <2>2
<1>5. /\ \A g, p : p \in Operands => Operand(g, p)' = Operand(g, p)
      /\ \A g : Value(g)' = Value(g)
  BY <1>1, <1>4, OperandsKept
<1>6. BuffersOK' /\ FetchedOK' /\ RegistersOK'
  BY <1>1, <1>5, UpstreamKept
<1>7. Popped' = Popped /\ Written' = Written
  BY <1>1 DEF Popped, Written
<1>8. RingOK' /\ WritesOK'
  <2>1. RingOK'
    BY <1>1, <1>5, <1>7, RingKept
  <2>2. WritesOK'
    BY <1>1, <1>5, <1>7 DEF WritesOK
  <2>3. QED
    BY <2>1, <2>2
<1>9. \A l, c : mem'[l][c] = mem[l][c] \/ (l = w.loc /\ c = w.cell)
  <2>1. TAKE l, c
  <2>2. CASE l # w.loc
    BY <1>1, <2>2
  <2>3. CASE l = w.loc /\ c # w.cell
    BY <1>1, <2>3
  <2>4. QED
    BY <2>2, <2>3
<1>10. mem'[w.loc][w.cell] = w.value
  BY <1>1, <1>2 DEF IInv, TypeOK
<1>11. LandedOK'
  <2>1. SUFFICES ASSUME ~Direct(wleg), NEW l \in Destinations(wleg), NEW c \in 1 .. Written
                 PROVE  \/ \E x \in issued \union inflight' : x.loc = l /\ x.cell = c
                        \/ mem'[l][c] = Value(c)
    BY <1>1, <1>5, <1>7 DEF LandedOK
  <2>2. CASE l = w.loc /\ c = w.cell
    BY <1>10, <2>2 DEF WritesOK
  <2>3. CASE ~(l = w.loc /\ c = w.cell)
    <3>1. mem'[l][c] = mem[l][c]
      BY <1>9, <2>3
    <3>2. CASE \E x \in issued \union inflight : x.loc = l /\ x.cell = c
      BY <1>1, <2>3, <3>2
    <3>3. QED
      BY <1>3, <2>1, <3>1, <3>2 DEF LandedOK
  <2>4. QED
    BY <2>2, <2>3
<1>12. LoadingOK'
  <2>1. rpc # "odd"
    BY NoRacingWriteFromIInv DEF NoRacingWrite
  <2>2. QED
    BY <1>1, <2>1, LoadingKept
<1>13. InterleaveOK'
  <2>1. ~Direct(wleg)
    BY <1>3 DEF InterleaveOK
  <2>2. ~Direct(wleg)' /\ CurrentItem' = CurrentItem
    BY <1>1, <2>1 DEF CurrentItem
  <2>3. QED
    BY <1>1, <1>2, <2>1, <2>2 DEF InterleaveOK
<1>14. QED
  BY <1>6, <1>8, <1>11, <1>12, <1>13

LEMMA WPopExact == ASSUME IInv, DInv, WPop PROVE DInv'
<1> USE DEF DInv
<1>1. /\ UNCHANGED <<rvars, pending, fetched, inputs, cvars, wleg, noc, mem>>
      /\ wpc = "flush" /\ issued = {} /\ PopPage
      /\ IF wgrp < Groups(wleg) THEN wgrp' = wgrp + 1 /\ wpc' = "take"
                                ELSE wgrp' = 1 /\ wpc' = "barrier"
  BY DEF WPop
<1>2. /\ \A g, p : p \in Operands => Operand(g, p)' = Operand(g, p)
      /\ \A g : Value(g)' = Value(g)
  BY <1>1, Still
<1>3. BuffersOK' /\ FetchedOK' /\ RegistersOK'
  BY <1>1, <1>2, UpstreamKept
<1>4. count > 0 /\ wgrp <= Groups(wleg) /\ ~Direct(wleg) /\ wleg <= Legs
  <2>1. count > 0 /\ wgrp <= Groups(wleg) /\ ~Direct(wleg)
    BY <1>1 DEF IInv, WritesOfLeg
  <2>2. QED
    BY <2>1, PipelineOrder
<1>5. wgrp \in Nat /\ Groups(wleg) \in Nat
  BY <1>4, WriterLeg, SizesAssumption DEF IInv, TypeOK, Cells
<1>6. Popped = wgrp - 1 /\ Popped' = Popped + 1 /\ Written' = Written
  <2>1. Popped = wgrp - 1 /\ Written = wgrp
    BY <1>1, <1>4 DEF Popped, Written
  <2>2. CASE wgrp < Groups(wleg)
    <3>1. wgrp' = wgrp + 1 /\ wpc' = "take" /\ wgrp + 1 <= Groups(wleg)
      BY <1>1, <1>5, <2>2
    <3>2. Groups(wleg)' = Groups(wleg) /\ wgrp' <= Groups(wleg)
      BY <1>1, <3>1
    <3>3. Popped' = wgrp' - 1
      BY <3>1, <3>2 DEF Popped
    <3>4. Written' = wgrp' - 1
      BY <3>1 DEF Written
    <3>5. QED
      BY <1>5, <2>1, <3>1, <3>3, <3>4
  <2>3. CASE ~(wgrp < Groups(wleg))
    <3>1. wgrp' = 1 /\ wpc' = "barrier" /\ wgrp = Groups(wleg)
      BY <1>1, <1>4, <1>5, <2>3
    <3>2. Popped' = Groups(wleg) /\ Written' = Groups(wleg)
      BY <1>1, <3>1 DEF Popped, Written
    <3>3. QED
      BY <1>5, <2>1, <3>1, <3>2
  <2>4. QED
    BY <2>2, <2>3
<1>7. RingOK'
  BY <1>1, <1>2, <1>4, <1>5, <1>6, RingPopped
<1>8. WritesOK'
  BY <1>1, <1>2, <1>6 DEF WritesOK
<1>9. LandedOK' /\ LoadingOK'
  BY <1>1, <1>2, <1>6, LandedKept, LoadingKept
<1>10. InterleaveOK'
  <2>1. ~Direct(wleg)' /\ CurrentItem' = CurrentItem /\ wpc' \in {"take", "barrier"}
    BY <1>1, <1>4 DEF CurrentItem
  <2>2. QED
    BY <1>1, <2>1 DEF InterleaveOK
<1>11. QED
  BY <1>3, <1>7, <1>8, <1>9, <1>10

LEMMA SlotTyped ==
  ASSUME NEW s \in Streams, NEW k \in 0 .. RouteCount
  PROVE  SlotOf(s, k) \in Slots \union {"dram"}
<1>1. CASE LastRoute(s, k) = 0
  BY <1>1 DEF SlotOf, Home, Streams, Slots
<1>2. CASE LastRoute(s, k) # 0
  <2>1. LastRoute(s, k) \in 1 .. RouteCount
    BY <1>2, LastRouteOf, RouteCountNat
  <2>2. Routes[LastRoute(s, k)] \in RouteType
    BY <2>1, RoutesAssumption DEF RouteCount
  <2>3. QED
    BY <1>2, <2>2 DEF SlotOf, RouteType
<1>3. QED
  BY <1>1, <1>2

\* After the last route the streams of the inverse are in slots.
LEMMA FinalSlot ==
  ASSUME IsInverse, NEW s \in Streams
  PROVE  SlotOf(s, RouteCount) \in Slots
<1>1. RouteCount \in 0 .. RouteCount
  BY RouteCountNat
<1>2. QED
  BY <1>1, SlotTyped, OutputsAssumption

\* The place of a stream in DRAM tells the stream.
LEMMA DramStream ==
  ASSUME NEW i \in Int, NEW s \in Streams
  PROVE  (CHOOSE t \in Streams : Dram(i, s) = Dram(i, t)) = s
<1>1. \A t \in Streams : Dram(i, s) = Dram(i, t) => t = s
  BY DramDistinct
<1>2. QED
  BY <1>1

LEMMA DirectFacts ==
  ASSUME OneOutputGroup, IInv, DInv, wleg <= Legs, Direct(wleg)
  PROVE  /\ IsInverse /\ RouteOf(wleg) = RouteCount /\ OutputGroups(CurrentItem) = 1
         /\ Groups(wleg) = 1 /\ inflight = {} /\ Route(wleg).kind = "lift"
         /\ wpc = "take" => wgrp = 1
<1>1. DirectInterleave /\ RouteOf(wleg) = RouteCount
  BY DEF Direct
<1>2. wleg \in 1 .. Legs /\ CurrentItem \in 0 .. ItemCount - 1 /\ CurrentItem = ItemOf(wleg)
      /\ Groups(wleg) \in 1 .. MaxGroups /\ Route(wleg) = Routes[RouteOf(wleg)]
  BY WriterLeg
<1>3. OutputGroups(CurrentItem) = 1
  BY <1>1, <1>2 DEF OneOutputGroup
<1>4. Groups(wleg) = 1
  <2>1. 1 >= Groups(wleg)
    BY <1>2, <1>3, OutputGroupsBound
  <2>2. QED
    BY <1>2, <2>1, SizesAssumption
<1>5. QED
  BY <1>1, <1>2, <1>3, <1>4, DirectAssumption DEF DInv, InterleaveOK

LEMMA WDirectExact == ASSUME OneOutputGroup, IInv, DInv, WDirect PROVE DInv'
<1> USE DEF DInv
<1> DEFINE i == CurrentItem
<1>1. /\ UNCHANGED <<rvars, pending, fetched, inputs, cvars, wleg, noc>>
      /\ wpc = "take" /\ Direct(wleg)
  BY DEF WDirect
<1>2. wleg <= Legs
  <2>1. wpc # "done"
    BY <1>1
  <2>2. QED
    BY <2>1, LegsNat DEF IInv, Lockstep, TypeOK
<1>3. /\ IsInverse /\ RouteOf(wleg) = RouteCount /\ OutputGroups(i) = 1
      /\ Groups(wleg) = 1 /\ inflight = {} /\ wgrp = 1
      /\ i \in 0 .. ItemCount - 1 /\ i = ItemOf(wleg) /\ i \in Int
  BY <1>1, <1>2, DirectFacts, WriterLeg
<1>4. count > 0 /\ PopPage /\ wgrp' = 1 /\ wpc' = "barrier"
  BY <1>3 DEF WDirect
<1>5. ASSUME NEW slot \in Slots
      PROVE  mem'[Local(slot, "rows")] = mem[Local(slot, "rows")]
  <2>1. Local(slot, "rows") \in Locations
    BY DEF Locations, Planes
  <2>2. \A s \in Streams : Local(slot, "rows") # Dram(ItemOf(wleg), s)
    BY DramElsewhere
  <2>3. QED
    BY <2>1, <2>2 DEF WDirect
<1>6. /\ \A g, p : p \in Operands => Operand(g, p)' = Operand(g, p)
      /\ \A g : Value(g)' = Value(g)
  BY <1>1, <1>2, <1>5, ReadSlotTyped, OperandsKept
<1>7. BuffersOK' /\ FetchedOK' /\ RegistersOK'
  BY <1>1, <1>6, UpstreamKept
<1>8. Popped = 0 /\ Popped' = 1
  BY <1>1, <1>3, <1>4 DEF Popped
<1>9. RingOK'
  BY <1>4, <1>6, <1>8, RingPopped
<1>10. issued = {}
  BY <1>1 DEF IInv, WritesOfLeg
<1>11. WritesOK' /\ LandedOK'
  <2>1. Direct(wleg)' /\ issued' = {} /\ inflight' = {}
    BY <1>1, <1>3, <1>10
  <2>2. QED
    BY <2>1 DEF WritesOK, LandedOK
<1>12. LoadingOK'
  <2>1. Home["even"] \in Slots
    BY DEF Home, Slots
  <2>2. QED
    BY <1>1, <1>5, <2>1, LoadingKept
<1>13. ASSUME NEW s \in Streams
       PROVE  mem'[Dram(i, s)][1] =
                (IF s = Route(wleg).target THEN Value(1) ELSE Final(s)[1])
  <2>1. Dram(i, s) \in Locations /\ 1 \in Cells
    BY <1>3, SizesAssumption DEF Locations, Cells
  <2>2. (CHOOSE t \in Streams : Dram(i, s) = Dram(i, t)) = s
    BY <1>3, DramStream
  <2>3. 1 <= FinalLength(i, s)
    <3>1. RouteCount \in 0 .. RouteCount
      BY RouteCountNat
    <3>2. Length(i, s, RouteCount) \in Cells
      BY <1>3, <3>1, GroupsAssumption
    <3>3. QED
      BY <3>2, SizesAssumption DEF FinalLength, Cells
  <2>4. mem'[Dram(i, s)] =
          [c \in Cells |-> IF c <= FinalLength(i, s)
                           THEN DirectValue(s, wgrp, c) ELSE mem[Dram(i, s)][c]]
    BY <1>3, <2>1, <2>2 DEF WDirect
  <2>5. mem'[Dram(i, s)][1] = DirectValue(s, 1, 1)
    BY <1>3, <2>1, <2>3, <2>4
  <2>6. page[head] = Value(1)
    <3>1. head \in 0 .. Buffering - 1 /\ count \in 0 .. Buffering /\ Buffering \in Nat \ {0}
      BY SizesAssumption DEF IInv, TypeOK
    <3>2. 0 \in 0 .. count - 1 /\ (head + 0) % Buffering = head /\ Popped + 1 + 0 = 1
      BY <1>4, <1>8, <3>1
    <3>3. page[(head + 0) % Buffering] = Value(Popped + 1 + 0)
      BY <3>2 DEF RingOK
    <3>4. QED
      BY <3>2, <3>3
  <2>7. QED
    BY <1>3, <2>5, <2>6 DEF DirectValue
<1>14. InterleaveOK'
  <2>1. CurrentItem' = i /\ Route(wleg)' = Route(wleg)
    BY <1>1 DEF CurrentItem
  <2>2. \A s \in Streams : Final(s)' = Final(s)
    BY <1>3, <1>5, FinalSlot DEF Final
  <2>3. \A s \in Streams : mem'[Dram(CurrentItem, s)'][1] =
          (IF s = Route(wleg).target THEN Value(1)' ELSE Final(s)'[1])
    <3>1. \A s \in Streams : Dram(CurrentItem, s)' = Dram(i, s)
      BY <2>1
    <3>2. QED
      BY <1>6, <1>13, <2>2, <3>1
  <2>4. QED
    BY <1>1, <1>3, <1>4, <2>1, <2>3 DEF InterleaveOK
<1>15. QED
  BY <1>7, <1>9, <1>11, <1>12, <1>14

LEMMA WBarrierExact == ASSUME IInv, DInv, WBarrier PROVE DInv'
<1> USE DEF DInv
<1>1. /\ UNCHANGED <<rvars, pending, fetched, inputs, cvars, ring, wleg, wgrp, noc, mem>>
      /\ wpc = "barrier" /\ issued = {} /\ inflight = {}
      /\ wpc' = IF IsInverse /\ RouteOf(wleg) = RouteCount /\ ~Direct(wleg)
                THEN "emit" ELSE "signal"
  BY DEF WBarrier
<1>2. wgrp = 1 /\ wpc' \in {"emit", "signal"}
  BY <1>1 DEF IInv, Lockstep
<1>3. /\ \A g, p : p \in Operands => Operand(g, p)' = Operand(g, p)
      /\ \A g : Value(g)' = Value(g)
  BY <1>1, Still
<1>4. BuffersOK' /\ FetchedOK' /\ RegistersOK'
  BY <1>1, <1>3, UpstreamKept
<1>5. Popped' = Popped /\ Written' = Written
  BY <1>1, <1>2 DEF Popped, Written
<1>6. RingOK' /\ LandedOK' /\ LoadingOK'
  BY <1>1, <1>3, <1>5, RingKept, LandedKept, LoadingKept
<1>7. WritesOK'
  BY <1>1 DEF WritesOK
<1>8. InterleaveOK'
  <2>1. wgrp' = 1 /\ inflight' = {}
    BY <1>1, <1>2
  <2>2. wpc' = "emit" => IsInverse /\ ~Direct(wleg)' /\ RouteOf(wleg)' = RouteCount
    BY <1>1
  <2>3. ~(IsInverse /\ ~Direct(wleg)' /\ RouteOf(wleg)' = RouteCount /\ wpc' = "signal")
    BY <1>1
  <2>4. ASSUME wpc' = "emit", NEW s \in Streams, NEW c \in 1 .. FinalLength(CurrentItem, s)',
               c < wgrp'
        PROVE  FALSE
    BY <2>1, <2>4
  <2>5. QED
    BY <1>1, <1>2, <2>1, <2>2, <2>3, <2>4 DEF InterleaveOK
<1>9. QED
  BY <1>4, <1>6, <1>7, <1>8

LEMMA WEmitExact == ASSUME IInv, DInv, WEmit PROVE DInv'
<1> USE DEF DInv
<1> DEFINE i == CurrentItem
<1>1. /\ UNCHANGED <<rvars, pending, fetched, inputs, cvars, ring, wleg, noc>>
      /\ wpc = "emit"
      /\ IF wgrp < OutputGroups(i) THEN wgrp' = wgrp + 1 /\ wpc' = wpc
                                   ELSE wgrp' = 1 /\ wpc' = "signal"
  BY DEF WEmit, CurrentItem
<1>2. wleg <= Legs
  <2>1. wpc # "done"
    BY <1>1
  <2>2. QED
    BY <2>1, LegsNat DEF IInv, Lockstep, TypeOK
<1>3. /\ IsInverse /\ ~Direct(wleg) /\ RouteOf(wleg) = RouteCount
      /\ i \in 0 .. ItemCount - 1 /\ i = ItemOf(wleg) /\ i \in Int
      /\ Route(wleg) = Routes[RouteOf(wleg)] /\ RouteFacts(RouteOf(wleg))
  BY <1>1, <1>2, WriterLeg DEF InterleaveOK
<1>4. issued = {} /\ inflight = {} /\ wgrp \in Nat /\ rpc \in {"sync", "done"}
  BY <1>1, <1>2, AllTaken
<1>5. ASSUME NEW slot \in Slots, NEW plane \in Planes
      PROVE  mem'[Local(slot, plane)] = mem[Local(slot, plane)]
  <2>1. Local(slot, plane) \in Locations
    BY DEF Locations
  <2>2. \A s \in Streams : Local(slot, plane) # Dram(ItemOf(wleg), s)
    BY DramElsewhere
  <2>3. QED
    BY <2>1, <2>2 DEF WEmit
<1>6. /\ \A g, p : p \in Operands => Operand(g, p)' = Operand(g, p)
      /\ \A g : Value(g)' = Value(g)
  <2>1. \A p \in Operands : mem'[Local(ReadSlot(wleg, p), "rows")]
                              = mem[Local(ReadSlot(wleg, p), "rows")]
    BY <1>2, <1>5, ReadSlotTyped DEF Planes
  <2>2. QED
    BY <1>1, <2>1, OperandsKept
<1>7. BuffersOK' /\ FetchedOK' /\ RegistersOK'
  BY <1>1, <1>6, UpstreamKept
<1>8. Popped' = Popped /\ Written' = Written
  BY <1>1 DEF Popped, Written
<1>9. RingOK' /\ WritesOK'
  BY <1>1, <1>4, <1>6, <1>8, RingKept DEF WritesOK
<1>10. LandedOK'
  <2>1. Route(wleg).output \in Slots
    <3>1. Route(wleg).target \in Streams
      BY <1>3 DEF RouteFacts, RouteType
    <3>2. QED
      BY <1>3, <3>1, FinalSlot DEF RouteFacts
  <2>2. Route(wleg).output # "dram"
    BY <2>1 DEF Slots
  <2>3. \A l \in Destinations(wleg) : mem'[l] = mem[l]
    BY <1>5, <2>1, <2>2 DEF Destinations, Planes
  <2>4. QED
    BY <1>1, <1>6, <1>8, <2>3, LandedKept
<1>11. LoadingOK'
  BY <1>1, <1>4 DEF LoadingOK
<1>12. \A s \in Streams : Final(s)' = Final(s)
  BY <1>3, <1>5, FinalSlot DEF Final, Planes
<1>13. ASSUME NEW s \in Streams, NEW c \in 1 .. FinalLength(i, s),
              wpc' = "signal" \/ c < wgrp'
       PROVE  mem'[Dram(i, s)][c] = Final(s)[c]
  <2>1. Dram(i, s) \in Locations
    BY <1>3 DEF Locations
  <2>2. (CHOOSE t \in Streams : Dram(i, s) = Dram(i, t)) = s
    BY <1>3, DramStream
  <2>3. \A t \in Streams : Dram(i, s) = Dram(i, t) => t = s
    BY <1>3, DramDistinct
  <2>4. mem'[Dram(i, s)] =
          IF wgrp <= FinalLength(i, s)
          THEN [mem[Dram(i, s)] EXCEPT ![wgrp] = Final(s)[wgrp]] ELSE mem[Dram(i, s)]
    BY <1>3, <2>1, <2>2, <2>3 DEF WEmit
  <2>5. FinalLength(i, s) \in Cells /\ OutputGroups(i) \in Int
        /\ FinalLength(i, s) <= OutputGroups(i)
    <3>1. RouteCount \in 0 .. RouteCount
      BY RouteCountNat
    <3>2. FinalLength(i, "even") \in Cells /\ FinalLength(i, "odd") \in Cells
      BY <1>3, <3>1, GroupsAssumption DEF Streams, FinalLength
    <3>3. {FinalLength(i, t) : t \in Streams} = {FinalLength(i, "even"), FinalLength(i, "odd")}
      BY DEF Streams
    <3>4. FinalLength(i, "even") \in Int /\ FinalLength(i, "odd") \in Int
      BY <3>2, SizesAssumption DEF Cells
    <3>5. OutputGroups(i) \in Int /\ OutputGroups(i) >= FinalLength(i, "even")
          /\ OutputGroups(i) >= FinalLength(i, "odd")
      BY <3>3, <3>4, MaxOfTwo DEF OutputGroups
    <3>6. s = "even" \/ s = "odd"
      BY DEF Streams
    <3>7. QED
      BY <3>2, <3>4, <3>5, <3>6
  <2>6. c \in Int /\ FinalLength(i, s) \in Int /\ c <= FinalLength(i, s) /\ c \in Cells
    BY <2>5, SizesAssumption DEF Cells
  <2>7. c = wgrp \/ c < wgrp
    BY <1>1, <1>4, <1>13, <2>5, <2>6
  <2>8. CASE c = wgrp
    <3>1. DOMAIN mem[Dram(i, s)] = Cells
      BY <2>1 DEF IInv, TypeOK
    <3>2. QED
      BY <2>4, <2>6, <2>8, <3>1
  <2>9. CASE c < wgrp
    <3>1. mem[Dram(i, s)][c] = Final(s)[c]
      BY <1>1, <1>2, <1>3, <2>9 DEF InterleaveOK
    <3>2. c # wgrp
      BY <1>4, <2>6, <2>9
    <3>3. mem'[Dram(i, s)][c] = mem[Dram(i, s)][c]
      BY <2>4, <3>2
    <3>4. QED
      BY <3>1, <3>3
  <2>10. QED
    BY <2>7, <2>8, <2>9
<1>14. InterleaveOK'
  <2>1. CurrentItem' = i /\ Direct(wleg)' = Direct(wleg) /\ RouteOf(wleg)' = RouteOf(wleg)
        /\ inflight' = inflight
    BY <1>1 DEF CurrentItem
  <2>2. \A s \in Streams : Dram(CurrentItem, s)' = Dram(i, s)
                           /\ FinalLength(CurrentItem, s)' = FinalLength(i, s)
    BY <2>1
  <2>3. \A s \in Streams : \A c \in 1 .. FinalLength(CurrentItem, s)' :
          (wpc' = "signal" \/ c < wgrp') => mem'[Dram(CurrentItem, s)'][c] = Final(s)'[c]
    BY <1>12, <1>13, <2>2
  <2>4. QED
    BY <1>3, <2>1, <2>3 DEF InterleaveOK
<1>15. QED
  BY <1>7, <1>9, <1>10, <1>11, <1>14

LEMMA WSignalExact == ASSUME IInv, DInv, WSignal PROVE DInv'
<1> USE DEF DInv
<1>1. /\ UNCHANGED <<rvars, pending, fetched, inputs, cvars, ring, wgrp, noc, mem>>
      /\ wpc = "signal" /\ wleg' = wleg + 1
      /\ IF wleg < Legs THEN wpc' = "take" ELSE wpc' = "done"
  BY DEF WSignal
<1>2. wleg <= Legs /\ wleg \in Int /\ Legs \in Int /\ wgrp = 1
  <2>1. wpc # "done" /\ wleg \in Int /\ Legs \in Int
    BY <1>1, LegsNat DEF IInv, TypeOK
  <2>2. QED
    BY <1>1, <2>1 DEF IInv, Lockstep
<1>3. /\ rpc \in {"sync", "done"}
      /\ Len(src0) = 0 /\ Len(src1) = 0 /\ Len(base) = 0 /\ Len(regs) = 0 /\ count = 0
      /\ issued = {} /\ inflight = {}
  BY <1>1, <1>2, AllTaken
<1>4. BuffersOK' /\ FetchedOK' /\ RegistersOK' /\ LoadingOK'
  <2>1. Len(src0') = 0 /\ Len(src1') = 0 /\ Len(base') = 0 /\ Len(regs') = 0
        /\ rpc' \in {"sync", "done"}
    BY <1>1, <1>3
  <2>2. QED
    BY <2>1 DEF BuffersOK, FetchedOK, RegistersOK, LoadingOK
<1>5. RingOK' /\ WritesOK'
  <2>1. count' = 0 /\ issued' = {} /\ inflight' = {}
    BY <1>1, <1>3
  <2>2. QED
    BY <2>1 DEF RingOK, WritesOK
<1>6. LandedOK' /\ InterleaveOK'
  <2>1. CASE wleg < Legs
    <3>1. wpc' = "take" /\ wgrp' = 1 /\ inflight' = {}
      BY <1>1, <1>2, <1>3, <2>1
    <3>2. Written' = 0
      BY <3>1 DEF Written
    <3>3. QED
      BY <3>1, <3>2 DEF LandedOK, InterleaveOK
  <2>2. CASE ~(wleg < Legs)
    <3>1. ~(wleg' <= Legs)
      BY <1>1, <1>2, <2>2
    <3>2. QED
      BY <3>1 DEF LandedOK, InterleaveOK
  <2>3. QED
    BY <2>1, <2>2
<1>7. QED
  BY <1>4, <1>5, <1>6

LEMMA NextDInv ==
  ASSUME OneOutputGroup, IInv, MInv, DInv, [Next]_vars
  PROVE  DInv'
<1>1. CASE RSync
  BY <1>1, RSyncExact
<1>2. ASSUME NEW s \in Streams, RLoad(s) PROVE DInv'
  BY <1>2, RLoadExact
<1>3. CASE RSource
  BY <1>3, RSourceExact
<1>4. CASE RBase
  BY <1>4, RBaseExact
<1>5. CASE RPush
  BY <1>5, RPushExact
<1>6. CASE CTake0
  BY <1>6, CTake0Exact
<1>7. CASE CTake1
  BY <1>7, CTake1Exact
<1>8. CASE CTakeBase
  BY <1>8, CTakeBaseExact
<1>9. CASE CPack
  BY <1>9, CPackExact
<1>10. CASE CScale
  BY <1>10, CScaleExact
<1>11. CASE WIssue
  BY <1>11, WIssueExact
<1>12. CASE WPop
  BY <1>12, WPopExact
<1>13. CASE WDirect
  BY <1>13, WDirectExact
<1>14. CASE WBarrier
  BY <1>14, WBarrierExact
<1>15. CASE WEmit
  BY <1>15, WEmitExact
<1>16. CASE WSignal
  BY <1>16, WSignalExact
<1>17. ASSUME NEW p \in {"source", "base"}, NocRead(p) PROVE DInv'
  BY <1>17, NocReadExact DEF Operands
<1>18. CASE NocDepart
  BY <1>18, NocDepartExact
<1>19. CASE NocLand
  BY <1>19, NocLandExact
<1>20. CASE UNCHANGED vars
  <2>1. /\ UNCHANGED <<rvars, pending, fetched, inputs, cvars, ring, wvars, noc, mem>>
    BY <1>20 DEF vars
  <2>2. /\ \A g, p : p \in Operands => Operand(g, p)' = Operand(g, p)
        /\ \A g : Value(g)' = Value(g)
    BY <2>1, Still
  <2>3. BuffersOK' /\ FetchedOK' /\ RegistersOK'
    BY <2>1, <2>2, UpstreamKept
  <2>4. Popped' = Popped /\ Written' = Written
    BY <2>1 DEF Popped, Written
  <2>5. QED
    BY <2>1, <2>2, <2>3, <2>4, RingKept, WritesKept, LandedKept, LoadingKept,
       InterleaveKept DEF DInv
<1>21. QED
  BY <1>1, <1>2, <1>3, <1>4, <1>5, <1>6, <1>7, <1>8, <1>9, <1>10, <1>11, <1>12,
     <1>13, <1>14, <1>15, <1>16, <1>17, <1>18, <1>19, <1>20
     DEF Next, Reader, Compute, Writer, Noc, Terminated

-----------------------------------------------------------------------------
(***************************************************************************)
(* The transform that a state of the pipeline stands for.                  *)
(***************************************************************************)
LEMMA InitTransform == Init => Transform!Init
<1> SUFFICES ASSUME Init PROVE Transform!Init
  OBVIOUS
<1>1. ~Lifting /\ Completed = 0 /\ CurrentItem = 0
  BY FirstLeg DEF Init, Lifting, Completed, CurrentItem
<1>2. AbstractStream = [s \in Streams |-> <<>>]
  BY <1>1 DEF AbstractStream
<1>3. AbstractResult = <<>>
  BY <1>1 DEF AbstractResult
<1>4. QED
  BY <1>1, <1>2, <1>3 DEF Transform!Init, Transform!NoStreams, Transform!Streams, Streams

\* The results of earlier items, and the streams of this one where they are.
SameResults ==
    \A j \in 0 .. CurrentItem - 1, s \in Streams : mem'[Dram(j, s)] = mem[Dram(j, s)]

LEMMA ResultsKept ==
  ASSUME SameResults, CurrentItem' = CurrentItem, CurrentItem \in Nat
  PROVE  AbstractResult' = AbstractResult
<1>1. \A i \in 1 .. CurrentItem : i - 1 \in 0 .. CurrentItem - 1
  OBVIOUS
<1>2. \A i \in 1 .. CurrentItem, s \in Streams : mem'[Dram(i - 1, s)] = mem[Dram(i - 1, s)]
  BY <1>1 DEF SameResults
<1>3. QED
  BY <1>2 DEF AbstractResult

LEMMA SameView ==
  ASSUME SameResults, CurrentItem' = CurrentItem, CurrentItem \in Nat,
         Completed' = Completed, Lifting' <=> Lifting,
         Lifting => \A s \in Streams : mem'[StreamLoc(s, Completed)]
                                         = mem[StreamLoc(s, Completed)]
  PROVE  UNCHANGED Transform!vars
<1>1. AbstractResult' = AbstractResult
  BY ResultsKept
<1>2. \A s \in Streams : StreamLoc(s, Completed)' = StreamLoc(s, Completed)
  BY DEF StreamLoc
<1>3. AbstractStream' = AbstractStream
  BY <1>2 DEF AbstractStream
<1>4. QED
  BY <1>1, <1>3 DEF Transform!vars

\* A step that does not touch the slots or the writer, nor starts lifting.
LEMMA SameMemory ==
  ASSUME IInv, UNCHANGED <<mem, wleg>>, CurrentItem \in Nat,
         Completed' = Completed, Lifting' <=> Lifting
  PROVE  UNCHANGED Transform!vars
<1>1. SameResults /\ CurrentItem' = CurrentItem
  BY DEF SameResults, CurrentItem
<1>2. QED
  BY <1>1, SameView

\* The item is a number, also when the last has been handed over.
LEMMA ItemNat == ASSUME IInv PROVE CurrentItem \in Nat
<1>1. wleg \in 1 .. Legs \/ wleg = Legs + 1
  BY LegsNat DEF IInv, TypeOK
<1>2. CASE wleg \in 1 .. Legs
  BY <1>2, LegParts, SizesAssumption DEF CurrentItem
<1>3. CASE wleg = Legs + 1
  <2>1. Legs \in 1 .. Legs /\ ItemOf(Legs) \in 0 .. ItemCount - 1 /\ RouteOf(Legs) \in 1 .. RouteCount
    BY LegsNat, LegParts DEF RouteIndex
  <2>2. ItemOf(Legs + 1) = ItemOf(Legs) \/ ItemOf(Legs + 1) = ItemOf(Legs) + 1
    BY <2>1, Successor, RouteCountNat
  <2>3. QED
    BY <1>3, <2>1, <2>2, SizesAssumption DEF CurrentItem
<1>4. QED
  BY <1>1, <1>2, <1>3

\* Where the streams are that a route reads.
LEMMA StreamRead ==
  ASSUME IInv, wleg <= Legs, Lifting, Completed = RouteOf(wleg) - 1,
         NEW s \in Streams, SlotOf(s, RouteOf(wleg) - 1) \in Slots
  PROVE  /\ AbstractStream[s] =
              [c \in 1 .. Length(CurrentItem, s, RouteOf(wleg) - 1) |->
                 mem[Local(SlotOf(s, RouteOf(wleg) - 1), "rows")][c]]
         /\ Len(AbstractStream[s]) = Length(CurrentItem, s, RouteOf(wleg) - 1)
<1> DEFINE r == RouteOf(wleg)
           n == Length(CurrentItem, s, r - 1)
<1>1. r \in 1 .. RouteCount /\ RouteCount \in Nat /\ CurrentItem \in 0 .. ItemCount - 1
  BY WriterLeg, RouteCountNat DEF RouteIndex
<1>2. StreamLoc(s, r - 1) = Local(SlotOf(s, r - 1), "rows")
  <2>1. r - 1 # RouteCount /\ SlotOf(s, r - 1) # "dram"
    BY <1>1 DEF Slots
  <2>2. QED
    BY <2>1 DEF StreamLoc
<1>3. AbstractStream[s] = [c \in 1 .. n |-> mem[Local(SlotOf(s, r - 1), "rows")][c]]
  BY <1>2 DEF AbstractStream
<1>4. n \in Nat
  <2>1. r - 1 \in 0 .. RouteCount
    BY <1>1
  <2>2. n \in Cells
    BY <1>1, <2>1, GroupsAssumption
  <2>3. QED
    BY <2>2, SizesAssumption DEF Cells
<1>5. Len(AbstractStream[s]) = n
  <2>1. AbstractStream[s] = [c \in 1 .. n |-> AbstractStream[s][c]]
    BY <1>3
  <2>2. QED
    BY ONLY <1>4, <2>1, FunctionIsSeq
<1>6. QED
  BY <1>3, <1>5

\* What a route does to whole streams is what the kernels do group by group.
LEMMA AppliedValue ==
  ASSUME IInv, wleg <= Legs, Lifting, Completed = RouteOf(wleg) - 1,
         Transform!Item = CurrentItem
  PROVE  Transform!Applied(RouteOf(wleg)) = [g \in 1 .. Groups(wleg) |-> Value(g)]
<1> DEFINE r == RouteOf(wleg)
           x == Routes[r].operand
           t == Routes[r].target
           source == AbstractStream[x]
           target == AbstractStream[t]
<1>1. /\ r \in RouteIndex /\ RouteFacts(r) /\ Route(wleg) = Routes[r]
      /\ CurrentItem = ItemOf(wleg) /\ x \in Streams /\ t \in Streams
      /\ Routes[r].source \in Slots /\ Routes[r].kind \in {"lift", "scale"}
  BY WriterLeg DEF RouteFacts, RouteType
<1>2. Routes[r].source = SlotOf(x, r - 1) /\ SlotOf(t, r - 1) \in Slots
  BY <1>1 DEF RouteFacts
<1>3. /\ source = [c \in 1 .. Length(CurrentItem, x, r - 1) |->
                     mem[Local(SlotOf(x, r - 1), "rows")][c]]
      /\ Len(source) = Length(CurrentItem, x, r - 1)
  BY <1>1, <1>2, StreamRead
<1>4. /\ target = [c \in 1 .. Length(CurrentItem, t, r - 1) |->
                     mem[Local(SlotOf(t, r - 1), "rows")][c]]
      /\ Len(target) = Length(CurrentItem, t, r - 1)
  BY <1>1, <1>2, StreamRead
<1>5. /\ ReadSlot(wleg, "source") = SlotOf(x, r - 1)
      /\ ReadSlot(wleg, "base") = SlotOf(t, r - 1)
  BY <1>1, <1>2 DEF ReadSlot, RouteFacts
<1>6. \A g : Operand(g, "source") = Transform!View(source, SourceWindow(Len(source), g))
  <2>1. TAKE g
  <2>2. ReadWindow(wleg, g, "source") = SourceWindow(Len(source), g)
    BY <1>1, <1>3 DEF ReadWindow
  <2>3. \A c \in SourceWindow(Len(source), g) : c \in 1 .. Len(source)
    BY DEF SourceWindow
  <2>4. \A c \in SourceWindow(Len(source), g) :
          source[c] = mem[Local(SlotOf(x, r - 1), "rows")][c]
    BY <1>3, <2>3
  <2>5. QED
    BY <1>5, <2>2, <2>4 DEF Operand, Transform!View
<1>7. \A g : Operand(g, "base") = Transform!View(target, BaseWindow(Len(target), g))
  <2>1. TAKE g
  <2>2. ReadWindow(wleg, g, "base") = BaseWindow(Len(target), g)
    BY <1>1, <1>4 DEF ReadWindow
  <2>3. \A c \in BaseWindow(Len(target), g) : c \in 1 .. Len(target)
    BY DEF BaseWindow
  <2>4. \A c \in BaseWindow(Len(target), g) :
          target[c] = mem[Local(SlotOf(t, r - 1), "rows")][c]
    BY <1>4, <2>3
  <2>5. QED
    BY <1>5, <2>2, <2>4 DEF Operand, Transform!View
<1>8. ItemGroups(Transform!Item, r) = Groups(wleg)
  BY <1>1 DEF ItemGroups, Groups
<1>9. \A w, n : /\ Transform!SourceWindow(n, w) = SourceWindow(n, w)
                /\ Transform!BaseWindow(n, w) = BaseWindow(n, w)
  BY DEF Transform!SourceWindow, Transform!BaseWindow, SourceWindow, BaseWindow
<1>10. CASE Routes[r].kind = "lift"
  <2>1. Transform!Applied(r) =
          [g \in 1 .. Groups(wleg) |->
             Lift(r, g, Transform!View(source, SourceWindow(Len(source), g)),
                  Transform!View(source, SourceWindow(Len(source), g)),
                  Transform!View(target, BaseWindow(Len(target), g)))]
    BY <1>8, <1>9, <1>10 DEF Transform!Applied
  <2>2. \A g : Value(g) =
             Lift(r, g, Transform!View(source, SourceWindow(Len(source), g)),
                  Transform!View(source, SourceWindow(Len(source), g)),
                  Transform!View(target, BaseWindow(Len(target), g)))
    BY <1>1, <1>6, <1>7, <1>10 DEF Value
  <2>3. QED
    BY <2>1, <2>2
<1>11. CASE Routes[r].kind = "scale"
  <2>1. x = t
    BY <1>1, <1>11 DEF RouteFacts
  <2>2. Transform!Applied(r) =
          [g \in 1 .. Groups(wleg) |->
             Scale(r, g, Transform!View(target, BaseWindow(Len(target), g)))]
    BY <1>8, <1>9, <1>11, <2>1 DEF Transform!Applied
  <2>3. \A g : Value(g) = Scale(r, g, Transform!View(target, BaseWindow(Len(target), g)))
    BY <1>1, <1>7, <1>11 DEF Value
  <2>4. QED
    BY <2>2, <2>3
<1>12. QED
  BY <1>1, <1>10, <1>11

LEMMA ResultItem == ASSUME IInv PROVE Transform!Item = CurrentItem
<1>1. AbstractResult = [i \in 1 .. CurrentItem |-> AbstractResult[i]]
  BY DEF AbstractResult
<1>2. Len(AbstractResult) = CurrentItem
  <2>1. CurrentItem \in Nat
    BY ItemNat
  <2>2. QED
    BY ONLY <1>1, <2>1, FunctionIsSeq
<1>3. QED
  BY <1>2 DEF Transform!Item

-----------------------------------------------------------------------------
(***************************************************************************)
(* What the steps of the pipeline are in the transform.                    *)
(***************************************************************************)
\* The kernels and the NoC at work on a leg change nothing that is seen.
LEMMA UpstreamUnseen ==
  ASSUME IInv, UNCHANGED <<rvars, wvars, mem>>
  PROVE  UNCHANGED Transform!vars
<1>1. Completed' = Completed /\ (Lifting' <=> Lifting)
  BY DEF Completed, Lifting
<1>2. QED
  BY <1>1, ItemNat, SameMemory

\* Nor does the writer on its way through the groups.
LEMMA GroupsUnseen ==
  ASSUME IInv, UNCHANGED <<rvars, wleg, mem>>,
         wpc \notin {"emit", "signal"}, wpc' \notin {"emit", "signal"}
  PROVE  UNCHANGED Transform!vars
<1>1. Completed' = Completed /\ (Lifting' <=> Lifting)
  BY DEF Completed, Lifting
<1>2. QED
  BY <1>1, ItemNat, SameMemory

LEMMA RSyncUnseen == ASSUME IInv, RSync PROVE UNCHANGED Transform!vars
<1>1. /\ UNCHANGED <<rleg, wvars, mem>> /\ rpc = "sync" /\ sync = 1
      /\ rpc' = IF RouteOf(rleg) = 1 THEN "even" ELSE Start(rleg)
  BY DEF RSync
<1>2. rleg = wleg
  BY <1>1 DEF IInv, Lockstep
<1>3. wleg \in 1 .. Legs /\ RouteOf(wleg) \in Int /\ RouteOf(wleg) >= 1
  <2>1. ~(rleg > Legs)
    BY <1>1 DEF IInv, Lockstep
  <2>2. wleg \in 1 .. Legs
    BY <1>2, <2>1, LegsNat DEF IInv, TypeOK
  <2>3. QED
    BY <2>2, LegParts, RouteCountNat DEF RouteIndex
<1>4. ~(rleg > wleg)
  BY <1>2, <1>3
<1>5. Lifting' <=> Lifting
  <2>1. CASE RouteOf(wleg) = 1
    BY <1>1, <1>2, <1>4, <2>1 DEF Lifting
  <2>2. CASE RouteOf(wleg) > 1
    BY <1>1, <2>2 DEF Lifting
  <2>3. QED
    BY <1>3, <2>1, <2>2
<1>6. Completed' = Completed
  BY <1>1 DEF Completed
<1>7. QED
  BY <1>1, <1>5, <1>6, ItemNat, SameMemory

LEMMA RWorkUnseen ==
  ASSUME IInv, RSource \/ RBase \/ RPush
  PROVE  UNCHANGED Transform!vars
<1>1. UNCHANGED <<wvars, mem>> /\ rpc \in {"source", "base", "fetch"}
  BY DEF RSource, RBase, RPush
<1>2. rleg = wleg /\ wleg <= Legs /\ wleg \in Int
  BY <1>1, LegEntered, LegsNat DEF IInv, TypeOK
<1>3. \/ rleg' = rleg /\ rpc' \in {"source", "base", "fetch"}
      \/ rleg' = rleg + 1
  BY DEF RSource, RBase, RPush, Start
<1>4. Lifting
  BY <1>1, <1>2 DEF Lifting
<1>5. Lifting'
  <2>1. CASE rleg' = rleg + 1
    <3>1. rleg' > wleg' /\ wleg' <= Legs
      BY <1>1, <1>2, <2>1
    <3>2. QED
      BY <3>1 DEF Lifting
  <2>2. CASE rpc' \in {"source", "base", "fetch"}
    <3>1. wleg' <= Legs /\ rpc' \notin {"sync", "even", "odd"}
      BY <1>1, <1>2, <2>2
    <3>2. QED
      BY <3>1 DEF Lifting
  <2>3. QED
    BY <1>3, <2>1, <2>2
<1>6. Completed' = Completed
  BY <1>1 DEF Completed
<1>7. QED
  BY <1>1, <1>4, <1>5, <1>6, ItemNat, SameMemory

\* The reader has loaded one stream of an item, or both.
LEMMA RLoadSeen ==
  ASSUME IInv, DInv, NEW s \in Streams, RLoad(s)
  PROVE  Transform!Load \/ UNCHANGED Transform!vars
<1> DEFINE i == CurrentItem
           home == Local(Home[s], "rows")
<1>1. /\ UNCHANGED <<rleg, wvars>> /\ rpc = s /\ s \in {"even", "odd"}
      /\ mem' = [mem EXCEPT ![home] =
                   [c \in Cells |-> IF c <= Len(Loaded(ItemOf(rleg), s))
                                    THEN Loaded(ItemOf(rleg), s)[c] ELSE @[c]]]
      /\ rpc' = IF s = "even" THEN "odd" ELSE Start(rleg)
  BY DEF RLoad, Streams
<1>2. rleg = wleg /\ wleg <= Legs /\ wleg \in Int /\ Legs \in Int
  BY <1>1, LegEntered, LegsNat DEF IInv, TypeOK
<1>3. RouteOf(wleg) = 1 /\ wpc = "take"
  <2>1. RouteOf(wleg) = 1
    BY <1>1, <1>2 DEF DInv, LoadingOK
  <2>2. wpc = "take"
    BY <1>1, NoRacingWriteFromIInv DEF NoRacingWrite
  <2>3. QED
    BY <2>1, <2>2
<1>4. i \in 0 .. ItemCount - 1 /\ i = ItemOf(wleg) /\ i \in Nat /\ i' = i
  <2>1. i \in 0 .. ItemCount - 1 /\ i = ItemOf(wleg)
    BY <1>2, WriterLeg
  <2>2. QED
    BY <1>1, <2>1, SizesAssumption DEF CurrentItem
<1>5. ~Lifting /\ Completed = 0 /\ Completed' = 0
  <2>1. ~(RouteOf(wleg) > 1) /\ ~(rleg > wleg)
    BY <1>2, <1>3
  <2>2. QED
    BY <1>1, <1>3, <2>1 DEF Lifting, Completed
<1>6. SameResults
  <2>1. \A j, t : Dram(j, t) # home
    BY DramElsewhere
  <2>2. QED
    BY <1>1, <2>1 DEF SameResults
<1>7. CASE s = "even"
  <2>1. ~Lifting'
    <3>1. rpc' = "odd" /\ ~(RouteOf(wleg') > 1) /\ ~(rleg' > wleg')
      BY <1>1, <1>2, <1>3, <1>7
    <3>2. QED
      BY <3>1 DEF Lifting
  <2>2. QED
    BY <1>4, <1>5, <1>6, <2>1, SameView
<1>8. CASE s = "odd"
  <2>1. Lifting'
    <3>1. rpc' \in {"source", "base"} /\ wleg' <= Legs
      BY <1>1, <1>2, <1>8 DEF Start
    <3>2. QED
      BY <3>1 DEF Lifting
  <2>2. \A t \in Streams : /\ LastRoute(t, 0) = 0 /\ SlotOf(t, 0) = Home[t]
                           /\ SlotOf(t, 0) # "dram" /\ 0 # RouteCount
    BY NoRouteYet, RouteCountNat DEF Slots
  <2>3. \A t \in Streams : /\ StreamLoc(t, Completed)' = Local(Home[t], "rows")
                           /\ Length(CurrentItem, t, Completed)' = Len(Loaded(i, t))
    BY <1>4, <1>5, <2>2 DEF StreamLoc, Length
  <2>4. \A t \in Streams : \A c \in 1 .. Len(Loaded(i, t)) :
          mem'[Local(Home[t], "rows")][c] = Loaded(i, t)[c]
    <3>1. home \in Locations /\ home = Local("B", "rows")
      BY <1>8 DEF Locations, Home, Slots, Planes
    <3>2. mem'[home] = [c \in Cells |-> IF c <= Len(Loaded(i, s))
                                        THEN Loaded(i, s)[c] ELSE mem[home][c]]
      BY <1>1, <1>2, <1>4, <3>1 DEF IInv, TypeOK
    <3>3. \A t \in Streams : Len(Loaded(i, t)) \in Cells
      <4>1. TAKE t \in Streams
      <4>2. 0 \in 0 .. RouteCount
        BY RouteCountNat
      <4>3. Length(i, t, 0) \in Cells
        BY <1>4, <4>2, GroupsAssumption
      <4>4. QED
        BY <2>2, <4>3 DEF Length
    <3>4. \A c \in 1 .. Len(Loaded(i, s)) : mem'[home][c] = Loaded(i, s)[c]
      <4>1. TAKE c \in 1 .. Len(Loaded(i, s))
      <4>2. c \in Cells /\ c <= Len(Loaded(i, s))
        BY <3>3, SizesAssumption DEF Cells
      <4>3. QED
        BY <3>2, <4>2
    <3>5. Local(Home["even"], "rows") # home
      BY <3>1 DEF Local, Home
    <3>6. mem'[Local(Home["even"], "rows")] = mem[Local(Home["even"], "rows")]
      BY <1>1, <3>5
    <3>7. \A c \in 1 .. Len(Loaded(i, "even")) :
            mem'[Local(Home["even"], "rows")][c] = Loaded(i, "even")[c]
      BY <1>1, <1>8, <3>6 DEF DInv, LoadingOK
    <3>8. \A t \in Streams : t = "even" \/ t = "odd"
      BY DEF Streams
    <3>9. QED
      BY <1>8, <3>4, <3>7, <3>8
  <2>5. AbstractStream' = [t \in Streams |-> Loaded(i, t)]
    <3>1. AbstractStream' =
            [t \in Streams |-> [c \in 1 .. Len(Loaded(i, t)) |-> mem'[Local(Home[t], "rows")][c]]]
      BY <2>1, <2>3 DEF AbstractStream
    <3>2. \A t \in Streams :
            [c \in 1 .. Len(Loaded(i, t)) |-> mem'[Local(Home[t], "rows")][c]]
              = [c \in 1 .. Len(Loaded(i, t)) |-> Loaded(i, t)[c]]
      BY <2>4
    <3>3. \A t \in Streams :
            Loaded(i, t) = [c \in 1 .. Len(Loaded(i, t)) |-> Loaded(i, t)[c]]
      BY <1>4, InputsAssumption
    <3>4. QED
      BY <3>1, <3>2, <3>3
  <2>6. AbstractResult' = AbstractResult
    BY <1>4, <1>6, ResultsKept
  <2>7. Transform!Item = i /\ i < ItemCount
    BY <1>4, ResultItem, SizesAssumption
  <2>8. AbstractStream' = [t \in Transform!Streams |-> Loaded(Transform!Item, t)]
    BY <2>5, <2>7 DEF Transform!Streams, Streams
  <2>9. (IF Lifting THEN "lift" ELSE "load") = "load"
    BY <1>5
  <2>10. (IF Lifting THEN "lift" ELSE "load")' = "lift"
    BY <2>1
  <2>11. Transform!Load
    BY <1>5, <2>6, <2>7, <2>8, <2>9, <2>10 DEF Transform!Load
  <2>12. QED
    BY <2>11
<1>9. QED
  BY <1>1, <1>7, <1>8

\* A landing write reaches neither of the streams the leg reads.
LEMMA NocLandUnseen == ASSUME IInv, NocLand PROVE UNCHANGED Transform!vars
<1> DEFINE r == RouteOf(wleg)
           i == CurrentItem
<1>1. PICK w \in inflight :
        /\ mem' = [mem EXCEPT ![w.loc][w.cell] = w.value]
        /\ UNCHANGED <<rvars, wvars>>
  BY DEF NocLand
<1>2. w.loc \in Destinations(wleg) /\ wpc \in {"flush", "barrier", "take"} /\ wpc # "done"
  BY DEF IInv, WritesOfLeg
<1>3. wleg <= Legs
  BY <1>2, LegsNat DEF IInv, Lockstep, TypeOK
<1>4. /\ r \in 1 .. RouteCount /\ RouteFacts(r) /\ Route(wleg) = Routes[r]
      /\ i \in 0 .. ItemCount - 1 /\ i = ItemOf(wleg) /\ i \in Nat
  BY <1>3, WriterLeg, SizesAssumption DEF RouteIndex
<1>5. Completed = r - 1
  <2>1. r \in Int
    BY <1>4, RouteCountNat
  <2>2. QED
    BY <1>2, <2>1 DEF Completed
<1>6. Completed' = Completed /\ (Lifting' <=> Lifting) /\ i' = i
  BY <1>1 DEF Completed, Lifting, CurrentItem
<1>7. \/ w.loc = Dram(i, Routes[r].target)
      \/ \E p \in Planes : w.loc = Local(Routes[r].output, p) /\ Routes[r].output \in Slots
  <2>1. CASE Routes[r].output = "dram"
    BY <1>2, <1>4, <2>1 DEF Destinations
  <2>2. CASE Routes[r].output # "dram"
    <3>1. Routes[r].output \in Slots
      BY <1>4, <2>2 DEF RouteFacts, RouteType
    <3>2. QED
      BY <1>2, <1>4, <2>2, <3>1 DEF Destinations, Planes
  <2>3. QED
    BY <2>1, <2>2
<1>8. ASSUME NEW s \in Streams
      PROVE  w.loc # StreamLoc(s, r - 1)
  <2>1. r - 1 # RouteCount /\ r - 1 \in 0 .. RouteCount
    BY <1>4, RouteCountNat
  <2>2. CASE SlotOf(s, r - 1) = "dram"
    <3>1. StreamLoc(s, r - 1) = Dram(i, s)
      BY <2>2 DEF StreamLoc
    <3>2. s # Routes[r].target
      BY <1>4, <2>2 DEF RouteFacts, Slots
    <3>3. Dram(i, s) # Dram(i, Routes[r].target)
      BY <3>2 DEF Dram
    <3>4. QED
      BY <1>7, <3>1, <3>3, DramElsewhere
  <2>3. CASE SlotOf(s, r - 1) # "dram"
    <3>1. StreamLoc(s, r - 1) = Local(SlotOf(s, r - 1), "rows")
      BY <2>1, <2>3 DEF StreamLoc
    <3>2. Routes[r].output \in Slots => Routes[r].output # SlotOf(s, r - 1)
      BY <1>4 DEF RouteFacts
    <3>3. \A p : Routes[r].output \in Slots =>
                   Local(Routes[r].output, p) # Local(SlotOf(s, r - 1), "rows")
      BY <3>2 DEF Local
    <3>4. QED
      BY <1>7, <3>1, <3>3, DramElsewhere
  <2>4. QED
    BY <2>2, <2>3
<1>9. \A s \in Streams : mem'[StreamLoc(s, Completed)] = mem[StreamLoc(s, Completed)]
  BY <1>1, <1>5, <1>8
<1>10. SameResults
  <2>1. SUFFICES ASSUME NEW j \in 0 .. i - 1, NEW s \in Streams
                 PROVE  w.loc # Dram(j, s)
    BY <1>1 DEF SameResults
  <2>2. j # i /\ j \in Int /\ i \in Int
    BY <1>4
  <2>3. Dram(j, s) # Dram(i, Routes[r].target)
    BY <2>2, DramDistinct
  <2>4. QED
    BY <1>7, <2>3, DramElsewhere
<1>11. QED
  BY <1>4, <1>6, <1>9, <1>10, SameView

\* Writes to the place of this item in DRAM are not seen while its streams
\* are in slots.
LEMMA DramUnseen ==
  ASSUME IInv, UNCHANGED <<rvars, wleg>>, Completed' = Completed,
         \A l \in Locations : (\A s \in Streams : l # Dram(CurrentItem, s)) => mem'[l] = mem[l],
         \A s \in Streams : \E slot \in Slots : StreamLoc(s, Completed) = Local(slot, "rows"),
         CurrentItem \in 0 .. ItemCount - 1
  PROVE  UNCHANGED Transform!vars
<1>1. CurrentItem' = CurrentItem /\ (Lifting' <=> Lifting)
  BY DEF Lifting, CurrentItem
<1>2. \A s \in Streams : mem'[StreamLoc(s, Completed)] = mem[StreamLoc(s, Completed)]
  <2>1. TAKE s \in Streams
  <2>2. PICK slot \in Slots : StreamLoc(s, Completed) = Local(slot, "rows")
    OBVIOUS
  <2>3. Local(slot, "rows") \in Locations
    BY DEF Locations, Planes
  <2>4. QED
    BY <2>2, <2>3, DramElsewhere
<1>3. SameResults
  <2>1. SUFFICES ASSUME NEW j \in 0 .. CurrentItem - 1, NEW s \in Streams
                 PROVE  mem'[Dram(j, s)] = mem[Dram(j, s)]
    BY DEF SameResults
  <2>2. j \in 0 .. ItemCount - 1 /\ j # CurrentItem /\ j \in Int /\ CurrentItem \in Int
    BY SizesAssumption
  <2>3. Dram(j, s) \in Locations
    BY <2>2 DEF Locations
  <2>4. \A t \in Streams : Dram(j, s) # Dram(CurrentItem, t)
    BY <2>2, DramDistinct
  <2>5. QED
    BY <2>3, <2>4
<1>4. QED
  BY <1>1, <1>2, <1>3, ItemNat, SameView

LEMMA WDirectUnseen ==
  ASSUME OneOutputGroup, IInv, DInv, WDirect
  PROVE  UNCHANGED Transform!vars
<1> DEFINE r == RouteOf(wleg)
<1>1. UNCHANGED <<rvars, wleg>> /\ wpc = "take" /\ wpc' \notin {"emit", "signal"} /\ Direct(wleg)
  BY DEF WDirect
<1>2. wleg <= Legs
  <2>1. wpc # "done"
    BY <1>1
  <2>2. QED
    BY <2>1, LegsNat DEF IInv, Lockstep, TypeOK
<1>3. /\ IsInverse /\ r = RouteCount /\ RouteFacts(r)
      /\ CurrentItem \in 0 .. ItemCount - 1 /\ CurrentItem = ItemOf(wleg)
  BY <1>1, <1>2, DirectFacts, WriterLeg
<1>4. Completed = r - 1 /\ Completed' = Completed
  <2>1. r \in Int
    BY <1>3, RouteCountNat
  <2>2. QED
    BY <1>1, <2>1 DEF Completed
<1>5. \A l \in Locations :
        (\A s \in Streams : l # Dram(CurrentItem, s)) => mem'[l] = mem[l]
  BY <1>3 DEF WDirect
<1>6. ASSUME NEW s \in Streams
      PROVE  \E slot \in Slots : StreamLoc(s, Completed) = Local(slot, "rows")
  <2>1. SlotOf(s, r - 1) \in Slots
    <3>1. SlotOf(s, r) \in Slots
      BY <1>3, FinalSlot
    <3>2. QED
      BY <1>3, <3>1 DEF RouteFacts
  <2>2. r - 1 # RouteCount /\ SlotOf(s, r - 1) # "dram"
    BY <1>3, <2>1, RouteCountNat DEF Slots
  <2>3. StreamLoc(s, r - 1) = Local(SlotOf(s, r - 1), "rows")
    BY <2>2 DEF StreamLoc
  <2>4. QED
    BY <1>4, <2>1, <2>3
<1>7. QED
  BY <1>1, <1>3, <1>4, <1>5, <1>6, DramUnseen

LEMMA WEmitUnseen ==
  ASSUME IInv, DInv, WEmit
  PROVE  UNCHANGED Transform!vars
<1> DEFINE r == RouteOf(wleg)
<1>1. UNCHANGED <<rvars, wleg>> /\ wpc = "emit" /\ wpc' \in {"emit", "signal"}
  BY DEF WEmit
<1>2. wleg <= Legs
  <2>1. wpc # "done"
    BY <1>1
  <2>2. QED
    BY <2>1, LegsNat DEF IInv, Lockstep, TypeOK
<1>3. /\ IsInverse /\ ~Direct(wleg) /\ r = RouteCount
      /\ CurrentItem \in 0 .. ItemCount - 1 /\ CurrentItem = ItemOf(wleg)
  BY <1>1, <1>2, WriterLeg DEF DInv, InterleaveOK
<1>4. Completed = RouteCount /\ Completed' = Completed
  BY <1>1, <1>3, RouteCountNat DEF Completed
<1>5. \A l \in Locations :
        (\A s \in Streams : l # Dram(CurrentItem, s)) => mem'[l] = mem[l]
  BY <1>3 DEF WEmit
<1>6. ASSUME NEW s \in Streams
      PROVE  \E slot \in Slots : StreamLoc(s, Completed) = Local(slot, "rows")
  <2>1. SlotOf(s, RouteCount) \in Slots /\ SlotOf(s, RouteCount) # "dram"
    BY <1>3, FinalSlot DEF Slots
  <2>2. ~DirectInterleave
    BY <1>3 DEF Direct
  <2>3. StreamLoc(s, RouteCount) = Local(SlotOf(s, RouteCount), "rows")
    BY <2>1, <2>2 DEF StreamLoc
  <2>4. QED
    BY <1>4, <2>1, <2>3
<1>7. QED
  BY <1>1, <1>3, <1>4, <1>5, <1>6, DramUnseen

\* What a completed route has left where its target then is.
LEMMA RouteLeft ==
  ASSUME OneOutputGroup, IInv, DInv, WBarrier, wleg <= Legs,
         NEW c \in 1 .. Groups(wleg)
  PROVE  mem[Place(CurrentItem, Route(wleg).target, RouteOf(wleg))][c] = Value(c)
<1> DEFINE r == RouteOf(wleg)
           i == CurrentItem
           t == Route(wleg).target
<1>1. wpc = "barrier" /\ issued = {} /\ inflight = {}
  BY DEF WBarrier
<1>2. /\ RouteFacts(r) /\ Route(wleg) = Routes[r] /\ i = ItemOf(wleg)
      /\ t \in Streams /\ SlotOf(t, r) = Routes[r].output
  BY WriterLeg DEF RouteFacts, RouteType
<1>3. CASE Direct(wleg)
  <2>1. Groups(wleg) = 1 /\ c = 1 /\ r = RouteCount /\ DirectInterleave
    BY <1>3, DirectFacts DEF Direct
  <2>2. Place(i, t, r) = Dram(i, t)
    BY <2>1 DEF Place
  <2>3. mem[Dram(i, t)][1] = Value(1)
    BY <1>1, <1>2, <1>3 DEF DInv, InterleaveOK
  <2>4. QED
    BY <2>1, <2>2, <2>3
<1>4. CASE ~Direct(wleg)
  <2>1. Place(i, t, r) \in Destinations(wleg)
    <3>1. CASE Routes[r].output = "dram"
      BY <1>2, <3>1 DEF Place, Destinations
    <3>2. CASE Routes[r].output # "dram"
      <4>1. Place(i, t, r) = Local(Routes[r].output, "rows")
        BY <1>2, <1>4, <3>2 DEF Place, Direct
      <4>2. QED
        BY <1>2, <3>2, <4>1 DEF Destinations, Planes
    <3>3. QED
      BY <3>1, <3>2
  <2>2. Written = Groups(wleg)
    BY <1>1, AllTaken
  <2>3. QED
    BY <1>1, <1>4, <2>1, <2>2 DEF DInv, LandedOK
<1>5. QED
  BY <1>3, <1>4

\* The other stream is where it was, or has been copied to DRAM.
LEMMA OtherLeft ==
  ASSUME OneOutputGroup, IInv, DInv, WBarrier, wleg <= Legs,
         NEW s \in Streams, s # Route(wleg).target,
         NEW c \in 1 .. Length(CurrentItem, s, RouteOf(wleg))
  PROVE  mem[Place(CurrentItem, s, RouteOf(wleg))][c]
           = mem[Place(CurrentItem, s, RouteOf(wleg) - 1)][c]
<1> DEFINE r == RouteOf(wleg)
           i == CurrentItem
<1>1. wpc = "barrier"
  BY DEF WBarrier
<1>2. /\ r \in 1 .. RouteCount /\ RouteCount \in Nat /\ Route(wleg) = Routes[r]
      /\ SlotOf(s, r) = SlotOf(s, r - 1) /\ i \in 0 .. ItemCount - 1
  BY WriterLeg, RouteCountNat DEF RouteFacts, RouteIndex
<1>3. CASE Direct(wleg)
  <2>1. IsInverse /\ r = RouteCount /\ DirectInterleave /\ OutputGroups(i) = 1
    BY <1>3, DirectFacts DEF Direct
  <2>2. SlotOf(s, r) \in Slots /\ SlotOf(s, r) # "dram"
    BY <2>1, FinalSlot DEF Slots
  <2>3. Place(i, s, r) = Dram(i, s) /\ Place(i, s, r - 1) = Local(SlotOf(s, r), "rows")
    <3>1. r - 1 # RouteCount
      BY <1>2
    <3>2. QED
      BY <1>2, <2>1, <2>2, <3>1 DEF Place
  <2>4. c = 1
    <3>1. Length(i, "even", RouteCount) \in Cells /\ Length(i, "odd", RouteCount) \in Cells
      <4>1. RouteCount \in 0 .. RouteCount
        BY <1>2
      <4>2. QED
        BY <1>2, <4>1, GroupsAssumption DEF Streams
    <3>2. {FinalLength(i, t) : t \in Streams}
            = {Length(i, "even", RouteCount), Length(i, "odd", RouteCount)}
      BY DEF Streams, FinalLength
    <3>3. Length(i, "even", RouteCount) \in Int /\ Length(i, "odd", RouteCount) \in Int
      BY <3>1, SizesAssumption DEF Cells
    <3>4. 1 >= Length(i, "even", RouteCount) /\ 1 >= Length(i, "odd", RouteCount)
      BY <2>1, <3>2, <3>3, MaxOfTwo DEF OutputGroups
    <3>5. s = "even" \/ s = "odd"
      BY DEF Streams
    <3>6. QED
      BY <2>1, <3>3, <3>4, <3>5
  <2>5. mem[Dram(i, s)][1] = Final(s)[1]
    BY <1>1, <1>3 DEF DInv, InterleaveOK
  <2>6. QED
    BY <2>1, <2>3, <2>4, <2>5 DEF Final
<1>4. CASE ~Direct(wleg)
  <2>1. ~(DirectInterleave /\ r = RouteCount) /\ r - 1 # RouteCount
    BY <1>2, <1>4 DEF Direct
  <2>2. QED
    BY <1>2, <2>1 DEF Place
<1>5. QED
  BY <1>3, <1>4

\* The barrier at the end of a route completes it.
LEMMA WBarrierSeen ==
  ASSUME OneOutputGroup, IInv, DInv, WBarrier
  PROVE  Transform!RunRoute
<1> DEFINE r == RouteOf(wleg)
           i == CurrentItem
           t == Route(wleg).target
<1>1. /\ UNCHANGED <<rvars, wleg, mem>> /\ wpc = "barrier" /\ wpc' \in {"emit", "signal"}
  BY DEF WBarrier
<1>2. wleg <= Legs /\ wleg \in Int
  <2>1. wpc # "done"
    BY <1>1
  <2>2. QED
    BY <2>1, LegsNat DEF IInv, Lockstep, TypeOK
<1>3. /\ r \in 1 .. RouteCount /\ RouteCount \in Nat /\ RouteFacts(r)
      /\ Route(wleg) = Routes[r] /\ i = ItemOf(wleg) /\ i \in Nat /\ i' = i
      /\ t \in Streams /\ t = Routes[r].target
  <2>1. i' = i
    BY <1>1 DEF CurrentItem
  <2>2. QED
    BY <1>2, <2>1, WriterLeg, ItemNat, RouteCountNat DEF RouteFacts, RouteType, RouteIndex
<1>4. Lifting /\ Lifting'
  <2>1. rleg > wleg
    BY <1>1, <1>2, AllTaken
  <2>2. QED
    BY <1>1, <1>2, <2>1 DEF Lifting
<1>5. Completed = r - 1 /\ Completed' = r
  BY <1>1, <1>3 DEF Completed
<1>6. AbstractResult' = AbstractResult
  BY <1>1, <1>3, ResultsKept DEF SameResults
<1>7. \A s \in Streams : /\ StreamLoc(s, Completed) = Place(i, s, r - 1)
                         /\ StreamLoc(s, Completed)' = Place(i, s, r)
  BY <1>3, <1>5 DEF StreamLoc, Place
<1>8. AbstractStream =
        [s \in Streams |-> [c \in 1 .. Length(i, s, r - 1) |-> mem[Place(i, s, r - 1)][c]]]
  BY <1>4, <1>5, <1>7 DEF AbstractStream
<1>9. AbstractStream' =
        [s \in Streams |-> [c \in 1 .. Length(i, s, r) |-> mem[Place(i, s, r)][c]]]
  BY <1>1, <1>3, <1>4, <1>5, <1>7 DEF AbstractStream
<1>10. Length(i, t, r) = Groups(wleg)
  BY <1>3 DEF RouteFacts, Groups
<1>11. AbstractStream'[t] = Transform!Applied(r)
  <2>1. Transform!Applied(r) = [g \in 1 .. Groups(wleg) |-> Value(g)]
    BY <1>2, <1>4, <1>5, AppliedValue, ResultItem
  <2>2. \A c \in 1 .. Groups(wleg) : mem[Place(i, t, r)][c] = Value(c)
    BY <1>2, RouteLeft
  <2>3. AbstractStream'[t] = [c \in 1 .. Groups(wleg) |-> mem[Place(i, t, r)][c]]
    BY <1>3, <1>9, <1>10
  <2>4. QED
    BY <2>1, <2>2, <2>3
<1>12. \A s \in Streams : s # t => AbstractStream'[s] = AbstractStream[s]
  <2>1. TAKE s \in Streams
  <2>2. HAVE s # t
  <2>3. Length(i, s, r) = Length(i, s, r - 1)
    BY <1>3, <2>2 DEF RouteFacts
  <2>4. \A c \in 1 .. Length(i, s, r) : mem[Place(i, s, r)][c] = mem[Place(i, s, r - 1)][c]
    BY <1>2, <2>2, OtherLeft
  <2>5. QED
    BY <1>8, <1>9, <2>3, <2>4
<1>13. AbstractStream' = [AbstractStream EXCEPT ![t] = Transform!Applied(r)]
  <2>1. AbstractStream = [s \in Streams |-> AbstractStream[s]]
    BY <1>8
  <2>2. AbstractStream' = [s \in Streams |-> AbstractStream'[s]]
    BY <1>9
  <2>3. QED
    BY <1>3, <1>11, <1>12, <2>1, <2>2
<1>14. QED
  <2>1. Completed + 1 = r /\ Completed < Transform!RouteCount /\ Completed' = Completed + 1
    BY <1>3, <1>5 DEF Transform!RouteCount, RouteCount
  <2>2. (IF Lifting THEN "lift" ELSE "load") = "lift"
        /\ (IF Lifting THEN "lift" ELSE "load")' = "lift"
    BY <1>4
  <2>3. AbstractStream' = [AbstractStream EXCEPT ![Routes[Completed + 1].target]
                                                   = Transform!Applied(Completed + 1)]
    BY <1>3, <1>13, <2>1
  <2>4. QED
    BY <1>6, <2>1, <2>2, <2>3 DEF Transform!RunRoute

LEMMA LastRouteOfAll == RouteOf(Legs) = RouteCount
<1> DEFINE n == RouteCount
           q == ItemCount - 1
           m == n - 1
<1>1. n \in Nat \ {0} /\ ItemCount \in Nat \ {0} /\ q \in Int /\ m \in 0 .. n - 1
  BY RouteCountNat, SizesAssumption
<1>2. Legs - 1 = n * q + m
  <2>1. \A a, b \in Nat \ {0} : a * b - 1 = b * (a - 1) + (b - 1)
    BY SMT
  <2>2. QED
    BY <1>1, <2>1 DEF Legs
<1>3. (n * q + m) % n = m
  <2> DEFINE a == n * q + m
  <2>1. a \in Int
    BY <1>1, SMT
  <2>2. a = n * q + m
    OBVIOUS
  <2> HIDE DEF n, q, m, a
  <2>3. a % n = m
    BY ONLY <1>1, <2>1, <2>2, Quotient
  <2>4. QED
    BY <2>2, <2>3
<1>4. QED
  BY <1>1, <1>2, <1>3 DEF RouteOf

\* After the last route, what the places in DRAM hold.
LEMMA HandedOver ==
  ASSUME IInv, DInv, wpc = "signal", wleg <= Legs, RouteOf(wleg) = RouteCount,
         NEW s \in Streams, NEW c \in 1 .. Length(CurrentItem, s, RouteCount)
  PROVE  mem[StreamLoc(s, RouteCount)][c] = mem[Dram(CurrentItem, s)][c]
<1>1. CASE SlotOf(s, RouteCount) = "dram" \/ DirectInterleave
  BY <1>1 DEF StreamLoc
<1>2. CASE SlotOf(s, RouteCount) # "dram" /\ ~DirectInterleave
  <2>1. IsInverse /\ ~Direct(wleg)
    BY <1>2, OutputsAssumption, SizesAssumption DEF Direct
  <2>2. mem[Dram(CurrentItem, s)][c] = Final(s)[c]
    BY <2>1 DEF DInv, InterleaveOK, FinalLength
  <2>3. StreamLoc(s, RouteCount) = Local(SlotOf(s, RouteCount), "rows")
    BY <1>2 DEF StreamLoc
  <2>4. QED
    BY <2>2, <2>3 DEF Final
<1>3. QED
  BY <1>1, <1>2

\* Going on to the next leg hands the item over when the leg was its last.
LEMMA WSignalSeen ==
  ASSUME IInv, DInv, WSignal
  PROVE  Transform!HandOver \/ UNCHANGED Transform!vars
<1> DEFINE r == RouteOf(wleg)
           i == CurrentItem
<1>1. /\ UNCHANGED <<rvars, mem>> /\ wpc = "signal" /\ wleg' = wleg + 1
      /\ IF wleg < Legs THEN wpc' = "take" ELSE wpc' = "done"
  BY DEF WSignal
<1>2. wleg \in 1 .. Legs /\ Legs \in Nat
  <2>1. wpc # "done"
    BY <1>1
  <2>2. QED
    BY <2>1, LegsNat DEF IInv, Lockstep, TypeOK
<1>3. /\ r \in 1 .. RouteCount /\ RouteCount \in Nat
      /\ i \in 0 .. ItemCount - 1 /\ i = ItemOf(wleg) /\ i \in Nat
  BY <1>2, WriterLeg, RouteCountNat, ItemNat DEF RouteIndex
<1>4. rleg = wleg + 1 /\ rpc \in {"sync", "done"}
  BY <1>1, <1>2, AllTaken
<1>5. Lifting /\ Completed = r
  BY <1>1, <1>2, <1>3, <1>4 DEF Lifting, Completed
<1>6. wpc' \notin {"emit", "signal"}
  BY <1>1
<1>7. CASE r < RouteCount
  <2>1. RouteOf(wleg') = r + 1 /\ i' = i
    BY <1>1, <1>2, <1>3, <1>7, Successor DEF CurrentItem
  <2>2. wleg # Legs
    BY <1>3, <1>7, LastRouteOfAll
  <2>3. Completed' = Completed /\ Lifting'
    <3>1. wleg' <= Legs /\ RouteOf(wleg') > 1
      BY <1>1, <1>2, <1>3, <2>1, <2>2
    <3>2. Completed' = r
      BY <1>3, <1>6, <2>1 DEF Completed
    <3>3. QED
      BY <1>5, <3>1, <3>2 DEF Lifting
  <2>4. SameResults
    BY <1>1 DEF SameResults
  <2>5. QED
    BY <1>1, <1>3, <1>5, <2>1, <2>3, <2>4, SameView
<1>8. CASE r = RouteCount
  <2>1. RouteOf(wleg') = 1 /\ i' = i + 1
    BY <1>1, <1>2, <1>3, <1>8, Successor DEF CurrentItem
  <2>2. Completed' = 0
    BY <1>6, <2>1 DEF Completed
  <2>3. ~Lifting'
    <3>1. ~(RouteOf(wleg') > 1) /\ ~(rleg' > wleg')
      BY <1>1, <1>2, <1>4, <2>1
    <3>2. rpc' = "done" => ~(wleg' <= Legs)
      <4>1. rpc = "done" => rleg > Legs
        BY DEF IInv, Lockstep
      <4>2. QED
        BY <1>1, <1>2, <1>4, <4>1
    <3>3. rpc' \in {"sync", "done"}
      BY <1>1, <1>4
    <3>4. QED
      BY <3>1, <3>2, <3>3 DEF Lifting
  <2>4. AbstractStream' = Transform!NoStreams
    BY <2>3 DEF AbstractStream, Transform!NoStreams, Transform!Streams, Streams
  <2> DEFINE Outputs(k) == [s \in Streams |->
                              [c \in 1 .. FinalLength(k, s) |-> mem[Dram(k, s)][c]]]
  <2>5. AbstractStream = Outputs(i)
    <3>1. AbstractStream = [s \in Streams |->
            [c \in 1 .. Length(i, s, RouteCount) |-> mem[StreamLoc(s, RouteCount)][c]]]
      BY <1>5, <1>8 DEF AbstractStream
    <3>2. \A s \in Streams : \A c \in 1 .. Length(i, s, RouteCount) :
            mem[StreamLoc(s, RouteCount)][c] = mem[Dram(i, s)][c]
      BY <1>1, <1>2, <1>8, HandedOver
    <3>3. \A s \in Streams :
            [c \in 1 .. Length(i, s, RouteCount) |-> mem[StreamLoc(s, RouteCount)][c]]
              = [c \in 1 .. Length(i, s, RouteCount) |-> mem[Dram(i, s)][c]]
      BY <3>2
    <3>4. QED
      BY <3>1, <3>3 DEF FinalLength
  <2>6. AbstractResult = [j \in 1 .. i |-> Outputs(j - 1)]
    BY DEF AbstractResult
  <2>7. AbstractResult' = [j \in 1 .. i + 1 |-> Outputs(j - 1)]
    BY <1>1, <2>1 DEF AbstractResult
  <2>8. AbstractResult' = Append(AbstractResult, AbstractStream)
    <3> HIDE DEF Outputs, i
    <3> DEFINE p == AbstractResult
               q == AbstractResult'
    <3>1. p = [j \in 1 .. i |-> p[j]] /\ q = [j \in 1 .. i + 1 |-> q[j]]
      BY <2>6, <2>7
    <3>2. \A j \in 1 .. i : p[j] = q[j]
      <4>1. \A j \in 1 .. i : j \in 1 .. i + 1
        BY <1>3
      <4>2. QED
        BY <2>6, <2>7, <4>1
    <3>3. q[i + 1] = AbstractStream
      <4>1. \A j \in 1 .. i + 1 : \A k : k = j - 1 => q[j] = Outputs(k)
        BY <2>7
      <4>2. \A j : j = i + 1 => q[j] = Outputs(i)
        <5>1. TAKE j
        <5>2. HAVE j = i + 1
        <5>3. j \in 1 .. i + 1 /\ i = j - 1
          BY <1>3, <5>2
        <5>4. QED
          BY <4>1, <5>3
      <4>3. QED
        BY <2>5, <4>2
    <3> HIDE DEF p, q
    <3>4. i \in Nat /\ i + 1 \in Nat
      BY <1>3
    <3>5. IsSeq(p) /\ Len(p) = i
      BY ONLY <3>1, <3>4, FunctionIsSeq
    <3>6. \A m \in Nat : m = i + 1 => Append(p, q[m]) = q
      <4>1. TAKE m \in Nat
      <4>2. HAVE m = i + 1
      <4>3. q = [j \in 1 .. m |-> q[j]]
        BY <3>1, <4>2
      <4>4. IsSeq(q) /\ Len(q) = m
        BY ONLY <4>1, <4>3, FunctionIsSeq
      <4>5. QED
        BY ONLY <3>2, <3>4, <3>5, <4>1, <4>2, <4>4, AppendSame
    <3>7. QED
      BY <3>3, <3>4, <3>6 DEF p, q
  <2>9. (IF Lifting THEN "lift" ELSE "load") = "lift"
        /\ (IF Lifting THEN "lift" ELSE "load")' = "load"
    BY <1>5, <2>3
  <2>10. Completed = Transform!RouteCount
    BY <1>5, <1>8 DEF Transform!RouteCount, RouteCount
  <2>11. Transform!HandOver
    BY <2>2, <2>4, <2>8, <2>9, <2>10 DEF Transform!HandOver
  <2>12. QED
    BY <2>11
<1>9. QED
  BY <1>3, <1>7, <1>8

LEMMA StepOfTransform ==
  ASSUME OneOutputGroup, IInv, DInv, [Next]_vars
  PROVE  [Transform!Next]_(Transform!vars)
<1>1. CASE \E s \in Streams : RLoad(s)
  BY <1>1, RLoadSeen DEF Transform!Next
<1>2. CASE WBarrier
  BY <1>2, WBarrierSeen DEF Transform!Next
<1>3. CASE WSignal
  BY <1>3, WSignalSeen DEF Transform!Next
<1>4. CASE RSync
  BY <1>4, RSyncUnseen
<1>5. CASE RSource \/ RBase \/ RPush
  BY <1>5, RWorkUnseen
<1>6. CASE CTake0 \/ CTake1 \/ CTakeBase
  <2>1. UNCHANGED <<rvars, wvars, mem>>
    BY <1>6 DEF CTake0, CTake1, CTakeBase
  <2>2. QED
    BY <2>1, UpstreamUnseen
<1>7. CASE CPack \/ CScale
  <2>1. UNCHANGED <<rvars, wvars, mem>>
    BY <1>7 DEF CPack, CScale
  <2>2. QED
    BY <2>1, UpstreamUnseen
<1>8. CASE (\E p \in {"source", "base"} : NocRead(p)) \/ NocDepart \/ UNCHANGED vars
  <2>1. UNCHANGED <<rvars, wvars, mem>>
    BY <1>8 DEF NocRead, NocDepart, vars
  <2>2. QED
    BY <2>1, UpstreamUnseen
<1>9. CASE WIssue \/ WPop
  <2>1. /\ UNCHANGED <<rvars, wleg, mem>>
        /\ wpc \notin {"emit", "signal"} /\ wpc' \notin {"emit", "signal"}
    BY <1>9 DEF WIssue, WPop
  <2>2. QED
    BY <2>1, GroupsUnseen
<1>10. CASE WDirect
  BY <1>10, WDirectUnseen
<1>11. CASE WEmit
  BY <1>11, WEmitUnseen
<1>12. CASE NocLand
  BY <1>12, NocLandUnseen
<1>13. QED
  BY <1>1, <1>2, <1>3, <1>4, <1>5, <1>6, <1>7, <1>8, <1>9, <1>10, <1>11, <1>12
     DEF Next, Reader, Compute, Writer, Noc, Terminated

(***************************************************************************)
(* However the kernels of lwt_reader.cpp, lwt_compute.cpp and              *)
(* lwt_writer.cpp and the NoC take turns, whatever the sizes, the          *)
(* buffering and the arithmetic of a route: every step loads the streams   *)
(* of an item, runs its next route on the whole streams, hands the result  *)
(* over, or changes nothing of these - provided the direct interleave is   *)
(* only used for chunks of one output group.                               *)
(***************************************************************************)
THEOREM StepsOfTransform ==
  OneOutputGroup => (Spec => Transform!Init /\ [][Transform!Next]_(Transform!vars))
<1> SUFFICES ASSUME OneOutputGroup
             PROVE  Spec => Transform!Init /\ [][Transform!Next]_(Transform!vars)
  OBVIOUS
<1>1. Init => MInv /\ DInv /\ Transform!Init
  BY InitMInv, InitDInv, InitTransform
<1>2. IInv /\ MInv /\ [Next]_vars => MInv'
  BY NextMInv
<1>3. IInv /\ MInv /\ DInv /\ [Next]_vars => DInv' /\ [Transform!Next]_(Transform!vars)
  BY NextDInv, StepOfTransform
<1>4. QED
  BY <1>1, <1>2, <1>3, Invariance, PTL DEF Spec
=============================================================================
